------------------------------- MODULE Settle -------------------------------
(***************************************************************************)
(* The two waits of internal/runner/settle.go on a screen that moves as it *)
(* pleases: Settle, after an action, for the screen to change and come to  *)
(* rest, and AwaitLaunched, for an app to take input.  Time is counted in  *)
(* sampling intervals; a read and the app's own idle wait take as long as  *)
(* they take, and the caller may go away.                                  *)
(***************************************************************************)
EXTENDS Integers, Sequences

CONSTANTS Shown,    \* what a screen shows: its ScreenHash
          Offers,   \* of those, the ones with a control that is enabled
          Focus,    \* what has the focus
          Quiet,    \* settleQuiet
          Cap,      \* settleCap, and launchAppear
          Window,   \* launchWindow
          Late      \* bound: how far past the deadline a read may end

ASSUME QuietAssumption == Quiet \in Nat \ {0}

VARIABLES
  front,    \* [shows, focus]: what the device shows
  now,
  ctx,      \* the caller is still there
  wait,     \* "settle", "settleIdle" with an Idle to ask, or "launch"
  after,    \* the InteractionHash given, or NoTree
  at,       \* where the loop is
  wake,     \* when its sleep ends
  lastRead, \* the last tree read, or Failed
  quiet,    \* the run of identical screens
  idled,    \* the app said it finished while the screen was this one
  reads     \* history: [tree, asked] of each read

settleVars == <<front, now, ctx, wait, after, at, wake, lastRead, quiet, idled, reads>>

Screens == [shows : Shown, focus : Focus]
NoTree == [shows |-> "none", focus |-> "none"]
Failed == [shows |-> "error", focus |-> "none"]

(* ScreenHash leaves the focus and the status bar out; InteractionHash     *)
(* puts the focus back.                                                    *)
ScreenHash(s) == s.shows
InteractionHash(s) == s

SettleInit ==
  /\ front \in Screens /\ now = 0 /\ ctx = TRUE
  /\ \/ wait \in {"settle", "settleIdle"} /\ after \in Screens \cup {NoTree}
     \/ wait = "launch" /\ after = NoTree
  /\ at = "read" /\ wake = 0 /\ lastRead = NoTree /\ quiet = 0 /\ idled = FALSE /\ reads = <<>>

-----------------------------------------------------------------------------
(* Mutant: the sleep is taken whatever is left.                            *)
SleepPast(otherwise) == at' = "asleep" /\ wake' = now + 1

(* sleepUntil: no sleep that would end past the deadline.                  *)
Sleep(otherwise) ==
  IF now + 1 > Cap THEN at' = otherwise /\ UNCHANGED wake
  ELSE at' = "asleep" /\ wake' = now + 1

(* One turn of Settle's loop: countQuiet, and the rest once the screen has *)
(* changed and is quiet.  Mutant: an app asked to finish on one screen is *)
(* taken to have finished on the next.                                     *)
IdledStill(q) == idled
Idled(q) == idled /\ q > 1

SettleReads ==
  /\ at = "read" /\ wait # "launch"
  /\ lastRead' = front
  /\ LET q == IF lastRead # NoTree /\ ScreenHash(front) = ScreenHash(lastRead) THEN quiet + 1 ELSE 1
         changed == after = NoTree \/ InteractionHash(front) # after
     IN /\ quiet' = q
        /\ IF changed /\ q >= Quiet /\ (Idled(q) \/ wait = "settle")
             THEN at' = "settled" /\ idled' = Idled(q) /\ UNCHANGED wake
           ELSE IF changed /\ q >= Quiet
             THEN at' = "idling" /\ idled' = Idled(q) /\ UNCHANGED wake
           ELSE Sleep("capped") /\ idled' = Idled(q)
  /\ reads' = Append(reads, [tree |-> front, asked |-> FALSE])
  /\ UNCHANGED <<front, now, ctx, wait, after>>

SettleReadFails ==
  /\ at = "read" /\ wait # "launch"
  /\ at' = "failed"
  /\ UNCHANGED <<front, now, ctx, wait, after, wake, lastRead, quiet, idled, reads>>

(* The app finished, or the question failed: read again at once.           *)
Idle ==
  /\ at = "idling" /\ at' = "read" /\ idled' = TRUE
  /\ reads' = [reads EXCEPT ![Len(reads)].asked = TRUE]
  /\ UNCHANGED <<front, now, ctx, wait, after, wake, lastRead, quiet>>

(* awaitAppeared, and the window every app swallows taps in.               *)
LaunchReads ==
  /\ at = "read" /\ wait = "launch"
  /\ lastRead' \in {front, Failed}
  /\ IF lastRead' # Failed /\ front.shows \in Offers
     THEN at' = "window" /\ wake' = now + Window
     ELSE Sleep("notAppeared")
  /\ reads' = Append(reads, [tree |-> lastRead', asked |-> FALSE])
  /\ UNCHANGED <<front, now, ctx, wait, after, quiet, idled>>

WindowPasses ==
  /\ at = "window" /\ now >= wake
  /\ at' = "launched"
  /\ UNCHANGED <<front, now, ctx, wait, after, wake, lastRead, quiet, idled, reads>>

Wakes ==
  /\ at = "asleep" /\ now >= wake /\ at' = "read"
  /\ UNCHANGED <<front, now, ctx, wait, after, wake, lastRead, quiet, idled, reads>>

(* A sleep ends when the caller goes away; a settle answers what it read.  *)
Cancelled ==
  /\ ~ctx /\ at \in {"asleep", "window"}
  /\ at' = IF wait = "launch" THEN "gone" ELSE "capped"
  /\ UNCHANGED <<front, now, ctx, wait, after, wake, lastRead, quiet, idled, reads>>

CallerGone ==
  /\ ctx /\ ctx' = FALSE
  /\ UNCHANGED <<front, now, wait, after, at, wake, lastRead, quiet, idled, reads>>

(* External: the screen moves, and time passes.                            *)
Waiting == at \in {"read", "idling", "asleep", "window"}
Moves ==
  /\ Waiting /\ front' \in Screens \ {front}
  /\ UNCHANGED <<now, ctx, wait, after, at, wake, lastRead, quiet, idled, reads>>
Tick ==
  /\ Waiting /\ now < (IF at = "window" THEN wake ELSE Cap + Late) /\ now' = now + 1
  /\ UNCHANGED <<front, ctx, wait, after, at, wake, lastRead, quiet, idled, reads>>

Loop == SettleReads \/ SettleReadFails \/ Idle \/ LaunchReads \/ WindowPasses \/ Wakes
SettleNext == Loop \/ Cancelled \/ CallerGone \/ Moves \/ Tick

(* The driver answers every read in the end, and time passes.              *)
SettleFairness == WF_settleVars(Loop) /\ WF_settleVars(Tick)
SettleSpec == SettleInit /\ [][SettleNext]_settleVars /\ SettleFairness

-----------------------------------------------------------------------------
(* A settle answered before its cap is one whose last Quiet reads show the *)
(* same screen, the last of them not the one it started from, and read     *)
(* after the app finished on that very screen, when it can be asked: what  *)
(* the caller acts on next is not a transition.                            *)
SettledIsQuiet ==
  at = "settled" =>
    LET run == Len(reads) - Quiet + 1 .. Len(reads) IN
    /\ run \subseteq DOMAIN reads
    /\ \A i, j \in run : reads[i].tree.shows = reads[j].tree.shows
    /\ after # NoTree => reads[Len(reads)].tree # after
    /\ wait = "settleIdle" =>
         \E i \in 1..Len(reads) - 1 :
           /\ reads[i].asked
           /\ \A j \in i..Len(reads) : reads[j].tree.shows = reads[Len(reads)].tree.shows

(* Both waits end, whatever the screen does: one that never rests, shows   *)
(* no control or changes each time the app is asked cannot hold them.      *)
WaitEnds == <>~Waiting
=============================================================================
