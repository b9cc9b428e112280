------------------------------ MODULE Sidecars ------------------------------
(***************************************************************************)
(* The input sidecars of internal/input/sidecar.go for one simulator: a    *)
(* process started by the first frame, cached, and replaced once by a      *)
(* sender whose write failed.  A frame goes into the pipe of the process   *)
(* (devicedeck-hid), which reads and injects at its own pace.              *)
(*                                                                         *)
(* Manager.mu covers a lookup and a start, so each is one step; CloseAll   *)
(* alone holds it for longer (closeAll).  Drop gives it back before it     *)
(* closes what it took out, and the senders go on meanwhile.               *)
(***************************************************************************)
EXTENDS Naturals, Sequences

CONSTANTS Sender,      \* handlers that may be sending at once
          MaxSidecar   \* bound: sidecars ever started

ASSUME MaxSidecarAssumption == MaxSidecar \in Nat

VARIABLES
  closeAll, \* CloseAll, as the server exits: "pending", "closing" or "over"
  cached,   \* Manager.sessions of the simulator, or NoSidecar
  last,     \* sidecars started
  life,     \* life[s]: the process of s and its stdin
  pipe,     \* pipe[s]: the frames written to s and not read yet
  injected, \* the frames the simulator got
  pc,       \* pc[c]: where SendFrame of sender c is
  frame,    \* frame[c]: the number of the frame c is sending, or sent last
  using,    \* using[c]: the sidecar it writes to, or has taken out to close
  refused,  \* refused[c]: the sidecar its first write failed on
  ending    \* the sidecars End session took out and has to close

manager == <<closeAll, cached, last, ending>>
process == <<life, pipe, injected>>
senders == <<pc, frame, using, refused>>
svars == <<closeAll, cached, last, life, pipe, injected, pc, frame, using, refused, ending>>

NoSidecar == 0
Sidecar == 1..MaxSidecar

(* A process runs with its stdin "open" or "closed", or it is "gone", with *)
(* what was in its pipe.                                                   *)
Life == {"unborn", "open", "closed", "gone"}

(* SendFrame: Session, Send; after a failure Drop, and the two once more.  *)
Control == {"idle", "get", "write", "drop", "close", "reap",
            "getAgain", "writeAgain", "sent", "failed"}

SidecarsInit ==
  /\ closeAll = "pending" /\ cached = NoSidecar /\ last = 0 /\ ending = {}
  /\ life = [s \in Sidecar |-> "unborn"]
  /\ pipe = [s \in Sidecar |-> <<>>]
  /\ injected = {}
  /\ pc = [c \in Sender |-> "idle"]
  /\ frame = [c \in Sender |-> 0]
  /\ using = [c \in Sender |-> NoSidecar]
  /\ refused = [c \in Sender |-> NoSidecar]

(* Manager.mu is free.                                                     *)
Free == closeAll # "closing"

Goto(c, step) == pc' = [pc EXCEPT ![c] = step]
Use(c, s) == using' = [using EXCEPT ![c] = s]
Refused(c, s) == refused' = [refused EXCEPT ![c] = s]

(* A handler calls SendFrame for its next frame.                           *)
SendNext(c) ==
  /\ pc[c] \in {"idle", "sent"}
  /\ Goto(c, "get")
  /\ frame' = [frame EXCEPT ![c] = @ + 1]
  /\ UNCHANGED <<manager, process, using, refused>>

-----------------------------------------------------------------------------
(* Manager.Session.                                                        *)
Then(step) == IF step = "get" THEN "write" ELSE "writeAgain"

GetCached(c) ==
  /\ pc[c] \in {"get", "getAgain"} /\ Free
  /\ cached # NoSidecar
  /\ Use(c, cached) /\ Goto(c, Then(pc[c]))
  /\ UNCHANGED <<manager, process, frame, refused>>

GetNew(c) ==
  /\ pc[c] \in {"get", "getAgain"} /\ Free
  /\ cached = NoSidecar /\ last < MaxSidecar
  /\ last' = last + 1 /\ cached' = last + 1
  /\ life' = [life EXCEPT ![last + 1] = "open"]
  /\ Use(c, last + 1) /\ Goto(c, Then(pc[c]))
  /\ UNCHANGED <<closeAll, ending, pipe, injected, frame, refused>>

GetFails(c) ==
  /\ pc[c] \in {"get", "getAgain"} /\ Free
  /\ cached = NoSidecar
  /\ Goto(c, "failed") /\ Refused(c, NoSidecar)
  /\ UNCHANGED <<manager, process, frame, using>>

(* Session.Send.  A write fails when the process is gone or its stdin was  *)
(* closed here; no part of a frame is left in the pipe then.               *)
Returned(c, step) == Goto(c, step) /\ Use(c, NoSidecar) /\ Refused(c, NoSidecar)

Write(c) ==
  /\ pc[c] \in {"write", "writeAgain"}
  /\ life[using[c]] = "open"
  /\ pipe' = [pipe EXCEPT ![using[c]] = Append(@, <<c, frame[c]>>)]
  /\ Returned(c, "sent")
  /\ UNCHANGED <<manager, life, injected, frame>>

(* Mutant: a write that gave up waiting, whose frame got through.          *)
WriteFailsLate(c) ==
  /\ pc[c] = "write" /\ life[using[c]] = "open"
  /\ pipe' = [pipe EXCEPT ![using[c]] = Append(@, <<c, frame[c]>>)]
  /\ Goto(c, "drop") /\ Use(c, NoSidecar) /\ Refused(c, using[c])
  /\ UNCHANGED <<manager, life, injected, frame>>

WriteFails(c) ==
  /\ pc[c] = "write" /\ life[using[c]] # "open"
  /\ Goto(c, "drop") /\ Use(c, NoSidecar) /\ Refused(c, using[c])
  /\ UNCHANGED <<manager, process, frame>>

WriteAgainFails(c) ==
  /\ pc[c] = "writeAgain" /\ life[using[c]] # "open"
  /\ Returned(c, "failed")
  /\ UNCHANGED <<manager, process, frame>>

-----------------------------------------------------------------------------
(* Drop takes out whatever is cached, then closes it.  Mutant: it closes   *)
(* the sidecar the sender held.                                            *)
DropClosesOwn(c) ==
  /\ pc[c] = "drop" /\ Free
  /\ cached' = NoSidecar
  /\ Use(c, refused[c]) /\ Goto(c, "close")
  /\ UNCHANGED <<closeAll, last, ending, process, frame, refused>>

Drop(c) ==
  /\ pc[c] = "drop" /\ Free
  /\ cached' = NoSidecar
  /\ Use(c, cached) /\ Goto(c, IF cached = NoSidecar THEN "getAgain" ELSE "close")
  /\ UNCHANGED <<closeAll, last, ending, process, frame, refused>>

(* Session.Close: stdin is closed, the process waited for.                 *)
Closed(s) == [life EXCEPT ![s] = IF @ = "open" THEN "closed" ELSE @]

Close(c) ==
  /\ pc[c] = "close"
  /\ life' = Closed(using[c])
  /\ Goto(c, "reap")
  /\ UNCHANGED <<manager, pipe, injected, frame, using, refused>>

Reaped(c) ==
  /\ pc[c] = "reap" /\ life[using[c]] = "gone"
  /\ Use(c, NoSidecar) /\ Goto(c, "getAgain")
  /\ UNCHANGED <<manager, process, frame, refused>>

-----------------------------------------------------------------------------
(* The process: it injects frame by frame and exits at the end of its      *)
(* input.  It dies when the simulator shuts down, and is killed when it    *)
(* did not exit three seconds after its stdin was closed: what is in its   *)
(* pipe is lost.                                                           *)
Running(s) == life[s] \in {"open", "closed"}

Inject(s) ==
  /\ Running(s) /\ pipe[s] # <<>>
  /\ injected' = injected \cup {Head(pipe[s])}
  /\ pipe' = [pipe EXCEPT ![s] = Tail(@)]
  /\ UNCHANGED <<manager, life, senders>>

ProcessEnds(s) ==
  /\ life[s] = "closed" /\ pipe[s] = <<>>
  /\ life' = [life EXCEPT ![s] = "gone"]
  /\ UNCHANGED <<manager, pipe, injected, senders>>

ProcessDies(s) ==
  /\ Running(s)
  /\ life' = [life EXCEPT ![s] = "gone"]
  /\ pipe' = [pipe EXCEPT ![s] = <<>>]
  /\ UNCHANGED <<manager, injected, senders>>

(* Manager.Drop, as the device's session ends.                             *)
EndTake ==
  /\ Free /\ cached # NoSidecar
  /\ ending' = ending \cup {cached}
  /\ cached' = NoSidecar
  /\ UNCHANGED <<closeAll, last, process, senders>>

EndClose(s) ==
  /\ s \in ending
  /\ ending' = ending \ {s}
  /\ life' = Closed(s)
  /\ UNCHANGED <<closeAll, cached, last, pipe, injected, senders>>

(* CloseAll, as the server exits: close, wait and forget under the lock.   *)
ExitCloses ==
  /\ closeAll = "pending" /\ cached # NoSidecar
  /\ closeAll' = "closing"
  /\ life' = Closed(cached)
  /\ UNCHANGED <<cached, last, ending, pipe, injected, senders>>

ExitClosed ==
  /\ closeAll = "closing" /\ life[cached] = "gone"
  /\ closeAll' = "over"
  /\ cached' = NoSidecar
  /\ UNCHANGED <<last, ending, process, senders>>

-----------------------------------------------------------------------------
Sending(c) ==
  \/ GetCached(c) \/ GetNew(c) \/ GetFails(c)
  \/ Write(c) \/ WriteFails(c) \/ WriteAgainFails(c)
  \/ Drop(c) \/ Close(c) \/ Reaped(c)

Processing(s) == Inject(s) \/ ProcessEnds(s)

SidecarsNext ==
  \/ \E c \in Sender :
       \/ GetCached(c) \/ GetNew(c) \/ GetFails(c)
       \/ Write(c) \/ WriteFails(c) \/ WriteAgainFails(c)
       \/ Drop(c) \/ Close(c) \/ Reaped(c)
  \/ \E s \in Sidecar :
       \/ Inject(s) \/ ProcessEnds(s) \/ ProcessDies(s) \/ EndClose(s)
  \/ EndTake \/ ExitCloses \/ ExitClosed

(* A sender holds a sidecar where it writes to one and where it closes one.*)
Holding(c) ==
  /\ (using[c] # NoSidecar) <=> (pc[c] \in {"write", "writeAgain", "close", "reap"})
  /\ (refused[c] # NoSidecar) <=>
       (pc[c] \in {"drop", "close", "reap", "getAgain", "writeAgain"})

SidecarsTypeOK ==
  /\ closeAll \in {"pending", "closing", "over"}
  /\ last \in 0..MaxSidecar
  /\ cached \in 0..last
  /\ ending \in SUBSET (1..last)
  /\ life \in [Sidecar -> Life]
  /\ \A s \in Sidecar : life[s] = "unborn" <=> s > last
  /\ pipe \in [Sidecar -> Seq(Sender \X Nat)]
  /\ injected \in SUBSET (Sender \X Nat)
  /\ pc \in [Sender -> Control]
  /\ frame \in [Sender -> Nat]
  /\ using \in [Sender -> 0..last]
  /\ refused \in [Sender -> 0..last]
  /\ \A c \in Sender : Holding(c)

-----------------------------------------------------------------------------
(* No sidecar is left running that nobody can stop: one whose stdin is     *)
(* open is the one the manager knows, or one a Drop is about to close      *)
(* (Manager.Drop, CloseAll).                                               *)
NoSidecarLeaked ==
  \A s \in Sidecar : life[s] = "open" =>
    \/ s = cached \/ s \in ending
    \/ \E c \in Sender : pc[c] = "close" /\ using[c] = s

(* Where frame f is in the pipe of s.                                      *)
At(f, s) == {i \in 1..Len(pipe[s]) : pipe[s][i] = f}

(* The retry of SendFrame never injects a frame twice: at any time a frame *)
(* is at one place at most, and one still to be written is nowhere.        *)
FrameOnce ==
  \A c \in Sender : \A n \in 1..frame[c] :
    LET f == <<c, n>> IN
    /\ \A s, t \in Sidecar : \A i \in At(f, s), j \in At(f, t) : s = t /\ i = j
    /\ f \in injected => \A s \in Sidecar : At(f, s) = {}
    /\ n = frame[c] /\ pc[c] \notin {"idle", "sent"} =>
         f \notin injected /\ \A s \in Sidecar : At(f, s) = {}

(* A sender's second attempt is never on the sidecar its first one failed  *)
(* on, whoever dropped or replaced it in between (SendFrame).              *)
RetriesElsewhere ==
  \A c \in Sender : pc[c] = "writeAgain" => using[c] # refused[c]
=============================================================================
