---------------------------- MODULE VideoSessions ----------------------------
(***************************************************************************)
(* When one device's screen is captured: the sessions of Manager in        *)
(* internal/video/video.go, each owning one capture process, from the      *)
(* first viewer to the idle timer, the device's end of session, or the     *)
(* server's exit.  The frames themselves are in VideoDelivery.             *)
(*                                                                         *)
(* Manager.mu is one lock (mu below): looking a session up is one step     *)
(* under it, while drop and CloseAll hold it until the process they close  *)
(* has been reaped.  Session.mu is only ever held for one step.  The idle  *)
(* timer's goroutine, the reader of the process's output and each viewer's *)
(* handler run on their own.                                               *)
(***************************************************************************)
EXTENDS Naturals, FiniteSets

CONSTANTS Viewer,
          MaxSession,  \* bound: captures ever started
          Free, Exit   \* who holds Manager.mu besides a viewer's handler

ASSUME HolderAssumption == Free \notin Viewer /\ Exit \notin Viewer /\ Free # Exit
ASSUME MaxSessionAssumption == MaxSession \in Nat

VARIABLES
  mu,        \* Manager.mu, where it is held for longer than a step
  cached,    \* Manager.sessions of the device, or NoSession
  last,      \* sessions started
  running,   \* the sessions whose process runs
  stdin,     \* those of them whose stdin was not closed
  closed,    \* the sessions that are over: Session.closed and done
  subs,      \* subs[s]: Session.subscribers
  timer,     \* timer[s]: Session.idleTimer, "spent" once it fired
  fired,     \* the sessions whose closeIfIdle is about to look
  idle,      \* the sessions whose closeIfIdle found no viewer
  taken,     \* the sessions Close took out of the manager and is ending
  pc,        \* pc[v]: where v's handler is
  using      \* using[v]: the session it was handed

process == <<stdin, running>>
viewers == <<pc, using>>
vars == <<mu, cached, last, stdin, running, closed, subs, timer, fired, idle, taken, pc, using>>

NoSession == 0
Session == 1..MaxSession

(* Manager.Subscribe: look the session up, attach to it, request its       *)
(* keyframe; on failure drop it, wait for it, and do the three once more.  *)
Control == {"away", "attach", "request", "drop", "wait",
            "getAgain", "attachAgain", "requestAgain", "watching"}
Then(step) ==
  CASE step = "away" -> "attach" [] step = "attach" -> "request"
    [] step = "getAgain" -> "attachAgain" [] step = "attachAgain" -> "requestAgain"
    [] OTHER -> "watching"
Failed(step) == IF step \in {"attach", "request"} THEN "drop" ELSE "away"

Init ==
  /\ mu = Free /\ cached = NoSession /\ last = 0
  /\ stdin = {} /\ running = {} /\ closed = {}
  /\ subs = [s \in Session |-> {}]
  /\ timer = [s \in Session |-> "nil"]
  /\ fired = {} /\ idle = {} /\ taken = {}
  /\ pc = [v \in Viewer |-> "away"]
  /\ using = [v \in Viewer |-> NoSession]

Goto(v, step) == pc' = [pc EXCEPT ![v] = step]
Fail(v) ==
  /\ Goto(v, Failed(pc[v]))
  /\ using' = [using EXCEPT ![v] = IF Failed(pc[v]) = "away" THEN NoSession ELSE @]
GoAway(v) == Goto(v, "away") /\ using' = [using EXCEPT ![v] = NoSession]

-----------------------------------------------------------------------------
(* A viewer connects, or looks again after its first session failed.       *)
(* Manager.session: the cached session, or a new one, or the start's error.*)
GetCached(v) ==
  /\ pc[v] \in {"away", "getAgain"} /\ mu = Free
  /\ cached # NoSession
  /\ using' = [using EXCEPT ![v] = cached]
  /\ Goto(v, Then(pc[v]))
  /\ UNCHANGED <<mu, cached, last, process, closed, subs, timer, fired, idle, taken>>

GetNew(v) ==
  /\ pc[v] \in {"away", "getAgain"} /\ mu = Free
  /\ cached = NoSession /\ last < MaxSession
  /\ last' = last + 1
  /\ cached' = last + 1
  /\ stdin' = stdin \cup {last + 1}
  /\ running' = running \cup {last + 1}
  /\ using' = [using EXCEPT ![v] = last + 1]
  /\ Goto(v, Then(pc[v]))
  /\ UNCHANGED <<mu, closed, subs, timer, fired, idle, taken>>

GetFails(v) ==
  /\ pc[v] = "getAgain" /\ mu = Free
  /\ cached = NoSession
  /\ GoAway(v)
  /\ UNCHANGED <<mu, cached, last, process, closed, subs, timer, fired, idle, taken>>

(* Session.Subscribe: a session that is over is refused; else the viewer   *)
(* is registered and the idle timer disarmed.  A timer that fired already  *)
(* cannot be stopped.  Mutant: the timer is left running.                  *)
Keep(s) == UNCHANGED timer
Disarm(s) == timer' = [timer EXCEPT ![s] = "nil"]

Attach(v) ==
  /\ pc[v] \in {"attach", "attachAgain"}
  /\ using[v] \notin closed
  /\ subs' = [subs EXCEPT ![using[v]] = @ \cup {v}]
  /\ Disarm(using[v])
  /\ Goto(v, Then(pc[v]))
  /\ UNCHANGED <<mu, cached, last, process, closed, fired, idle, taken, using>>

AttachFails(v) ==
  /\ pc[v] \in {"attach", "attachAgain"}
  /\ using[v] \in closed
  /\ Fail(v)
  /\ UNCHANGED <<mu, cached, last, process, closed, subs, timer, fired, idle, taken>>

(* unsubscribe: the last viewer to go arms the idle timer.                 *)
Unsubscribe(v, s) ==
  /\ subs' = [subs EXCEPT ![s] = @ \ {v}]
  /\ timer' = [timer EXCEPT ![s] =
                 IF subs[s] \ {v} = {} /\ s \notin closed /\ @ = "nil" THEN "armed" ELSE @]

(* requestKeyframe: the write fails once stdin is closed or the process is *)
(* gone, and the viewer is unregistered again.                             *)
Request(v) ==
  /\ pc[v] \in {"request", "requestAgain"}
  /\ using[v] \in stdin
  /\ Goto(v, "watching")
  /\ UNCHANGED <<mu, cached, last, process, closed, subs, timer, fired, idle, taken, using>>

RequestFails(v) ==
  /\ pc[v] \in {"request", "requestAgain"}
  /\ using[v] \notin stdin
  /\ Unsubscribe(v, using[v])
  /\ Fail(v)
  /\ UNCHANGED <<mu, cached, last, process, closed, fired, idle, taken>>

(* drop: forget the session if it is still the cached one, close it, and   *)
(* wait for it, all under Manager.mu.  Mutant: whatever is cached is       *)
(* forgotten.                                                              *)
DropUnchecked(v) ==
  /\ pc[v] = "drop" /\ mu = Free
  /\ mu' = v
  /\ cached' = NoSession
  /\ stdin' = stdin \ {using[v]}
  /\ Goto(v, "wait")
  /\ UNCHANGED <<last, running, closed, subs, timer, fired, idle, taken, using>>

Drop(v) ==
  /\ pc[v] = "drop" /\ mu = Free
  /\ mu' = v
  /\ cached' = IF cached = using[v] THEN NoSession ELSE cached
  /\ stdin' = stdin \ {using[v]}
  /\ Goto(v, "wait")
  /\ UNCHANGED <<last, running, closed, subs, timer, fired, idle, taken, using>>

Dropped(v) ==
  /\ pc[v] = "wait" /\ using[v] \in closed
  /\ mu' = Free
  /\ Goto(v, "getAgain")
  /\ UNCHANGED <<cached, last, process, closed, subs, timer, fired, idle, taken, using>>

-----------------------------------------------------------------------------
(* The viewer leaves, or finds its channel closed and is disconnected.     *)
Leave(v) ==
  /\ pc[v] = "watching"
  /\ Unsubscribe(v, using[v])
  /\ GoAway(v)
  /\ UNCHANGED <<mu, cached, last, process, closed, fired, idle, taken>>

SeeEnd(v) ==
  /\ pc[v] = "watching" /\ v \notin subs[using[v]]
  /\ Unsubscribe(v, using[v])
  /\ GoAway(v)
  /\ UNCHANGED <<mu, cached, last, process, closed, fired, idle, taken>>

(* The idle timer fires, closeIfIdle looks, and closes what it found idle  *)
(* without holding the lock in between.  A timer that outlives its session *)
(* finds it closed: no step.                                               *)
TimerFires(s) ==
  /\ timer[s] = "armed" /\ s \notin closed
  /\ timer' = [timer EXCEPT ![s] = "spent"]
  /\ fired' = fired \cup {s}
  /\ UNCHANGED <<mu, cached, last, process, closed, subs, idle, taken, viewers>>

LookIdle(s) ==
  /\ s \in fired
  /\ fired' = fired \ {s}
  /\ idle' = IF subs[s] = {} /\ s \notin closed THEN idle \cup {s} ELSE idle
  /\ UNCHANGED <<mu, cached, last, process, closed, subs, timer, taken, viewers>>

CloseIdle(s) ==
  /\ s \in idle
  /\ idle' = idle \ {s}
  /\ stdin' = stdin \ {s}
  /\ UNCHANGED <<mu, cached, last, running, closed, subs, timer, fired, taken, viewers>>

(* The capture process ends on EOF, or is killed three seconds later; it   *)
(* may also die, as when the simulator shuts down.                         *)
ProcessEnds(s) ==
  /\ s \in running /\ s \notin stdin
  /\ running' = running \ {s}
  /\ UNCHANGED <<mu, cached, last, stdin, closed, subs, timer, fired, idle, taken, viewers>>

ProcessDies(s) ==
  /\ s \in stdin
  /\ running' = running \ {s}
  /\ stdin' = stdin \ {s}
  /\ UNCHANGED <<mu, cached, last, closed, subs, timer, fired, idle, taken, viewers>>

(* The reader of its output: reaped, shutdown, done.  Mutant: shutdown     *)
(* marks the session and leaves its viewers' channels open.                *)
ShutdownSilently(s) ==
  /\ s \in 1..last /\ s \notin running /\ s \notin closed
  /\ closed' = closed \cup {s}
  /\ taken' = taken \ {s}
  /\ UNCHANGED <<mu, cached, last, process, subs, timer, fired, idle, viewers>>

Shutdown(s) ==
  /\ s \in 1..last /\ s \notin running /\ s \notin closed
  /\ closed' = closed \cup {s}
  /\ subs' = [subs EXCEPT ![s] = {}]
  /\ taken' = taken \ {s}
  /\ UNCHANGED <<mu, cached, last, process, timer, fired, idle, viewers>>

-----------------------------------------------------------------------------
(* Manager.Close, as the device's session ends: forget the session under   *)
(* the lock, then close it outside; Close returns once it was reaped.      *)
EndTake ==
  /\ mu = Free /\ cached # NoSession
  /\ taken' = taken \cup ({cached} \ closed)
  /\ cached' = NoSession
  /\ UNCHANGED <<mu, last, process, closed, subs, timer, fired, idle, viewers>>

EndClose(s) ==
  /\ s \in taken \cap stdin
  /\ stdin' = stdin \ {s}
  /\ UNCHANGED <<mu, cached, last, running, closed, subs, timer, fired, idle, taken, viewers>>

(* CloseAll, as the server exits: close, wait, forget, under the lock.     *)
(* Mutant: it waits for the process without telling it to end.             *)
ExitWaits ==
  /\ mu = Free /\ cached # NoSession
  /\ mu' = Exit
  /\ UNCHANGED <<cached, last, process, closed, subs, timer, fired, idle, taken, viewers>>

ExitCloses ==
  /\ mu = Free /\ cached # NoSession
  /\ mu' = Exit
  /\ stdin' = stdin \ {cached}
  /\ UNCHANGED <<cached, last, running, closed, subs, timer, fired, idle, taken, viewers>>

ExitClosed ==
  /\ mu = Exit /\ cached \in closed
  /\ mu' = Free
  /\ cached' = NoSession
  /\ UNCHANGED <<last, process, closed, subs, timer, fired, idle, taken, viewers>>

-----------------------------------------------------------------------------
Subscribing(v) ==
  \/ GetCached(v) \/ GetNew(v) \/ GetFails(v)
  \/ Attach(v) \/ AttachFails(v) \/ Request(v) \/ RequestFails(v)
  \/ Drop(v) \/ Dropped(v) \/ SeeEnd(v)

Background(s) ==
  \/ TimerFires(s) \/ LookIdle(s) \/ CloseIdle(s)
  \/ ProcessEnds(s) \/ Shutdown(s) \/ EndClose(s)

Next ==
  \/ \E v \in Viewer :
       \/ GetCached(v) \/ GetNew(v) \/ GetFails(v)
       \/ Attach(v) \/ AttachFails(v) \/ Request(v) \/ RequestFails(v)
       \/ Drop(v) \/ Dropped(v) \/ SeeEnd(v) \/ Leave(v)
  \/ \E s \in Session :
       \/ TimerFires(s) \/ LookIdle(s) \/ CloseIdle(s)
       \/ ProcessEnds(s) \/ ProcessDies(s) \/ Shutdown(s) \/ EndClose(s)
  \/ EndTake \/ ExitCloses \/ ExitClosed

(* Goroutines are scheduled, timers fire, and a process whose stdin was    *)
(* closed ends (it is killed if it must be).  No viewer has to come or go, *)
(* and no process has to die.                                              *)
Fairness ==
  /\ \A v \in Viewer : WF_vars(pc[v] # "away" /\ Subscribing(v))
  /\ \A s \in Session : WF_vars(Background(s))
  /\ WF_vars(ExitClosed)

Spec == Init /\ [][Next]_vars /\ Fairness

-----------------------------------------------------------------------------
(* The ranges of the variables; a handler on its way to watching has a     *)
(* session to use.                                                         *)
TypeOK ==
  /\ mu \in Viewer \cup {Free, Exit}
  /\ cached \in Session \cup {NoSession}
  /\ last \in 0..MaxSession
  /\ {running, closed, fired, idle, taken} \subseteq SUBSET (1..last)
  /\ stdin \subseteq running
  /\ subs \in [Session -> SUBSET Viewer]
  /\ timer \in [Session -> {"nil", "armed", "spent"}]
  /\ pc \in [Viewer -> Control]
  /\ using \in [Viewer -> Session \cup {NoSession}]
  /\ \A v \in Viewer : pc[v] # "away" => using[v] # NoSession

(* No capture is left running that nobody can stop: one whose stdin is     *)
(* still open is the one the manager knows, or one Close is about to end   *)
(* (Manager.drop, Close, CloseAll).                                        *)
NoCaptureLeaked == \A s \in stdin : s = cached \/ s \in taken

(* Two captures of one device run side by side only while the end of the   *)
(* device's session is closing one of them: a dead one is replaced only    *)
(* after it was reaped (drop closes under Manager.mu).                     *)
OneCapture == \A s, t \in running : s = t \/ s \in taken \/ t \in taken

(* No capture leaks, and none runs twice.                                  *)
CapturesHeld == NoCaptureLeaked /\ OneCapture

(* A capture never runs unwatched for ever (idleGrace).                    *)
UnwatchedEnds ==
  \A s \in Session : (s \in running /\ subs[s] = {}) ~> (s \notin running \/ subs[s] # {})

(* A viewer whose capture ended is told, and is not left with a stream     *)
(* that stays silent (shutdown).                                           *)
ViewersToldOfEnd ==
  \A v \in Viewer :
    (pc[v] = "watching" /\ using[v] \notin running) ~> (pc[v] # "watching")

(* Waiting for a process to be reaped with Manager.mu held never blocks    *)
(* every viewer for good (drop, CloseAll).                                 *)
ManagerNotStuck == (mu # Free) ~> (mu = Free)
=============================================================================
