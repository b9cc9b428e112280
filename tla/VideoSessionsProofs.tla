------------------------ MODULE VideoSessionsProofs ------------------------
(***************************************************************************)
(* Proofs about VideoSessions, for any viewers and any number of captures. *)
(*                                                                         *)
(* CapturesHeld is not inductive: it does not tell what becomes of a       *)
(* capture that drop took out of the manager, whose process runs until it  *)
(* is reaped.  That one is in the hands of the handler that holds          *)
(* Manager.mu, and as long as it does nothing else is cached: a capture of *)
(* the device is started only once it is gone.                             *)
(***************************************************************************)
EXTENDS VideoSessions, TLAPS

CachedStarted == cached <= last

(* Only a session that was started is used, or timed.                      *)
UsedStarted ==
  /\ \A v \in Viewer : using[v] <= last
  /\ \A s \in Session : timer[s] # "nil" => s <= last

NotRunningOnceClosed == running \cap closed = {}

(* Who waits with Manager.mu held is the one that holds it.                *)
WaiterHoldsLock == \A v \in Viewer : pc[v] = "wait" => mu = v

Dropping(s) == \E v \in Viewer : mu = v /\ pc[v] = "wait" /\ using[v] = s

(* Where a capture that runs is: cached, taken by Close, or being dropped, *)
(* and then nothing is cached.                                             *)
Held ==
  \A s \in running \ taken : s = cached \/ (Dropping(s) /\ cached = NoSession)

IInv ==
  /\ TypeOK /\ CachedStarted /\ UsedStarted /\ NotRunningOnceClosed
  /\ WaiterHoldsLock /\ Held /\ NoCaptureLeaked

LEMMA InitInv == Init => IInv
<1> SUFFICES ASSUME Init PROVE IInv
  OBVIOUS
<1>1. TypeOK
  <2>1. subs \in [Session -> SUBSET Viewer] /\ timer \in [Session -> {"nil", "armed", "spent"}]
    BY DEF Init
  <2>2. pc \in [Viewer -> Control] /\ using \in [Viewer -> Session \cup {NoSession}]
    BY DEF Init, Control
  <2>3. \A v \in Viewer : pc[v] = "away"
    BY DEF Init
  <2> QED  BY <2>1, <2>2, <2>3, MaxSessionAssumption DEF Init, TypeOK
<1> QED  BY <1>1, MaxSessionAssumption
         DEF Init, IInv, CachedStarted, UsedStarted, NotRunningOnceClosed, WaiterHoldsLock, Held,
             NoCaptureLeaked, NoSession

(* A handler goes to a step it can be at, with a session if it needs one.  *)
LEMMA HandlerTyped ==
  ASSUME TypeOK, NEW v \in Viewer, NEW step \in Control, NEW s \in Session \cup {NoSession},
         pc' = [pc EXCEPT ![v] = step], using' = [using EXCEPT ![v] = s],
         step # "away" => s # NoSession
  PROVE  /\ pc' \in [Viewer -> Control] /\ using' \in [Viewer -> Session \cup {NoSession}]
         /\ \A w \in Viewer : pc'[w] # "away" => using'[w] # NoSession
         /\ pc'[v] = step /\ using'[v] = s
         /\ \A w \in Viewer \ {v} : pc'[w] = pc[w] /\ using'[w] = using[w]
BY DEF TypeOK

(* The steps of a handler that neither start a capture nor end one.        *)
LEMMA HandlerStep ==
  ASSUME IInv, NEW v \in Viewer,
         \/ GetCached(v) \/ GetFails(v) \/ Attach(v) \/ AttachFails(v)
         \/ Request(v) \/ RequestFails(v) \/ SeeEnd(v) \/ Leave(v)
  PROVE  IInv'
<1>1. /\ TypeOK /\ pc[v] # "wait" /\ using[v] \in Session \cup {NoSession}
      /\ pc[v] # "away" => using[v] \in Session
      /\ UNCHANGED <<mu, cached, last, stdin, running, closed, fired, idle, taken>>
  BY DEF IInv, TypeOK, process, GetCached, GetFails, Attach, AttachFails, Request, RequestFails, SeeEnd, Leave
<1>2. PICK step \in Control \ {"wait"}, s \in Session \cup {NoSession} :
        /\ pc' = [pc EXCEPT ![v] = step] /\ using' = [using EXCEPT ![v] = s]
        /\ step # "away" => s # NoSession
        /\ s <= last
  <2>0. /\ NoSession \in Session \cup {NoSession} /\ NoSession <= last
        /\ cached <= last /\ using[v] <= last /\ cached \in Session \cup {NoSession}
    BY <1>1 DEF NoSession, IInv, TypeOK, CachedStarted, UsedStarted
  <2>1. CASE GetCached(v)
    <3>1. Then(pc[v]) \in Control \ {"wait"}
      BY <2>1 DEF GetCached, Then, Control
    <3> QED  BY <2>0, <2>1, <3>1 DEF GetCached, Goto
  <2>2. CASE GetFails(v) \/ SeeEnd(v) \/ Leave(v)
    BY <1>1, <2>0, <2>2 DEF GetFails, SeeEnd, Leave, GoAway, Goto, Control
  <2>3. CASE Attach(v) \/ Request(v)
    <3>1. using' = [using EXCEPT ![v] = using[v]]
      BY <1>1, <2>3 DEF Attach, Request, TypeOK
    <3>2. PICK step \in Control \ {"wait"} : pc' = [pc EXCEPT ![v] = step]
      BY <2>3 DEF Attach, Request, Goto, Then, Control
    <3>3. using[v] # NoSession
      BY <1>1, <2>3 DEF Attach, Request, Session, NoSession
    <3> QED  BY <1>1, <2>0, <3>1, <3>2, <3>3
  <2>4. CASE AttachFails(v) \/ RequestFails(v)
    <3>1. Failed(pc[v]) \in {"drop", "away"} /\ pc[v] # "away"
      BY <2>4 DEF Failed, AttachFails, RequestFails
    <3>2. /\ pc' = [pc EXCEPT ![v] = Failed(pc[v])]
          /\ using' = [using EXCEPT ![v] = IF Failed(pc[v]) = "away" THEN NoSession ELSE using[v]]
      BY <2>4 DEF AttachFails, RequestFails, Fail, Goto
    <3>3. using[v] # NoSession /\ "drop" \in Control \ {"wait"} /\ "away" \in Control \ {"wait"}
      BY <1>1, <3>1 DEF Session, NoSession, Control
    <3>4. CASE Failed(pc[v]) = "away"
      <4>1. pc' = [pc EXCEPT ![v] = "away"] /\ using' = [using EXCEPT ![v] = NoSession]
        BY <3>2, <3>4
      <4> QED  BY <2>0, <3>3, <4>1
    <3>5. CASE Failed(pc[v]) = "drop"
      <4>1. pc' = [pc EXCEPT ![v] = "drop"] /\ using' = [using EXCEPT ![v] = using[v]]
        BY <3>2, <3>5
      <4> QED  BY <1>1, <2>0, <3>3, <4>1
    <3> QED  BY <3>1, <3>4, <3>5
  <2> QED  BY <2>1, <2>2, <2>3, <2>4
<1>3. /\ pc' \in [Viewer -> Control] /\ using' \in [Viewer -> Session \cup {NoSession}]
      /\ \A w \in Viewer : pc'[w] # "away" => using'[w] # NoSession
      /\ pc'[v] = step /\ using'[v] = s
      /\ \A w \in Viewer \ {v} : pc'[w] = pc[w] /\ using'[w] = using[w]
  BY <1>1, <1>2, HandlerTyped
<1>4. subs' \in [Session -> SUBSET Viewer] /\ timer' \in [Session -> {"nil", "armed", "spent"}]
  <2>1. CASE GetCached(v) \/ GetFails(v) \/ AttachFails(v) \/ Request(v)
    BY <1>1, <2>1 DEF GetCached, GetFails, AttachFails, Request, TypeOK
  <2>2. CASE Attach(v)
    BY <1>1, <2>2 DEF Attach, Disarm, TypeOK
  <2>3. CASE RequestFails(v) \/ SeeEnd(v) \/ Leave(v)
    <3>1. Unsubscribe(v, using[v])
      BY <2>3 DEF RequestFails, SeeEnd, Leave
    <3>2. subs' \in [Session -> SUBSET Viewer]
      BY <1>1, <3>1 DEF Unsubscribe, TypeOK
    <3>3. timer' \in [Session -> {"nil", "armed", "spent"}]
      BY <1>1, <3>1 DEF Unsubscribe, TypeOK
    <3> QED  BY <3>2, <3>3
  <2> QED  BY <2>1, <2>2, <2>3
<1>5. TypeOK'
  BY <1>1, <1>3, <1>4 DEF TypeOK
<1>6. WaiterHoldsLock'
  BY <1>1, <1>2, <1>3 DEF IInv, WaiterHoldsLock
<1>7. Held'
  <2>1. \A x : Dropping(x) => Dropping(x)'
    BY <1>1, <1>3 DEF Dropping
  <2> QED  BY <1>1, <2>1 DEF IInv, Held
<1>8. UsedStarted'
  <2>1. \A w \in Viewer : using'[w] <= last'
    BY <1>1, <1>2, <1>3 DEF IInv, UsedStarted
  <2>2. \A t \in Session : timer'[t] # "nil" => t <= last'
    <3>1. CASE GetCached(v) \/ GetFails(v) \/ AttachFails(v) \/ Request(v)
      BY <1>1, <3>1 DEF GetCached, GetFails, AttachFails, Request, IInv, UsedStarted
    <3>2. CASE Attach(v)
      BY <1>1, <3>2 DEF Attach, Disarm, IInv, UsedStarted, TypeOK
    <3>3. CASE RequestFails(v) \/ SeeEnd(v) \/ Leave(v)
      <4>1. Unsubscribe(v, using[v])
        BY <3>3 DEF RequestFails, SeeEnd, Leave
      <4> QED  BY <1>1, <4>1 DEF Unsubscribe, IInv, UsedStarted, TypeOK
    <3> QED  BY <3>1, <3>2, <3>3
  <2> QED  BY <2>1, <2>2 DEF UsedStarted
<1> QED  BY <1>1, <1>5, <1>6, <1>7, <1>8 DEF IInv, CachedStarted, NotRunningOnceClosed, NoCaptureLeaked

(* A capture is started only where none is cached and nobody holds the     *)
(* lock: every other that runs is taken.                                   *)
LEMMA GetNewStep == ASSUME IInv, NEW v \in Viewer, GetNew(v) PROVE IInv'
<1>1. /\ TypeOK /\ last \in Nat /\ last + 1 \in Session /\ last + 1 <= MaxSession /\ pc[v] # "wait"
  BY MaxSessionAssumption DEF IInv, TypeOK, GetNew, Session
<1>2. /\ mu = Free /\ cached = NoSession /\ last' = last + 1 /\ cached' = last + 1
      /\ stdin' = stdin \cup {last + 1} /\ running' = running \cup {last + 1}
      /\ UNCHANGED <<mu, closed, subs, timer, fired, idle, taken>>
      /\ using' = [using EXCEPT ![v] = last + 1] /\ pc' = [pc EXCEPT ![v] = Then(pc[v])]
  BY DEF GetNew, Goto
<1>3. Then(pc[v]) \in Control \ {"wait"}
  BY DEF GetNew, Then, Control
<1>11. last + 1 \in Session \cup {NoSession} /\ last + 1 # NoSession
  BY <1>1 DEF NoSession
<1>4. /\ pc' \in [Viewer -> Control] /\ using' \in [Viewer -> Session \cup {NoSession}]
      /\ \A w \in Viewer : pc'[w] # "away" => using'[w] # NoSession
      /\ pc'[v] = Then(pc[v]) /\ using'[v] = last + 1
      /\ \A w \in Viewer \ {v} : pc'[w] = pc[w] /\ using'[w] = using[w]
  <2>1. Then(pc[v]) \in Control
    BY <1>3
  <2> QED  BY <1>1, <1>2, <1>11, <2>1, HandlerTyped
<1>5. TypeOK'
  <2>1. 1 .. last \subseteq 1 .. last'
    BY <1>1, <1>2
  <2>2. {running', closed', fired', idle', taken'} \subseteq SUBSET (1 .. last')
    BY <1>1, <1>2, <2>1 DEF TypeOK
  <2>3. last' \in 0 .. MaxSession /\ cached' \in Session \cup {NoSession} /\ stdin' \subseteq running'
    BY <1>1, <1>2, MaxSessionAssumption DEF TypeOK, Session
  <2> QED  BY <1>1, <1>2, <1>4, <2>2, <2>3 DEF TypeOK
<1>6. \A w \in Viewer : pc[w] # "wait"
  BY <1>2, HolderAssumption DEF IInv, WaiterHoldsLock
<1>7. WaiterHoldsLock'
  BY <1>3, <1>4, <1>6 DEF WaiterHoldsLock
<1>8. running \subseteq taken /\ stdin \subseteq taken
  BY <1>1, <1>2, <1>6 DEF IInv, Held, Dropping, TypeOK, NoSession
<1>9. last + 1 \notin closed
  BY <1>1 DEF TypeOK
<1>10. UsedStarted'
  <2>1. \A w \in Viewer : using'[w] <= last'
    BY <1>1, <1>2, <1>4 DEF IInv, UsedStarted, TypeOK, Session, NoSession
  <2>2. \A t \in Session : timer'[t] # "nil" => t <= last'
    BY <1>1, <1>2 DEF IInv, UsedStarted, Session
  <2> QED  BY <2>1, <2>2 DEF UsedStarted
<1> QED  BY <1>1, <1>2, <1>5, <1>7, <1>8, <1>9, <1>10
         DEF IInv, CachedStarted, NotRunningOnceClosed, Held, NoCaptureLeaked

LEMMA DropStep == ASSUME IInv, NEW v \in Viewer, Drop(v) PROVE IInv'
<1>1. /\ TypeOK /\ pc[v] = "drop" /\ using[v] \in Session \cup {NoSession} /\ using[v] # NoSession
  BY DEF IInv, TypeOK, Drop
<1>2. /\ mu = Free /\ mu' = v /\ cached' = IF cached = using[v] THEN NoSession ELSE cached
      /\ stdin' = stdin \ {using[v]} /\ pc' = [pc EXCEPT ![v] = "wait"]
      /\ UNCHANGED <<last, running, closed, subs, timer, fired, idle, taken, using>>
  BY DEF Drop, Goto
<1>3. /\ pc' \in [Viewer -> Control] /\ pc'[v] = "wait" /\ \A w \in Viewer \ {v} : pc'[w] = pc[w]
  BY <1>1, <1>2 DEF TypeOK, Control
<1>4. TypeOK'
  <2>1. \A w \in Viewer : pc'[w] # "away" => using'[w] # NoSession
    BY <1>1, <1>2, <1>3 DEF TypeOK
  <2> QED  BY <1>1, <1>2, <1>3, <2>1 DEF TypeOK
<1>5. \A w \in Viewer : pc[w] # "wait"
  BY <1>2, HolderAssumption DEF IInv, WaiterHoldsLock
<1>6. WaiterHoldsLock'
  BY <1>2, <1>3, <1>5 DEF WaiterHoldsLock
<1>7. \A s \in running \ taken : s = cached
  BY <1>5 DEF IInv, Held, Dropping
<1>8. Held'
  <2> SUFFICES ASSUME NEW s \in running \ taken
               PROVE  s = cached' \/ (Dropping(s)' /\ cached' = NoSession)
    BY <1>2 DEF Held
  <2>1. CASE s = using[v]
    <3>1. Dropping(s)'
      BY <1>2, <1>3, <2>1 DEF Dropping
    <3> QED  BY <1>2, <1>7, <2>1, <3>1
  <2>2. CASE s # using[v]
    BY <1>2, <1>7, <2>2
  <2> QED  BY <2>1, <2>2
<1>9. NoCaptureLeaked' /\ CachedStarted' /\ UsedStarted' /\ NotRunningOnceClosed'
  BY <1>1, <1>2 DEF IInv, TypeOK, NoCaptureLeaked, CachedStarted, UsedStarted, NotRunningOnceClosed, NoSession
<1> QED  BY <1>4, <1>6, <1>8, <1>9 DEF IInv

LEMMA DroppedStep == ASSUME IInv, NEW v \in Viewer, Dropped(v) PROVE IInv'
<1>1. TypeOK /\ pc[v] = "wait" /\ mu = v /\ using[v] \notin running
  BY DEF IInv, Dropped, WaiterHoldsLock, NotRunningOnceClosed
<1>2. /\ mu' = Free /\ pc' = [pc EXCEPT ![v] = "getAgain"]
      /\ UNCHANGED <<cached, last, stdin, running, closed, subs, timer, fired, idle, taken, using>>
  BY DEF Dropped, Goto, process
<1>3. /\ pc' \in [Viewer -> Control] /\ pc'[v] = "getAgain" /\ \A w \in Viewer \ {v} : pc'[w] = pc[w]
  BY <1>1, <1>2 DEF TypeOK, Control
<1>4. TypeOK'
  <2>1. \A w \in Viewer : pc'[w] # "away" => using'[w] # NoSession
    BY <1>1, <1>2, <1>3 DEF TypeOK
  <2> QED  BY <1>1, <1>2, <1>3, <2>1 DEF TypeOK
<1>5. WaiterHoldsLock'
  BY <1>1, <1>2, <1>3 DEF IInv, WaiterHoldsLock
<1>6. Held'
  BY <1>1, <1>2 DEF IInv, Held, Dropping
<1> QED  BY <1>2, <1>4, <1>5, <1>6
         DEF IInv, NoCaptureLeaked, CachedStarted, UsedStarted, NotRunningOnceClosed

(* The steps of the timer, of the process and of its reader.               *)
LEMMA SessionStep ==
  ASSUME IInv, NEW s \in Session,
         \/ TimerFires(s) \/ LookIdle(s) \/ CloseIdle(s)
         \/ ProcessEnds(s) \/ ProcessDies(s) \/ Shutdown(s) \/ EndClose(s)
  PROVE  IInv'
<1>1. TypeOK /\ UNCHANGED <<mu, cached, last, pc, using>>
  BY DEF IInv, viewers, TimerFires, LookIdle, CloseIdle, ProcessEnds, ProcessDies, Shutdown, EndClose
<1>2. /\ running' \subseteq running /\ stdin' \subseteq running' /\ stdin' \subseteq stdin
      /\ \A t \in running : t \in closed' => t \in closed
      /\ \A t \in running' : t \in taken => t \in taken'
      /\ taken' \subseteq taken
  BY <1>1 DEF TypeOK, process, TimerFires, LookIdle, CloseIdle, ProcessEnds, ProcessDies, Shutdown, EndClose
<1>3. TypeOK'
  <2>1. timer' \in [Session -> {"nil", "armed", "spent"}] /\ subs' \in [Session -> SUBSET Viewer]
    BY <1>1 DEF TypeOK, process, TimerFires, LookIdle, CloseIdle, ProcessEnds, ProcessDies, Shutdown, EndClose
  <2>2. fired' \in SUBSET (1 .. last) /\ idle' \in SUBSET (1 .. last) /\ closed' \in SUBSET (1 .. last)
    <3>1. CASE TimerFires(s)
      <4>1. s \in 1 .. last
        BY <1>1, <3>1 DEF TimerFires, IInv, UsedStarted, TypeOK, Session
      <4> QED  BY <1>1, <3>1, <4>1 DEF TypeOK, TimerFires
    <3>2. CASE LookIdle(s)
      BY <1>1, <3>2 DEF TypeOK, LookIdle
    <3>3. CASE Shutdown(s)
      BY <1>1, <3>3 DEF TypeOK, Shutdown
    <3>4. CASE CloseIdle(s) \/ ProcessEnds(s) \/ ProcessDies(s) \/ EndClose(s)
      BY <1>1, <3>4 DEF TypeOK, CloseIdle, ProcessEnds, ProcessDies, EndClose
    <3> QED  BY <3>1, <3>2, <3>3, <3>4
  <2> QED  BY <1>1, <1>2, <2>1, <2>2 DEF TypeOK
<1>11. UsedStarted'
  <2>1. \A t \in Session : timer'[t] # "nil" => timer[t] # "nil"
    BY <1>1 DEF TypeOK, TimerFires, LookIdle, CloseIdle, ProcessEnds, ProcessDies, Shutdown, EndClose
  <2> QED  BY <1>1, <2>1 DEF IInv, UsedStarted
<1>4. WaiterHoldsLock' /\ CachedStarted' /\ NotRunningOnceClosed'
  BY <1>1, <1>2 DEF IInv, WaiterHoldsLock, CachedStarted, NotRunningOnceClosed
<1>5. Held'
  <2>1. \A x : Dropping(x) => Dropping(x)'
    BY <1>1 DEF Dropping
  <2> QED  BY <1>1, <1>2, <2>1 DEF IInv, Held
<1>6. NoCaptureLeaked'
  BY <1>1, <1>2 DEF IInv, NoCaptureLeaked
<1> QED  BY <1>3, <1>11, <1>4, <1>5, <1>6 DEF IInv

(* The end of the device's session, and the server's exit.                 *)
LEMMA EndStep == ASSUME IInv, EndTake \/ ExitCloses \/ ExitClosed PROVE IInv'
<1>1. /\ TypeOK /\ UNCHANGED <<last, running, closed, subs, timer, fired, idle, pc, using>>
      /\ mu \in {Free, Exit}
  BY DEF IInv, process, viewers, EndTake, ExitCloses, ExitClosed
<1>2. \A w \in Viewer : pc[w] # "wait"
  BY <1>1, HolderAssumption DEF IInv, WaiterHoldsLock
<1>3. \A s \in running \ taken : s = cached
  BY <1>2 DEF IInv, Held, Dropping
<1>4. /\ mu' \in {Free, Exit} /\ cached' \in {cached, NoSession} /\ stdin' \subseteq stdin
      /\ taken' \in SUBSET (1 .. last) /\ taken \subseteq taken'
      /\ \A s \in running \ taken' : s = cached'
  <2>1. CASE EndTake
    <3>1. cached \in 1 .. last
      BY <1>1, <2>1 DEF IInv, EndTake, CachedStarted, TypeOK, Session, NoSession
    <3> QED  BY <1>1, <1>3, <2>1, <3>1 DEF IInv, EndTake, TypeOK, NotRunningOnceClosed, process
  <2>2. CASE ExitCloses
    BY <1>1, <1>3, <2>2 DEF ExitCloses, TypeOK
  <2>3. CASE ExitClosed
    BY <1>1, <1>3, <2>3 DEF IInv, ExitClosed, TypeOK, NotRunningOnceClosed, process
  <2> QED  BY <2>1, <2>2, <2>3
<1>5. TypeOK'
  BY <1>1, <1>4 DEF TypeOK
<1>6. WaiterHoldsLock' /\ Held' /\ NotRunningOnceClosed'
  BY <1>1, <1>2, <1>4 DEF IInv, WaiterHoldsLock, Held, NotRunningOnceClosed
<1>7. CachedStarted'
  BY <1>1, <1>4 DEF IInv, CachedStarted, NoSession, TypeOK
<1>8. NoCaptureLeaked'
  BY <1>1, <1>4 DEF TypeOK, NoCaptureLeaked
<1>9. UsedStarted'
  BY <1>1 DEF IInv, UsedStarted
<1> QED  BY <1>5, <1>6, <1>7, <1>8, <1>9 DEF IInv

LEMMA StepInv == IInv /\ [Next]_vars => IInv'
<1> SUFFICES ASSUME IInv, [Next]_vars PROVE IInv'
  OBVIOUS
<1>1. CASE UNCHANGED vars
  <2>1. TypeOK'
    BY <1>1 DEF vars, process, viewers, IInv, TypeOK
  <2> QED  BY <1>1, <2>1 DEF vars, process, viewers, IInv, CachedStarted, UsedStarted,
                          NotRunningOnceClosed, WaiterHoldsLock, Held, Dropping, NoCaptureLeaked
<1>2. CASE Next
  BY <1>2, HandlerStep, GetNewStep, DropStep, DroppedStep, SessionStep, EndStep DEF Next
<1> QED  BY <1>1, <1>2

(* The variables stay in their ranges, and a handler on its way to         *)
(* watching has a session.                                                 *)
THEOREM SessionsTyped == Spec => []TypeOK
<1>1. IInv => TypeOK  BY DEF IInv
<1> QED  BY <1>1, InitInv, StepInv, PTL DEF Spec

(* No capture leaks and none runs twice, whoever comes and goes and        *)
(* whatever dies meanwhile (Manager.session, drop, Close, CloseAll).       *)
THEOREM CapturesStayHeld == Spec => []CapturesHeld
<1>1. IInv => CapturesHeld
  <2> SUFFICES ASSUME IInv PROVE OneCapture
    BY DEF IInv, CapturesHeld
  <2> SUFFICES ASSUME NEW s \in running \ taken, NEW t \in running \ taken PROVE s = t
    BY DEF OneCapture
  <2>1. s # NoSession /\ t # NoSession
    BY DEF IInv, TypeOK, NoSession
  <2> QED  BY <2>1 DEF IInv, Held, Dropping
<1> QED  BY <1>1, InitInv, StepInv, PTL DEF Spec
=============================================================================
