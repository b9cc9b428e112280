------------------------------ MODULE ActionsProofs ------------------------------
(**************************************************************************)
(* Proofs about what is done to a device and how it is captured: an       *)
(* action and the sidecars under it, what is typed and touched on an      *)
(* Android page, an app's launch, the wait for a screen to settle and the *)
(* process that captures an emulator, for any number of requests, of      *)
(* sidecars and results remembered, of pages, frames, attempts, reads and *)
(* sources.                                                               *)
(**************************************************************************)
EXTENDS Acts, AndroidInput, Launch, Settle, AndroidCapture, SequenceTheorems, TLAPS

-----------------------------------------------------------------------------
(* Acts and the sidecars under it.                                         *)

LEMMA SidecarsTypeInit == SidecarsInit => SidecarsTypeOK
<1> SUFFICES ASSUME SidecarsInit PROVE SidecarsTypeOK  OBVIOUS
<1> USE DEF SidecarsInit, NoSidecar
<1>1. life \in [Sidecar -> Life] /\ \A s \in Sidecar : life[s] = "unborn" <=> s > last
  BY MaxSidecarAssumption DEF Sidecar, Life
<1>2. pc \in [Sender -> Control] /\ \A c \in Sender : Holding(c)
  BY DEF Control, Holding
<1>3. pipe \in [Sidecar -> Seq(Sender \X Nat)]
  OBVIOUS
<1>4. ending \in SUBSET (1..last) /\ injected \in SUBSET (Sender \X Nat)
  OBVIOUS
<1>5. /\ closeAll \in {"pending", "closing", "over"}
      /\ last \in 0..MaxSidecar /\ cached \in 0..last
      /\ frame \in [Sender -> Nat] /\ using \in [Sender -> 0..last] /\ refused \in [Sender -> 0..last]
  BY MaxSidecarAssumption
<1> QED  BY <1>1, <1>2, <1>3, <1>4, <1>5 DEF SidecarsTypeOK

(* Where SendFrame of a sender goes next, and what it then holds: u to     *)
(* write to or to close, t the sidecar its first write failed on.          *)
LEMMA SenderStep ==
  ASSUME SidecarsTypeOK, NEW c \in Sender, NEW step \in Control, NEW u, NEW t,
         last' \in Nat, last' >= last, u \in 0..last', t \in 0..last',
         pc' = [pc EXCEPT ![c] = step],
         using' = [using EXCEPT ![c] = u],
         refused' = [refused EXCEPT ![c] = t],
         (u # NoSidecar) <=> (step \in {"write", "writeAgain", "close", "reap"}),
         (t # NoSidecar) <=> (step \in {"drop", "close", "reap", "getAgain", "writeAgain"})
  PROVE  /\ pc' \in [Sender -> Control]
         /\ using' \in [Sender -> 0..last'] /\ refused' \in [Sender -> 0..last']
         /\ \A d \in Sender : Holding(d)'
<1>1. pc' \in [Sender -> Control]  BY DEF SidecarsTypeOK
<1>2. last \in Nat /\ \A x \in 0..last : x \in 0..last'
  BY MaxSidecarAssumption DEF SidecarsTypeOK
<1>3. using' \in [Sender -> 0..last'] /\ refused' \in [Sender -> 0..last']
  BY <1>2 DEF SidecarsTypeOK
<1>4. ASSUME NEW d \in Sender PROVE Holding(d)'
  <2>1. CASE d = c  BY <2>1 DEF SidecarsTypeOK, Holding
  <2>2. CASE d # c  BY <2>2 DEF SidecarsTypeOK, Holding
  <2> QED  BY <2>1, <2>2
<1> QED  BY <1>1, <1>3, <1>4

(* A step of a sender that moves nothing of the manager and of the         *)
(* processes but what is cached and what is in the pipes.                  *)
LEMMA SenderType ==
  ASSUME SidecarsTypeOK, NEW c \in Sender, NEW step \in Control,
         NEW u \in 0..last, NEW t \in 0..last,
         pc' = [pc EXCEPT ![c] = step],
         using' = [using EXCEPT ![c] = u],
         refused' = [refused EXCEPT ![c] = t],
         (u # NoSidecar) <=> (step \in {"write", "writeAgain", "close", "reap"}),
         (t # NoSidecar) <=> (step \in {"drop", "close", "reap", "getAgain", "writeAgain"}),
         cached' \in {cached, NoSidecar},
         pipe' \in [Sidecar -> Seq(Sender \X Nat)],
         UNCHANGED <<closeAll, last, ending, life, injected, frame>>
  PROVE  SidecarsTypeOK'
<1>1. last \in Nat /\ last' = last /\ last' \in Nat /\ last' >= last
  BY MaxSidecarAssumption DEF SidecarsTypeOK
<1>2. /\ pc' \in [Sender -> Control]
      /\ using' \in [Sender -> 0..last'] /\ refused' \in [Sender -> 0..last']
      /\ \A d \in Sender : Holding(d)'
  BY <1>1, SenderStep
<1>3. cached' \in 0..last'  BY <1>1 DEF SidecarsTypeOK, NoSidecar
<1> QED  BY <1>1, <1>2, <1>3 DEF SidecarsTypeOK

(* A step of anything but a sender.                                        *)
LEMMA SendersRest ==
  ASSUME SidecarsTypeOK, UNCHANGED senders, UNCHANGED last
  PROVE  /\ pc' \in [Sender -> Control] /\ frame' \in [Sender -> Nat]
         /\ using' \in [Sender -> 0..last'] /\ refused' \in [Sender -> 0..last']
         /\ \A d \in Sender : Holding(d)'
BY DEF SidecarsTypeOK, senders, Holding

LEMMA SendNextType ==
  ASSUME SidecarsTypeOK, NEW c \in Sender, SendNext(c)
  PROVE  SidecarsTypeOK'
<1> USE DEF manager, process
<1>1. frame' \in [Sender -> Nat]  BY DEF SidecarsTypeOK, SendNext
<1>2. pc' \in [Sender -> Control]  BY DEF SidecarsTypeOK, SendNext, Goto, Control
<1>3. \A d \in Sender : Holding(d)'
  BY DEF SidecarsTypeOK, SendNext, Goto, Holding
<1> QED  BY <1>1, <1>2, <1>3 DEF SidecarsTypeOK, SendNext

(* A sidecar whose stdin is closed was born before.                        *)
LEMMA ClosedType ==
  ASSUME SidecarsTypeOK, NEW s \in 1..last, life' = Closed(s), UNCHANGED last
  PROVE  /\ life' \in [Sidecar -> Life]
         /\ \A t \in Sidecar : life'[t] = "unborn" <=> t > last'
<1>1. s \in Sidecar /\ life[s] # "unborn"
  BY MaxSidecarAssumption DEF SidecarsTypeOK, Sidecar
<1> QED  BY <1>1 DEF SidecarsTypeOK, Closed, Life

LEMMA SidecarsTypeStep == SidecarsTypeOK /\ (SidecarsNext \/ UNCHANGED svars) => SidecarsTypeOK'
<1> SUFFICES ASSUME SidecarsTypeOK, SidecarsNext \/ UNCHANGED svars PROVE SidecarsTypeOK'
  OBVIOUS
<1> USE DEF manager, process
<1>0. /\ last \in Nat /\ cached \in 0..last /\ 0 \in 0..last
      /\ \A c \in Sender : using[c] \in 0..last /\ refused[c] \in 0..last /\ Holding(c)
      /\ using = [c \in Sender |-> using[c]] /\ refused = [c \in Sender |-> refused[c]]
      /\ pipe \in [Sidecar -> Seq(Sender \X Nat)]
  BY MaxSidecarAssumption DEF SidecarsTypeOK
<1>1. CASE UNCHANGED svars
  BY <1>1, SendersRest DEF SidecarsTypeOK, svars, senders
<1>2. ASSUME NEW c \in Sender, GetCached(c) PROVE SidecarsTypeOK'
  <2>1. Then(pc[c]) \in Control /\ Then(pc[c]) \in {"write", "writeAgain"}
    BY DEF Then, Control
  <2>2. refused[c] # NoSidecar <=> Then(pc[c]) \in {"drop", "close", "reap", "getAgain", "writeAgain"}
    BY <1>0, <1>2 DEF GetCached, Then, Holding
  <2>3. refused' = [refused EXCEPT ![c] = refused[c]]  BY <1>0, <1>2 DEF GetCached
  <2> QED  BY <1>0, <1>2, <2>1, <2>2, <2>3, SenderType DEF GetCached, Goto, Use
<1>3. ASSUME NEW c \in Sender, GetNew(c) PROVE SidecarsTypeOK'
  <2>1. Then(pc[c]) \in Control /\ Then(pc[c]) \in {"write", "writeAgain"}
    BY DEF Then, Control
  <2>2. refused[c] # NoSidecar <=> Then(pc[c]) \in {"drop", "close", "reap", "getAgain", "writeAgain"}
    BY <1>0, <1>3 DEF GetNew, Then, Holding
  <2>3. refused' = [refused EXCEPT ![c] = refused[c]]  BY <1>0, <1>3 DEF GetNew
  <2>4. /\ last' = last + 1 /\ last' \in 0..MaxSidecar /\ last + 1 \in Sidecar /\ last + 1 # 0
        /\ last + 1 \in 0..last' /\ refused[c] \in 0..last' /\ last' >= last
    BY <1>0, <1>3, MaxSidecarAssumption DEF GetNew, Sidecar
  <2>5. /\ pc' \in [Sender -> Control]
        /\ using' \in [Sender -> 0..last'] /\ refused' \in [Sender -> 0..last']
        /\ \A d \in Sender : Holding(d)'
    <3>1. pc' = [pc EXCEPT ![c] = Then(pc[c])] /\ using' = [using EXCEPT ![c] = last']
      BY <1>3, <2>4 DEF GetNew, Goto, Use
    <3>2. last' \in Nat /\ last' \in 0..last' /\ last' # NoSidecar
      BY <1>0, <2>4 DEF NoSidecar
    <3> QED  BY <3>1, <3>2, <2>1, <2>2, <2>3, <2>4, SenderStep
  <2>6. life' \in [Sidecar -> Life] /\ \A s \in Sidecar : life'[s] = "unborn" <=> s > last'
    BY <1>0, <1>3, <2>4 DEF GetNew, SidecarsTypeOK, Life, Sidecar
  <2>7. ending' \in SUBSET (1..last') /\ cached' \in 0..last'
    BY <1>0, <1>3, <2>4 DEF GetNew, SidecarsTypeOK
  <2> QED  BY <1>3, <2>4, <2>5, <2>6, <2>7 DEF GetNew, SidecarsTypeOK
<1>4. ASSUME NEW c \in Sender, GetFails(c) PROVE SidecarsTypeOK'
  <2>1. using[c] = NoSidecar /\ using' = [using EXCEPT ![c] = using[c]]
    BY <1>0, <1>4 DEF GetFails, Holding
  <2> QED  BY <1>0, <1>4, <2>1, SenderType DEF GetFails, Goto, Refused, Control, NoSidecar
<1>5. ASSUME NEW c \in Sender, WriteFails(c) PROVE SidecarsTypeOK'
  <2>1. using[c] # NoSidecar  BY <1>0, <1>5 DEF WriteFails, Holding
  <2> QED  BY <1>0, <1>5, <2>1, SenderType DEF WriteFails, Goto, Use, Refused, Control, NoSidecar
<1>6. ASSUME NEW c \in Sender, WriteAgainFails(c) PROVE SidecarsTypeOK'
  BY <1>0, <1>6, SenderType DEF WriteAgainFails, Returned, Goto, Use, Refused, Control, NoSidecar
<1>7. ASSUME NEW c \in Sender, Write(c) PROVE SidecarsTypeOK'
  <2>1. using[c] # NoSidecar  BY <1>0, <1>7 DEF Write, Holding
  <2>2. using[c] \in Sidecar
    BY <1>0, <2>1, MaxSidecarAssumption DEF SidecarsTypeOK, NoSidecar, Sidecar
  <2>3. frame[c] \in Nat  BY DEF SidecarsTypeOK
  <2>4. pipe' \in [Sidecar -> Seq(Sender \X Nat)]
    BY <1>0, <1>7, <2>2, <2>3 DEF Write
  <2> QED  BY <1>0, <1>7, <2>4, SenderType DEF Write, Returned, Goto, Use, Refused, Control, NoSidecar
<1>8. ASSUME NEW c \in Sender, Drop(c) PROVE SidecarsTypeOK'
  <2>1. refused[c] # NoSidecar /\ refused' = [refused EXCEPT ![c] = refused[c]]
    BY <1>0, <1>8 DEF Drop, Holding
  <2> QED  BY <1>0, <1>8, <2>1, SenderType DEF Drop, Goto, Use, Control, NoSidecar
<1>9. ASSUME NEW c \in Sender, Reaped(c) PROVE SidecarsTypeOK'
  <2>1. refused[c] # NoSidecar /\ refused' = [refused EXCEPT ![c] = refused[c]]
    BY <1>0, <1>9 DEF Reaped, Holding
  <2> QED  BY <1>0, <1>9, <2>1, SenderType DEF Reaped, Goto, Use, Control, NoSidecar
<1>10. ASSUME NEW c \in Sender, Close(c) PROVE SidecarsTypeOK'
  <2>1. using[c] \in 1..last  BY <1>0, <1>10 DEF Close, Holding, NoSidecar
  <2>2. life' \in [Sidecar -> Life] /\ \A s \in Sidecar : life'[s] = "unborn" <=> s > last'
    BY <1>10, <2>1, ClosedType DEF Close
  <2>3. pc' \in [Sender -> Control] /\ \A d \in Sender : Holding(d)'
    BY <1>0, <1>10 DEF Close, Goto, Control, Holding, SidecarsTypeOK
  <2> QED  BY <1>10, <2>2, <2>3 DEF Close, SidecarsTypeOK
<1>11. ASSUME NEW s \in Sidecar, Inject(s) PROVE SidecarsTypeOK'
  <2>1. pipe[s] \in Seq(Sender \X Nat) /\ pipe[s] # <<>>
    BY <1>0, <1>11 DEF Inject
  <2>2. Head(pipe[s]) \in Sender \X Nat /\ Tail(pipe[s]) \in Seq(Sender \X Nat)
    BY <2>1
  <2>3. pipe' \in [Sidecar -> Seq(Sender \X Nat)] /\ injected' \in SUBSET (Sender \X Nat)
    BY <1>0, <1>11, <2>2 DEF Inject, SidecarsTypeOK
  <2> QED  BY <1>11, <2>3, SendersRest DEF SidecarsTypeOK, Inject
<1>12. ASSUME NEW s \in Sidecar, ProcessEnds(s) \/ ProcessDies(s) PROVE SidecarsTypeOK'
  <2>1. pipe' \in [Sidecar -> Seq(Sender \X Nat)]
    <3>1. <<>> \in Seq(Sender \X Nat)  OBVIOUS
    <3> QED  BY <3>1, <1>0, <1>12 DEF ProcessEnds, ProcessDies
  <2>2. life' \in [Sidecar -> Life] /\ \A t \in Sidecar : life'[t] = "unborn" <=> t > last'
    BY <1>12 DEF SidecarsTypeOK, ProcessEnds, ProcessDies, Running, Life
  <2> QED  BY <1>12, <2>1, <2>2, SendersRest DEF SidecarsTypeOK, ProcessEnds, ProcessDies
<1>13. ASSUME NEW s \in Sidecar, EndClose(s) PROVE SidecarsTypeOK'
  <2>1. s \in 1..last  BY <1>13 DEF EndClose, SidecarsTypeOK
  <2>2. life' \in [Sidecar -> Life] /\ \A t \in Sidecar : life'[t] = "unborn" <=> t > last'
    BY <1>13, <2>1, ClosedType DEF EndClose
  <2> QED  BY <1>13, <2>2, SendersRest DEF SidecarsTypeOK, EndClose
<1>14. CASE EndTake
  BY <1>14, <1>0, SendersRest DEF SidecarsTypeOK, EndTake, NoSidecar
<1>15. CASE ExitCloses
  <2>1. cached \in 1..last  BY <1>15, <1>0 DEF ExitCloses, NoSidecar
  <2>2. life' \in [Sidecar -> Life] /\ \A t \in Sidecar : life'[t] = "unborn" <=> t > last'
    BY <1>15, <2>1, ClosedType DEF ExitCloses
  <2> QED  BY <1>15, <2>2, SendersRest DEF SidecarsTypeOK, ExitCloses
<1>16. CASE ExitClosed
  BY <1>16, <1>0, SendersRest DEF SidecarsTypeOK, ExitClosed, NoSidecar
<1> QED
  BY <1>1, <1>2, <1>3, <1>4, <1>5, <1>6, <1>7, <1>8, <1>9, <1>10, <1>11, <1>12,
     <1>13, <1>14, <1>15, <1>16 DEF SidecarsNext

-----------------------------------------------------------------------------
(* store keeps at most the limit, and its list is the end of the old one   *)
(* with the new ID after it.                                               *)
LEMMA StoredKeeps ==
  ASSUME done \in Seq(ActId), Len(done) <= Remembered, NEW i \in ActId
  PROVE  /\ Stored(i) \in Seq(ActId)
         /\ Len(Stored(i)) = IF Len(done) < Remembered THEN Len(done) + 1 ELSE Remembered
         /\ \A k \in 1..Len(Stored(i)) :
              Stored(i)[k] = Append(done, i)[k + Len(done) + 1 - Len(Stored(i))]
<1> DEFINE all == Append(done, i)
<1>1. all \in Seq(ActId) /\ Len(all) = Len(done) + 1 /\ Len(done) \in Nat
  OBVIOUS
<1>2. CASE Len(done) < Remembered
  <2>1. Stored(i) = all  BY <1>1, <1>2, RememberedAssumption DEF Stored
  <2> QED  BY <2>1, <1>1, <1>2
<1>3. CASE Len(done) = Remembered
  <2>1. Stored(i) = SubSeq(all, 2, Len(all))
    BY <1>1, <1>3, RememberedAssumption DEF Stored
  <2>2. /\ SubSeq(all, 2, Len(all)) \in Seq(ActId)
        /\ Len(SubSeq(all, 2, Len(all))) = Remembered
        /\ \A k \in 1..Remembered : SubSeq(all, 2, Len(all))[k] = all[k + 1]
    BY <1>1, <1>3, RememberedAssumption, SubSeqProperties
  <2> QED  BY <2>1, <2>2, <1>1, <1>3, SMTT(30)
<1>4. Len(done) < Remembered \/ Len(done) = Remembered
  BY <1>1, RememberedAssumption
<1> QED  BY <1>2, <1>3, <1>4

LEMMA ActsTypeInit == Init => TypeOK
BY SidecarsTypeInit, RememberedAssumption, AskedAssumption DEF Init, TypeOK, Phase

LEMMA ActsTypeStep == TypeOK /\ [Next]_vars => TypeOK'
<1> SUFFICES ASSUME TypeOK, [Next]_vars PROVE TypeOK'  OBVIOUS
<1>1. CASE UNCHANGED vars \/ (SidecarsNext /\ UNCHANGED acts)
  BY <1>1, SidecarsTypeStep DEF TypeOK, vars, acts
<1>2. ASSUME NEW r \in Sender, Perform(r) \/ NextFrame(r) PROVE TypeOK'
  BY <1>2, SendNextType DEF TypeOK, Perform, NextFrame, acts, Phase
<1>3. ASSUME NEW r \in Sender, Answer(r) \/ Performed(r) \/ SettleFails(r) PROVE TypeOK'
  BY <1>3, SidecarsTypeStep DEF TypeOK, Answer, Performed, SettleFails, Phase
<1>4. ASSUME NEW r \in Sender, Settled(r) PROVE TypeOK'
  <2>1. SidecarsTypeOK'  BY <1>4, SidecarsTypeStep DEF TypeOK, Settled
  <2>2. done' \in Seq(ActId) /\ Len(done') <= Remembered /\ stored' \in Seq(ActId)
    BY <1>4, StoredKeeps, RememberedAssumption DEF TypeOK, Settled
  <2> QED  BY <1>4, <2>1, <2>2 DEF TypeOK, Settled, Phase
<1> QED  BY <1>1, <1>2, <1>3, <1>4 DEF Next

(* Every variable of the requests and of the sidecars stays in its range,  *)
(* and recentActs keeps no more results than its limit (act.go, sidecar.go).*)
THEOREM ActsTypeCorrect == Spec => []TypeOK
BY ActsTypeInit, ActsTypeStep, PTL DEF Spec

-----------------------------------------------------------------------------
(* What is remembered is the end of what was stored.                       *)
Remembers ==
  /\ Len(done) = IF Len(stored) < Remembered THEN Len(stored) ELSE Remembered
  /\ \A k \in 1..Len(done) : done[k] = stored[k + Len(stored) - Len(done)]

LEMMA RemembersStep == TypeOK /\ Remembers /\ [Next]_vars => Remembers'
<1> SUFFICES ASSUME TypeOK, Remembers, [Next]_vars PROVE Remembers'  OBVIOUS
<1>1. CASE UNCHANGED <<done, stored>>
  BY <1>1 DEF Remembers
<1>2. ASSUME NEW r \in Sender, Settled(r) PROVE Remembers'
  <2> DEFINE i == id[r]
             n == Len(done)
             m == Len(stored)
             n1 == Len(Stored(i))
  <2>1. i \in ActId /\ done \in Seq(ActId) /\ stored \in Seq(ActId) /\ n <= Remembered
    BY DEF TypeOK
  <2>2. n \in Nat /\ m \in Nat /\ Remembered \in Nat \ {0}
    BY <2>1, RememberedAssumption
  <2>3. done' = Stored(i) /\ stored' = Append(stored, i) /\ Len(stored') = m + 1
    BY <1>2, <2>1 DEF Settled
  <2>4. n1 = IF n < Remembered THEN n + 1 ELSE Remembered
    BY <2>1, StoredKeeps
  <2>5. n1 = IF m + 1 < Remembered THEN m + 1 ELSE Remembered
    BY <2>2, <2>4 DEF Remembers
  <2>0. n1 \in Nat /\ n1 <= n + 1 /\ n <= m
    BY <2>2, <2>4 DEF Remembers
  <2>6. ASSUME NEW k \in 1..n1 PROVE Stored(i)[k] = Append(stored, i)[k + m + 1 - n1]
    <3>1. Stored(i)[k] = Append(done, i)[k + n + 1 - n1]
      BY <2>1, StoredKeeps
    <3>2. CASE k = n1
      <4>1. Append(done, i)[n + 1] = i /\ Append(stored, i)[m + 1] = i
        BY <2>1
      <4>2. k + n + 1 - n1 = n + 1 /\ k + m + 1 - n1 = m + 1
        BY <3>2, <2>2, <2>0
      <4> QED  BY <3>1, <4>1, <4>2
    <3>3. CASE k # n1
      <4> DEFINE j == k + n + 1 - n1
      <4>1. n1 \in Nat /\ j \in 1..n /\ j + m - n = k + m + 1 - n1 /\ j + m - n \in 1..m
        BY <3>3, <2>2, <2>0
      <4>2. Append(done, i)[j] = done[j]  BY <4>1, <2>1
      <4>3. Append(stored, i)[j + m - n] = stored[j + m - n]  BY <4>1, <2>1
      <4>4. done[j] = stored[j + m - n]  BY <4>1 DEF Remembers
      <4> QED  BY <3>1, <4>1, <4>2, <4>3, <4>4
    <3> QED  BY <3>2, <3>3
  <2>7. \A k \in 1..Len(done') : done'[k] = stored'[k + Len(stored') - Len(done')]
    <3> SUFFICES ASSUME NEW k \in 1..n1 PROVE Stored(i)[k] = Append(stored, i)[k + (m + 1) - n1]
      BY <2>3
    <3>1. k + (m + 1) - n1 = k + m + 1 - n1  BY <2>0, <2>2
    <3> QED  BY <2>6, <3>1
  <2> QED  BY <2>3, <2>5, <2>7 DEF Remembers
<1> QED
  BY <1>1, <1>2 DEF Next, vars, acts, Answer, Perform, NextFrame, Performed, SettleFails

(* One of the last IDs stored is still remembered.                         *)
LEMMA LatestKnown ==
  ASSUME TypeOK, Remembers, NEW i \in ActId, Latest(i)
  PROVE  Known(i)
<1>1. PICK k \in 1..Len(stored) : k > Len(stored) - Remembered /\ stored[k] = i
  BY DEF Latest
<1> DEFINE j == k - Len(stored) + Len(done)
<1>2. Len(stored) \in Nat /\ Len(done) \in Nat /\ Remembered \in Nat
  BY RememberedAssumption DEF TypeOK
<1>3. j \in 1..Len(done) /\ j + Len(stored) - Len(done) = k
  BY <1>1, <1>2 DEF Remembers
<1>4. done[j] = stored[j + Len(stored) - Len(done)]
  BY <1>3 DEF Remembers
<1>5. done[j] = i  BY <1>1, <1>3, <1>4
<1> QED  BY <1>3, <1>5 DEF Known

(* An action that begins is none of the last Remembered ones answered, for *)
(* any number of requests and any limit (handleAct's lookup and store).    *)
THEOREM AnsweredOnce == Spec => AnsweredActsOnce
<1>1. Init => Remembers
  BY RememberedAssumption DEF Init, Remembers
<1>2. ASSUME TypeOK, Remembers, [Next]_vars
      PROVE  [\A r \in Sender : phase[r] = "new" /\ phase'[r] = "acting" => ~Latest(id[r])]_vars
  <2> SUFFICES ASSUME ~UNCHANGED vars, NEW r \in Sender, phase[r] = "new", phase'[r] = "acting"
               PROVE  ~Latest(id[r])
    OBVIOUS
  <2>1. PICK q \in Sender : Answer(q) \/ Perform(q) \/ NextFrame(q) \/ Performed(q) \/ Settled(q) \/ SettleFails(q)
    BY <1>2 DEF Next, acts, vars
  <2>2. Perform(q) /\ q = r
    BY <1>2, <2>1 DEF Answer, Perform, NextFrame, Performed, Settled, SettleFails, acts, TypeOK
  <2>3. ~Known(id[r]) /\ id[r] \in ActId
    BY <1>2, <2>2 DEF Perform, TypeOK
  <2> QED  BY <1>2, <2>3, LatestKnown
<1> QED
  BY <1>1, <1>2, ActsTypeInit, ActsTypeStep, RemembersStep, PTL DEF Spec, AnsweredActsOnce

-----------------------------------------------------------------------------
(* What the sender's retry rests on: once its Drop is done, what the       *)
(* manager knows is not the sidecar its first write failed on.             *)
Replaced ==
  \A c \in Sender :
    /\ pc[c] \in {"close", "reap", "getAgain", "writeAgain"} => cached # refused[c]
    /\ pc[c] = "writeAgain" => using[c] # refused[c]

(* What a sender that stays where it is keeps while nothing new is cached. *)
LEMMA ReplacedKept ==
  ASSUME SidecarsTypeOK, Replaced, NEW c \in Sender, cached' \in {cached, NoSidecar},
         pc'[c] = pc[c], using'[c] = using[c], refused'[c] = refused[c]
  PROVE  /\ pc'[c] \in {"close", "reap", "getAgain", "writeAgain"} => cached' # refused'[c]
         /\ pc'[c] = "writeAgain" => using'[c] # refused'[c]
BY DEF Replaced, SidecarsTypeOK, Holding

LEMMA SendNextReplaced ==
  ASSUME SidecarsTypeOK, Replaced, NEW c \in Sender, SendNext(c)
  PROVE  Replaced'
BY DEF SidecarsTypeOK, Replaced, SendNext, Goto, manager

LEMMA ReplacedStep == SidecarsTypeOK /\ Replaced /\ (SidecarsNext \/ UNCHANGED svars) => Replaced'
<1> SUFFICES ASSUME SidecarsTypeOK, Replaced, SidecarsNext \/ UNCHANGED svars PROVE Replaced'
  OBVIOUS
<1>0. pc \in [Sender -> Control] /\ using \in [Sender -> 0..last] /\ refused \in [Sender -> 0..last]
      /\ last \in Nat /\ \A c \in Sender : Holding(c)
  BY MaxSidecarAssumption DEF SidecarsTypeOK
<1>1. CASE UNCHANGED senders /\ cached' \in {cached, NoSidecar}
  BY <1>1, ReplacedKept DEF Replaced, senders
<1>2. ASSUME NEW c \in Sender, GetCached(c) PROVE Replaced'
  BY <1>0, <1>2 DEF Replaced, GetCached, Goto, Use, Then, manager
<1>3. ASSUME NEW c \in Sender, GetNew(c) PROVE Replaced'
  <2>1. /\ cached' = last + 1 /\ \A d \in Sender : refused'[d] = refused[d] /\ refused[d] # last + 1
        /\ \A d \in Sender : d # c => pc'[d] = pc[d] /\ using'[d] = using[d]
        /\ using'[c] = last + 1
    BY <1>0, <1>3 DEF GetNew, Goto, Use
  <2> QED  BY <2>1 DEF Replaced
<1>4. ASSUME NEW c \in Sender, GetFails(c) \/ WriteFails(c) \/ WriteAgainFails(c) \/ Write(c)
      PROVE  Replaced'
  BY <1>0, <1>4 DEF Replaced, GetFails, WriteFails, WriteAgainFails, Write, Returned, Goto, Use, Refused, manager
<1>5. ASSUME NEW c \in Sender, Drop(c) PROVE Replaced'
  <2>1. cached' = NoSidecar /\ refused' = refused /\ refused[c] # NoSidecar
    BY <1>0, <1>5 DEF Drop, Holding
  <2>2. \A d \in Sender : d # c => pc'[d] = pc[d] /\ using'[d] = using[d]
    BY <1>0, <1>5 DEF Drop, Goto, Use
  <2>3. pc'[c] \in {"getAgain", "close"}
    BY <1>0, <1>5 DEF Drop, Goto
  <2>4. ASSUME NEW d \in Sender, pc'[d] \in {"close", "reap", "getAgain", "writeAgain"}
        PROVE  cached' # refused'[d]
    BY <1>0, <2>1, <2>2, <2>4 DEF Holding
  <2>5. ASSUME NEW d \in Sender, pc'[d] = "writeAgain" PROVE using'[d] # refused'[d]
    BY <2>1, <2>2, <2>3, <2>5 DEF Replaced
  <2> QED  BY <2>4, <2>5 DEF Replaced
<1>6. ASSUME NEW c \in Sender, Close(c) \/ Reaped(c) PROVE Replaced'
  BY <1>0, <1>6 DEF Replaced, Close, Reaped, Goto, Use, manager
<1> QED
  BY <1>1, <1>2, <1>3, <1>4, <1>5, <1>6
  DEF SidecarsNext, svars, senders, manager, Inject, ProcessEnds, ProcessDies, EndClose,
      EndTake, ExitCloses, ExitClosed

(* No sidecar is left open that nobody knows.                              *)
LEMMA LeakStep ==
  SidecarsTypeOK /\ NoSidecarLeaked /\ (SidecarsNext \/ UNCHANGED svars) => NoSidecarLeaked'
<1> SUFFICES ASSUME SidecarsTypeOK, NoSidecarLeaked, SidecarsNext \/ UNCHANGED svars,
                    NEW s \in Sidecar, life'[s] = "open"
             PROVE  \/ s = cached' \/ s \in ending'
                    \/ \E c \in Sender : pc'[c] = "close" /\ using'[c] = s
  BY DEF NoSidecarLeaked
<1> USE DEF manager, process, senders
<1>0. /\ pc \in [Sender -> Control] /\ using \in [Sender -> 0..last]
      /\ life \in [Sidecar -> Life] /\ cached \in 0..last /\ last \in Nat
  BY MaxSidecarAssumption DEF SidecarsTypeOK
<1>1. ASSUME life[s] = "open", s = cached => s = cached' \/ s \in ending',
             s \in ending => s \in ending',
             \A c \in Sender : pc[c] = "close" /\ using[c] = s => pc'[c] = "close" /\ using'[c] = s
      PROVE  \/ s = cached' \/ s \in ending'
             \/ \E c \in Sender : pc'[c] = "close" /\ using'[c] = s
  BY <1>1 DEF NoSidecarLeaked
<1>2. CASE UNCHANGED svars
  BY <1>1, <1>2 DEF svars
<1>3. ASSUME NEW c \in Sender, GetCached(c) \/ GetFails(c) \/ Write(c) \/ WriteFails(c) \/ WriteAgainFails(c) \/ Reaped(c)
      PROVE  life[s] = "open" /\ cached' = cached /\ ending' = ending
             /\ \A d \in Sender : pc[d] = "close" => pc'[d] = "close" /\ using'[d] = using[d]
  BY <1>0, <1>3 DEF GetCached, GetFails, Write, WriteFails, WriteAgainFails, Reaped, Returned, Goto, Use
<1>4. ASSUME NEW c \in Sender, GetNew(c)
      PROVE  \/ s = cached'
             \/ /\ life[s] = "open" /\ cached = NoSidecar /\ ending' = ending
                /\ \A d \in Sender : pc[d] = "close" => pc'[d] = "close" /\ using'[d] = using[d]
  BY <1>0, <1>4 DEF GetNew, Goto, Use
<1>5. ASSUME NEW c \in Sender, Drop(c)
      PROVE  \/ s = cached' \/ s \in ending'
             \/ \E d \in Sender : pc'[d] = "close" /\ using'[d] = s
  <2>1. life[s] = "open" /\ ending' = ending
        /\ \A d \in Sender : pc[d] = "close" => pc'[d] = "close" /\ using'[d] = using[d]
    BY <1>0, <1>5 DEF Drop, Goto, Use
  <2>2. s # NoSidecar  BY DEF Sidecar, NoSidecar
  <2>3. s = cached => pc'[c] = "close" /\ using'[c] = s
    BY <1>0, <1>5, <2>2 DEF Drop, Goto, Use
  <2> QED  BY <2>1, <2>3 DEF NoSidecarLeaked
<1>6. ASSUME NEW t \in Sidecar, life' = Closed(t), life'[s] = "open"
      PROVE  s # t /\ life[s] = "open"
  BY <1>0, <1>6 DEF Closed, Life
<1>7. ASSUME NEW c \in Sender, Close(c)
      PROVE  \/ s = cached' \/ s \in ending'
             \/ \E d \in Sender : pc'[d] = "close" /\ using'[d] = s
  <2>1. using[c] # NoSidecar  BY <1>7 DEF Close, SidecarsTypeOK, Holding
  <2>2. using[c] \in Sidecar  BY <1>0, <2>1, MaxSidecarAssumption DEF SidecarsTypeOK, Sidecar, NoSidecar
  <2>3. s # using[c] /\ life[s] = "open"  BY <1>7, <2>2, <1>6 DEF Close
  <2>4. \A d \in Sender : d # c => pc'[d] = pc[d]  BY <1>0, <1>7 DEF Close, Goto
  <2> QED  BY <1>7, <2>3, <2>4 DEF Close, NoSidecarLeaked
<1>8. ASSUME NEW t \in Sidecar, Inject(t) \/ ProcessEnds(t) \/ ProcessDies(t)
      PROVE  life[s] = "open" /\ cached' = cached /\ ending' = ending /\ pc' = pc /\ using' = using
  BY <1>0, <1>8 DEF Inject, ProcessEnds, ProcessDies
<1>9. ASSUME NEW t \in Sidecar, EndClose(t)
      PROVE  life[s] = "open" /\ s # t /\ cached' = cached /\ ending' = ending \ {t} /\ pc' = pc /\ using' = using
  BY <1>6, <1>9 DEF EndClose
<1>10. CASE EndTake
  BY <1>1, <1>10 DEF EndTake
<1>11. CASE ExitCloses
  <2>1. cached \in Sidecar
    BY <1>0, <1>11, MaxSidecarAssumption DEF ExitCloses, SidecarsTypeOK, Sidecar, NoSidecar
  <2> QED  BY <1>1, <1>6, <1>11, <2>1 DEF ExitCloses
<1>12. CASE ExitClosed
  <2>1. life[cached] = "gone" /\ life[s] = "open"  BY <1>12 DEF ExitClosed
  <2>2. s # cached  BY <2>1
  <2> QED  BY <1>1, <1>12, <2>1, <2>2 DEF ExitClosed
<1> QED
  <2>1. ASSUME NEW c \in Sender,
               \/ GetCached(c) \/ GetFails(c) \/ Write(c) \/ WriteFails(c) \/ WriteAgainFails(c) \/ Reaped(c)
               \/ GetNew(c) \/ Drop(c) \/ Close(c)
        PROVE  \/ s = cached' \/ s \in ending'
               \/ \E d \in Sender : pc'[d] = "close" /\ using'[d] = s
    <3>1. CASE GetNew(c)
      <4>1. s # NoSidecar  BY DEF Sidecar, NoSidecar
      <4> QED  BY <3>1, <4>1, <1>1, <1>4
    <3> QED  BY <2>1, <3>1, <1>1, <1>3, <1>5, <1>7
  <2>2. ASSUME NEW t \in Sidecar, Inject(t) \/ ProcessEnds(t) \/ ProcessDies(t) \/ EndClose(t)
        PROVE  \/ s = cached' \/ s \in ending'
               \/ \E d \in Sender : pc'[d] = "close" /\ using'[d] = s
    BY <2>2, <1>1, <1>8, <1>9
  <2> QED  BY <2>1, <2>2, <1>2, <1>10, <1>11, <1>12 DEF SidecarsNext

LEMMA SendNextLeak ==
  ASSUME SidecarsTypeOK, NoSidecarLeaked, NEW c \in Sender, SendNext(c)
  PROVE  NoSidecarLeaked'
BY DEF SidecarsTypeOK, NoSidecarLeaked, SendNext, Goto, manager, process

(* What a step of a request does to the sidecars.                          *)
LEMMA Steps ==
  ASSUME [Next]_vars
  PROVE  \/ SidecarsNext \/ UNCHANGED svars
         \/ \E r \in Sender : SendNext(r)
BY DEF Next, vars, acts, Answer, Perform, NextFrame, Performed, Settled, SettleFails

(* No input sidecar is left running that nobody can stop, for any number   *)
(* of senders, of sidecars and of frames (Manager.Drop, CloseAll).         *)
THEOREM NoLeak == Spec => []NoSidecarLeaked
<1>1. Init => NoSidecarLeaked
  BY DEF Init, SidecarsInit, NoSidecarLeaked
<1>2. TypeOK /\ NoSidecarLeaked /\ [Next]_vars => NoSidecarLeaked'
  BY Steps, LeakStep, SendNextLeak DEF TypeOK
<1> QED  BY <1>1, <1>2, ActsTypeInit, ActsTypeStep, PTL DEF Spec

(* The second attempt of SendFrame is on another sidecar than the first,   *)
(* for any number of senders and of sidecars, whoever replaced it.         *)
THEOREM Retries == Spec => []RetriesElsewhere
<1>1. Init => Replaced
  BY DEF Init, SidecarsInit, Replaced
<1>2. TypeOK /\ Replaced /\ [Next]_vars => Replaced'
  BY Steps, ReplacedStep, SendNextReplaced DEF TypeOK
<1>3. Replaced => RetriesElsewhere
  BY DEF Replaced, RetriesElsewhere
<1> QED  BY <1>1, <1>2, <1>3, ActsTypeInit, ActsTypeStep, PTL DEF Spec
-----------------------------------------------------------------------------
(* Why no frame is injected twice: what is in a pipe or was injected has    *)
(* been written, so that a frame yet to be written is nowhere, and what is  *)
(* in a pipe is at one place and was not injected.                          *)
SentFrame == Sender \X Nat
Written(f) ==
  f[2] <= frame[f[1]] /\ (f[2] = frame[f[1]] => pc[f[1]] \in {"idle", "sent"})

Once ==
  \A f \in SentFrame :
    /\ f \in injected => Written(f)
    /\ \A s \in Sidecar : \A i \in At(f, s) :
         /\ Written(f) /\ f \notin injected
         /\ \A t \in Sidecar : \A j \in At(f, t) : s = t /\ i = j

LEMMA OnceImplies == SidecarsTypeOK /\ Once => FrameOnce
<1> SUFFICES ASSUME SidecarsTypeOK, Once, NEW c \in Sender, NEW n \in 1..frame[c], NEW f, f = <<c, n>>
             PROVE  /\ \A s, t \in Sidecar : \A i \in At(f, s), j \in At(f, t) : s = t /\ i = j
                    /\ f \in injected => \A s \in Sidecar : At(f, s) = {}
                    /\ n = frame[c] /\ pc[c] \notin {"idle", "sent"} =>
                         f \notin injected /\ \A s \in Sidecar : At(f, s) = {}
  BY DEF FrameOnce
<1>1. f \in SentFrame /\ f[1] = c /\ f[2] = n  BY DEF SidecarsTypeOK, SentFrame
<1>2. ASSUME n = frame[c], pc[c] \notin {"idle", "sent"} PROVE ~Written(f)
  BY <1>1, <1>2 DEF Written
<1> QED  BY <1>1, <1>2 DEF Once

(* What was written stays so while senders go on, for only a new frame moves *)
(* one away from "sent".                                                     *)
LEMMA WrittenKept ==
  ASSUME NEW f \in SentFrame, Written(f), frame' = frame,
         \A c \in Sender : pc[c] \in {"idle", "sent"} => pc'[c] = pc[c]
  PROVE  Written(f)'
BY DEF Written, SentFrame

LEMMA SendNextOnce ==
  ASSUME SidecarsTypeOK, Once, NEW c \in Sender, SendNext(c)
  PROVE  Once'
<1>1. /\ pipe' = pipe /\ injected' = injected
      /\ frame \in [Sender -> Nat] /\ frame' = [frame EXCEPT ![c] = @ + 1]
      /\ pc \in [Sender -> Control] /\ pc' = [pc EXCEPT ![c] = "get"]
  BY DEF SendNext, SidecarsTypeOK, process, Goto
<1>2. ASSUME NEW f \in SentFrame, Written(f) PROVE Written(f)'
  <2>1. f[1] \in Sender /\ f[2] \in Nat  BY DEF SentFrame
  <2>2. CASE f[1] = c  BY <1>1, <1>2, <2>1, <2>2 DEF Written
  <2>3. CASE f[1] # c  BY <1>1, <1>2, <2>1, <2>3 DEF Written
  <2> QED  BY <2>2, <2>3
<1>3. \A f, s : At(f, s)' = At(f, s)  BY <1>1 DEF At
<1> QED  BY <1>1, <1>2, <1>3 DEF Once

(* A step that writes and injects nothing, and of a pipe may lose all.      *)
LEMMA QuietOnce ==
  ASSUME SidecarsTypeOK, Once, frame' = frame, injected' = injected,
         \A s \in Sidecar : pipe'[s] = pipe[s] \/ pipe'[s] = <<>>,
         \A c \in Sender : pc[c] \in {"idle", "sent"} => pc'[c] = pc[c]
  PROVE  Once'
<1>1. \A f \in SentFrame : Written(f) => Written(f)'  BY WrittenKept
<1>2. \A f \in SentFrame, s \in Sidecar : At(f, s)' \subseteq At(f, s)  BY DEF At
<1> QED  BY <1>1, <1>2 DEF Once

LEMMA OnceStep == SidecarsTypeOK /\ Once /\ (SidecarsNext \/ UNCHANGED svars) => Once'
<1> SUFFICES ASSUME SidecarsTypeOK, Once, SidecarsNext \/ UNCHANGED svars PROVE Once'
  OBVIOUS
<1>0. /\ pc \in [Sender -> Control] /\ frame \in [Sender -> Nat] /\ last \in Nat
      /\ using \in [Sender -> 0..last] /\ last <= MaxSidecar /\ MaxSidecar \in Nat
      /\ pipe \in [Sidecar -> Seq(SentFrame)]
      /\ \A c \in Sender : Holding(c)
  BY MaxSidecarAssumption DEF SidecarsTypeOK, SentFrame
<1>1. ASSUME UNCHANGED <<frame, injected, pc>>,
             \A s \in Sidecar : pipe'[s] = pipe[s] \/ pipe'[s] = <<>>
      PROVE  Once'
  BY <1>1, QuietOnce
<1>2. ASSUME NEW c \in Sender,
             \/ GetCached(c) \/ GetNew(c) \/ GetFails(c) \/ WriteFails(c) \/ WriteAgainFails(c)
             \/ Drop(c) \/ Close(c) \/ Reaped(c)
      PROVE  Once'
  <2>1. UNCHANGED <<pipe, injected, frame>>
    BY <1>2 DEF GetCached, GetNew, GetFails, WriteFails, WriteAgainFails, Drop, Close, Reaped,
                manager, process
  <2>2. pc[c] \notin {"idle", "sent"} /\ \A d \in Sender : d # c => pc'[d] = pc[d]
    BY <1>0, <1>2 DEF GetCached, GetNew, GetFails, WriteFails, WriteAgainFails, Drop, Close, Reaped,
                Goto, Returned
  <2> QED  BY <2>1, <2>2, QuietOnce
<1>3. ASSUME NEW c \in Sender, Write(c) PROVE Once'
  <2> DEFINE u == using[c]
  <2> SUFFICES ASSUME NEW new, new = <<c, frame[c]>> PROVE Once'
    OBVIOUS
  <2>1. u \in Sidecar  BY <1>0, <1>3 DEF Write, Holding, NoSidecar, Sidecar
  <2>2. new \in SentFrame /\ new[1] = c /\ new[2] = frame[c] /\ pc[c] \in {"write", "writeAgain"}
    BY <1>0, <1>3 DEF Write, SentFrame
  <2>3. ~Written(new)  BY <2>2 DEF Written
  <2>4. pipe' = [pipe EXCEPT ![u] = Append(@, new)] /\ UNCHANGED <<injected, frame>>
    BY <1>3 DEF Write
  <2>5. pc' = [pc EXCEPT ![c] = "sent"]
    BY <1>3 DEF Write, Returned, Goto
  <2>6. Written(new)'  BY <1>0, <2>2, <2>4, <2>5 DEF Written
  <2>7. \A f \in SentFrame : Written(f) => Written(f)'
    BY <1>0, <2>2, <2>4, <2>5, WrittenKept
  <2>8. pipe[u] \in Seq(SentFrame) /\ Len(pipe[u]) \in Nat /\ pipe'[u] = Append(pipe[u], new)
    BY <1>0, <2>1, <2>4
  <2>9. ASSUME NEW f \in SentFrame, NEW s \in Sidecar, f # new \/ s # u PROVE At(f, s)' = At(f, s)
    <3>1. CASE s = u
      BY <2>8, <2>2, <2>9, <3>1, SMTT(30) DEF At
    <3>2. CASE s # u
      BY <1>0, <2>4, <3>2 DEF At
    <3> QED  BY <3>1, <3>2
  <2>10. \A i \in 1..Len(pipe'[u]) :
            (i \in 1..Len(pipe[u]) /\ pipe'[u][i] = pipe[u][i]) \/ i = Len(pipe[u]) + 1
    BY <2>8, <2>2
  <2>11. new \notin injected /\ \A s \in Sidecar : At(new, s) = {}
    BY <2>2, <2>3 DEF Once
  <2>12. ASSUME NEW f \in SentFrame, f # new
         PROVE  /\ f \in injected' => Written(f)'
                /\ \A s \in Sidecar : \A i \in At(f, s)' :
                     /\ Written(f)' /\ f \notin injected'
                     /\ \A t \in Sidecar : \A j \in At(f, t)' : s = t /\ i = j
    BY <2>12, <2>4, <2>7, <2>9 DEF Once
  <2>13. ASSUME NEW s \in Sidecar, NEW i \in At(new, s)'
         PROVE  s = u /\ i = Len(pipe[u]) + 1
    <3>1. s = u
      <4>1. CASE s # u  BY <2>2, <2>9, <2>11, <2>13, <4>1
      <4> QED  BY <4>1
    <3>2. i \in 1..Len(pipe'[u]) /\ pipe'[u][i] = new
      BY <2>13, <3>1 DEF At
    <3>3. i \notin 1..Len(pipe[u]) \/ pipe[u][i] # new
      BY <2>1, <2>11 DEF At
    <3> QED  BY <2>10, <3>1, <3>2, <3>3
  <2>14. ASSUME NEW f \in SentFrame, f = new
         PROVE  /\ f \in injected' => Written(f)'
                /\ \A s \in Sidecar : \A i \in At(f, s)' :
                     /\ Written(f)' /\ f \notin injected'
                     /\ \A t \in Sidecar : \A j \in At(f, t)' : s = t /\ i = j
    <3>1. Written(f)'  BY <2>14, <2>6, <2>4 DEF Written
    <3>2. f \notin injected'  BY <2>14, <2>4, <2>11
    <3>3. \A s \in Sidecar : \A i \in At(f, s)' : s = u /\ i = Len(pipe[u]) + 1
      BY <2>14, <2>13 DEF At
    <3> QED  BY <3>1, <3>2, <3>3
  <2> QED  BY <2>12, <2>14 DEF Once
<1>4. ASSUME NEW s \in Sidecar, Inject(s) PROVE Once'
  <2> SUFFICES ASSUME NEW head, head = Head(pipe[s]) PROVE Once'
    OBVIOUS
  <2>1. /\ pipe[s] \in Seq(SentFrame) /\ pipe[s] # <<>>
        /\ injected' = injected \cup {head} /\ pipe' = [pipe EXCEPT ![s] = Tail(@)]
        /\ UNCHANGED <<pc, frame>>
    BY <1>0, <1>4 DEF Inject, senders
  <2>2. /\ head \in SentFrame /\ head = pipe[s][1] /\ 1 \in 1..Len(pipe[s])
        /\ Len(pipe[s]) \in Nat /\ Len(pipe'[s]) = Len(pipe[s]) - 1
        /\ \A i \in 1..Len(pipe'[s]) : i + 1 \in 1..Len(pipe[s]) /\ pipe'[s][i] = pipe[s][i + 1]
    BY <1>0, <2>1
  <2>3. 1 \in At(head, s)  BY <2>2 DEF At
  <2>4. \A f \in SentFrame : Written(f)' <=> Written(f)  BY <2>1 DEF Written
  <2>5. ASSUME NEW f \in SentFrame, NEW t \in Sidecar, NEW i \in At(f, t)'
        PROVE  IF t = s THEN i \in Nat /\ i # 0 /\ i + 1 \in At(f, t) ELSE i \in At(f, t)
    BY <1>0, <2>1, <2>2, <2>5 DEF At
  <2>6. \A t \in Sidecar : At(head, t)' = {}
    <3> SUFFICES ASSUME NEW t \in Sidecar, NEW i \in At(head, t)' PROVE FALSE
      OBVIOUS
    <3> QED  BY <2>2, <2>3, <2>5 DEF Once
  <2>7. ASSUME NEW f \in SentFrame, f # head
        PROVE  /\ f \in injected' => Written(f)'
               /\ \A t \in Sidecar : \A i \in At(f, t)' :
                    /\ Written(f)' /\ f \notin injected'
                    /\ \A q \in Sidecar : \A j \in At(f, q)' : t = q /\ i = j
    BY <2>1, <2>4, <2>5, <2>7 DEF Once
  <2>8. Written(head)  BY <2>2, <2>3 DEF Once
  <2>9. ASSUME NEW f \in SentFrame, f = head
        PROVE  Written(f)' /\ \A t \in Sidecar : At(f, t)' = {}
    BY <2>9, <2>4, <2>6, <2>8 DEF At
  <2> QED  BY <2>7, <2>9 DEF Once
<1>5. ASSUME NEW s \in Sidecar, ProcessDies(s) PROVE Once'
  BY <1>0, <1>1, <1>5 DEF ProcessDies, senders
<1>6. ASSUME NEW s \in Sidecar, ProcessEnds(s) \/ EndClose(s) PROVE Once'
  <2>1. UNCHANGED <<frame, injected, pc, pipe>>
    BY <1>6 DEF ProcessEnds, EndClose, senders
  <2> QED  BY <2>1, <1>1
<1>7. CASE EndTake \/ ExitCloses \/ ExitClosed \/ UNCHANGED svars
  <2>1. UNCHANGED <<frame, injected, pc, pipe>>
    BY <1>7 DEF EndTake, ExitCloses, ExitClosed, svars, process, senders
  <2> QED  BY <2>1, <1>1
<1> QED  BY <1>2, <1>3, <1>4, <1>5, <1>6, <1>7 DEF SidecarsNext

(* SendFrame's retry never has a frame injected twice, however many senders *)
(* share the sidecar, and whatever dies or is dropped meanwhile.            *)
THEOREM NoFrameTwice == Spec => []FrameOnce
<1>1. Init => Once
  BY DEF Init, SidecarsInit, Once, At
<1>2. TypeOK /\ Once /\ [Next]_vars => Once'
  BY Steps, OnceStep, SendNextOnce DEF TypeOK
<1>3. TypeOK /\ Once => FrameOnce
  BY OnceImplies DEF TypeOK
<1> QED  BY <1>1, <1>2, <1>3, ActsTypeInit, ActsTypeStep, PTL DEF Spec

-----------------------------------------------------------------------------
(* AndroidInput: the invariants of the translator, and that what it      *)
(* buffers is a queue: each step of the page and of the timer adds to    *)
(* its end or flushes all of it.                                         *)

(* What every step does to the buffer and to what the device got.          *)
Buffered ==
  \/ textBuf' = textBuf /\ device' = device
  \/ sent' # sent /\ textBuf' = Append(textBuf, sent') /\ device' = device
  \/ \E ok \in BOOLEAN, rest \in {<<>>, <<sent'>>} :
       Flushed(ok, rest) /\ (rest # <<>> => sent' # sent)

LEMMA StepBuffers ==
  ASSUME TranslatorTypeOK, [TranslatorNext]_translatorVars
  PROVE  Buffered /\ sent' \in 0..MaxFrame /\ sent' >= sent
<1> USE DEF page, text, touch, driver, Frame
<1>0. sent \in 0..MaxFrame /\ MaxFrame \in Nat  BY MaxFrameAssumption DEF TranslatorTypeOK
<1>1. CASE UNCHANGED translatorVars \/ System \/ Unresolved \/ Fires
  BY <1>0, <1>1 DEF translatorVars, System, Unresolved, Fires, Buffered
<1>2. CASE Type
  BY <1>0, <1>2 DEF Type, Buffered
<1>3. CASE ControlKey
  <2>1. PICK ok \in Ok, rest \in {<<>>, <<sent'>>} : Flushed(ok, rest)
    BY <1>3 DEF ControlKey
  <2>2. ok \in BOOLEAN  BY DEF Ok
  <2>3. sent' \in 0..MaxFrame /\ sent' >= sent /\ sent' # sent
    BY <1>0, <1>3 DEF ControlKey
  <2>4. Buffered  BY <2>1, <2>2, <2>3 DEF Buffered
  <2> QED  BY <2>3, <2>4
<1>4. CASE TouchDown \/ TouchMove \/ Flush \/ FlushLate
  <2>1. PICK ok \in Ok : Flushed(ok, <<>>)
    BY <1>4 DEF TouchDown, TouchMove, Flush, FlushLate
  <2>2. sent' \in 0..MaxFrame /\ sent' >= sent
    BY <1>0, <1>4 DEF TouchDown, TouchMove, Flush, FlushLate
  <2> QED  BY <2>1, <2>2 DEF Ok, Buffered
<1>5. CASE TouchUp
  <2>1. PICK ok \in Ok, rest \in {<<>>, <<sent'>>} : Flushed(ok, rest)
    BY <1>5 DEF TouchUp
  <2>2. ok \in BOOLEAN  BY DEF Ok
  <2>3. sent' \in 0..MaxFrame /\ sent' >= sent /\ sent' # sent
    BY <1>0, <1>5 DEF TouchUp
  <2>4. Buffered  BY <2>1, <2>2, <2>3 DEF Buffered
  <2> QED  BY <2>3, <2>4
<1> QED  BY <1>1, <1>2, <1>3, <1>4, <1>5 DEF TranslatorNext

LEMMA BufferType ==
  ASSUME TranslatorTypeOK, Buffered, sent' \in 0..MaxFrame, sent' >= sent
  PROVE  textBuf' \in Seq(1..sent') /\ device' \in Seq(1..sent')
<1>0. /\ sent \in Nat /\ sent' \in Nat
      /\ textBuf \in Seq(1..sent) /\ device \in Seq(1..sent)
  BY MaxFrameAssumption DEF TranslatorTypeOK
<1>1. textBuf \in Seq(1..sent') /\ device \in Seq(1..sent')
  <2>1. 1..sent \subseteq 1..sent'  BY <1>0
  <2> QED  BY <1>0, <2>1
<1>2. CASE sent' # sent /\ textBuf' = Append(textBuf, sent') /\ device' = device
  <2>1. sent' \in 1..sent'  BY <1>0, <1>2
  <2> QED  BY <1>1, <1>2, <2>1
<1>3. ASSUME NEW ok \in BOOLEAN, NEW rest \in {<<>>, <<sent'>>},
             Flushed(ok, rest), rest # <<>> => sent' # sent
      PROVE  textBuf' \in Seq(1..sent') /\ device' \in Seq(1..sent')
  <2>1. rest \in Seq(1..sent')
    <3>1. CASE rest = <<>>  BY <3>1
    <3>2. CASE rest = <<sent'>>
      <4>1. sent' \in 1..sent'  BY <1>0, <1>3, <3>2
      <4> QED  BY <3>2, <4>1
    <3> QED  BY <3>1, <3>2
  <2>2. device \o textBuf \o rest \in Seq(1..sent')  BY <1>1, <2>1
  <2>3. textBuf' = <<>> /\ (device' = device \/ device' = device \o textBuf \o rest)
    BY <1>3 DEF Flushed
  <2>4. <<>> \in Seq(1..sent')  OBVIOUS
  <2> QED  BY <1>1, <2>2, <2>3, <2>4
<1> QED  BY <1>1, <1>2, <1>3 DEF Buffered

(* Numbers of frames stay numbers of frames as more are sent.              *)
LEMMA FramesGrow ==
  ASSUME TranslatorTypeOK, sent' \in 0..MaxFrame, sent' >= sent
  PROVE  /\ gestures \subseteq (1..sent') \X Point \X Point
         /\ system \subseteq 1..sent'
<1>1. sent \in Nat /\ sent' \in Nat  BY MaxFrameAssumption DEF TranslatorTypeOK
<1>2. 1..sent \subseteq 1..sent'  BY <1>1
<1> QED  BY <1>2 DEF TranslatorTypeOK

LEMMA TranslatorTypeInit == TranslatorInit => TranslatorTypeOK
<1> SUFFICES ASSUME TranslatorInit PROVE TranslatorTypeOK  OBVIOUS
<1>1. sent \in 0..MaxFrame /\ late \in Nat  BY MaxFrameAssumption DEF TranslatorInit
<1>2. seen \in BOOLEAN /\ size \in BOOLEAN /\ down \in BOOLEAN /\ ~down  BY DEF TranslatorInit
<1>3. textBuf \in Seq(1..sent) /\ device \in Seq(1..sent)  BY DEF TranslatorInit
<1>4. gestures \subseteq (1..sent) \X Point \X Point /\ system \subseteq 1..sent  BY DEF TranslatorInit
<1>5. finger \in Point \cup {NoPoint} /\ start \in Point \cup {NoPoint} /\ timer = "none"  BY DEF TranslatorInit
<1> QED  BY <1>1, <1>2, <1>3, <1>4, <1>5 DEF TranslatorTypeOK

LEMMA TranslatorTypeStep == TranslatorTypeOK /\ [TranslatorNext]_translatorVars => TranslatorTypeOK'
<1> SUFFICES ASSUME TranslatorTypeOK, [TranslatorNext]_translatorVars PROVE TranslatorTypeOK'  OBVIOUS
<1> USE DEF page, text, touch, driver, Frame
<1>0. /\ sent' \in 0..MaxFrame /\ sent' >= sent
      /\ textBuf' \in Seq(1..sent') /\ device' \in Seq(1..sent')
      /\ gestures \subseteq (1..sent') \X Point \X Point /\ system \subseteq 1..sent'
  BY StepBuffers, BufferType, FramesGrow
<1>1. CASE UNCHANGED translatorVars
  BY <1>0, <1>1 DEF TranslatorTypeOK, translatorVars
<1>2. CASE Fires
  BY <1>0, <1>2 DEF TranslatorTypeOK, Fires
<1>3. CASE Type
  BY <1>0, <1>3 DEF TranslatorTypeOK, Type
<1>4. CASE Unresolved
  <2>1. finger' \in Point \cup {NoPoint} /\ seen' \in BOOLEAN
    BY <1>4 DEF TranslatorTypeOK, Unresolved
  <2> QED  BY <1>0, <1>4, <2>1 DEF TranslatorTypeOK, Unresolved
<1>5. CASE System
  <2>1. sent' \in 1..sent'  BY <1>5, MaxFrameAssumption DEF System, TranslatorTypeOK
  <2> QED  BY <1>0, <1>5, <2>1 DEF TranslatorTypeOK, System
<1>6. CASE ControlKey
  <2>1. timer' = "none"  BY <1>6 DEF ControlKey, Flushed
  <2> QED  BY <1>0, <1>6, <2>1 DEF TranslatorTypeOK, ControlKey
<1>7. CASE TouchDown
  <2>1. PICK ok \in Ok, measured \in BOOLEAN :
          /\ timer' = "none" /\ size' = (size \/ (ok /\ measured))
          /\ seen' = (ok /\ (size \/ measured)) /\ down' = (down \/ seen')
          /\ start' = IF seen' THEN finger' ELSE start
    BY <1>7 DEF TouchDown, Flushed, Measured, Touched
  <2>2. ok \in BOOLEAN  BY <2>1 DEF Ok
  <2>3. seen' \in BOOLEAN /\ size' \in BOOLEAN /\ down' \in BOOLEAN
    BY <2>1, <2>2 DEF TranslatorTypeOK
  <2>4. finger' \in Point /\ finger' # NoPoint
    BY <1>7, NoPointAssumption DEF TouchDown
  <2>5. start' \in Point \cup {NoPoint} /\ (down' => start' # NoPoint)
    BY <2>1, <2>3, <2>4 DEF TranslatorTypeOK
  <2> QED  BY <1>0, <1>7, <2>1, <2>3, <2>4, <2>5 DEF TranslatorTypeOK, TouchDown
<1>8. CASE TouchMove
  <2>1. timer' = "none" /\ size' \in BOOLEAN
    BY <1>8 DEF TouchMove, Flushed, Measured, Ok, TranslatorTypeOK
  <2> QED  BY <1>0, <1>8, <2>1 DEF TranslatorTypeOK, TouchMove
<1>9. CASE TouchUp
  <2>1. PICK ok \in Ok, measured \in BOOLEAN, to \in Point, ended \in BOOLEAN :
          LET finished == Touched(ok, measured) /\ down
              gesture == finished /\ ended
          IN /\ Flushed(ok, IF gesture THEN <<sent'>> ELSE <<>>) /\ Measured(ok, measured)
             /\ down' = (down /\ ~finished)
             /\ gestures' = IF gesture THEN gestures \cup {<<sent', start, to>>} ELSE gestures
    BY <1>9 DEF TouchUp
  <2>2. timer' = "none" /\ size' \in BOOLEAN /\ down' \in BOOLEAN /\ (down' => down)
    BY <2>1 DEF Flushed, Measured, Touched, Ok, TranslatorTypeOK
  <2>3. gestures' \subseteq (1..sent') \X Point \X Point
    <3>1. sent' \in 1..sent'  BY <1>9, MaxFrameAssumption DEF TouchUp, TranslatorTypeOK
    <3>2. down => start \in Point  BY DEF TranslatorTypeOK
    <3>3. gestures' = gestures \/ (down /\ gestures' = gestures \cup {<<sent', start, to>>})
      BY <2>1
    <3> QED  BY <1>0, <3>1, <3>2, <3>3
  <2> QED  BY <1>0, <1>9, <2>2, <2>3 DEF TranslatorTypeOK, TouchUp
<1>10. CASE Flush
  <2>1. timer' = "none"  BY <1>10 DEF Flush, Flushed
  <2> QED  BY <1>0, <1>10, <2>1 DEF TranslatorTypeOK, Flush
<1>11. CASE FlushLate
  <2>1. timer' = "none" /\ late' \in Nat
    BY <1>11 DEF FlushLate, Flushed, TranslatorTypeOK
  <2> QED  BY <1>0, <1>11, <2>1 DEF TranslatorTypeOK, FlushLate
<1> QED
  BY <1>1, <1>2, <1>3, <1>4, <1>5, <1>6, <1>7, <1>8, <1>9, <1>10, <1>11 DEF TranslatorNext

(* Every variable of the translator and of its page stays in its range.    *)
THEOREM TranslatorTypeCorrect == TranslatorSpec => []TranslatorTypeOK
BY TranslatorTypeInit, TranslatorTypeStep, PTL DEF TranslatorSpec

-----------------------------------------------------------------------------
(* Text never waits with nothing left to send it, for any number of        *)
(* characters, of timers that fired late and of calls that fail.           *)
THEOREM FlushComes == TranslatorSpec => []FlushIsComing
<1>1. TranslatorInit => FlushIsComing  BY DEF TranslatorInit, FlushIsComing
<1>2. ASSUME TranslatorTypeOK, FlushIsComing, [TranslatorNext]_translatorVars PROVE FlushIsComing'
  <2> USE DEF page, text, touch, driver, FlushIsComing
  <2>1. CASE UNCHANGED translatorVars \/ System \/ Unresolved
    BY <1>2, <2>1 DEF translatorVars, System, Unresolved
  <2>2. CASE Type
    BY <2>2 DEF Type
  <2>3. CASE Fires
    BY <1>2, <2>3 DEF Fires, TranslatorTypeOK
  <2>4. CASE ControlKey \/ TouchDown \/ TouchMove \/ TouchUp \/ Flush \/ FlushLate
    <3>1. textBuf' = <<>>
      BY <2>4 DEF ControlKey, TouchDown, TouchMove, TouchUp, Flush, FlushLate, Flushed
    <3> QED  BY <3>1
  <2> QED  BY <1>2, <2>1, <2>2, <2>3, <2>4 DEF TranslatorNext
<1> QED  BY <1>1, <1>2, TranslatorTypeInit, TranslatorTypeStep, PTL DEF TranslatorSpec

(* The page's finger and the translator's gesture, while both are there.   *)
Followed == seen => finger # NoPoint /\ down /\ start = finger

LEMMA FollowedStep == TranslatorTypeOK /\ Followed /\ [TranslatorNext]_translatorVars => Followed'
<1> SUFFICES ASSUME TranslatorTypeOK, Followed, [TranslatorNext]_translatorVars PROVE Followed'  OBVIOUS
<1> USE DEF page, text, touch, driver, Followed
<1>1. CASE UNCHANGED translatorVars \/ Type \/ ControlKey \/ System \/ Flush \/ Fires \/ FlushLate
  BY <1>1 DEF translatorVars, Type, ControlKey, System, Flush, Fires, FlushLate
<1>2. CASE TouchDown
  <2>1. finger' \in Point /\ (seen' => down' /\ start' = finger')
    BY <1>2 DEF TouchDown
  <2> QED  BY <2>1, NoPointAssumption
<1>3. CASE TouchMove \/ TouchUp
  BY <1>3 DEF TouchMove, TouchUp
<1>4. CASE Unresolved
  BY <1>4 DEF Unresolved
<1> QED  BY <1>1, <1>2, <1>3, <1>4 DEF TranslatorNext

(* A tap or swipe begins where the page's finger went down, whatever was   *)
(* typed, flushed and lost in between (touch, finishGesture).              *)
THEOREM FromFinger == TranslatorSpec => GestureFromFinger
<1>1. TranslatorInit => Followed  BY DEF TranslatorInit, Followed
<1>2. ASSUME TranslatorTypeOK, Followed, [TranslatorNext]_translatorVars
      PROVE  [seen => \A g \in gestures' \ gestures : g[2] = finger]_translatorVars
  <2> SUFFICES ASSUME seen, NEW g \in gestures' \ gestures PROVE g[2] = finger
    OBVIOUS
  <2>1. TouchUp
    BY <1>2 DEF TranslatorNext, translatorVars, page, text, touch, driver, Type, ControlKey, System, TouchDown,
                TouchMove, Unresolved, Flush, Fires, FlushLate
  <2>2. PICK to \in Point : g = <<sent', start, to>>
    BY <2>1 DEF TouchUp
  <2> QED  BY <1>2, <2>2 DEF Followed
<1> QED  BY <1>1, <1>2, TranslatorTypeInit, TranslatorTypeStep, FollowedStep, PTL DEF TranslatorSpec, GestureFromFinger

-----------------------------------------------------------------------------
(* The translator implements InputQueue: what is typed and touched reaches *)
(* the device once and in order, and only a failed call loses it.          *)
THEOREM Implements == TranslatorSpec => ImplementsInputQueue
<1>1. TranslatorInit => Queue!Init  BY DEF TranslatorInit, Queue!Init
<1>2. ASSUME TranslatorTypeOK, [TranslatorNext]_translatorVars PROVE [Queue!Next]_Queue!queue
  <2> USE DEF Queue!queue, Queue!Next, Queue!Later, Queue!Refuse, Queue!Accept, Queue!Deliver,
              Queue!DeliverNew, Queue!Lose
  <2>1. Buffered /\ sent' \in Nat /\ sent' >= sent
    BY <1>2, StepBuffers, MaxFrameAssumption
  <2>2. device \in Seq(1..sent) /\ textBuf \in Seq(1..sent)
    BY <1>2 DEF TranslatorTypeOK
  <2>3. CASE textBuf' = textBuf /\ device' = device
    BY <2>1, <2>3
  <2>4. CASE sent' # sent /\ textBuf' = Append(textBuf, sent') /\ device' = device
    BY <2>1, <2>4
  <2>5. ASSUME NEW ok \in BOOLEAN, NEW rest \in {<<>>, <<sent'>>},
               Flushed(ok, rest), rest # <<>> => sent' # sent
        PROVE  Queue!Next
    <3>1. CASE ~ok  BY <2>1, <2>5, <3>1 DEF Flushed
    <3>2. CASE ok /\ rest = <<>>
      <4>1. device \o textBuf \o <<>> = device \o textBuf  BY <2>2
      <4> QED  BY <2>1, <2>5, <3>2, <4>1 DEF Flushed
    <3>3. CASE ok /\ rest = <<sent'>>
      <4>1. device \o textBuf \o <<sent'>> = Append(device \o textBuf, sent')  BY <2>2
      <4>2. sent' # sent  BY <2>5, <3>3
      <4> QED  BY <2>1, <2>5, <3>3, <4>1, <4>2 DEF Flushed
    <3> QED  BY <3>1, <3>2, <3>3
  <2> QED  BY <2>1, <2>3, <2>4, <2>5 DEF Buffered
<1> QED  BY <1>1, <1>2, TranslatorTypeInit, TranslatorTypeStep, PTL DEF TranslatorSpec, ImplementsInputQueue, Queue!Spec

-----------------------------------------------------------------------------
(* Launch: the invariants follow an attempt through its stages, and      *)
(* count those made and the launches that the removal of the app's data  *)
(* may still kill.                                                       *)

LaunchTypeOK ==
  /\ platform \in {"ios", "android"} /\ faulty \in BOOLEAN
  /\ installed \in BOOLEAN /\ reset \in BOOLEAN /\ mine \in BOOLEAN /\ agent \in BOOLEAN
  /\ build \in {"here", "other", "none"} /\ file \in BOOLEAN
  /\ stage \in {"boot", "prepare", "engine", "stop", "wipe", "launch", "start", "focus", "appear",
             "done", "failed", "notAppeared"}
  /\ app \in {"none", "behind", "front"} /\ data \in {"fresh", "before", "after"}
  /\ try \in Nat /\ kills \in Nat

LEMMA LaunchTypeInit == LaunchInit => LaunchTypeOK
<1> SUFFICES ASSUME LaunchInit PROVE LaunchTypeOK
  OBVIOUS
<1>1. app \in {"none", "behind", "front"} /\ data \in {"fresh", "before", "after"}
  BY DEF LaunchInit
<1> QED  BY <1>1 DEF LaunchInit, LaunchTypeOK

LEMMA LaunchTypeStep == LaunchTypeOK /\ [LaunchNext]_launchVars => LaunchTypeOK'
<1> SUFFICES ASSUME LaunchTypeOK, [LaunchNext]_launchVars PROVE LaunchTypeOK'
  OBVIOUS
<1> USE DEF LaunchTypeOK, request, Fail
<1>1. CASE CommandFails \/ Booted \/ Prepare \/ StartEngine
  BY <1>1, ZenonT(30) DEF CommandFails, Booted, Prepare, StartEngine, Covered
<1>2. CASE ResetStops \/ ResetWipes \/ LaunchStops \/ Start
  BY <1>2 DEF ResetStops, ResetWipes, LaunchStops, Start, EndsApp, Removal
<1>3. CASE Focused \/ FocusCap
  BY <1>3 DEF Focused, FocusCap, MayRetry
<1>4. CASE Await
  <2>1. app' \in {app, "behind"} /\ stage' \in {"done", "notAppeared"} /\ agent' = TRUE
    BY <1>4 DEF Await
  <2> QED  BY <1>4, <2>1 DEF Await
<1>5. CASE AppComes \/ AppWrites \/ RemovalKills
  BY <1>5 DEF AppComes, AppWrites, RemovalKills
<1>6. CASE UNCHANGED launchVars
  BY <1>6 DEF launchVars
<1> QED  BY <1>1, <1>2, <1>3, <1>4, <1>5, <1>6 DEF LaunchNext

-----------------------------------------------------------------------------
(* A launch that wiped the data runs the app in a process of its own.        *)
Wiped == {"launch", "start", "focus", "appear", "done", "notAppeared"}
Fresh ==
  /\ stage = "wipe" => app = "none"
  /\ reset /\ stage \in Wiped => data # "before" /\ (app # "none" => mine)

LEMMA FreshStep == LaunchTypeOK /\ Fresh /\ [LaunchNext]_launchVars => Fresh'
<1> SUFFICES ASSUME LaunchTypeOK, Fresh, [LaunchNext]_launchVars PROVE Fresh'
  OBVIOUS
<1> USE DEF LaunchTypeOK, Fresh, Wiped, request, Fail
<1>1. CASE CommandFails \/ Booted \/ Prepare \/ StartEngine
  BY <1>1 DEF CommandFails, Booted, Prepare, StartEngine, Covered
<1>2. CASE ResetStops \/ ResetWipes \/ LaunchStops \/ Start
  BY <1>2 DEF ResetStops, ResetWipes, LaunchStops, Start, EndsApp, Removal
<1>3. CASE Focused \/ FocusCap \/ Await
  BY <1>3 DEF Focused, FocusCap, MayRetry, Await, Covered
<1>4. CASE AppComes \/ AppWrites \/ RemovalKills
  BY <1>4 DEF AppComes, AppWrites, RemovalKills
<1>5. CASE UNCHANGED launchVars
  BY <1>5 DEF launchVars
<1> QED  BY <1>1, <1>2, <1>3, <1>4, <1>5 DEF LaunchNext

(* A launch answered with success that asked for a reset shows nothing an    *)
(* earlier run of the app stored, whenever that run is killed (ResetApp,     *)
(* LaunchApp).                                                               *)
THEOREM LaunchIsFirstRun == LaunchSpec => []FirstRun
<1>1. LaunchInit => Fresh  BY DEF LaunchInit, Fresh, Wiped
<1>2. Fresh => FirstRun  BY DEF Fresh, FirstRun, Wiped
<1> QED  BY <1>1, <1>2, LaunchTypeInit, LaunchTypeStep, FreshStep, PTL DEF LaunchSpec

-----------------------------------------------------------------------------
(* What a later attempt starts stays, there being no kill to come by then; an *)
(* iOS launch has its app in front from its start, the engine's agent having  *)
(* come before.                                                               *)
Started == {"appear", "done", "notAppeared"}
Attempted ==
  /\ stage \in {"start", "focus"} => try > 0
  /\ stage = "start" /\ try > 1 => kills = 0
  /\ stage = "focus" /\ try > 1 => kills = 0 /\ app # "none"
  /\ stage = "focus" => platform = "android" /\ installed
  /\ stage \in Started /\ ~SeenAtOnce => kills = 0 /\ app # "none"
  /\ platform = "ios" =>
       /\ kills = 0
       /\ stage \in {"stop", "wipe", "launch", "start", "appear", "done"} => agent
       /\ stage \in {"appear", "done"} => app = "front"
       /\ stage # "notAppeared"
  /\ LaunchNotLost

LEMMA AttemptedStep ==
  ASSUME Attempts > 1
  PROVE  LaunchTypeOK /\ Attempted /\ [LaunchNext]_launchVars => Attempted'
<1> SUFFICES ASSUME LaunchTypeOK, Attempted, [LaunchNext]_launchVars PROVE Attempted'
  OBVIOUS
<1> USE DEF LaunchTypeOK, Attempted, LaunchNotLost, Started, SeenAtOnce, request, Fail
<1>1. CASE CommandFails \/ Booted \/ Prepare \/ StartEngine
  BY <1>1 DEF CommandFails, Booted, Prepare, StartEngine, Covered
<1>2. CASE ResetStops \/ ResetWipes \/ LaunchStops \/ Start
  BY <1>2 DEF ResetStops, ResetWipes, LaunchStops, Start, EndsApp, Removal
<1>3. CASE Focused \/ FocusCap \/ Await
  BY <1>3 DEF Focused, FocusCap, MayRetry, Await, Covered
<1>4. CASE AppComes \/ AppWrites \/ RemovalKills
  BY <1>4 DEF AppComes, AppWrites, RemovalKills
<1>5. CASE UNCHANGED launchVars
  BY <1>5 DEF launchVars
<1> QED  BY <1>1, <1>2, <1>3, <1>4, <1>5 DEF LaunchNext

(* Two attempts are enough, on a device that does as it is told, for no      *)
(* launch of an app it has to fail and for what a launch started to be       *)
(* running when it is answered, unless the first attempt already saw its     *)
(* window; the code makes three (launchAttempts).                            *)
THEOREM TwoAttemptsSuffice ==
  ASSUME Attempts > 1 PROVE LaunchSpec => []LaunchNotLost
<1>1. LaunchInit => Attempted
  BY DEF LaunchInit, Attempted, LaunchNotLost, Started
<1>2. Attempted => LaunchNotLost  BY DEF Attempted
<1> QED  BY <1>1, <1>2, LaunchTypeInit, LaunchTypeStep, AttemptedStep, PTL DEF LaunchSpec

-----------------------------------------------------------------------------
(* Settle: SettledIsQuiet is about the last Quiet reads; the invariant   *)
(* is that the last of any number of them counted as quiet show the same *)
(* screen (Still), and that the app was asked on one of those (AskedBy). *)

Reading == [tree : Screens \cup {Failed}, asked : BOOLEAN]

(* The last reads, as many as were counted quiet, show what the last one did. *)
Still ==
  /\ quiet <= Len(reads)
  /\ Len(reads) > 0 => reads[Len(reads)].tree = lastRead
  /\ lastRead # NoTree => Len(reads) > 0
  /\ \A i \in Len(reads) - quiet + 1 .. Len(reads) : reads[i].tree.shows = lastRead.shows

(* The app said that it finished on one of them, and when Settle is through   *)
(* on one before the last.                                                    *)
AskedBy(n) == \E i \in Len(reads) - quiet + 1 .. n : reads[i].asked

SettleIInv ==
  /\ reads \in Seq(Reading) /\ quiet \in Nat
  /\ front \in Screens
  /\ wait # "launch" =>
       /\ Still
       /\ idled => AskedBy(Len(reads))
       /\ at = "idling" => Len(reads) > 0 /\ quiet >= Quiet
       /\ at = "settled" =>
            /\ quiet >= Quiet /\ (after # NoTree => lastRead # after)
            /\ wait = "settleIdle" => AskedBy(Len(reads) - 1)
  /\ wait = "launch" => at \notin {"idling", "settled"}

LEMMA SettleInitInv == SettleInit => SettleIInv
<1> SUFFICES ASSUME SettleInit PROVE SettleIInv
  OBVIOUS
<1>1. reads \in Seq(Reading) /\ Len(reads) = 0
  BY EmptySeq DEF SettleInit
<1>2. quiet = 0 /\ lastRead = NoTree /\ idled = FALSE /\ at = "read" /\ front \in Screens
  BY DEF SettleInit
<1> QED  BY <1>1, <1>2 DEF SettleIInv, Still

(* A read of the loop is one more of the run, or starts it anew.              *)
LEMMA SettleReadsStep == ASSUME SettleIInv, SettleReads PROVE SettleIInv'
<1> PICK n \in Nat : n = Len(reads)
  BY LenProperties DEF SettleIInv
<1>1. /\ wait # "launch" /\ lastRead' = front /\ front' = front /\ wait' = wait /\ after' = after
      /\ reads' = Append(reads, [tree |-> front, asked |-> FALSE])
  BY DEF SettleReads
<1>2. PICK q : q = IF lastRead # NoTree /\ ScreenHash(front) = ScreenHash(lastRead) THEN quiet + 1 ELSE 1
  OBVIOUS
<1>3. /\ quiet' = q /\ idled' = Idled(q)
      /\ at' \in {"settled", "idling", "asleep", "capped"}
      /\ at' \in {"settled", "idling"} => q >= Quiet /\ (after # NoTree => front # after)
      /\ at' = "settled" /\ wait = "settleIdle" => Idled(q)
  BY <1>1, <1>2 DEF SettleReads, Sleep, InteractionHash
<1>4. /\ reads' \in Seq(Reading) /\ Len(reads') = n + 1
      /\ \A i \in 1 .. n : reads'[i] = reads[i]
      /\ reads'[n + 1].tree = front
  <2>1. [tree |-> front, asked |-> FALSE] \in Reading
    BY DEF SettleIInv, Reading
  <2> QED  BY <1>1, <2>1, AppendProperties DEF SettleIInv
<1>5. q \in Nat /\ q >= 1 /\ q <= n + 1 /\ quiet \in Nat /\ quiet <= n
  BY <1>1, <1>2 DEF SettleIInv, Still
<1>6. \A i \in n + 1 - q + 1 .. n + 1 : reads'[i].tree.shows = front.shows
  <2> SUFFICES ASSUME NEW i \in n + 1 - q + 1 .. n + 1 PROVE reads'[i].tree.shows = front.shows
    OBVIOUS
  <2>1. CASE i = n + 1
    BY <1>4, <2>1
  <2>2. CASE i # n + 1
    <3>1. q = quiet + 1 /\ front.shows = lastRead.shows
      BY <1>2, <1>5, <2>2 DEF ScreenHash
    <3>2. i \in n - quiet + 1 .. n /\ i \in 1 .. n
      BY <1>5, <2>2, <3>1
    <3> QED  BY <1>1, <1>4, <3>1, <3>2 DEF SettleIInv, Still
  <2> QED  BY <2>1, <2>2
<1>7. Still'
  BY <1>1, <1>3, <1>4, <1>5, <1>6, SMTT(30) DEF Still
<1>8. ASSUME Idled(q) PROVE \E i \in n + 1 - q + 1 .. n : i \in 1 .. n /\ reads'[i].asked
  <2>1. idled /\ q = quiet + 1
    BY <1>2, <1>5, <1>8 DEF Idled
  <2>2. PICK i \in n - quiet + 1 .. n : reads[i].asked
    BY <1>1, <2>1 DEF SettleIInv, AskedBy
  <2> QED  BY <1>4, <1>5, <2>1, <2>2
<1>9. idled' => AskedBy(Len(reads))'
  BY <1>3, <1>4, <1>5, <1>8 DEF AskedBy
<1>10. at' = "settled" /\ wait = "settleIdle" => AskedBy(Len(reads) - 1)'
  BY <1>3, <1>4, <1>5, <1>8 DEF AskedBy
<1>11. quiet' \in Nat /\ front' \in Screens /\ Len(reads') > 0
  BY <1>1, <1>3, <1>4, <1>5 DEF SettleIInv
<1> QED  BY <1>1, <1>3, <1>4, <1>7, <1>9, <1>10, <1>11 DEF SettleIInv

(* The app is asked on the screen of the last read.                           *)
LEMMA IdleStep == ASSUME SettleIInv, Idle PROVE SettleIInv'
<1> PICK n \in Nat : n = Len(reads)
  BY LenProperties DEF SettleIInv
<1>1. /\ at = "idling" /\ at' = "read" /\ reads' = [reads EXCEPT ![n].asked = TRUE]
      /\ UNCHANGED <<front, wait, after, lastRead, quiet>>
  BY DEF Idle
<1>2. wait # "launch"
  BY <1>1 DEF SettleIInv
<1>3. n > 0 /\ quiet >= Quiet /\ quiet \in Nat /\ quiet >= 1 /\ quiet <= n /\ reads[n] \in Reading
  BY <1>1, <1>2, QuietAssumption, ElementOfSeq DEF SettleIInv, Still
<1>4. [reads[n] EXCEPT !.asked = TRUE] \in Reading
      /\ [reads[n] EXCEPT !.asked = TRUE].tree = reads[n].tree
      /\ [reads[n] EXCEPT !.asked = TRUE].asked
  BY <1>3 DEF Reading
<1>5. /\ reads' \in Seq(Reading) /\ Len(reads') = n
      /\ \A i \in 1 .. n : reads'[i] = IF i = n THEN [reads[n] EXCEPT !.asked = TRUE] ELSE reads[i]
  BY <1>1, <1>3, <1>4, ExceptSeq DEF SettleIInv
<1>6. \A i \in 1 .. n : reads'[i].tree = reads[i].tree
  BY <1>4, <1>5
<1>7. reads'[n].asked /\ n \in 1 .. n /\ n \in n - quiet + 1 .. n
  <2>1. n \in 1 .. n /\ n \in n - quiet + 1 .. n
    BY <1>3
  <2>2. reads'[n] = [reads[n] EXCEPT !.asked = TRUE]
    BY <1>5, <2>1
  <2> QED  BY <1>4, <2>1, <2>2
<1>8. Still'
  <2>1. \A i \in n - quiet + 1 .. n : i \in 1 .. n
    BY <1>3
  <2> QED  BY <1>1, <1>2, <1>3, <1>5, <1>6, <1>7, <2>1 DEF SettleIInv, Still
<1>9. AskedBy(Len(reads))'
  BY <1>1, <1>5, <1>7 DEF AskedBy
<1> QED  BY <1>1, <1>2, <1>3, <1>5, <1>8, <1>9 DEF SettleIInv

LEMMA LaunchReadsStep == ASSUME SettleIInv, LaunchReads PROVE SettleIInv'
<1>1. /\ wait = "launch" /\ UNCHANGED <<front, wait, quiet>>
      /\ lastRead' \in {front, Failed} /\ at' \in {"window", "asleep", "notAppeared"}
      /\ reads' = Append(reads, [tree |-> lastRead', asked |-> FALSE])
  BY DEF LaunchReads, Sleep
<1>2. [tree |-> lastRead', asked |-> FALSE] \in Reading
  BY <1>1 DEF SettleIInv, Reading
<1>3. reads' \in Seq(Reading)
  BY <1>1, <1>2, AppendProperties DEF SettleIInv
<1> QED  BY <1>1, <1>3 DEF SettleIInv

LEMMA SettleStepInv == SettleIInv /\ [SettleNext]_settleVars => SettleIInv'
<1> SUFFICES ASSUME SettleIInv, [SettleNext]_settleVars PROVE SettleIInv'
  OBVIOUS
<1>1. ASSUME UNCHANGED <<wait, after, lastRead, quiet, idled, reads>>, front' \in Screens,
             at' = at \/ at' \notin {"idling", "settled"}
      PROVE  SettleIInv'
  <2>1. Still' <=> Still
    BY <1>1 DEF Still
  <2>2. (AskedBy(Len(reads))' <=> AskedBy(Len(reads))) /\ (AskedBy(Len(reads) - 1)' <=> AskedBy(Len(reads) - 1))
    BY <1>1 DEF AskedBy
  <2> QED  BY <1>1, <2>1, <2>2 DEF SettleIInv
<1>2. CASE SettleReadFails \/ WindowPasses \/ Wakes \/ Cancelled \/ CallerGone \/ Tick
  BY <1>1, <1>2 DEF SettleReadFails, WindowPasses, Wakes, Cancelled, CallerGone, Tick, SettleIInv
<1>3. CASE Moves
  BY <1>1, <1>3 DEF Moves
<1>4. CASE UNCHANGED settleVars
  BY <1>1, <1>4 DEF settleVars, SettleIInv
<1> QED  BY <1>2, <1>3, <1>4, SettleReadsStep, IdleStep, LaunchReadsStep DEF SettleNext, Loop

(* With any screens and any number of quiet reads asked for: a settle    *)
(* that is answered before its cap was answered on a screen that had     *)
(* stood still for that many reads, is not the one it started from, and  *)
(* on which the app had said it was done, where it can be asked          *)
(* (Settle).                                                             *)
THEOREM SettleFindsQuiet == SettleSpec => []SettledIsQuiet
<1>1. SettleIInv => SettledIsQuiet
  <2> SUFFICES ASSUME SettleIInv, at = "settled" PROVE SettledIsQuiet
    BY DEF SettledIsQuiet
  <2> PICK n \in Nat : n = Len(reads)
    BY LenProperties DEF SettleIInv
  <2>1. /\ wait # "launch" /\ Still /\ quiet >= Quiet /\ quiet \in Nat /\ quiet <= n /\ n > 0
        /\ DOMAIN reads = 1 .. n
    BY QuietAssumption, LenProperties DEF SettleIInv, Still
  <2>2. \A i \in n - quiet + 1 .. n : reads[i].tree.shows = reads[n].tree.shows
    BY <2>1 DEF Still
  <2>3. \A i \in n - Quiet + 1 .. n : i \in n - quiet + 1 .. n /\ i \in 1 .. n
    BY <2>1, QuietAssumption
  <2>4. after # NoTree => reads[n].tree # after
    BY <2>1 DEF SettleIInv, Still
  <2>5. ASSUME wait = "settleIdle"
        PROVE  \E i \in 1 .. n - 1 : reads[i].asked /\ \A j \in i .. n : reads[j].tree.shows = reads[n].tree.shows
    <3>1. PICK i \in n - quiet + 1 .. n - 1 : reads[i].asked
      BY <2>5 DEF SettleIInv, AskedBy
    <3>2. i \in 1 .. n - 1 /\ \A j \in i .. n : j \in n - quiet + 1 .. n
      BY <2>1, <3>1
    <3> QED  BY <2>2, <3>1, <3>2
  <2> QED  BY <2>1, <2>2, <2>3, <2>4, <2>5 DEF SettledIsQuiet
<1> QED  BY <1>1, SettleInitInv, SettleStepInv, PTL DEF SettleSpec

-----------------------------------------------------------------------------
(* AndroidCapture: a handle is never kept from one source to the next,   *)
(* since a new one makes it old; so what CutKills ends is the source     *)
(* that Look found, registered and past its first two seconds, which a   *)
(* cycle that is counted as quick is not.                                *)

CountsTyped == age \in 0..2 /\ fast \in Nat

HandleIsRegistered ==
  /\ held = "this" => registered
  /\ held = "this" /\ reader = "cut" => age = 2

CutIsOld == cut => age = 2

CaptureIInv == CountsTyped /\ HandleIsRegistered /\ CutIsOld

LEMMA CaptureStepInv == CaptureIInv /\ [CaptureNext]_captureVars => CaptureIInv'
<1> SUFFICES ASSUME CaptureIInv, [CaptureNext]_captureVars PROVE CaptureIInv'
  OBVIOUS
<1> USE DEF CaptureIInv, CountsTyped, HandleIsRegistered, CutIsOld
<1>1. CASE Choose \/ StreamEnds
  BY <1>1 DEF Choose, Record, StreamEnds, sourceVars
<1>2. CASE StartSource
  BY <1>2 DEF StartSource, sourceVars
<1>3. CASE Register \/ StopOwn \/ Breaks \/ Ages
  BY <1>3 DEF Register, StopOwn, Breaks, Ages
<1>4. CASE NotStarted \/ CycleEnds
  BY <1>4 DEF NotStarted, CycleEnds, Again, sourceVars
<1>5. CASE Keyframe \/ Look \/ Eof
  BY <1>5 DEF Keyframe, Look, Eof, Handle, sourceVars
<1>6. CASE CutKills \/ CloseKills
  BY <1>6 DEF CutKills, CloseKills, Kill
<1>7. CASE UNCHANGED captureVars
  BY <1>7 DEF captureVars, sourceVars
<1> QED  BY <1>1, <1>2, <1>3, <1>4, <1>5, <1>6, <1>7 DEF CaptureNext, CaptureLoop, Reader

(* However the requests for a keyframe fall between a source's start,    *)
(* its registration and its end, one that such a request ended is not    *)
(* counted among the quick failures that give the capture up             *)
(* (runScreenrecordLoop, requestKeyframe).                               *)
THEOREM CutsAreNotCounted == CaptureSpec => QuickFailuresAreReal
<1>1. CaptureInit => CaptureIInv
  BY DEF CaptureInit, CaptureIInv, CountsTyped, HandleIsRegistered, CutIsOld, sourceVars
<1>2. CaptureIInv /\ [CaptureNext]_captureVars => [fast' > fast => ~cut]_captureVars
  <2> SUFFICES ASSUME CaptureIInv, CaptureNext, fast' > fast PROVE ~cut
    OBVIOUS
  <2>1. fast' # fast
    BY DEF CaptureIInv, CountsTyped
  <2>2. Again
    BY <2>1 DEF CaptureNext, CaptureLoop, Reader, Choose, StartSource, Register, StopOwn, Breaks, Ages,
                StreamEnds, NotStarted, CycleEnds, Keyframe, Look, Eof, CutKills, CloseKills, Kill
  <2>3. age = 0
    BY <2>2 DEF Again, CaptureIInv, CountsTyped
  <2> QED  BY <2>3 DEF CaptureIInv, CutIsOld
<1> QED  BY <1>1, <1>2, CaptureStepInv, PTL DEF CaptureSpec, QuickFailuresAreReal
=================================================================================
