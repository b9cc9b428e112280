-------------------------------- MODULE Acts --------------------------------
(***************************************************************************)
(* The actions of POST /act (internal/server/act.go) on one simulator:     *)
(* each request looks its ID up among the results remembered, and if it is *)
(* not there performs the action through the input sidecar, waits for the  *)
(* screen to settle, remembers the result and answers.  A client that      *)
(* lost its answer sends the same ID again, also while the first request   *)
(* is still being served.                                                  *)
(***************************************************************************)
EXTENDS Sidecars

CONSTANTS
  ActId,      \* the IDs clients give their actions
  Asked,      \* bound: what the requests ask for, in [Sender -> ActId]
  Remembered, \* actsRemembered (32)
  Frames      \* Frames[i]: how many frames the action takes

ASSUME RememberedAssumption == Remembered \in Nat \ {0}
ASSUME AskedAssumption == Asked \subseteq [Sender -> ActId]
ASSUME FramesAssumption == Frames \in [ActId -> Nat \ {0}]

VARIABLES
  phase,   \* phase[r]: where handleAct of request r is
  id,      \* id[r]: the action it asks for
  done,    \* recentActs of the device: the IDs remembered, oldest first
  stored   \* every ID ever stored, oldest first

acts == <<phase, id, done, stored>>
vars == <<svars, acts>>

(* "new" not arrived; "acting" in perform; "settling" in settleAfter;      *)
(* "answered" with a tree, from memory or not; "error" a 502.              *)
Phase == {"new", "acting", "settling", "answered", "error"}

Init ==
  /\ SidecarsInit
  /\ phase = [r \in Sender |-> "new"]
  /\ id \in Asked
  /\ done = <<>> /\ stored = <<>>

Known(i) == \E k \in 1..Len(done) : done[k] = i

(* The request arrives: lookup.                                            *)
Answer(r) ==
  /\ phase[r] = "new" /\ Known(id[r])
  /\ phase' = [phase EXCEPT ![r] = "answered"]
  /\ UNCHANGED <<svars, id, done, stored>>

Perform(r) ==
  /\ phase[r] = "new" /\ ~Known(id[r])
  /\ phase' = [phase EXCEPT ![r] = "acting"]
  /\ SendNext(r)
  /\ UNCHANGED <<id, done, stored>>

(* sendTap and sendSwipe send the next frame once the one before is sent,  *)
(* and perform returns with the last one sent or the first that failed.    *)
NextFrame(r) ==
  /\ phase[r] = "acting" /\ pc[r] = "sent"
  /\ frame[r] < Frames[id[r]]
  /\ SendNext(r)
  /\ UNCHANGED acts

Performed(r) ==
  /\ phase[r] = "acting"
  /\ pc[r] = "failed" \/ (pc[r] = "sent" /\ frame[r] = Frames[id[r]])
  /\ phase' = [phase EXCEPT ![r] = "settling"]
  /\ UNCHANGED <<svars, id, done, stored>>

(* store forgets the oldest past the limit.  Mutant: it forgets *)
(* them all when the list is full.                                        *)
StoredClears(i) == IF Len(done) + 1 < Remembered THEN Append(done, i) ELSE <<>>
Stored(i) ==
  LET all == Append(done, i)
  IN IF Len(all) > Remembered THEN SubSeq(all, Len(all) - Remembered + 1, Len(all)) ELSE all

Settled(r) ==
  /\ phase[r] = "settling"
  /\ done' = Stored(id[r])
  /\ stored' = Append(stored, id[r])
  /\ phase' = [phase EXCEPT ![r] = "answered"]
  /\ UNCHANGED <<svars, id>>

SettleFails(r) ==
  /\ phase[r] = "settling"
  /\ phase' = [phase EXCEPT ![r] = "error"]
  /\ UNCHANGED <<svars, id, done, stored>>

-----------------------------------------------------------------------------
Acting(r) == NextFrame(r) \/ Performed(r) \/ Settled(r) \/ SettleFails(r)

Next ==
  \/ SidecarsNext /\ UNCHANGED acts
  \/ \E r \in Sender :
       \/ Answer(r) \/ Perform(r) \/ NextFrame(r)
       \/ Performed(r) \/ Settled(r) \/ SettleFails(r)

(* Handlers run; a sidecar reads its input, and ends or is killed once its *)
(* stdin was closed; End session and exit finish what they began.          *)
Fairness ==
  /\ \A r \in Sender : WF_vars(Acting(r))
  /\ \A r \in Sender : WF_vars(Sending(r) /\ UNCHANGED acts)
  /\ \A s \in Sidecar : WF_vars((Processing(s) \/ EndClose(s)) /\ UNCHANGED acts)
  /\ WF_vars(ExitClosed /\ UNCHANGED acts)

Spec == Init /\ [][Next]_vars /\ Fairness

-----------------------------------------------------------------------------
(* The ranges of the variables; no more results are kept than the limit.   *)
TypeOK ==
  /\ SidecarsTypeOK
  /\ phase \in [Sender -> Phase]
  /\ id \in [Sender -> ActId]
  /\ done \in Seq(ActId) /\ Len(done) <= Remembered
  /\ stored \in Seq(ActId)

(* A retry that comes after the answer does not act again: an action that  *)
(* begins is none of the last ones answered (recentActs), however many     *)
(* actions and repeats were stored meanwhile.                              *)
Latest(i) == \E k \in 1..Len(stored) : k > Len(stored) - Remembered /\ stored[k] = i
AnsweredActsOnce ==
  [][\A r \in Sender : phase[r] = "new" /\ phase'[r] = "acting" => ~Latest(id[r])]_vars

(* What the comment of actRequest.ID says: a retry cannot double-tap.  The *)
(* code does not keep it: an ID is remembered only once its result is      *)
(* there, so a retry acts again while the first request is being served,   *)
(* and after one whose settle failed.                                      *)
NoDoubleTap ==
  \A r, q \in Sender : id[r] = id[q] /\ <<r, 1>> \in injected /\ <<q, 1>> \in injected => r = q
=============================================================================
