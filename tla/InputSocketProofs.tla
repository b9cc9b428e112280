------------------------- MODULE InputSocketProofs -------------------------
(***************************************************************************)
(* Proofs about InputSocket, for any sets of connections and devices.      *)
(*                                                                         *)
(* ServedIsHolderOrKicked is not inductive by itself: a late release is    *)
(* told from its successor's claim by the claim's number, so the invariant *)
(* is strengthened with what those numbers mean (ClaimNumbers).            *)
(***************************************************************************)
EXTENDS InputSocket, TLAPS

(* The numbers acquire hands out: a connection that was not served yet has *)
(* none, one that is has one, none is above last and no two are the same.  *)
ClaimNumbers ==
  /\ \A c \in Conn : claim[c] <= last
  /\ \A c \in Conn : phase[c] = "new" => claim[c] = 0
  /\ \A c \in Conn : Serving(c) => claim[c] # 0
  /\ \A b, c \in Conn : claim[b] = claim[c] /\ claim[b] # 0 => b = c

IInv == TypeOK /\ ClaimNumbers /\ ClaimIsServed /\ ServedIsHolderOrKicked

-----------------------------------------------------------------------------
(* Observe only adds or removes a contact.                                 *)
LEMMA ObserveContacts ==
  ASSUME NEW contacts \in SUBSET Finger, NEW m
  PROVE  Observe(contacts, m) \in SUBSET Finger
  BY DEF Observe

(* The initial values are in range.                                        *)
LEMMA TypeInit == Init => TypeOK
  BY DEF Init, TypeOK, Phase, NoMsg, NoClaim, Claim

(* Every step keeps every variable in its range.                           *)
LEMMA TypeStep == TypeOK /\ [Next]_vars => TypeOK'
<1> SUFFICES ASSUME TypeOK, [Next]_vars PROVE TypeOK'
  OBVIOUS
<1> USE DEF TypeOK, Phase
<1>1. ASSUME NEW c \in Conn, Acquire(c) \/ TakeOver(c) PROVE TypeOK'
  <2>1. last' \in Nat /\ last' \in Nat \ {0}
    BY <1>1 DEF Acquire, TakeOver, Grant
  <2>2. [id |-> last + 1, conn |-> c] \in Claim
    BY <2>1, <1>1 DEF Claim, Acquire, TakeOver, Grant
  <2>3. owned' \in [Device -> Claim \cup {NoClaim}]
    BY <2>2, <1>1 DEF Acquire, TakeOver, Grant
  <2>4. kicked' \in [Conn -> BOOLEAN]
    BY <1>1 DEF Acquire, TakeOver, Grant
  <2> QED
    BY <2>1, <2>3, <2>4, <1>1 DEF Acquire, TakeOver, Grant
<1>2. ASSUME NEW c \in Conn, Refuse(c) PROVE TypeOK'
  BY <1>2 DEF Refuse
<1>3. ASSUME NEW c \in Conn, NEW m \in Message, Read(c, m) PROVE TypeOK'
  BY <1>3 DEF Read
<1>4. ASSUME NEW c \in Conn, Forward(c) \/ ForwardFails(c) PROVE TypeOK'
  <2>1. held' \in [Conn -> SUBSET Finger]
    BY <1>4, ObserveContacts DEF Forward, ForwardFails
  <2>2. pressed' \in [Device -> SUBSET Finger]
    BY <1>4, ObserveContacts DEF Forward, ForwardFails
  <2> QED
    BY <2>1, <2>2, <1>4 DEF Forward, ForwardFails
<1>5. ASSUME NEW c \in Conn, ReadFails(c) \/ Lifted(c) PROVE TypeOK'
  BY <1>5 DEF ReadFails, Lifted
<1>6. ASSUME NEW c \in Conn, Lift(c) \/ LiftFails(c) PROVE TypeOK'
  <2>1. pressed' \in [Device -> SUBSET Finger]
    BY <1>6, ObserveContacts DEF Lift, LiftFails
  <2>2. held' \in [Conn -> SUBSET Finger]
    BY <1>6 DEF Lift, LiftFails
  <2>3. failed' \in [Device -> BOOLEAN]
    BY <1>6 DEF Lift, LiftFails
  <2> QED
    BY <2>1, <2>2, <2>3, <1>6 DEF Lift, LiftFails
<1>7. ASSUME NEW c \in Conn, Release(c) PROVE TypeOK'
  BY <1>7 DEF Release, Dropped
<1>8. ASSUME NEW c \in Conn, KickCloses(c) \/ PingUnanswered(c) \/ HangUp(c) \/ Die(c)
      PROVE  TypeOK'
  BY <1>8 DEF KickCloses, PingUnanswered, HangUp, Die
<1>9. ASSUME NEW d \in Device, KickHolder(d) PROVE TypeOK'
  BY <1>9 DEF KickHolder, sockets
<1>10. CASE UNCHANGED vars
  BY <1>10 DEF vars
<1> QED
  BY <1>1, <1>2, <1>3, <1>4, <1>5, <1>6, <1>7, <1>8, <1>9, <1>10 DEF Next

(* The variables keep their ranges: the handlers, the watchdogs and the    *)
(* kicks of any number of connections leave the server in a proper state.  *)
THEOREM TypeCorrect == Spec => []TypeOK
<1>1. Init => TypeOK
  BY TypeInit
<1>2. TypeOK /\ [Next]_vars => TypeOK'
  BY TypeStep
<1> QED
  BY <1>1, <1>2, PTL DEF Spec

-----------------------------------------------------------------------------
(* What a grant does to the claims: the new one has a number of its own.   *)
LEMMA GrantClaims ==
  ASSUME IInv, NEW c \in Conn, Grant(c), phase[c] = "new",
         \/ owned[dev[c]] = NoClaim /\ UNCHANGED kicked
         \/ owned[dev[c]] # NoClaim /\ kicked' = [kicked EXCEPT ![owned[dev[c]].conn] = TRUE]
  PROVE  ClaimNumbers' /\ ClaimIsServed' /\ ServedIsHolderOrKicked'
<1> USE DEF IInv, TypeOK, Serving, Phase
<1>1. /\ last' = last + 1
      /\ owned' = [owned EXCEPT ![dev[c]] = [id |-> last + 1, conn |-> c]]
      /\ claim' = [claim EXCEPT ![c] = last + 1]
      /\ phase' = [phase EXCEPT ![c] = "open"]
      /\ dev' = dev
  BY DEF Grant
<1>2. /\ \A b \in Conn : claim[b] <= last
      /\ last + 1 # 0
      /\ dev[c] \in Device
  BY DEF ClaimNumbers
<1>3. ClaimNumbers'
  BY <1>1, <1>2 DEF ClaimNumbers
<1>4. ClaimIsServed'
  <2> SUFFICES ASSUME NEW d \in Device, owned'[d] # NoClaim
               PROVE  /\ Serving(owned[d].conn)'
                      /\ dev'[owned'[d].conn] = d
                      /\ claim'[owned'[d].conn] = owned'[d].id
    BY DEF ClaimIsServed
  <2>1. CASE d = dev[c]
    BY <2>1, <1>1, <1>2
  <2>2. CASE d # dev[c]
    <3>1. owned'[d] = owned[d] /\ owned[d] # NoClaim
      BY <2>2, <1>1
    <3>2. /\ Serving(owned[d].conn) /\ dev[owned[d].conn] = d
          /\ claim[owned[d].conn] = owned[d].id
      BY <3>1 DEF ClaimIsServed
    <3>3. owned[d].conn \in Conn /\ owned[d].conn # c
      BY <3>1, <3>2, <2>2 DEF Claim
    <3> QED
      BY <3>1, <3>2, <3>3, <1>1
  <2> QED
    BY <2>1, <2>2
<1>5. ServedIsHolderOrKicked'
  <2> SUFFICES ASSUME NEW b \in Conn, Serving(b)', ~kicked'[b]
               PROVE  owned'[dev'[b]] = [id |-> claim'[b], conn |-> b]
    BY DEF ServedIsHolderOrKicked
  <2>1. CASE b = c
    BY <2>1, <1>1, <1>2
  <2>2. CASE b # c
    <3>1. Serving(b) /\ ~kicked[b]
      <4>1. Serving(b)
        BY <2>2, <1>1
      <4>2. CASE owned[dev[c]] = NoClaim /\ UNCHANGED kicked
        BY <4>1, <4>2
      <4>3. CASE owned[dev[c]] # NoClaim /\ kicked' = [kicked EXCEPT ![owned[dev[c]].conn] = TRUE]
        BY <4>1, <4>3
      <4> QED
        BY <4>2, <4>3
    <3>2. owned[dev[b]] = [id |-> claim[b], conn |-> b]
      BY <3>1 DEF ServedIsHolderOrKicked
    <3>3. dev[b] # dev[c]
      <4> SUFFICES ASSUME dev[b] = dev[c] PROVE FALSE
        OBVIOUS
      <4>1. claim[b] # 0
        BY <3>1 DEF ClaimNumbers
      <4>2. owned[dev[c]] # NoClaim /\ owned[dev[c]].conn = b
        BY <3>2, <4>1 DEF NoClaim
      <4> QED
        BY <4>2
    <3> QED
      BY <2>2, <3>2, <3>3, <1>1
  <2> QED
    BY <2>1, <2>2
<1> QED
  BY <1>3, <1>4, <1>5

(* What a late or a timely release does to the claims: it drops the claim  *)
(* of the connection that leaves and no other.                             *)
LEMMA ReleaseClaims ==
  ASSUME IInv, NEW c \in Conn, Release(c)
  PROVE  /\ ClaimNumbers' /\ ClaimIsServed' /\ ServedIsHolderOrKicked'
         /\ \A d \in Device : owned'[d] # owned[d] => owned[d].conn = c
<1> USE DEF IInv, TypeOK, Serving, Phase
<1>1. /\ phase[c] = "leaving" /\ Serving(c)
      /\ owned' = Dropped(dev[c], claim[c])
      /\ phase' = [phase EXCEPT ![c] = "done"]
      /\ UNCHANGED <<last, dev, claim, kicked>>
      /\ claim[c] # 0 /\ dev[c] \in Device
  BY DEF Release, ClaimNumbers
<1>2. \A d \in Device : owned'[d] # owned[d] => owned[d].conn = c
  <2> SUFFICES ASSUME NEW d \in Device, owned'[d] # owned[d] PROVE owned[d].conn = c
    OBVIOUS
  <2>1. owned[d].id = claim[c] /\ owned[d] # NoClaim
    BY <1>1 DEF Dropped, NoClaim
  <2>2. claim[owned[d].conn] = owned[d].id /\ owned[d].conn \in Conn
    BY <2>1 DEF ClaimIsServed, Claim
  <2> QED
    BY <2>1, <2>2, <1>1 DEF ClaimNumbers
<1>3. ClaimNumbers'
  BY <1>1 DEF ClaimNumbers
<1>4. ClaimIsServed'
  <2> SUFFICES ASSUME NEW d \in Device, owned'[d] # NoClaim
               PROVE  /\ Serving(owned[d].conn)'
                      /\ dev'[owned'[d].conn] = d
                      /\ claim'[owned'[d].conn] = owned'[d].id
    BY DEF ClaimIsServed
  <2>1. owned'[d] = owned[d]
    BY <1>1 DEF Dropped
  <2>2. /\ Serving(owned[d].conn) /\ dev[owned[d].conn] = d
        /\ claim[owned[d].conn] = owned[d].id /\ owned[d].conn \in Conn
    BY <2>1 DEF ClaimIsServed, Claim
  <2>3. owned[d].conn # c
    BY <2>1, <2>2, <1>1 DEF Dropped
  <2> QED
    BY <2>1, <2>2, <2>3, <1>1
<1>5. ServedIsHolderOrKicked'
  <2> SUFFICES ASSUME NEW b \in Conn, Serving(b)', ~kicked'[b]
               PROVE  owned'[dev'[b]] = [id |-> claim'[b], conn |-> b]
    BY DEF ServedIsHolderOrKicked
  <2>1. b # c /\ Serving(b)
    BY <1>1
  <2>2. owned[dev[b]] = [id |-> claim[b], conn |-> b] /\ dev[b] \in Device
    BY <2>1, <1>1 DEF ServedIsHolderOrKicked
  <2>3. owned'[dev[b]] = owned[dev[b]]
    BY <2>1, <2>2, <1>2
  <2> QED
    BY <2>2, <2>3, <1>1
<1> QED
  BY <1>2, <1>3, <1>4, <1>5

(* A handler's other steps move no claim and start no service.             *)
LEMMA OtherClaims ==
  ASSUME IInv, NEW c \in Conn,
         UNCHANGED <<owned, last, dev, claim, kicked>>,
         \/ UNCHANGED phase
         \/ phase[c] = "new" /\ phase' = [phase EXCEPT ![c] = "done"]
         \/ phase[c] = "open" /\ phase' = [phase EXCEPT ![c] = "lifting"]
         \/ phase[c] = "lifting" /\ phase' = [phase EXCEPT ![c] = "leaving"]
  PROVE  ClaimNumbers' /\ ClaimIsServed' /\ ServedIsHolderOrKicked'
<1> USE DEF IInv, TypeOK, Serving, Phase
<1>1. /\ \A b \in Conn : phase'[b] = "new" => phase[b] = "new"
      /\ \A b \in Conn : Serving(b)' <=> Serving(b)
  OBVIOUS
<1>2. ClaimNumbers'
  BY <1>1 DEF ClaimNumbers
<1>3. \A d \in Device : owned[d] # NoClaim => owned[d].conn \in Conn
  BY DEF Claim
<1>4. ClaimIsServed'
  BY <1>1, <1>3 DEF ClaimIsServed
<1>5. ServedIsHolderOrKicked'
  BY <1>1 DEF ServedIsHolderOrKicked
<1> QED
  BY <1>2, <1>4, <1>5

(* The end of a session frees the device and tells its driver to go.       *)
LEMMA KickClaims ==
  ASSUME IInv, NEW d \in Device, KickHolder(d)
  PROVE  ClaimNumbers' /\ ClaimIsServed' /\ ServedIsHolderOrKicked'
<1> USE DEF IInv, TypeOK, Serving, Phase
<1>1. /\ owned[d] # NoClaim
      /\ kicked' = [kicked EXCEPT ![owned[d].conn] = TRUE]
      /\ owned' = [owned EXCEPT ![d] = NoClaim]
      /\ UNCHANGED <<last, phase, dev, claim>>
  BY DEF KickHolder, sockets
<1>2. owned[d].conn \in Conn /\ dev[owned[d].conn] = d
  BY <1>1 DEF ClaimIsServed, Claim
<1>3. ClaimNumbers'
  BY <1>1 DEF ClaimNumbers
<1>4. ClaimIsServed'
  BY <1>1 DEF ClaimIsServed, Claim
<1>5. ServedIsHolderOrKicked'
  <2> SUFFICES ASSUME NEW b \in Conn, Serving(b)', ~kicked'[b]
               PROVE  owned'[dev'[b]] = [id |-> claim'[b], conn |-> b]
    BY DEF ServedIsHolderOrKicked
  <2>1. ~kicked[b] /\ b # owned[d].conn /\ Serving(b)
    BY <1>1, <1>2
  <2>2. owned[dev[b]] = [id |-> claim[b], conn |-> b]
    BY <2>1 DEF ServedIsHolderOrKicked
  <2>3. dev[b] # d
    BY <2>1, <2>2
  <2> QED
    BY <2>2, <2>3, <1>1
<1> QED
  BY <1>3, <1>4, <1>5

(* The initial claims.                                                     *)
LEMMA ClaimsInit == Init => IInv
<1> SUFFICES ASSUME Init PROVE IInv
  OBVIOUS
<1>1. TypeOK
  BY TypeInit
<1>2. ClaimNumbers /\ ClaimIsServed /\ ServedIsHolderOrKicked
  BY DEF Init, ClaimNumbers, ClaimIsServed, ServedIsHolderOrKicked, Serving
<1> QED
  BY <1>1, <1>2 DEF IInv

(* Every step keeps the strengthened invariant.                            *)
LEMMA ClaimsStep == IInv /\ [Next]_vars => IInv'
<1> SUFFICES ASSUME IInv, [Next]_vars
             PROVE  ClaimNumbers' /\ ClaimIsServed' /\ ServedIsHolderOrKicked'
  BY TypeStep DEF IInv
<1>1. ASSUME NEW c \in Conn, Acquire(c) \/ TakeOver(c)
      PROVE  ClaimNumbers' /\ ClaimIsServed' /\ ServedIsHolderOrKicked'
  BY <1>1, GrantClaims DEF Acquire, TakeOver
<1>2. ASSUME NEW c \in Conn, Refuse(c)
      PROVE  ClaimNumbers' /\ ClaimIsServed' /\ ServedIsHolderOrKicked'
  BY <1>2, OtherClaims DEF Refuse, IInv, TypeOK
<1>3. ASSUME NEW c \in Conn, NEW m \in Message, Read(c, m)
      PROVE  ClaimNumbers' /\ ClaimIsServed' /\ ServedIsHolderOrKicked'
  BY <1>3, OtherClaims DEF Read, Serving
<1>4. ASSUME NEW c \in Conn,
             \/ Forward(c) \/ ForwardFails(c) \/ ReadFails(c)
             \/ Lift(c) \/ LiftFails(c) \/ Lifted(c)
      PROVE  ClaimNumbers' /\ ClaimIsServed' /\ ServedIsHolderOrKicked'
  BY <1>4, OtherClaims DEF Forward, ForwardFails, ReadFails, Lift, LiftFails, Lifted, Serving
<1>5. ASSUME NEW c \in Conn, Release(c)
      PROVE  ClaimNumbers' /\ ClaimIsServed' /\ ServedIsHolderOrKicked'
  BY <1>5, ReleaseClaims
<1>6. ASSUME NEW c \in Conn, KickCloses(c) \/ PingUnanswered(c) \/ HangUp(c) \/ Die(c)
      PROVE  ClaimNumbers' /\ ClaimIsServed' /\ ServedIsHolderOrKicked'
  BY <1>6, OtherClaims DEF KickCloses, PingUnanswered, HangUp, Die
<1>7. ASSUME NEW d \in Device, KickHolder(d)
      PROVE  ClaimNumbers' /\ ClaimIsServed' /\ ServedIsHolderOrKicked'
  BY <1>7, KickClaims
<1>8. CASE UNCHANGED vars
  BY <1>8, OtherClaims DEF vars, IInv, TypeOK, ClaimNumbers, ClaimIsServed,
       ServedIsHolderOrKicked, Serving
<1> QED
  BY <1>1, <1>2, <1>3, <1>4, <1>5, <1>6, <1>7, <1>8 DEF Next

(* One driver per device, whatever the number of clients: a served         *)
(* connection that nobody told to go holds its device's claim.             *)
THEOREM OneDriver == Spec => []ServedIsHolderOrKicked
<1>1. IInv => ServedIsHolderOrKicked
  BY DEF IInv
<1> QED
  BY <1>1, ClaimsInit, ClaimsStep, PTL DEF Spec

(* No claim outlives its handler.                                          *)
THEOREM NoClaimOutlives == Spec => []ClaimIsServed
<1>1. IInv => ClaimIsServed
  BY DEF IInv
<1> QED
  BY <1>1, ClaimsInit, ClaimsStep, PTL DEF Spec

-----------------------------------------------------------------------------
(* A step takes a device's claim away only from a handler that has just    *)
(* finished, or from one it kicks.                                         *)
LEMMA FreedStep ==
  ASSUME IInv, [Next]_vars, NEW d \in Device, owned[d] # NoClaim, owned'[d] = NoClaim
  PROVE  phase'[owned[d].conn] = "done" \/ kicked'[owned[d].conn]
<1> USE DEF IInv, TypeOK
<1>1. owned[d].conn \in Conn
  BY DEF Claim
<1>2. ASSUME NEW c \in Conn, Acquire(c) \/ TakeOver(c) PROVE FALSE
  BY <1>2 DEF Acquire, TakeOver, Grant, NoClaim
<1>3. ASSUME NEW c \in Conn, Release(c) PROVE phase'[owned[d].conn] = "done"
  <2>1. owned[d].conn = c
    BY <1>3, ReleaseClaims
  <2> QED
    BY <2>1, <1>3 DEF Release
<1>4. ASSUME NEW e \in Device, KickHolder(e) PROVE kicked'[owned[d].conn]
  <2>1. e = d
    BY <1>4 DEF KickHolder
  <2> QED
    BY <2>1, <1>1, <1>4 DEF KickHolder
<1> QED
  BY <1>2, <1>3, <1>4 DEF Next, vars, Refuse, Read, Forward, ForwardFails, ReadFails,
     Lift, LiftFails, Lifted, KickCloses, PingUnanswered, HangUp, Die

(* A late release never frees its successor's device (releaseClaim).       *)
THEOREM LateReleaseHarmless == Spec => SuccessorKept
<1>1. IInv /\ [Next]_vars =>
        [\A d \in Device :
           owned[d] # NoClaim /\ owned'[d] = NoClaim =>
             \/ phase'[owned[d].conn] = "done"
             \/ kicked'[owned[d].conn]]_vars
  BY FreedStep
<1> QED
  BY <1>1, ClaimsInit, ClaimsStep, PTL DEF Spec, SuccessorKept

-----------------------------------------------------------------------------
(* Every step keeps a contact that is down in the hands of a connection    *)
(* that will lift it.                                                      *)
LEMMA ContactStep == TypeOK /\ NoOrphanContact /\ [Next]_vars => NoOrphanContact'
<1> SUFFICES ASSUME TypeOK, NoOrphanContact, [Next]_vars,
                    NEW d \in Device, NEW f \in Finger, f \in pressed'[d], ~failed'[d]
             PROVE  \E c \in Conn : dev'[c] = d /\ phase'[c] \in {"open", "lifting"}
                                                /\ f \in held'[c]
  BY DEF NoOrphanContact
<1> USE DEF TypeOK, Phase
<1> DEFINE Holds(c) == dev[c] = d /\ phase[c] \in {"open", "lifting"} /\ f \in held[c]
<1> DEFINE Goal == \E c \in Conn : Holds(c)'
<1>1. f \in pressed[d] /\ ~failed[d] => \E c \in Conn : Holds(c)
  BY DEF NoOrphanContact
<1>2. ASSUME UNCHANGED <<dev, held, pressed, failed>>,
             \A b \in Conn : phase[b] \in {"open", "lifting"} /\ held[b] # {} =>
                               phase'[b] \in {"open", "lifting"}
      PROVE  Goal
  BY <1>1, <1>2
<1>3. ASSUME NEW c \in Conn, Acquire(c) \/ TakeOver(c) PROVE Goal
  BY <1>2, <1>3 DEF Acquire, TakeOver, Grant
<1>4. ASSUME NEW c \in Conn, Refuse(c) \/ ReadFails(c) \/ Lifted(c) \/ Release(c) PROVE Goal
  BY <1>2, <1>4 DEF Refuse, ReadFails, Lifted, Release
<1>5. ASSUME NEW c \in Conn, NEW m \in Message, Read(c, m) PROVE Goal
  BY <1>2, <1>5 DEF Read
<1>6. ASSUME NEW c \in Conn, Forward(c) PROVE Goal
  <2>1. /\ held' = [held EXCEPT ![c] = Observe(held[c], msg[c])]
        /\ pressed' = [pressed EXCEPT ![dev[c]] = Observe(pressed[dev[c]], msg[c])]
        /\ UNCHANGED <<dev, phase, failed>> /\ phase[c] = "open"
    BY <1>6 DEF Forward
  <2>2. CASE f \in Observe(held[c], msg[c]) /\ dev[c] = d
    BY <2>1, <2>2
  <2>3. CASE f \notin Observe(held[c], msg[c]) /\ dev[c] = d
    <3>1. f \in Observe(pressed[d], msg[c])
      BY <2>1, <2>3
    <3>2. f \in pressed[d] /\ f \notin held[c]
      BY <3>1, <2>3 DEF Observe
    <3> QED
      BY <1>1, <2>1, <3>2
  <2>4. CASE dev[c] # d
    BY <1>1, <2>1, <2>4
  <2> QED
    BY <2>2, <2>3, <2>4
<1>7. ASSUME NEW c \in Conn, ForwardFails(c) \/ LiftFails(c) PROVE Goal
  <2>1. dev[c] # d
    BY <1>7 DEF ForwardFails, LiftFails
  <2>2. /\ pressed' = pressed /\ dev' = dev /\ ~failed[d]
        /\ \A b \in Conn : b # c => held'[b] = held[b] /\ phase'[b] = phase[b]
    BY <1>7 DEF ForwardFails, LiftFails
  <2> QED
    BY <1>1, <2>1, <2>2
<1>8. ASSUME NEW c \in Conn, Lift(c) PROVE Goal
  <2>1. /\ held' = [held EXCEPT ![c] = held[c] \ {NextLift(c)}]
        /\ pressed' = [pressed EXCEPT ![dev[c]] =
                         Observe(pressed[dev[c]], [kind |-> NextLift(c), press |-> FALSE])]
        /\ UNCHANGED <<dev, phase, failed>>
    BY <1>8 DEF Lift
  <2>2. NextLift(c) \in Finger
    BY DEF NextLift, Finger
  <2>3. CASE dev[c] = d
    <3>1. f \in pressed[d] /\ f # NextLift(c)
      BY <2>1, <2>2, <2>3 DEF Observe
    <3> QED
      BY <1>1, <2>1, <3>1
  <2>4. CASE dev[c] # d
    BY <1>1, <2>1, <2>4
  <2> QED
    BY <2>3, <2>4
<1>9. ASSUME NEW c \in Conn, KickCloses(c) \/ PingUnanswered(c) \/ HangUp(c) \/ Die(c)
      PROVE  Goal
  BY <1>2, <1>9 DEF KickCloses, PingUnanswered, HangUp, Die
<1>10. ASSUME NEW e \in Device, KickHolder(e) PROVE Goal
  BY <1>2, <1>10 DEF KickHolder, sockets
<1>11. CASE UNCHANGED vars
  BY <1>2, <1>11 DEF vars
<1> QED
  BY <1>3, <1>4, <1>5, <1>6, <1>7, <1>8, <1>9, <1>10, <1>11 DEF Next

(* No finger stays down for nobody while frames can be delivered.          *)
THEOREM ContactsAccounted == Spec => []NoOrphanContact
<1>1. Init => TypeOK /\ NoOrphanContact
  BY TypeInit DEF Init, NoOrphanContact
<1>2. TypeOK /\ NoOrphanContact /\ [Next]_vars => TypeOK' /\ NoOrphanContact'
  BY TypeStep, ContactStep
<1> QED
  BY <1>1, <1>2, PTL DEF Spec

-----------------------------------------------------------------------------
(* The steps of the handlers the lock does not see: no claim moves, nobody *)
(* is kicked and no driver is done.                                        *)
LEMMA LockUnseen ==
  ASSUME IInv, NEW c \in Conn,
         \/ Refuse(c) \/ (\E m \in Message : Read(c, m))
         \/ Forward(c) \/ ForwardFails(c) \/ ReadFails(c)
         \/ Lift(c) \/ LiftFails(c) \/ Lifted(c)
         \/ KickCloses(c) \/ PingUnanswered(c) \/ HangUp(c) \/ Die(c)
  PROVE  /\ UNCHANGED <<owned, claim, kicked>>
         /\ \A b \in Conn : claim[b] # 0 => (phase'[b] = "done" <=> phase[b] = "done")
<1> USE DEF IInv, TypeOK, Phase
<1>1. CASE Refuse(c)
  BY <1>1 DEF Refuse, ClaimNumbers
<1>2. CASE ForwardFails(c) \/ ReadFails(c) \/ Lifted(c)
  BY <1>2 DEF ForwardFails, ReadFails, Lifted
<1>3. CASE \/ (\E m \in Message : Read(c, m))
           \/ Forward(c) \/ Lift(c) \/ LiftFails(c)
           \/ KickCloses(c) \/ PingUnanswered(c) \/ HangUp(c) \/ Die(c)
  BY <1>3 DEF Read, Forward, Lift, LiftFails, KickCloses, PingUnanswered, HangUp, Die
<1> QED
  BY <1>1, <1>2, <1>3

(* Every step of the handlers is a step of the lock, or none.              *)
LEMMA LockStep == IInv /\ [Next]_vars => [Lock!Next]_(Lock!vars)
<1> SUFFICES ASSUME IInv, [Next]_vars PROVE [Lock!Next]_(Lock!vars)
  OBVIOUS
<1> USE DEF IInv, TypeOK
<1> DEFINE driver == [d \in Device |-> owned[d].conn]
           drove == {c \in Conn : claim[c] # 0}
           told == {c \in Conn : kicked[c]}
           gone == {c \in Conn : claim[c] # 0 /\ phase[c] = "done"}
<1>1. ASSUME NEW c \in Conn, Acquire(c) \/ TakeOver(c)
      PROVE  \E d \in Device : Lock!Take(c, d)
  <2>1. PICK d \in Device : d = dev[c]
    OBVIOUS
  <2>2. /\ owned' = [owned EXCEPT ![d] = [id |-> last + 1, conn |-> c]]
        /\ claim' = [claim EXCEPT ![c] = last + 1]
        /\ phase' = [phase EXCEPT ![c] = "open"]
        /\ phase[c] = "new" /\ last + 1 # 0
    BY <1>1, <2>1 DEF Acquire, TakeOver, Grant
  <2>3. c \notin drove /\ drove' = drove \cup {c}
    BY <2>2 DEF ClaimNumbers
  <2>4. driver' = [driver EXCEPT ![d] = c]
    BY <2>2
  <2>5. told' = told \cup ({driver[d]} \ {NoConn})
    <3>1. CASE Acquire(c)
      BY <3>1, <2>1 DEF Acquire, NoClaim
    <3>2. CASE TakeOver(c)
      <4>1. kicked' = [kicked EXCEPT ![owned[d].conn] = TRUE] /\ owned[d].conn \in Conn
        BY <3>2, <2>1 DEF TakeOver, Claim
      <4> QED
        BY <4>1, NoConnAssumption
    <3> QED
      BY <1>1, <3>1, <3>2
  <2>6. gone' = gone
    BY <2>2 DEF ClaimNumbers
  <2>7. Lock!Take(c, d)
    BY <2>3, <2>4, <2>5, <2>6 DEF Lock!Take
  <2> QED
    BY <2>7
<1>2. ASSUME NEW c \in Conn, Release(c) PROVE Lock!Leave(c)
  <2>1. /\ owned' = Dropped(dev[c], claim[c]) /\ UNCHANGED <<claim, kicked>>
        /\ phase' = [phase EXCEPT ![c] = "done"] /\ phase[c] = "leaving"
        /\ claim[c] # 0 /\ dev[c] \in Device
    BY <1>2 DEF Release, ClaimNumbers, Serving
  <2>2. c \in drove \ gone /\ gone' = gone \cup {c}
    BY <2>1
  <2>3. ASSUME NEW d \in Device
        PROVE  owned'[d].conn = IF owned[d].conn = c THEN NoConn ELSE owned[d].conn
    <3>1. CASE owned[d].conn = c
      <4>1. owned[d] # NoClaim
        BY <3>1, NoConnAssumption DEF NoClaim
      <4>2. dev[c] = d /\ claim[c] = owned[d].id
        BY <3>1, <4>1 DEF ClaimIsServed
      <4> QED
        BY <2>1, <3>1, <4>2 DEF Dropped, NoClaim
    <3>2. CASE owned[d].conn # c
      <4>1. owned'[d] = owned[d]
        BY <1>2, <3>2, ReleaseClaims
      <4> QED
        BY <3>2, <4>1
    <3> QED
      BY <3>1, <3>2
  <2>4. driver' = [d \in Device |-> IF driver[d] = c THEN NoConn ELSE driver[d]]
    BY <2>3
  <2>5. UNCHANGED <<drove, told>>
    BY <2>1
  <2> QED
    BY <2>2, <2>4, <2>5 DEF Lock!Leave
<1>3. ASSUME NEW d \in Device, KickHolder(d) PROVE Lock!End(d)
  <2>1. /\ owned' = [owned EXCEPT ![d] = NoClaim] /\ owned[d] # NoClaim
        /\ kicked' = [kicked EXCEPT ![owned[d].conn] = TRUE]
        /\ UNCHANGED <<claim, phase>>
    BY <1>3 DEF KickHolder, sockets
  <2>2. owned[d].conn \in Conn /\ owned[d].conn # NoConn
    BY <2>1, NoConnAssumption DEF Claim
  <2>3. driver' = [driver EXCEPT ![d] = NoConn]
    BY <2>1 DEF NoClaim
  <2>4. told' = told \cup {driver[d]}
    BY <2>1, <2>2
  <2>5. UNCHANGED <<drove, gone>>
    BY <2>1
  <2> QED
    BY <2>2, <2>3, <2>4, <2>5 DEF Lock!End
<1>4. ASSUME NEW c \in Conn,
             \/ Refuse(c) \/ (\E m \in Message : Read(c, m))
             \/ Forward(c) \/ ForwardFails(c) \/ ReadFails(c)
             \/ Lift(c) \/ LiftFails(c) \/ Lifted(c)
             \/ KickCloses(c) \/ PingUnanswered(c) \/ HangUp(c) \/ Die(c)
      PROVE  UNCHANGED <<driver, drove, told, gone>>
  <2>1. /\ UNCHANGED <<owned, claim, kicked>>
        /\ \A b \in Conn : claim[b] # 0 => (phase'[b] = "done" <=> phase[b] = "done")
    BY <1>4, LockUnseen
  <2> QED
    BY <2>1
<1>5. UNCHANGED vars => UNCHANGED <<driver, drove, told, gone>>
  BY DEF vars
<1>6. Lock!Next \/ UNCHANGED <<driver, drove, told, gone>>
  <2> HIDE DEF driver, drove, told, gone
  <2>1. CASE \E d \in Device : KickHolder(d)
    BY <2>1, <1>3 DEF Lock!Next
  <2>2. CASE \E c \in Conn : Acquire(c) \/ TakeOver(c)
    BY <2>2, <1>1 DEF Lock!Next
  <2>3. CASE \E c \in Conn : Release(c)
    BY <2>3, <1>2 DEF Lock!Next
  <2> QED
    BY <1>4, <1>5, <2>1, <2>2, <2>3 DEF Next
<1> QED
  BY <1>6 DEF Lock!vars

(* The claims, with their numbers, tokens, kicks and late releases, are a  *)
(* correct lock: at most one driver per device, each at most once, told    *)
(* when it loses the device, and freeing nobody else's by leaving.         *)
THEOREM LockImplemented == Spec => ImplementsDriverLock
<1>1. Init => Lock!Init
  BY DEF Init, Lock!Init, NoClaim
<1>2. IInv /\ [Next]_vars => [Lock!Next]_(Lock!vars)
  BY LockStep
<1> QED
  BY <1>1, <1>2, ClaimsInit, ClaimsStep, PTL DEF Spec, ImplementsDriverLock, Lock!Spec
=============================================================================
