---------------------------- MODULE InputSocket ----------------------------
(***************************************************************************)
(* Who drives a device: the claims of internal/server/ownership.go and the *)
(* input WebSocket handler of internal/server/ws.go that takes one, forwards *)
(* the client's frames to the device, and gives the device back.           *)
(*                                                                         *)
(* Each connection is served by one goroutine (handleInputWS), which is    *)
(* cut here wherever another goroutine can come between: the claim, each   *)
(* message read, each frame sent, each contact lifted on the way out, the  *)
(* release.  Around it run the ping watchdog (watchLiveness), the close    *)
(* another client's takeover starts (kicker) and the end of the device's   *)
(* session (kickHolder).  A client dials once: a reconnecting page is      *)
(* another member of Conn.                                                 *)
(***************************************************************************)
EXTENDS Naturals

CONSTANTS Conn,     \* the input connections that may be dialled
          Device,   \* the devices of the host
          NoConn    \* no connection

ASSUME NoConnAssumption == NoConn \notin Conn

VARIABLES
  owned,     \* inputOwners.owned: the claim held on each device, or NoClaim
  last,      \* inputOwners.last: numbers the claims
  phase,     \* phase[c]: where the handler of c is
  dev,       \* dev[c]: the device c was dialled for
  claim,     \* claim[c]: the id of the claim the handler of c took, or 0
  msg,       \* msg[c]: the message read from c and not handled yet
  held,      \* held[c]: heldTouch, the contacts c pressed and did not release
  kicked,    \* kicked[c]: a kick started closing c
  closed,    \* closed[c]: c's socket is closed, a Read of it fails
  alive,     \* alive[c]: the peer of c answers
  pressed,   \* pressed[d]: the contacts the device sees pressed
  failed     \* failed[d]: a frame for d could not be delivered

sockets == <<phase, dev, claim, msg, held, closed, alive>>
vars == <<owned, last, phase, dev, claim, msg, held, kicked, closed, alive,
          pressed, failed>>

-----------------------------------------------------------------------------
(* The contacts heldTouch tracks: a single finger, and the pair of a       *)
(* two-finger gesture.  A frame presses its contact (touch down and move,  *)
(* phases that are not TouchUp) or releases it; every other valid frame is *)
(* Other.  A message inputMessage ignores changes nothing and has no step. *)
Finger == {"one", "two"}
Touch == [kind : Finger, press : BOOLEAN]
Other == [kind |-> "other", press |-> FALSE]
NoMsg == [kind |-> "none", press |-> FALSE]
Message == Touch \cup {Other}

NoClaim == [id |-> 0, conn |-> NoConn]
Claim == [id : Nat \ {0}, conn : Conn]

(* "new" not dialled; "open" in the read loop; "lifting" the read loop is  *)
(* over and releaseTouch runs; "leaving" its claim is still to be released; *)
(* "done" the handler returned.                                            *)
Phase == {"new", "open", "lifting", "leaving", "done"}
Serving(c) == phase[c] \in {"open", "lifting", "leaving"}

Init ==
  /\ owned = [d \in Device |-> NoClaim]
  /\ last = 0
  /\ phase = [c \in Conn |-> "new"]
  /\ dev \in [Conn -> Device]
  /\ claim = [c \in Conn |-> 0]
  /\ msg = [c \in Conn |-> NoMsg]
  /\ held = [c \in Conn |-> {}]
  /\ kicked = [c \in Conn |-> FALSE]
  /\ closed = [c \in Conn |-> FALSE]
  /\ alive = [c \in Conn |-> TRUE]
  /\ pressed = [d \in Device |-> {}]
  /\ failed = [d \in Device |-> FALSE]

-----------------------------------------------------------------------------
(* acquire: the claim of a free device, a takeover of a driven one, and    *)
(* the refusal.                                                            *)
Grant(c) ==
  /\ last' = last + 1
  /\ owned' = [owned EXCEPT ![dev[c]] = [id |-> last + 1, conn |-> c]]
  /\ claim' = [claim EXCEPT ![c] = last + 1]
  /\ phase' = [phase EXCEPT ![c] = "open"]
  /\ UNCHANGED <<dev, msg, held, closed, alive, pressed, failed>>

Acquire(c) ==
  /\ phase[c] = "new"
  /\ owned[dev[c]] = NoClaim
  /\ Grant(c)
  /\ UNCHANGED kicked

TakeOver(c) ==
  /\ phase[c] = "new"
  /\ owned[dev[c]] # NoClaim
  /\ kicked' = [kicked EXCEPT ![owned[dev[c]].conn] = TRUE]
  /\ Grant(c)

Refuse(c) ==
  /\ phase[c] = "new"
  /\ owned[dev[c]] # NoClaim
  /\ phase' = [phase EXCEPT ![c] = "done"]
  /\ closed' = [closed EXCEPT ![c] = TRUE]
  /\ UNCHANGED <<owned, last, dev, claim, msg, held, kicked, alive, pressed, failed>>

(* kickHolder, called when the device's session ends: the driver is kicked *)
(* and the device is free at once.                                         *)
KickHolder(d) ==
  /\ owned[d] # NoClaim
  /\ kicked' = [kicked EXCEPT ![owned[d].conn] = TRUE]
  /\ owned' = [owned EXCEPT ![d] = NoClaim]
  /\ UNCHANGED <<last, sockets, pressed, failed>>

-----------------------------------------------------------------------------
(* The read loop.  Close waits for the peer's acknowledgement, so messages *)
(* of a kicked connection are still read until its socket is closed.       *)
Read(c, m) ==
  /\ phase[c] = "open" /\ msg[c] = NoMsg
  /\ ~closed[c] /\ alive[c]
  /\ msg' = [msg EXCEPT ![c] = m]
  /\ UNCHANGED <<owned, last, phase, dev, claim, held, kicked, closed, alive, pressed, failed>>

ReadFails(c) ==
  /\ phase[c] = "open" /\ msg[c] = NoMsg
  /\ closed[c]
  /\ phase' = [phase EXCEPT ![c] = "lifting"]
  /\ UNCHANGED <<owned, last, dev, claim, msg, held, kicked, closed, alive, pressed, failed>>

(* The contacts down once frame m is taken into account: what observe folds *)
(* into heldTouch, and what a delivered frame does to the device's screen. *)
Observe(contacts, m) ==
  IF m.kind \notin Finger THEN contacts
  ELSE IF m.press THEN contacts \cup {m.kind}
  ELSE contacts \ {m.kind}

(* inputMessage observes the frame, then sends it.                         *)
Forward(c) ==
  /\ phase[c] = "open" /\ msg[c] # NoMsg
  /\ held' = [held EXCEPT ![c] = Observe(held[c], msg[c])]
  /\ pressed' = [pressed EXCEPT ![dev[c]] = Observe(@, msg[c])]
  /\ msg' = [msg EXCEPT ![c] = NoMsg]
  /\ UNCHANGED <<owned, last, phase, dev, claim, kicked, closed, alive, failed>>

(* The frame was observed but could not be sent: the socket is closed      *)
(* ("sidecar unavailable") and the handler returns.                        *)
ForwardFails(c) ==
  /\ phase[c] = "open" /\ msg[c] # NoMsg
  /\ held' = [held EXCEPT ![c] = Observe(held[c], msg[c])]
  /\ msg' = [msg EXCEPT ![c] = NoMsg]
  /\ failed' = [failed EXCEPT ![dev[c]] = TRUE]
  /\ closed' = [closed EXCEPT ![c] = TRUE]
  /\ phase' = [phase EXCEPT ![c] = "lifting"]
  /\ UNCHANGED <<owned, last, dev, claim, kicked, alive, pressed>>

-----------------------------------------------------------------------------
(* The deferred calls, last registered first: releaseTouch lifts one       *)
(* contact after the other and stops at the first that cannot be sent,     *)
(* then the claim is released, if it is still the one held.                *)
NextLift(c) == IF "one" \in held[c] THEN "one" ELSE "two"

Lift(c) ==
  /\ phase[c] = "lifting" /\ held[c] # {}
  /\ pressed' = [pressed EXCEPT ![dev[c]] =
                   Observe(@, [kind |-> NextLift(c), press |-> FALSE])]
  /\ held' = [held EXCEPT ![c] = @ \ {NextLift(c)}]
  /\ UNCHANGED <<owned, last, phase, dev, claim, msg, kicked, closed, alive, failed>>

LiftFails(c) ==
  /\ phase[c] = "lifting" /\ held[c] # {}
  /\ held' = [held EXCEPT ![c] = {}]
  /\ failed' = [failed EXCEPT ![dev[c]] = TRUE]
  /\ UNCHANGED <<owned, last, phase, dev, claim, msg, kicked, closed, alive, pressed>>

(* Mutant: only a single finger is lifted on the way out.                  *)
LiftedOneOnly(c) ==
  /\ phase[c] = "lifting" /\ "one" \notin held[c]
  /\ phase' = [phase EXCEPT ![c] = "leaving"]
  /\ UNCHANGED <<owned, last, dev, claim, msg, held, kicked, closed, alive, pressed, failed>>

Lifted(c) ==
  /\ phase[c] = "lifting" /\ held[c] = {}
  /\ phase' = [phase EXCEPT ![c] = "leaving"]
  /\ UNCHANGED <<owned, last, dev, claim, msg, held, kicked, closed, alive, pressed, failed>>

(* Mutant: a release that drops whatever claim its device has, be it that  *)
(* of a successor.                                                         *)
DroppedByDevice(d, id) == [owned EXCEPT ![d] = NoClaim]

(* releaseClaim's map after the claim numbered id on d was dropped: only a *)
(* claim that is still the one held goes.                                  *)
Dropped(d, id) ==
  IF owned[d].id = id THEN [owned EXCEPT ![d] = NoClaim] ELSE owned

(* release, then the deferred Close: the handler has returned.             *)
Release(c) ==
  /\ phase[c] = "leaving"
  /\ owned' = Dropped(dev[c], claim[c])
  /\ phase' = [phase EXCEPT ![c] = "done"]
  /\ closed' = [closed EXCEPT ![c] = TRUE]
  /\ UNCHANGED <<last, dev, claim, msg, held, kicked, alive, pressed, failed>>

-----------------------------------------------------------------------------
(* The other goroutines of a connection, and its peer.                     *)

(* A kick's Close has been acknowledged, or has waited long enough.        *)
KickCloses(c) ==
  /\ kicked[c] /\ ~closed[c]
  /\ closed' = [closed EXCEPT ![c] = TRUE]
  /\ UNCHANGED <<owned, last, phase, dev, claim, msg, held, kicked, alive, pressed, failed>>

(* Mutant: no watchdog for a driver that is merely silent.                 *)
PingOnlyBusy(c) ==
  /\ Serving(c) /\ ~closed[c]
  /\ msg[c] # NoMsg
  /\ closed' = [closed EXCEPT ![c] = TRUE]
  /\ UNCHANGED <<owned, last, phase, dev, claim, msg, held, kicked, alive, pressed, failed>>

(* A ping goes unanswered when the peer is gone, and also when the handler *)
(* is not in Read to receive the answer because a send is taking longer    *)
(* than inputPingTimeout: CloseNow.                                        *)
PingUnanswered(c) ==
  /\ Serving(c) /\ ~closed[c]
  /\ ~alive[c] \/ msg[c] # NoMsg
  /\ closed' = [closed EXCEPT ![c] = TRUE]
  /\ UNCHANGED <<owned, last, phase, dev, claim, msg, held, kicked, alive, pressed, failed>>

(* The client closes its socket: a closed tab, a finished test.            *)
HangUp(c) ==
  /\ phase[c] = "open" /\ ~closed[c] /\ alive[c]
  /\ closed' = [closed EXCEPT ![c] = TRUE]
  /\ UNCHANGED <<owned, last, phase, dev, claim, msg, held, kicked, alive, pressed, failed>>

(* The client dies without closing it: a killed browser, a slept laptop.   *)
Die(c) ==
  /\ phase[c] = "open" /\ ~closed[c] /\ alive[c]
  /\ alive' = [alive EXCEPT ![c] = FALSE]
  /\ UNCHANGED <<owned, last, phase, dev, claim, msg, held, kicked, closed, pressed, failed>>

-----------------------------------------------------------------------------
Handle(c) ==
  \/ Forward(c) \/ ForwardFails(c)
  \/ ReadFails(c) \/ Lift(c) \/ LiftFails(c) \/ Lifted(c) \/ Release(c)

Next ==
  \/ \E c \in Conn :
       \/ Acquire(c) \/ TakeOver(c) \/ Refuse(c)
       \/ \E m \in Message : Read(c, m)
       \/ Forward(c) \/ ForwardFails(c)
       \/ ReadFails(c) \/ Lift(c) \/ LiftFails(c) \/ Lifted(c) \/ Release(c)
       \/ KickCloses(c) \/ PingUnanswered(c) \/ HangUp(c) \/ Die(c)
  \/ \E d \in Device : KickHolder(d)

(* The goroutines of the server are scheduled: a handler that can step     *)
(* does, a kick's Close ends (it waits for the peer a bounded time) and an *)
(* unanswered ping is noticed.  Nothing is assumed of clients or users.    *)
Fairness ==
  \A c \in Conn : /\ WF_vars(Handle(c))
                  /\ WF_vars(KickCloses(c))
                  /\ WF_vars(PingUnanswered(c))

Spec == Init /\ [][Next]_vars /\ Fairness

-----------------------------------------------------------------------------
(* The ranges of the variables.                                            *)
TypeOK ==
  /\ owned \in [Device -> Claim \cup {NoClaim}]
  /\ last \in Nat
  /\ phase \in [Conn -> Phase]
  /\ dev \in [Conn -> Device]
  /\ claim \in [Conn -> Nat]
  /\ msg \in [Conn -> Message \cup {NoMsg}]
  /\ held \in [Conn -> SUBSET Finger]
  /\ kicked \in [Conn -> BOOLEAN]
  /\ closed \in [Conn -> BOOLEAN]
  /\ alive \in [Conn -> BOOLEAN]
  /\ pressed \in [Device -> SUBSET Finger]
  /\ failed \in [Device -> BOOLEAN]

(* No claim outlives its handler: whoever a device is refused on behalf of *)
(* is a connection still being served for that very device, under that     *)
(* very claim (the hazard the comment of inputPingInterval describes).     *)
ClaimIsServed ==
  \A d \in Device : owned[d] # NoClaim =>
    LET c == owned[d].conn
    IN Serving(c) /\ dev[c] = d /\ claim[c] = owned[d].id

(* One driver per device: a connection that is served and was not told to  *)
(* go holds the claim of its device, so two such connections never share   *)
(* one (handleInputWS acquires before it reads, and acquire kicks whoever  *)
(* it replaces).                                                           *)
ServedIsHolderOrKicked ==
  \A c \in Conn : Serving(c) /\ ~kicked[c] =>
    owned[dev[c]] = [id |-> claim[c], conn |-> c]

(* No finger stays down for nobody: a contact the device sees pressed is   *)
(* one some served connection still has to lift, unless a frame for that   *)
(* device could not be delivered (releaseTouch's reason to exist).         *)
NoOrphanContact ==
  \A d \in Device, f \in Finger :
    f \in pressed[d] /\ ~failed[d] =>
      \E c \in Conn : dev[c] = d /\ phase[c] \in {"open", "lifting"} /\ f \in held[c]

(* A device is freed under a driver only when that driver's handler has    *)
(* finished or has been told to go: the late release of an earlier         *)
(* connection never frees its successor (releaseClaim).                    *)
SuccessorKept ==
  [][\A d \in Device :
       owned[d] # NoClaim /\ owned'[d] = NoClaim =>
         \/ phase'[owned[d].conn] = "done"
         \/ kicked'[owned[d].conn]]_vars

(* The device a dead client drove is given back without anyone's help      *)
(* (watchLiveness).                                                        *)
DeadDriverFreed ==
  \A c \in Conn :
    (~alive[c] /\ owned[dev[c]].conn = c) ~> (owned[dev[c]].conn # c)

(* The claims implement the lock of DriverLock: whatever order claims,     *)
(* takeovers, ends of sessions and late releases come in, a leaving        *)
(* handler frees the device it drives itself and never its successor's     *)
(* (releaseClaim drops by number, not by device), and nobody loses a       *)
(* device without being kicked.                                            *)
Lock == INSTANCE DriverLock WITH
          Client <- Conn, NoClient <- NoConn,
          driver <- [d \in Device |-> owned[d].conn],
          drove <- {c \in Conn : claim[c] # 0},
          told <- {c \in Conn : kicked[c]},
          gone <- {c \in Conn : claim[c] # 0 /\ phase[c] = "done"}
ImplementsDriverLock == Lock!Spec

(* What docs/console.md says of a device: two clients never act on it at   *)
(* once.  A finger the current driver is holding down is down on the       *)
(* device as long as every frame could be delivered and its own frames are *)
(* the only ones that could lift it.  The code does not keep it: a         *)
(* connection that was taken over still has its queued frames forwarded    *)
(* and its contacts lifted after its successor has pressed.                *)
DriverFingerDown ==
  \A c \in Conn, f \in Finger :
    /\ phase[c] = "open" /\ owned[dev[c]].conn = c
    /\ f \in held[c] /\ ~failed[dev[c]]
    => f \in pressed[dev[c]]
=============================================================================
