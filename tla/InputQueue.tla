----------------------------- MODULE InputQueue -----------------------------
(* What Android input promises of what is typed and touched: it waits, and *)
(* reaches the device once and in the order it came, or is lost when a     *)
(* call of the driver fails.  What waits goes, or is lost, as a whole.     *)
EXTENDS Naturals, Sequences

VARIABLES
  offered, \* number of the last input offered
  waiting, \* the inputs accepted that the device has not got, in order
  applied  \* the inputs the device got, in order

queue == <<offered, waiting, applied>>

Init == offered = 0 /\ waiting = <<>> /\ applied = <<>>

(* An input may be refused; the numbers go on.                             *)
Later == offered' \in Nat /\ offered' >= offered

Refuse == Later /\ UNCHANGED <<waiting, applied>>

Accept ==
  /\ Later /\ offered' # offered
  /\ waiting' = Append(waiting, offered')
  /\ UNCHANGED applied

Deliver ==
  /\ Later
  /\ waiting' = <<>> /\ applied' = applied \o waiting

(* An input that does not wait goes after everything that does.            *)
DeliverNew ==
  /\ Later /\ offered' # offered
  /\ waiting' = <<>> /\ applied' = Append(applied \o waiting, offered')

Lose == Later /\ waiting' = <<>> /\ UNCHANGED applied

Next == Refuse \/ Accept \/ Deliver \/ DeliverNew \/ Lose

Spec == Init /\ [][Next]_queue
=============================================================================
