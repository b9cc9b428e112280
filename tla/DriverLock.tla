----------------------------- MODULE DriverLock -----------------------------
(***************************************************************************)
(* What the ownership of a device's input promises, with none of the       *)
(* machinery that keeps the promise: a device has at most one driver, a    *)
(* client drives at most once, whoever loses a device to another client or *)
(* to the end of its session is told, and a client that leaves gives back  *)
(* the device it drives, if it still drives one, and nobody else's.        *)
(* InputSocket implements it.                                              *)
(***************************************************************************)
CONSTANTS Client, Device, NoClient

VARIABLES driver,   \* driver[d]: the client driving d, or NoClient
          drove,    \* the clients that have ever driven a device
          told,     \* the drivers told that they lost their device
          gone      \* the drivers that left

vars == <<driver, drove, told, gone>>

Init ==
  /\ driver = [d \in Device |-> NoClient]
  /\ drove = {} /\ told = {} /\ gone = {}

(* A client that never drove takes a device, and whoever drove it is told. *)
Take(c, d) ==
  /\ c \notin drove
  /\ driver' = [driver EXCEPT ![d] = c]
  /\ drove' = drove \cup {c}
  /\ told' = told \cup ({driver[d]} \ {NoClient})
  /\ UNCHANGED gone

(* A driver leaves, once: what it still drives is free, and a device it    *)
(* lost in the meantime stays with its successor.                          *)
Leave(c) ==
  /\ c \in drove \ gone
  /\ gone' = gone \cup {c}
  /\ driver' = [d \in Device |-> IF driver[d] = c THEN NoClient ELSE driver[d]]
  /\ UNCHANGED <<drove, told>>

(* The session of a driven device ends: the device is free and its driver  *)
(* is told.                                                                *)
End(d) ==
  /\ driver[d] # NoClient
  /\ driver' = [driver EXCEPT ![d] = NoClient]
  /\ told' = told \cup {driver[d]}
  /\ UNCHANGED <<drove, gone>>

Next ==
  \/ \E c \in Client : Leave(c) \/ \E d \in Device : Take(c, d)
  \/ \E d \in Device : End(d)

Spec == Init /\ [][Next]_vars
=============================================================================
