---------------------------------- MODULE Exit ----------------------------------
(***************************************************************************)
(* The life of a serve process and its exit (runServe and shutdown,          *)
(* cmd/devicedeck/serve.go): requests that start engines on devices, a       *)
(* signal that may come while some are in hand, a drain that waits for them  *)
(* ten seconds, then the managers closed, the engines let go of, and the     *)
(* devices driven powered off.  What one engine, capture or sidecar does is  *)
(* the subject of the modules of their managers.                             *)
(***************************************************************************)
CONSTANTS Driven,    \* the devices
          Handler,   \* requests that may be in hand at once
          None

ASSUME NoneAssumption == None \notin Driven

VARIABLES
  serving,   \* "greeting", "up", "draining", "closed", "listed", "stopped", "ended"
  keep,      \* --keep-devices
  on,        \* the devices that run
  engines,   \* the devices with a cached engine
  asks,      \* what each handler is asked about: a device or None
  driven,    \* what ActiveUDIDs listed and powerOff has not come to
  drove,     \* the devices an engine was ever started on
  stopped,   \* the devices whose engine StopAll let go of
  refused,   \* the devices whose power-off failed
  orderly    \* one signal ended the process and no request outlived the drain

exitVars == <<serving, keep, on, engines, asks, driven, drove, stopped, refused, orderly>>
end == <<keep, driven, stopped, refused, orderly>>

ExitInit ==
  /\ serving = "greeting" /\ keep \in BOOLEAN /\ on \in SUBSET Driven
  /\ engines = {} /\ asks = [h \in Handler |-> None]
  /\ driven = {} /\ drove = {} /\ stopped = {} /\ refused = {} /\ orderly = FALSE

-----------------------------------------------------------------------------
(* Requests.  One that was accepted goes on until it is done, whatever the   *)
(* server does meanwhile.                                                    *)
Alive == serving # "ended"

Ask(h, d) ==
  /\ serving \in {"greeting", "up"} /\ asks[h] = None
  /\ asks' = [asks EXCEPT ![h] = d]
  /\ UNCHANGED <<serving, on, engines, drove, end>>

Done(h) ==
  /\ Alive /\ asks[h] # None
  /\ asks' = [asks EXCEPT ![h] = None]
  /\ UNCHANGED <<serving, on, engines, drove, end>>

(* Boot: what it starts outlives this process.                               *)
Boots(h) ==
  /\ Alive /\ asks[h] \in Driven \ on
  /\ on' = on \cup {asks[h]}
  /\ UNCHANGED <<serving, engines, asks, drove, end>>

(* Engines.engine, for a tree, a warm-up or an Android input.                *)
EngineStarts(h) ==
  /\ Alive /\ asks[h] \in on \ engines
  /\ engines' = engines \cup {asks[h]} /\ drove' = drove \cup {asks[h]}
  /\ UNCHANGED <<serving, on, asks, end>>

(* An engine that failed is evicted; its successor is an EngineStarts, which *)
(* may not come.                                                             *)
EngineFails(h) ==
  /\ Alive /\ asks[h] \in engines
  /\ engines' = engines \ {asks[h]}
  /\ UNCHANGED <<serving, on, asks, drove, end>>

(* End session: the engine goes, and the device if it can be powered off.    *)
EndSession(h) ==
  /\ Alive /\ asks[h] # None
  /\ engines' = engines \ {asks[h]} /\ on' \in {on, on \ {asks[h]}}
  /\ UNCHANGED <<serving, asks, drove, end>>

-----------------------------------------------------------------------------
(* greet, with the server up already, for as long as --ready takes.          *)
Greeted ==
  /\ serving = "greeting" /\ serving' = "up"
  /\ UNCHANGED <<on, engines, asks, drove, end>>

(* waitForExit.  A listener that fails ends the process with no shutdown.    *)
Signal ==
  /\ serving = "up" /\ serving' = "draining"
  /\ UNCHANGED <<on, engines, asks, drove, end>>

ListenerFails ==
  /\ serving = "up" /\ serving' = "ended"
  /\ UNCHANGED <<on, engines, asks, drove, end>>

(* A signal that comes while nobody waits for one, before waitForExit or once *)
(* it has returned: the process is gone, whatever it was at.                 *)
Killed ==
  /\ serving \notin {"up", "ended"} /\ serving' = "ended" /\ orderly' = FALSE
  /\ UNCHANGED <<keep, on, engines, asks, driven, drove, stopped, refused>>

(* httpServer.Shutdown: no request is left, or ten seconds have passed.      *)
InHand == {h \in Handler : asks[h] # None}
Drained ==
  /\ serving = "draining" /\ serving' = "closed"
  /\ orderly' = (InHand = {})
  /\ UNCHANGED <<keep, on, engines, asks, driven, drove, stopped, refused>>

(* Mutant: the devices are listed once the engines are gone.                 *)
ListNothing ==
  /\ serving = "closed" /\ serving' = "listed"
  /\ driven' = {}
  /\ UNCHANGED <<keep, on, engines, asks, drove, stopped, refused, orderly>>

(* ActiveUDIDs, which takes the engines' lock by itself.                     *)
List ==
  /\ serving = "closed" /\ serving' = "listed"
  /\ driven' = engines
  /\ UNCHANGED <<keep, on, engines, asks, drove, stopped, refused, orderly>>

StopAll ==
  /\ serving = "listed" /\ serving' = "stopped"
  /\ stopped' = engines /\ engines' = {}
  /\ UNCHANGED <<keep, on, asks, driven, drove, refused, orderly>>

(* powerOff, a device at a time; past its own twenty seconds all are refused. *)
PowerOff(d) ==
  /\ serving = "stopped" /\ ~keep /\ d \in driven
  /\ driven' = driven \ {d}
  /\ \/ on' = on \ {d} /\ UNCHANGED refused
     \/ refused' = refused \cup {d} /\ UNCHANGED on
  /\ UNCHANGED <<serving, keep, engines, asks, drove, stopped, orderly>>

Exits ==
  /\ serving = "stopped" /\ (keep \/ driven = {})
  /\ serving' = "ended"
  /\ UNCHANGED <<on, engines, asks, drove, end>>

ExitNext ==
  \/ \E h \in Handler : \/ \E d \in Driven : Ask(h, d)
                        \/ Done(h) \/ Boots(h) \/ EngineStarts(h)
                        \/ EngineFails(h) \/ EndSession(h)
  \/ Greeted \/ Signal \/ ListenerFails \/ Killed \/ Drained \/ List \/ StopAll \/ Exits
  \/ \E d \in Driven : PowerOff(d)

ExitSpec == ExitInit /\ [][ExitNext]_exitVars

-----------------------------------------------------------------------------
ExitTypeOK ==
  /\ serving \in {"greeting", "up", "draining", "closed", "listed", "stopped", "ended"}
  /\ keep \in BOOLEAN /\ orderly \in BOOLEAN
  /\ on \subseteq Driven /\ engines \subseteq Driven /\ driven \subseteq Driven
  /\ drove \subseteq Driven /\ stopped \subseteq Driven /\ refused \subseteq Driven
  /\ asks \in [Handler -> Driven \cup {None}]

Over == serving = "ended" /\ orderly /\ ~keep

(* A device whose engine the exit let go of is off when the process is gone, *)
(* unless its power-off failed: "Capture the driven devices before StopAll   *)
(* clears them; they are DeviceDeck's to power off" (shutdown).  A request   *)
(* that outlived the drain may start an engine in between.                   *)
LetGoIsOff == Over => stopped \cap on \subseteq refused
=============================================================================
