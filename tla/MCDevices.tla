------------------------------ MODULE MCDevices ------------------------------
(* What the server holds for its devices and what is read from their        *)
(* screens, for TLC, a part at a time: the cache of engines (callers that   *)
(* share one device's engine, one device next to it, and engines enough for *)
(* a replacement to be replaced); one device's session (a request in        *)
(* flight, a warm-up that outlives its session, and a session ended while   *)
(* it is being used); the delivery of its video (two viewers that fall      *)
(* behind independently, over one encoder's stream, long enough to lose a   *)
(* keyframe, a delta and the description and to recover); the recorder (two *)
(* places on two screens, so that a tree held can be stale in both ways     *)
(* that matter, a field and a secret changing places); the steps it names   *)
(* and how they are replayed; the refs of an agent and its tools (on three  *)
(* rows, with the bar, the keys and an element out of the screen or         *)
(* disabled among what they show); the two platforms' drivers.  The parts   *)
(* share nothing: a behaviour is one of one of them.                        *)
EXTENDS DeviceSession, Engines, VideoDelivery,
        Recorder, Screen, IosSnapshot, AndroidDriver, Agent, Refs, TLC

CONSTANTS p, q

VARIABLE part

MCShows == <<(p :> "field") @@ (q :> "secret"), (p :> "secret") @@ (q :> "button")>>

(* On an iOS screen and on an Android one: names that mean more to a        *)
(* regular expression or to YAML than they are, what covers the screen, the *)
(* keys, what belongs to the system, what takes clicks for its words, and   *)
(* the same words with an id and without.                                   *)
Element(type, id, label, value, frame) ==
  [type |-> type, id |-> id, label |-> label, title |-> <<>>, value |-> value, frame |-> frame,
   owner |-> "app", clickable |-> FALSE, above |-> {}]
Shared ==
  {Element("Button", <<"b">>, <<"\n">>, <<>>, {1}), Element("Button", <<".">>, <<>>, <<>>, {1}),
   Element("StaticText", <<>>, <<>>, <<"\\", "n">>, {1})}
MCKinds ==
  (FALSE :> Shared \cup
     {[Element("Button", <<>>, <<>>, <<>>, {1}) EXCEPT !.title = <<"\n">>],
      Element("Cell", <<"r">>, <<>>, <<>>, {1, 2}), Element("Other", <<>>, <<>>, <<>>, {1, 2, 3}),
      Element("Window", <<>>, <<>>, <<>>, {1, 2, 3}), Element("Keyboard", <<>>, <<>>, <<>>, {1, 2})})
  @@ (TRUE :> Shared \cup
     {Element("Button", <<>>, <<"\n">>, <<>>, {1}),
      [Element("Other", <<"r">>, <<"r">>, <<>>, {1, 2}) EXCEPT !.clickable = TRUE],
      [Element("Button", <<"s">>, <<" ">>, <<>>, {1}) EXCEPT !.owner = "framework"],
      [Element("Button", <<"s">>, <<"y">>, <<>>, {1}) EXCEPT !.owner = "system"]})

(* A button and a text of the same words, a button that takes the words of *)
(* a text in it, and a cell with an identifier.                            *)
MCElementKind == {[role |-> "button", id |-> "", text |-> "Add"],
                  [role |-> "button", id |-> "", text |-> ""],
                  [role |-> "text", id |-> "", text |-> "Add"],
                  [role |-> "cell", id |-> "tile", text |-> ""]}

El(id, words, row, enabled, type) ==
  [id |-> id, text |-> words, row |-> row, enabled |-> enabled, type |-> type]
Showing(nodes, bar, keys) == [nodes |-> nodes, bar |-> bar, keys |-> keys]

(* Two elements; under a bar and over keys; one disabled; one out of the     *)
(* screen; one behind an iOS keyboard; and an empty screen.                  *)
MCScreens ==
  LET a1 == El("a", "a", 1, TRUE, "app")     b3 == El("b", "b", 3, TRUE, "app")
      off == El("b", "a", 2, FALSE, "app")   out == El("a", "b", 4, TRUE, "app")
      kb == El("k", "k", 3, TRUE, "keyboard") key == El("q", "q", 3, TRUE, "key")
  IN {Showing(<<a1, b3>>, 0, 0), Showing(<<a1, b3>>, 1, 3), Showing(<<a1, off>>, 0, 0),
      Showing(<<out, b3>>, 0, 0), Showing(<<b3, kb, key>>, 0, 0), Showing(<<>>, 0, 0)}
Empty == Showing(<<>>, 0, 0)

Parts == {"engines", "session", "video", "recorder", "screen", "refs", "ios", "android", "agent"}

MCInit ==
  /\ part \in Parts
  /\ Init /\ CacheInit /\ DeliveryInit
  /\ RecorderInit /\ ScreenInit /\ RefsInit /\ SnapInit /\ DriverInit /\ AgentInit
  /\ part # "session" => ~power
  /\ part # "engines" => \E d \in {CHOOSE d \in Device : TRUE} :
       home = [e \in 1..MaxEngine |-> d] /\ dev = [c \in Caller |-> d]
  /\ part # "agent" => onScreen = Empty
  /\ part # "screen" => android
  /\ part # "ios" => ~named /\ app = Foreground
  /\ part # "android" => ime = "null"

(* A part at a time: its step, and nothing else of what the others hold.    *)
Held(those, its) == IF part = those THEN TRUE ELSE UNCHANGED its
Others ==
  /\ Held("session", vars) /\ Held("engines", cacheVars) /\ Held("video", deliveryVars)
  /\ Held("recorder", recorderVars) /\ Held("screen", screenVars) /\ Held("refs", refVars)
  /\ Held("ios", snapVars) /\ Held("android", driverVars) /\ Held("agent", agentVars)

(* What is read has an end; what the server holds for a device never stops. *)
Rests ==
  /\ part \in {"recorder", "screen", "refs", "ios", "android", "agent"}
  /\ UNCHANGED <<recorderVars, screenVars, refVars, snapVars, driverVars, agentVars>>

MCNext ==
  /\ UNCHANGED part
  /\ \/ part = "session" /\ Next
     \/ part = "engines" /\ CacheNext
     \/ part = "video" /\ DeliveryNext
     \/ part = "recorder" /\ RecorderNext
     \/ part = "screen" /\ ScreenNext
     \/ part = "refs" /\ RefsNext
     \/ part = "ios" /\ SnapNext
     \/ part = "android" /\ DriverNext
     \/ part = "agent" /\ AgentNext
     \/ Rests
  /\ Others

(* Before the first boot no warm-up has a step to take.                     *)
MCSpec ==
  /\ MCInit
  /\ [][MCNext]_<<part, vars, cacheVars, deliveryVars, recorderVars, screenVars, refVars, snapVars,
                  driverVars, agentVars>>
  /\ Fairness
=============================================================================
