------------------------------ MODULE MCServer ------------------------------
(* A serve process, from its start to its exit, and an mcp process, for TLC, *)
(* a part at a time: a start, a home of two builds, what is printed and what *)
(* of the log is shown, the device that is brought ready, the input socket   *)
(* (two connections to one device, so that a client can be refused,          *)
(* replaced, kicked, or die while it holds the device), a request, the       *)
(* settings of one device set by two, the exit, and the tool calls of an     *)
(* agent.  The parts share nothing: a behaviour is one of one of them.       *)
EXTENDS InputSocket, Exit, Ready, McpServe, Requests, Settings, Home, Console, Start, TLC

CONSTANTS a, b

VARIABLE part

MCShips == a :> (("d" :> 1) @@ ("m" :> 1)) @@ b :> (("d" :> 2) @@ ("e" :> 1) @@ ("m" :> 2))
MCReleases == {<<26, 1>>, <<26, 2>>, <<27, 0>>}
MCFloor == <<26, 2>>
MCNameLists == {<<>>, <<"photos">>, <<"camera">>}

Parts == {"socket", "exit", "ready", "mcp", "requests", "settings",
          "home", "streams", "terminal", "start"}

MCInit ==
  /\ part \in Parts
  /\ Init /\ (part # "socket" => dev = [c \in Conn |-> CHOOSE d \in Device : TRUE])
  /\ ExitInit /\ (part # "exit" => ~keep /\ on = {})
  /\ ReadyInit
  /\ part # "ready" => sources = <<<<>>, <<>>>> /\ launching = "none" /\ ~onDevice
  /\ SetInit /\ (part # "settings" => platform = "ios")
  /\ McpInit /\ ReqInit /\ HomeInit /\ ConsoleInit /\ StartInit

(* A part at a time: its step, and nothing else of what the others hold.    *)
Held(p, its) == IF part = p THEN TRUE ELSE UNCHANGED its
Others ==
  /\ Held("socket", vars) /\ Held("exit", exitVars) /\ Held("ready", readyVars)
  /\ Held("mcp", mcpVars) /\ Held("requests", reqVars) /\ Held("settings", setVars) /\ Held("home", homeVars)
  /\ Held("streams", streams) /\ Held("terminal", terminal) /\ Held("start", startVars)

MCNext ==
  /\ UNCHANGED part
  /\ \/ part = "socket" /\ Next
     \/ part = "exit" /\ ExitNext
     \/ part = "ready" /\ ReadyNext
     \/ part = "mcp" /\ McpNext
     \/ part = "requests" /\ ReqNext
     \/ part = "settings" /\ SetNext
     \/ part = "home" /\ HomeNext
     \/ part = "streams" /\ StreamsNext
     \/ part = "terminal" /\ TerminalNext
     \/ part = "start" /\ StartNext
  /\ Others

(* In the other parts the connections and the mcp process have no step that  *)
(* is fair to take.                                                          *)
MCSpec ==
  /\ MCInit
  /\ [][MCNext]_<<part, vars, exitVars, readyVars, mcpVars, reqVars, setVars, homeVars,
                  consoleVars, startVars>>
  /\ Fairness /\ McpFairness
=============================================================================
