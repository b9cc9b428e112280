---------------------------------- MODULE Agent ----------------------------------
(***************************************************************************)
(* One call of an agent's tool over MCP (internal/mcp: tools.go, target.go,  *)
(* actions.go, fill.go, wait.go): the tree is read, an element found in it   *)
(* and judged fit to act on, and then acted on by a request of its own, by   *)
(* when the screen may show something else.  Refs are the subject of Refs,   *)
(* the driver's fill of Fill.                                                *)
(*                                                                         *)
(* The screen is rows, row 0 above it and row Rows + 1 below; the centre of  *)
(* an element is on a row, and the edges of the bars are between rows.       *)
(***************************************************************************)
EXTENDS Naturals, Sequences

CONSTANTS
  Rows,
  Screens,   \* what it may show: nodes, the rows of the status bar, the first row of the keys
  MaxMoves   \* bound: times the screen changes by itself

VARIABLES
  onScreen,  \* what the device shows
  moves,
  tool,      \* what the agent called: the tool, how it names the element, submit
  doing,     \* "idle", "read", "resolve", "act", "enter", "sleep", "told"
  dom,       \* the screen as read
  target,    \* the node of the tree acted on
  late,      \* the deadline of a wait has passed
  told,      \* "", "done", "absent", "disabled", "unreachable", "error", "timed out"
  got        \* what received the touch: "", "app", "bar", "keys", "edge"

agentVars == <<onScreen, moves, tool, doing, dom, target, late, told, got>>
deviceVars == <<onScreen, moves>>

NoNode == [id |-> "", text |-> "", row |-> 0, enabled |-> TRUE, type |-> ""]

(* A node has an id, a text, a row, a type and whether it is enabled.  An    *)
(* iOS keyboard is among the nodes, with its keys under it; Android's is     *)
(* told of by the first row it takes, and its status bar by its rows (the    *)
(* bar of iOS, which the tree says nothing of, is left out).                 *)
HasKeyboard(nodes) == \E i \in DOMAIN nodes : nodes[i].type = "keyboard"

(* The iOS keyboard takes the last row, and the keys are on it.              *)
ASSUME ScreensAssumption ==
  /\ Rows \in Nat
  /\ \A s \in Screens :
       /\ DOMAIN s.nodes \subseteq Nat /\ s.bar \in Nat /\ s.keys \in Nat
       /\ \A i \in DOMAIN s.nodes :
            /\ s.nodes[i].row \in Nat
            /\ s.nodes[i].type # "app" => HasKeyboard(s.nodes) /\ s.nodes[i].row = Rows

Names == UNION {{s.nodes[i].id : i \in DOMAIN s.nodes} : s \in Screens}
Tools == {"tap", "fill", "look", "visible", "gone", "settled", "press"}
Call ==
  {c \in [name : Tools, by : {"id", "text"}, what : Names, submit : BOOLEAN] :
     c.submit => c.name = "fill"}
NoCall == [name |-> "none", by |-> "id", what |-> "", submit |-> FALSE]

AgentInit ==
  /\ onScreen \in Screens /\ moves = 0
  /\ tool = NoCall /\ doing = "idle"
  /\ dom = [nodes |-> <<>>, bar |-> 0, keys |-> 0] /\ target = NoNode
  /\ late = FALSE /\ told = "" /\ got = ""

-----------------------------------------------------------------------------
(* targetIndex: the first of an identifier, the only one of a text.          *)
IsMeant(n) == IF tool.by = "id" THEN n.id = tool.what ELSE n.text = tool.what
Meant(nodes) == {i \in DOMAIN nodes : IsMeant(nodes[i])}
Finds(nodes) ==
  IF tool.by = "id" THEN Meant(nodes) # {} ELSE \E i \in DOMAIN nodes : Meant(nodes) = {i}
First(nodes) ==
  nodes[CHOOSE i \in Meant(nodes) : \A j \in Meant(nodes) : i <= j]

(* Mutant: the keys are not looked at.                                       *)
ReachableUnderKeys(t, n) == n.row \in 1..Rows /\ n.row > t.bar

(* reachable: on the screen, below the status bar, above Android's keys, and *)
(* not under iOS's unless it is one of them.                                 *)
Reachable(t, n) ==
  /\ n.row \in 1..Rows
  /\ n.row > t.bar
  /\ ~(HasKeyboard(t.nodes) /\ n.row = Rows /\ n.type = "app")
  /\ t.keys > 0 => n.row < t.keys

Tell(what) == doing' = "told" /\ told' = what

-----------------------------------------------------------------------------
CallTool(c) ==
  /\ doing = "idle" /\ tool' = c
  /\ doing' = IF c.name \in {"settled", "press"} THEN "act" ELSE "read"
  /\ UNCHANGED <<deviceVars, dom, target, late, told, got>>

(* A read of the tree, which may fail: "this is not the element being        *)
(* absent".                                                                  *)
ReadTree ==
  /\ doing = "read"
  /\ \/ dom' = onScreen /\ doing' = "resolve" /\ UNCHANGED told
     \/ Tell("error") /\ UNCHANGED dom
  /\ UNCHANGED <<deviceVars, tool, target, late, got>>

Resolve ==
  /\ doing = "resolve" /\ tool.name \in {"tap", "fill"}
  /\ IF ~Finds(dom.nodes) THEN Tell("absent") /\ UNCHANGED target
     ELSE LET n == First(dom.nodes) IN
          CASE ~n.enabled -> Tell("disabled") /\ UNCHANGED target
            [] n.enabled /\ ~Reachable(dom, n) -> Tell("unreachable") /\ UNCHANGED target
            [] OTHER -> doing' = "act" /\ target' = n /\ UNCHANGED told
  /\ UNCHANGED <<deviceVars, tool, dom, late, got>>

(* find_element and assert_visible: any number will do.                      *)
Look ==
  /\ doing = "resolve" /\ tool.name = "look"
  /\ Tell(IF Meant(dom.nodes) # {} THEN "done" ELSE "absent")
  /\ UNCHANGED <<deviceVars, tool, dom, target, late, got>>

(* waitUntil: the deadline is looked at after the screen.                    *)
Present == Meant(dom.nodes) # {}
CheckWait ==
  /\ doing = "resolve" /\ tool.name \in {"visible", "gone"}
  /\ CASE Present = (tool.name = "visible") -> Tell("done")
       [] Present # (tool.name = "visible") /\ late -> Tell("timed out")
       [] OTHER -> doing' = "sleep" /\ UNCHANGED told
  /\ UNCHANGED <<deviceVars, tool, dom, target, late, got>>

Wakes ==
  /\ doing = "sleep" /\ doing' = "read"
  /\ UNCHANGED <<deviceVars, tool, dom, target, late, told, got>>

DeadlinePasses ==
  /\ tool.name \in {"visible", "gone"} /\ doing # "told" /\ ~late /\ late' = TRUE
  /\ UNCHANGED <<deviceVars, tool, doing, dom, target, told, got>>

-----------------------------------------------------------------------------
(* Who takes a touch at a row: the system's bar, the keys, or the app.       *)
Receiver(row) ==
  CASE row \notin 1..Rows -> "edge"
    [] row \in 1..onScreen.bar -> "bar"
    [] onScreen.keys > 0 /\ row \in onScreen.keys..Rows -> "keys"
    [] HasKeyboard(onScreen.nodes) /\ row = Rows -> "keys"
    [] OTHER -> "app"

(* A tap, of which the answer may be lost.                                   *)
TapTool ==
  /\ doing = "act" /\ tool.name = "tap"
  /\ \/ got' = Receiver(target.row) /\ (Tell("done") \/ Tell("error"))
     \/ UNCHANGED got /\ Tell("error")
  /\ UNCHANGED <<deviceVars, tool, dom, target, late>>

(* act: the driver's own error comes inside an answer that says ok.          *)
Act ==
  /\ doing = "act" /\ tool.name = "fill"
  /\ \/ tool.submit /\ doing' = "enter" /\ UNCHANGED told
     \/ ~tool.submit /\ Tell("done")
     \/ Tell("error")
  /\ UNCHANGED <<deviceVars, tool, dom, target, late, got>>

Enter ==
  /\ doing = "enter"
  /\ Tell("done") \/ Tell("error")
  /\ UNCHANGED <<deviceVars, tool, dom, target, late, got>>

(* press, swipe and the like name no element, and are one request.           *)
PressTool ==
  /\ doing = "act" /\ tool.name = "press"
  /\ Tell("done") \/ Tell("error")
  /\ UNCHANGED <<deviceVars, tool, dom, target, late, got>>

(* waitSettled: the server's barrier answers once the screen is quiet, or at *)
(* its cap with whatever it last read; the tool takes both for an answer.    *)
(* late is then that the cap came first.                                     *)
Settled ==
  /\ doing = "act" /\ tool.name = "settled"
  /\ \/ late' \in BOOLEAN /\ Tell("done")
     \/ Tell("error") /\ UNCHANGED late
  /\ UNCHANGED <<deviceVars, tool, dom, target, got>>

DeviceMoves ==
  /\ moves < MaxMoves /\ doing \notin {"idle", "told"} /\ moves' = moves + 1
  /\ onScreen' \in Screens
  /\ UNCHANGED <<tool, doing, dom, target, late, told, got>>

Steps == ReadTree \/ Resolve \/ Look \/ CheckWait \/ Wakes \/ TapTool \/ Act \/ Enter \/ PressTool \/ Settled
AgentNext == (\E c \in Call : CallTool(c)) \/ Steps \/ DeadlinePasses \/ DeviceMoves

AgentSpec == AgentInit /\ [][AgentNext]_agentVars

-----------------------------------------------------------------------------
(* A tap the agent is told was done on a screen that did not change after it *)
(* was read went to the app, or to a key it named: never to the edge, the    *)
(* system's bar or the keys in front of the element (reachable).             *)
LandsInApp ==
  got # "" /\ onScreen = dom => got = (IF target.type = "app" THEN "app" ELSE "keys")
=============================================================================
