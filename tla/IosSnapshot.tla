---------------------------- MODULE IosSnapshot -----------------------------
(***************************************************************************)
(* TreeClient.SnapshotState (runner/ios.go): a tree read from an app that  *)
(* comes to the front and leaves it meanwhile.  The agent hangs on the     *)
(* first capture of an app in the background, so its state is asked first. *)
(***************************************************************************)
EXTENDS Naturals

CONSTANT MaxMove  \* bound: times the app's state changes during the call

Foreground == "runningForeground"
AppState == {Foreground, "runningBackground", "notRunning"}
Unknown == "cannot tell"

VARIABLES
  app,      \* the state of the app
  was,      \* history: the states it was in since the call began
  named,    \* the caller names the app
  asking,   \* where the call is
  answer,   \* [state, tree]: what the caller is told, or Failed
  shifts

snapVars == <<app, was, named, asking, answer, shifts>>

NoAnswer == [state |-> Unknown, tree |-> FALSE]
SnapFailed == [state |-> "error", tree |-> FALSE]

SnapInit ==
  /\ app \in AppState /\ was = {app} /\ named \in BOOLEAN
  /\ asking = "state" /\ answer = NoAnswer /\ shifts = 0

(* appState: what the agent says of a named app, if it can tell.           *)
AgentSays(state) == state \in {Unknown} \cup (IF named THEN {app} ELSE {})
InFront(state) == state \in {Unknown, Foreground}
Answer(state, tree) == asking' = "done" /\ answer' = [state |-> state, tree |-> tree]

AskState ==
  /\ asking = "state"
  /\ \E s \in AppState \cup {Unknown} :
       /\ AgentSays(s)
       /\ IF InFront(s) THEN asking' = "capture" /\ UNCHANGED answer
                        ELSE Answer(s, FALSE)
  /\ UNCHANGED <<app, was, named, shifts>>

(* The capture carries the state of its own moment.                        *)
Capture ==
  /\ asking = "capture"
  /\ \/ \E s \in {Unknown, app} : Answer(s, InFront(s))
     \/ asking' = "again" /\ UNCHANGED answer
     \/ asking' = "done" /\ answer' = SnapFailed
  /\ UNCHANGED <<app, was, named, shifts>>

(* notFrontmost: an app that left the front meanwhile is no error.         *)
(* Mutant: the app is taken to be in the background.                       *)
AskAgainNot ==
  /\ asking = "again" /\ Answer("runningBackground", FALSE)
  /\ UNCHANGED <<app, was, named, shifts>>

AskAgain ==
  /\ asking = "again"
  /\ \E s \in AppState \cup {Unknown} :
       /\ AgentSays(s)
       /\ IF InFront(s) THEN asking' = "done" /\ answer' = SnapFailed
                        ELSE Answer(s, FALSE)
  /\ UNCHANGED <<app, was, named, shifts>>

AppMoves ==
  /\ asking # "done" /\ shifts < MaxMove /\ shifts' = shifts + 1
  /\ app' \in AppState \ {app} /\ was' = was \cup {app'}
  /\ UNCHANGED <<named, asking, answer>>

SnapNext == AskState \/ Capture \/ AskAgain \/ AppMoves
SnapSpec == SnapInit /\ [][SnapNext]_snapVars

(* Whatever the app does during the call, the state told is one it was in  *)
(* during the call, and a tree told with a state is one of that moment.    *)
ToldTheTruth ==
  asking = "done" /\ answer # SnapFailed =>
    /\ answer.state # Unknown => answer.state \in was
    /\ answer.tree <=> InFront(answer.state)
=============================================================================
