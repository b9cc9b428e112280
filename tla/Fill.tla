-------------------------------- MODULE Fill --------------------------------
(***************************************************************************)
(* A browser's fill() carried out by an engine's driver in one call        *)
(* (runner/fill.go, and Engine.Fill of ios.go): the field is found or      *)
(* tapped, cleared, given the text, and read back.  The app may move the   *)
(* focus at any moment, and a tap may land before the field has come.      *)
(***************************************************************************)
EXTENDS Naturals, FiniteSetsExt

CONSTANTS Field,      \* the screen's fields, numbers in the order of its tree
          EndsWith,   \* EndsWith[f]: those whose resource-id ends with f's identifier
          Long,       \* those that hold more than the page last saw, and 24 more
          MaxMove     \* bound: times the app moves the focus

NoField == 0

VARIABLES
  platform,  \* "android" or "ios"
  named,     \* Android: the page knows the field's identifier to be unique
  target,    \* the field the page means
  clear,     \* the text is empty
  at,        \* the call under way
  el,        \* the field the driver has in hand
  focus,
  holds,     \* holds[f]: "old", "", "new", or "mixed"
  again,     \* iOS: the tap has been repeated
  moves

dev == <<focus, holds>>
given == <<platform, named, target, clear>>
fillVars == <<given, at, el, dev, again, moves>>

FillInit ==
  /\ platform \in {"android", "ios"} /\ named \in BOOLEAN /\ (named => platform = "android")
  /\ target \in Field /\ clear \in BOOLEAN
  /\ at = IF named THEN "find" ELSE "tap"
  /\ el = NoField /\ focus \in Field \cup {NoField}
  /\ holds = [f \in Field |-> "old"] /\ again = FALSE /\ moves = 0

Goto(here, there) == at = here /\ at' = there

(* fieldFor: the first field an identifier matches, or the one in focus.   *)
Find ==
  /\ Goto("find", "clear") /\ el' = Min(EndsWith[target])
  /\ UNCHANGED <<given, dev, again, moves>>

Tap ==
  /\ Goto("tap", IF platform = "ios" THEN "type" ELSE "active")
  /\ focus' \in {focus, target}
  /\ UNCHANGED <<given, el, holds, again, moves>>

Active ==
  /\ Goto("active", IF focus = NoField THEN "failed" ELSE "clear") /\ el' = focus
  /\ UNCHANGED <<given, dev, again, moves>>

Clear ==
  /\ Goto("clear", IF clear THEN "find again" ELSE "send")
  /\ holds' = [holds EXCEPT ![el] = ""]
  /\ UNCHANGED <<given, el, focus, again, moves>>

SendKeys ==
  /\ Goto("send", "find again")
  /\ holds' = [holds EXCEPT ![el] = "new"]
  /\ UNCHANGED <<given, el, focus, again, moves>>

(* The read-back is from a fresh lookup, which must not tap again.         *)
FindAgain ==
  /\ Goto("find again", IF ~named /\ focus = NoField THEN "failed" ELSE "check")
  /\ el' = IF named THEN Min(EndsWith[target]) ELSE focus
  /\ UNCHANGED <<given, dev, again, moves>>

(* typeInto: when nothing has the focus, one more tap; the agent erases    *)
(* what the page last saw, or a little more, and types.                    *)
TypeInto ==
  /\ IF focus = NoField
     THEN Goto("type", IF again THEN "failed" ELSE "tap") /\ again' = TRUE /\ UNCHANGED <<el, holds>>
     ELSE /\ Goto("type", "check") /\ el' = focus
          /\ holds' = [holds EXCEPT ![focus] = IF focus \in Long THEN "mixed"
                                               ELSE IF clear THEN "" ELSE "new"]
          /\ UNCHANGED again
  /\ UNCHANGED <<given, focus, moves>>

(* isMasked: bullets, as many as the text has letters.                     *)
Check ==
  /\ Goto("check", IF clear \/ holds[el] = "new" THEN "filled" ELSE "failed")
  /\ UNCHANGED <<given, el, dev, again, moves>>

Step == Find \/ Tap \/ Active \/ Clear \/ SendKeys \/ FindAgain \/ TypeInto \/ Check

Fails ==
  /\ at \notin {"filled", "failed"} /\ at' = "failed"
  /\ UNCHANGED <<given, el, dev, again, moves>>

AppMovesFocus ==
  /\ at \notin {"filled", "failed"}
  /\ moves < MaxMove /\ moves' = moves + 1
  /\ focus' \in (Field \cup {NoField}) \ {focus}
  /\ UNCHANGED <<given, at, el, holds, again>>

FillNext == Step \/ Fails \/ AppMovesFocus
FillSpec == FillInit /\ [][FillNext]_fillVars

(* Said by the comments of Fill: it returns once the driver reports the    *)
(* value in place, in the field found by its resource-id when that is      *)
(* unique.  Not so: an identifier finds every resource-id that ends with   *)
(* it, and the read-back finds the same wrong field.                       *)
FillsNamed == at = "filled" /\ named /\ ~clear => holds[target] = "new"
=============================================================================
