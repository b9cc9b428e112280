------------------------------- MODULE Screen -------------------------------
(***************************************************************************)
(* How a place of the screen becomes a selector: the tree an engine reads  *)
(* (runner/ios.go, androidtree.go, occlusion.go), what a tap on it means   *)
(* and how that element is named in a flow (capture.go, selector.go,       *)
(* export.go), and how a replay finds it again.  A screen grows one        *)
(* element at a time, and then is tapped; parents come before children.    *)
(***************************************************************************)
EXTENDS Flow, FiniteSetsExt

CONSTANTS Place,    \* the places of the screen
          Kinds,    \* for an emulator or not, the elements a screen may have, parents left out
          MaxNode   \* bound: elements on a screen

(* The types an engine tells apart, and an element before it has a parent. *)
Types == {"Application", "Window", "Button", "TextField", "CheckBox", "CollectionView", "WebView",
          "Cell", "StaticText", "Keyboard", "Other"}
Unplaced ==
  [type : Types, id : Seq(Char), label : Seq(Char), title : Seq(Char), value : Seq(Char),
   frame : SUBSET Place, owner : {"app", "framework", "system"}, clickable : BOOLEAN, above : {{}}]

ASSUME PlaceAssumption == IsFiniteSet(Place)
ASSUME KindsAssumption == \A emulator \in BOOLEAN : Kinds[emulator] \subseteq Unplaced

VARIABLES
  android,  \* the device is an emulator
  dump,     \* what the device says is on its screen
  tapped    \* the step recorded: what was touched, and how it is named

screenVars == <<android, dump, tapped>>

None == <<>>        \* no identifier, or no words
Root == [type |-> "Application", id |-> None, label |-> None, title |-> None, value |-> None,
         frame |-> Place, owner |-> "app", clickable |-> FALSE, above |-> {}]
NoStep == [node |-> 0]

ScreenInit == android \in BOOLEAN /\ dump = <<Root>> /\ tapped = NoStep

(* The ancestors of an element, nearest the greatest.                      *)
Ancestors(i) == dump[i].above
Under(i, top) == i = top \/ top \in Ancestors(i)
Within(i, tops) == \E t \in tops : Under(i, t)

-----------------------------------------------------------------------------
(* supersededViews: of the views that cover the screen, windows apart, the *)
(* app moved to the last one; iOS keeps the others.                        *)
FullScreen ==
  {i \in DOMAIN dump : dump[i].above = {1} /\ dump[i].type # "Window" /\ dump[i].frame = Place}
Superseded == IF FullScreen = {} THEN {} ELSE FullScreen \ {Max(FullScreen)}

(* withoutSystemWindows: an id of the system's marks its whole window.     *)
WindowOf(i) == IF i = 1 THEN 1 ELSE Min({i} \cup (Ancestors(i) \ {1}))
OfSystem == {i \in DOMAIN dump : dump[i].owner = "system"}
SystemWindows == {WindowOf(i) : i \in OfSystem}

(* The elements of the tree handed out, in the order of the dump.  Mutant: *)
(* the elements with an id of the system's go, and not their window.       *)
DroppedAlone == IF android THEN OfSystem ELSE Superseded
Dropped == IF android THEN SystemWindows ELSE Superseded
Tree == LET gone == Dropped IN {i \in DOMAIN dump : ~Within(i, gone)}

-----------------------------------------------------------------------------
(* androidNode: an id that Android itself gives names nothing, a label     *)
(* that repeats the id is none, and what is clicked is a button.           *)
RoleKept == {"Button", "TextField", "CheckBox", "CollectionView", "WebView"}
ResourceID(k) == IF k.owner = "framework" THEN None ELSE k.id
ButtonIfClickable(k) == IF k.clickable /\ k.type \notin RoleKept THEN "Button" ELSE k.type
AndroidLabel(k) == IF k.label = ResourceID(k) THEN None ELSE k.label
AndroidNode(k) ==
  [k EXCEPT !.type = ButtonIfClickable(k), !.id = ResourceID(k), !.label = AndroidLabel(k)]

(* convertNodes: on iOS a title stands in for a label.                     *)
IosNode(k) == IF k.label = None THEN [k EXCEPT !.label = k.title] ELSE k

ControlTypes == {"Button", "TextField", "CheckBox", "Cell"}
VisibleText(i) == IF dump[i].label # None \/ dump[i].type # "StaticText"
                  THEN dump[i].label ELSE dump[i].value
Keyboard ==
  LET keys == {k \in Tree : dump[k].type = "Keyboard"} IN {i \in Tree : Within(i, keys)}

(* candidate and hitTest: the smallest element under the finger that can   *)
(* be named, an identifier counting double; the first of equals.           *)
Candidate(i, p) ==
  /\ i # 1 /\ p \in dump[i].frame /\ dump[i].frame # Place
  /\ dump[i].id # None \/ VisibleText(i) # None
Score(i) == Cardinality(dump[i].frame) * (IF dump[i].id = None THEN 2 ELSE 1)
HitTest(p) ==
  LET cs == {i \in Tree \ Keyboard : Candidate(i, p)}
      best == {i \in cs : \A j \in cs : Score(i) <= Score(j)}
  IN IF cs = {} THEN 0 ELSE Min(best)

IdentifiedAncestor(i) ==
  LET named == {a \in Ancestors(i) \cap Tree : dump[a].id # None}
  IN IF named = {} THEN 0 ELSE Max(named)

OwningControl(i) ==
  LET a == IdentifiedAncestor(i) IN
  IF dump[i].id = None /\ a # 0 /\ dump[a].type \in ControlTypes THEN a ELSE i

(* matching: the elements the recorder takes a selector to mean.           *)
Matches(id, text) ==
  {i \in Tree : IF id # None THEN dump[i].id = id
                ELSE dump[i].id = None /\ text # None /\ VisibleText(i) = text}

(* indexOf, counted from 0.                                                *)
IndexOf(i, ms) == Cardinality({m \in ms : m < i})

(* qualify: the identifier alone, or under the nearest ancestor that has   *)
(* one, or by its position.                                                *)
Selector(i) ==
  LET id == dump[i].id
      text == IF id = None THEN VisibleText(i) ELSE None
      ms == Matches(id, text)
      a == IdentifiedAncestor(i)
      alone == Cardinality(ms) <= 1
      under == ~alone /\ a # 0 /\ {m \in ms : a \in Ancestors(m)} = {i}
  IN [node |-> i, id |-> id, text |-> text,
      childOf |-> IF under THEN dump[a].id ELSE None,
      index |-> IF alone \/ under THEN 0 ELSE IndexOf(i, ms)]

(* writeSelector: the selector as the flow has it.  The step keeps the     *)
(* place that was touched, for the properties.                             *)
InFlow(s, p) ==
  [node |-> s.node, id |-> s.id, text |-> s.text, childOf |-> s.childOf, index |-> s.index,
   says |-> Written(IF s.id # None THEN s.id ELSE s.text), under |-> Written(s.childOf),
   grade |-> Confidence(s), at |-> p]

(* What the runner finds for the step as the flow has it: an id, or just   *)
(* words, and perhaps an ancestor's id.  It reads the whole screen, with   *)
(* what DeviceDeck drops, and knows nothing of what the recorder counted.  *)
Says(i, s) == Means(s.says, IF s.id # None THEN dump[i].id ELSE VisibleText(i))
Found(s) ==
  {i \in DOMAIN dump :
     Says(i, s) /\ (s.childOf # None => \E a \in Ancestors(i) : Means(s.under, dump[a].id))}
Replayed(s) == {i \in Found(s) : Cardinality({m \in Found(s) : m < i}) = s.index}

-----------------------------------------------------------------------------
Grow(k, parent) ==
  /\ tapped = NoStep /\ Len(dump) < MaxNode
  /\ LET node == IF android THEN AndroidNode(k) ELSE IosNode(k) IN
       dump' = Append(dump, [node EXCEPT !.above = {parent} \cup dump[parent].above])
  /\ UNCHANGED <<android, tapped>>

(* resolveTap; a place with nothing to name becomes a point.               *)
TapAt(p) ==
  /\ tapped = NoStep
  /\ LET hit == HitTest(p) IN
       hit # 0 /\ tapped' = InFlow(Selector(OwningControl(hit)), p)
  /\ UNCHANGED <<android, dump>>

ScreenNext ==
  \/ \E k \in Kinds[android] : \E parent \in DOMAIN dump : Grow(k, parent)
  \/ \E p \in Place : TapAt(p)

ScreenSpec == ScreenInit /\ [][ScreenNext]_screenVars

-----------------------------------------------------------------------------
(* A step names what is shown and was touched: an element of the screen in *)
(* front, or of the app and not of the system, that the finger was on or   *)
(* whose own words it was on, and never a key of the keyboard.             *)
TapsWhatIsShown ==
  tapped # NoStep =>
    /\ android \/ \A v, w \in FullScreen : v < w => ~Under(tapped.node, v)
    /\ android => ~\E i \in OfSystem : WindowOf(i) = WindowOf(tapped.node)
    /\ ~\E i \in Ancestors(tapped.node) \cup {tapped.node} : dump[i].type = "Keyboard"
    /\ \E i \in Tree : /\ tapped.at \in dump[i].frame
                       /\ i = tapped.node \/ (dump[i].id = None /\ tapped.node \in Ancestors(i))

(* The elements named as one is: of its id, or without one of its words.   *)
Named(id) == {i \in DOMAIN dump : dump[i].id = id}
NamedAs(n) ==
  IF dump[n].id # None THEN Named(dump[n].id)
  ELSE {i \in DOMAIN dump : VisibleText(i) = VisibleText(n)}

(* Replayed on the screen it was recorded on, a step finds the element     *)
(* touched, and others only if they are named the same, whatever           *)
(* characters the name has.  It touches that element, when the recorder    *)
(* counted all of those (it leaves out what DeviceDeck drops and, for      *)
(* words, what has an id), and when the ancestor that tells it apart       *)
(* shares its id with none.  One graded low does share its name.           *)
ReplayFindsTouched ==
  tapped # NoStep =>
    LET alike == NamedAs(tapped.node)
        counted == alike \subseteq Matches(tapped.id, tapped.text)
        anchored == \E a \in DOMAIN dump : Named(tapped.childOf) = {a}
    IN /\ tapped.node \in Found(tapped) /\ Found(tapped) \subseteq alike
       /\ counted /\ (tapped.childOf = None \/ anchored) => Replayed(tapped) = {tapped.node}
       /\ tapped.grade = "low" => alike # {tapped.node}
=============================================================================
