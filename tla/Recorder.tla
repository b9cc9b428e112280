------------------------------ MODULE Recorder ------------------------------
(***************************************************************************)
(* Flow Capture's recorder (internal/capture/capture.go, service.go): what *)
(* a person does on a device becomes the steps of a flow, each resolved    *)
(* against a copy of the element tree that is refreshed in the background, *)
(* 600 ms after a touch, or on demand once it is 2 s old.  Inputs come one *)
(* after another under the recorder's mutex, before the device gets them;  *)
(* the screen and the refreshes move on their own.                         *)
(***************************************************************************)
EXTENDS Flow, FiniteSets

CONSTANTS Point,     \* places of the screen, farther apart than swipeDistance
          NoPoint,
          MaxScreen, \* bound: screens the device shows, numbered as they come
          Shows,     \* what is at a place of a screen
          MaxInput   \* bound: inputs, numbered as they come

What == {"nothing", "button", "field", "secret"}
TextEntry == {"field", "secret"}

ASSUME NoPointAssumption == NoPoint \notin Point
ASSUME MaxAssumption == MaxScreen \in Nat \ {0} /\ MaxInput \in Nat
ASSUME ShowsAssumption == Shows \in [1..MaxScreen -> [Point -> What]]

VARIABLES
  screen,    \* what the device shows
  focus,     \* [on, seen]: what has its focus; the recorder saw it get there
  inputs,    \* how many came
  steps,     \* the steps recorded
  tree,      \* [of, fresh]: the screen it was read from; not past staleAfter
  pending,   \* the touch under way: [start, last], or NoTouch
  text,      \* the characters waiting, each the number of its input
  secure,    \* they go to a field that hides them
  filled,    \* the place of the last fill, or NoPoint
  refresh,   \* the generation of the last refresh scheduled
  reads,     \* refreshes under way: [gen, of], of = 0 until the tree was read
  recording, \* the service still has the recorder
  hidden,    \* history: the characters typed into a field that hides them
  secrets    \* history: those of them it saw that field get the focus for

buffer == <<text, hidden, secrets>>
touch == <<pending, filled>>
later == <<refresh, reads>>
recorderVars == <<screen, focus, inputs, steps, tree, buffer, secure, touch, later, recording>>

NoTouch == [start |-> NoPoint, last |-> NoPoint]
Open == 0           \* the fingerprint of a step nothing has closed yet
Input == recording /\ inputs < MaxInput /\ inputs' = inputs + 1

RecorderInit ==
  /\ screen = 1 /\ focus = [on |-> "nothing", seen |-> TRUE] /\ inputs = 0
  /\ steps = <<>> /\ tree = [of |-> 1, fresh |-> TRUE]
  /\ pending = NoTouch /\ text = <<>> /\ secure = FALSE /\ filled = NoPoint
  /\ refresh = 0 /\ reads = {} /\ recording = TRUE
  /\ hidden = {} /\ secrets = {}

-----------------------------------------------------------------------------
(* appendStep: a step nothing has closed yet is closed with the screen of  *)
(* the tree held, and the new one begins on it.  For the properties a step *)
(* keeps the screen it was born on, and what closed it.                    *)
Closed(ss, post, by) ==
  IF ss = <<>> \/ Last(ss).post # Open THEN ss
  ELSE [ss EXCEPT ![Len(ss)].post = post, ![Len(ss)].by = by]

Recorded(ss, of, kind, field, chars) ==
  Append(Closed(ss, of, "append"),
         [kind |-> kind, field |-> field, pre |-> of, post |-> Open, by |-> "nobody",
          born |-> screen, text |-> chars, secure |-> (chars # <<>> /\ secure)])
AppendStep(ss, of, kind, chars) == Recorded(ss, of, kind, FALSE, chars)

(* flushTextLocked, and textStepLocked: what was typed becomes one step.   *)
Flushed ==
  IF text = <<>> THEN steps
  ELSE AppendStep(steps, tree.of, "inputText", text)
FlushText == text' = <<>> /\ UNCHANGED <<hidden, secrets>>

(* resolveTap reads a tree too old again; when that fails the old one      *)
(* stays.  A place with no element to name becomes a point.                *)
Reread(old) ==
  IF old THEN {[of |-> tree.of, fresh |-> FALSE], [of |-> screen, fresh |-> TRUE]} ELSE {tree}
SelectorKind(of, p, kind) == IF Shows[of][p] = "nothing" THEN "tapOnPoint" ELSE kind

(* noteFocus looks at the tree held before it is read again.  Mutant: a    *)
(* tap on no field is taken to end the focus of the last one.              *)
NoteFocusAlways(p) ==
  /\ secure' = (Shows[tree.of][p] = "secret")
  /\ focus' = LET what == Shows[screen][p] IN
                IF what \in TextEntry THEN [on |-> what, seen |-> tree.of = screen]
                ELSE [focus EXCEPT !.seen = @ /\ tree.of = screen]

NoteFocus(p) ==
  /\ secure' = IF Shows[tree.of][p] \in TextEntry THEN Shows[tree.of][p] = "secret" ELSE secure
  /\ focus' = LET what == Shows[screen][p] IN
                IF what \in TextEntry THEN [on |-> what, seen |-> tree.of = screen]
                ELSE [focus EXCEPT !.seen = @ /\ tree.of = screen]

(* scheduleRefreshLocked: one more refresh, of a generation of its own.    *)
ScheduleRefresh ==
  /\ refresh' = refresh + 1
  /\ reads' = reads \cup {[gen |-> refresh + 1, of |-> 0]}

(* A tap, recorded after the steps ss.                                     *)
RecordTap(p, ss) ==
  /\ NoteFocus(p)
  /\ tree' \in Reread(~tree.fresh)
  /\ steps' = Recorded(ss, tree'.of, SelectorKind(tree'.of, p, "tapOn"),
                       Shows[tree'.of][p] \in TextEntry, <<>>)
  /\ ScheduleRefresh

-----------------------------------------------------------------------------
(* onTouch.                                                                *)
TouchDown(p) ==
  /\ Input /\ filled' = NoPoint
  /\ pending' = [start |-> p, last |-> p]
  /\ steps' = Flushed /\ FlushText
  /\ UNCHANGED <<screen, focus, tree, secure, later, recording>>

TouchMove(p) ==
  /\ Input /\ filled' = NoPoint
  /\ pending # NoTouch /\ pending' = [pending EXCEPT !.last = p]
  /\ UNCHANGED <<screen, focus, steps, buffer, tree, secure, later, recording>>

TouchUp ==
  /\ Input /\ filled' = NoPoint
  /\ pending # NoTouch /\ pending' = NoTouch
  /\ \/ /\ pending.last = pending.start
        /\ RecordTap(pending.start, steps)
     \/ /\ pending.last # pending.start
        /\ steps' = AppendStep(steps, tree.of, "swipe", <<>>)
        /\ ScheduleRefresh
        /\ UNCHANGED <<focus, tree, secure>>
  /\ UNCHANGED <<screen, buffer, recording>>

(* onKey: a character, the backspace, and Enter, a step of its own.  A     *)
(* character is sure to be a secret when the field with the focus hides it *)
(* and the recorder saw that field, and no finger is down.                 *)
Hiding(f) == f.on = "secret"
Sure(f) == f = [on |-> "secret", seen |-> TRUE]

Type ==
  /\ Input /\ filled' = NoPoint
  /\ text' = Append(text, inputs')
  /\ hidden' = IF Hiding(focus) THEN hidden \cup {inputs'} ELSE hidden
  /\ secrets' = IF Sure(focus) /\ pending = NoTouch THEN secrets \cup {inputs'} ELSE secrets
  /\ UNCHANGED <<screen, focus, steps, tree, secure, pending, later, recording>>

Backspace ==
  /\ Input /\ filled' = NoPoint
  /\ text # <<>> /\ text' = Front(text)
  /\ hidden' = hidden \ {Last(text)} /\ secrets' = secrets \ {Last(text)}
  /\ UNCHANGED <<screen, focus, steps, tree, secure, pending, later, recording>>

(* What has the focus when no tap gave it: nothing, or a field.            *)
Refocused(of) ==
  {[on |-> "nothing", seen |-> TRUE]} \cup
    {[on |-> Shows[of][p], seen |-> FALSE] : p \in {p \in Point : Shows[of][p] \in TextEntry}}

(* Enter in a field may take the focus to another, or from all.            *)
Press ==
  /\ Input /\ filled' = NoPoint
  /\ steps' = AppendStep(Flushed, tree.of, "pressKey", <<>>) /\ FlushText
  /\ focus' \in {focus} \cup (IF focus.on \in TextEntry THEN Refocused(screen) ELSE {})
  /\ UNCHANGED <<screen, tree, secure, pending, later, recording>>

(* Gestures and buttons with no step of their own only flush the text.     *)
Gesture ==
  /\ Input /\ filled' = NoPoint
  /\ steps' = Flushed /\ FlushText
  /\ UNCHANGED <<screen, focus, tree, secure, pending, later, recording>>

(* OnFill: the tap, unless the last input filled the same place, and the   *)
(* value in place of what waits.                                           *)
Fill(p) ==
  /\ Input /\ filled' = p /\ text' = <<inputs'>>
  /\ \/ /\ filled # p /\ pending' = NoTouch
        /\ RecordTap(p, Flushed)
     \/ /\ filled = p
        /\ UNCHANGED <<focus, steps, tree, secure, pending, later>>
  /\ hidden' = IF Hiding(focus') THEN hidden \cup {inputs'} ELSE hidden
  /\ secrets' = IF Sure(focus') THEN secrets \cup {inputs'} ELSE secrets
  /\ UNCHANGED <<screen, recording>>

(* Assert and WaitFor: always against a tree read again, if that succeeds; *)
(* refused where there is no element to name.                              *)
Check(p) ==
  /\ Input /\ FlushText
  /\ tree' \in Reread(TRUE)
  /\ steps' = IF Shows[tree'.of][p] = "nothing" THEN Flushed
              ELSE AppendStep(Flushed, tree'.of, "assertVisible", <<>>)
  /\ UNCHANGED <<screen, focus, secure, touch, later, recording>>

Location ==
  /\ Input
  /\ steps' = AppendStep(Flushed, tree.of, "setLocation", <<>>) /\ FlushText
  /\ UNCHANGED <<screen, focus, tree, secure, touch, later, recording>>

(* Service.Stop: the recorder is forgotten and finished.                   *)
StopRecorder ==
  /\ recording /\ recording' = FALSE
  /\ steps' = Flushed /\ FlushText
  /\ UNCHANGED <<screen, focus, inputs, tree, secure, touch, later>>

-----------------------------------------------------------------------------
(* A refresh that has waited reads the tree outside the mutex, which may   *)
(* fail, and stores it if no newer one was scheduled meanwhile.            *)
RefreshReads(r) ==
  /\ r.of = 0
  /\ reads' \in {reads \ {r}, (reads \ {r}) \cup {[r EXCEPT !.of = screen]}}
  /\ UNCHANGED <<screen, focus, inputs, steps, tree, buffer, secure, touch, refresh, recording>>

(* Mutant: any refresh stores what it read.                                *)
RefreshStoresAny(r) ==
  /\ r.of # 0 /\ reads' = reads \ {r}
  /\ tree' = [of |-> r.of, fresh |-> TRUE] /\ steps' = Closed(steps, r.of, "refresh")
  /\ UNCHANGED <<screen, focus, inputs, buffer, secure, touch, refresh, recording>>

RefreshStores(r) ==
  /\ r.of # 0 /\ reads' = reads \ {r}
  /\ IF r.gen = refresh
     THEN /\ tree' = [of |-> r.of, fresh |-> TRUE]
          /\ steps' = Closed(steps, r.of, "refresh")
     ELSE UNCHANGED <<tree, steps>>
  /\ UNCHANGED <<screen, focus, inputs, buffer, secure, touch, refresh, recording>>

(* Two seconds pass.                                                       *)
TreeAges ==
  /\ tree.fresh /\ tree' = [tree EXCEPT !.fresh = FALSE]
  /\ UNCHANGED <<screen, focus, inputs, steps, buffer, secure, touch, later, recording>>

(* The device shows another screen, which may open with a field's focus.   *)
ScreenMoves ==
  /\ screen < MaxScreen /\ screen' = screen + 1
  /\ focus' \in Refocused(screen')
  /\ UNCHANGED <<inputs, steps, tree, buffer, secure, touch, later, recording>>

RecorderNext ==
  \/ \E p \in Point : TouchDown(p) \/ TouchMove(p) \/ Fill(p) \/ Check(p)
  \/ TouchUp \/ Type \/ Backspace \/ Press \/ Gesture \/ Location \/ StopRecorder
  \/ \E r \in reads : RefreshReads(r) \/ RefreshStores(r)
  \/ TreeAges \/ ScreenMoves

RecorderSpec == RecorderInit /\ [][RecorderNext]_recorderVars

-----------------------------------------------------------------------------
(* Steps(), which the console polls: the steps and the text still waiting. *)
Told == Flushed

(* Every variable stays in its range.                                      *)
RecorderTypeOK ==
  /\ screen \in 1..MaxScreen /\ tree \in [of : 1..MaxScreen, fresh : BOOLEAN]
  /\ focus \in [on : What, seen : BOOLEAN]
  /\ inputs \in 0..MaxInput /\ refresh \in 0..MaxInput
  /\ pending = NoTouch \/ pending \in [start : Point, last : Point]
  /\ text \in Seq(1..inputs) /\ hidden \subseteq 1..inputs /\ secrets \subseteq 1..inputs
  /\ filled \in Point \cup {NoPoint} /\ {secure, recording} \subseteq BOOLEAN
  /\ reads \subseteq [gen : 1..refresh, of : 0..MaxScreen]
  /\ \A s \in ToSet(steps) : s.pre \in 1..MaxScreen /\ s.post \in 0..MaxScreen

(* The screen a background refresh closes a touch with was read after that *)
(* touch: a refresh scheduled by an earlier one never closes a later one.  *)
TouchClosedAfter ==
  \A s \in ToSet(steps) :
    s.by = "refresh" /\ s.kind \in {"tapOn", "tapOnPoint", "swipe"} => s.post >= s.born

(* What a person types into a field that hides it, once the recorder saw   *)
(* that field get the focus (a tap, or a fill, while the tree held was of  *)
(* the screen), is in the flow as a parameter only, unless it is typed     *)
(* while a finger is down: whatever taps on no field, presses, refreshes   *)
(* and flushes come between, and also while it waits.  Of a field that got *)
(* the focus unseen it says nothing: see NeverInClear.                     *)
MaskedIfSeen ==
  \A s \in ToSet(Told) : ToSet(Typed(s)) \cap secrets = {}

(* docs/flows.md: text typed into a password field is never written into   *)
(* the flow.  It is, once the field has the focus by no tap of the         *)
(* recorder's (Enter went on to it, or the screen opened on it), by one    *)
(* looked up in a stale tree, or with a finger down.                       *)
NeverInClear ==
  \A s \in ToSet(Told) : ToSet(Typed(s)) \cap hidden = {}
=============================================================================
