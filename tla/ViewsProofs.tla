----------------------------- MODULE ViewsProofs -----------------------------
(***************************************************************************)
(* Proofs about what is read from a screen: the recorder, how it names     *)
(* what was tapped, the two platforms' drivers, an agent's tools and the   *)
(* refs it names elements by.  For each part: the inductive invariant, a   *)
(* lemma per action or per group of actions alike, and the theorems.       *)
(***************************************************************************)
EXTENDS Recorder, Screen, IosSnapshot, AndroidDriver, Agent, Refs,
        SequenceLemmas, FiniteSetTheorems

-----------------------------------------------------------------------------
(* Recorder *)

TouchKind == {"tapOn", "tapOnPoint", "swipe"}
StepKind == TouchKind \cup {"inputText", "pressKey", "assertVisible", "setLocation"}
Step ==
  [kind : StepKind, field : BOOLEAN, pre : 1..MaxScreen, post : 0..MaxScreen,
   by : {"nobody", "append", "refresh"}, born : 1..MaxScreen, text : Seq(Nat), secure : BOOLEAN]

(* A step that is as it should be: closed in time, born in the past, its   *)
(* characters come already, and masked if one is sure to be a secret.      *)
Good(s) ==
  /\ s.by = "refresh" /\ s.kind \in TouchKind => s.post >= s.born
  /\ s.born <= screen
  /\ ToSet(s.text) \subseteq 1..inputs
  /\ ~s.secure => ToSet(s.text) \cap secrets = {}
GoodSteps(ss) == ss \in Seq(Step) /\ \A s \in ToSet(ss) : Good(s)

(* A read that may still close the last touch was made after it.           *)
ReadAfter(ss) ==
  ss # <<>> /\ Last(ss).post = Open /\ Last(ss).kind \in TouchKind
    => \A r \in reads : r.gen = refresh /\ r.of # 0 => r.of >= Last(ss).born

(* Characters that would be masked in a step, or hold no secret.           *)
MaskedIfStep(chars) ==
  /\ chars \in Seq(Nat) /\ ToSet(chars) \subseteq 1..inputs
  /\ ~secure => ToSet(chars) \cap secrets = {}

(* What waits is masked once it is a step, and holds no secret while a     *)
(* finger is down, when secure may yet change.                             *)
WaitingMasked ==
  /\ MaskedIfStep(text)
  /\ pending # NoTouch => ToSet(text) \cap secrets = {}
  /\ Sure(focus) => secure
  /\ filled # NoPoint => pending = NoTouch

Ranges ==
  /\ screen \in 1..MaxScreen /\ tree \in [of : 1..MaxScreen, fresh : BOOLEAN]
  /\ focus \in [on : What, seen : BOOLEAN]
  /\ inputs \in 0..MaxInput /\ refresh \in 0..inputs
  /\ pending = NoTouch \/ pending \in [start : Point, last : Point]
  /\ text \in Seq(Nat) /\ hidden \subseteq 1..inputs /\ secrets \subseteq 1..inputs
  /\ filled \in Point \cup {NoPoint} /\ secure \in BOOLEAN /\ recording \in BOOLEAN
  /\ reads \subseteq [gen : 1..refresh, of : 0..MaxScreen]

RecorderIInv == Ranges /\ GoodSteps(steps) /\ ReadAfter(steps) /\ WaitingMasked

-----------------------------------------------------------------------------
(* The elements of a sequence.                                             *)
LEMMA NoElements == ASSUME NEW S PROVE <<>> \in Seq(S) /\ ToSet(<<>>) = {}
<1>1. <<>> \in Seq(S) /\ DOMAIN <<>> = {}
  OBVIOUS
<1> QED  BY <1>1 DEF ToSet

LEMMA ToSetAppend ==
  ASSUME NEW S, NEW ss \in Seq(S), NEW x \in S
  PROVE  /\ Append(ss, x) \in Seq(S) /\ ToSet(Append(ss, x)) = ToSet(ss) \cup {x}
         /\ Append(ss, x) # <<>> /\ Last(Append(ss, x)) = x
<1>1. Len(ss) \in Nat /\ DOMAIN ss = 1 .. Len(ss)
  BY LenProperties
<1>2. /\ Append(ss, x) \in Seq(S) /\ Len(Append(ss, x)) = Len(ss) + 1
      /\ \A i \in 1 .. Len(ss) : Append(ss, x)[i] = ss[i]
      /\ Append(ss, x)[Len(ss) + 1] = x
  BY <1>1, AppendProperties
<1>3. DOMAIN Append(ss, x) = 1 .. Len(ss) + 1
  BY <1>2, LenProperties
<1>4. ToSet(Append(ss, x)) = ToSet(ss) \cup {x}
  <2>1. ASSUME NEW e \in ToSet(Append(ss, x)) PROVE e \in ToSet(ss) \cup {x}
    <3>1. PICK i \in 1 .. Len(ss) + 1 : e = Append(ss, x)[i]
      BY <1>3 DEF ToSet
    <3>2. CASE i = Len(ss) + 1
      BY <1>2, <3>1, <3>2
    <3>3. CASE i \in 1 .. Len(ss)
      BY <1>1, <1>2, <3>1, <3>3 DEF ToSet
    <3> QED  BY <1>1, <3>1, <3>2, <3>3
  <2>2. ASSUME NEW e \in ToSet(ss) PROVE e \in ToSet(Append(ss, x))
    <3>1. PICK i \in 1 .. Len(ss) : e = ss[i]
      BY <1>1 DEF ToSet
    <3>2. i \in DOMAIN Append(ss, x) /\ Append(ss, x)[i] = e
      BY <1>1, <1>2, <1>3, <3>1
    <3> QED  BY <3>2 DEF ToSet
  <2>3. x \in ToSet(Append(ss, x))
    <3>1. Len(ss) + 1 \in DOMAIN Append(ss, x)
      BY <1>1, <1>3
    <3> QED  BY <1>2, <3>1 DEF ToSet
  <2> QED  BY <2>1, <2>2, <2>3
<1>5. Append(ss, x) # <<>>
  BY <1>1, <1>2, EmptySeq, LenProperties
<1>6. Last(Append(ss, x)) = x
  BY <1>2 DEF Last
<1> QED  BY <1>2, <1>4, <1>5, <1>6

LEMMA OneElement == ASSUME NEW x \in Nat PROVE <<x>> \in Seq(Nat) /\ ToSet(<<x>>) = {x}
<1>1. <<x>> \in Seq(Nat) /\ DOMAIN <<x>> = {1} /\ <<x>>[1] = x
  OBVIOUS
<1> QED  BY <1>1 DEF ToSet

LEMMA ToSetElements ==
  ASSUME NEW S, NEW ss \in Seq(S)
  PROVE  /\ ToSet(ss) \subseteq S
         /\ ss # <<>> => Last(ss) \in ToSet(ss) /\ Last(ss) \in S
<1>1. Len(ss) \in Nat /\ DOMAIN ss = 1 .. Len(ss) /\ \A i \in 1 .. Len(ss) : ss[i] \in S
  BY LenProperties, ElementOfSeq
<1>2. ss # <<>> => Len(ss) \in 1 .. Len(ss)
  BY <1>1, EmptySeq
<1> QED  BY <1>1, <1>2 DEF ToSet, Last

(* What is left of a sequence without its last element.                    *)
LEMMA ToSetFront ==
  ASSUME NEW S, NEW ss \in Seq(S), ss # <<>>
  PROVE  Front(ss) \in Seq(S) /\ ToSet(Front(ss)) \subseteq ToSet(ss)
<1>1. Len(ss) \in Nat /\ DOMAIN ss = 1 .. Len(ss) /\ Len(ss) # 0
  BY LenProperties, EmptySeq
<1>2. /\ Front(ss) \in Seq(S) /\ Len(Front(ss)) = Len(ss) - 1
      /\ \A i \in 1 .. Len(ss) - 1 : Front(ss)[i] = ss[i]
  BY <1>1, SubSeqProperties DEF Front
<1>3. DOMAIN Front(ss) = 1 .. Len(ss) - 1
  BY <1>2, LenProperties
<1> QED  BY <1>1, <1>2, <1>3 DEF ToSet

-----------------------------------------------------------------------------
(* What a step that is closed keeps of the one it was: all that matters    *)
(* here but its end, and that only if it was the last and still open.      *)
ClosedFrom(e, s, ss, post, by) ==
  /\ e.kind = s.kind /\ e.born = s.born /\ e.text = s.text /\ e.secure = s.secure
  /\ \/ e.by = s.by /\ e.post = s.post
     \/ e.by = by /\ e.post = post /\ s = Last(ss) /\ s.post = Open

LEMMA ClosedSteps ==
  ASSUME NEW ss \in Seq(Step), NEW post \in 1..MaxScreen, NEW by \in {"append", "refresh"}
  PROVE  /\ Closed(ss, post, by) \in Seq(Step)
         /\ \A e \in ToSet(Closed(ss, post, by)) :
              \E s \in ToSet(ss) : ClosedFrom(e, s, ss, post, by)
         /\ Closed(ss, post, by) # <<>> => Last(Closed(ss, post, by)).post # Open
<1> DEFINE cs == Closed(ss, post, by)
<1>1. CASE ss = <<>> \/ Last(ss).post # Open
  <2>1. cs = ss
    BY <1>1 DEF Closed
  <2> QED  BY <1>1, <2>1 DEF ClosedFrom
<1>2. CASE ss # <<>> /\ Last(ss).post = Open
  <2> DEFINE l == Last(ss)
             m == [l EXCEPT !.post = post]
             n == [m EXCEPT !.by = by]
  <2>1. Len(ss) \in Nat \ {0} /\ DOMAIN ss = 1 .. Len(ss) /\ \A i \in 1 .. Len(ss) : ss[i] \in Step
    BY <1>2, LenProperties, ElementOfSeq, EmptySeq
  <2>2. l = ss[Len(ss)] /\ l \in Step
    BY <2>1 DEF Last
  <2>3. /\ n \in Step /\ n.kind = l.kind /\ n.born = l.born /\ n.text = l.text /\ n.secure = l.secure
        /\ n.by = by /\ n.post = post
    <3>1. post \in 0..MaxScreen /\ by \in {"nobody", "append", "refresh"}
      BY MaxAssumption
    <3> HIDE DEF l
    <3>2. /\ m \in Step /\ m.kind = l.kind /\ m.born = l.born /\ m.text = l.text
          /\ m.secure = l.secure /\ m.post = post
      BY <2>2, <3>1 DEF Step
    <3> HIDE DEF m
    <3> QED  BY <3>1, <3>2 DEF Step
  <2>4. cs = [ss EXCEPT ![Len(ss)] = n]
    BY <1>2, <2>1, <2>2 DEF Closed, Last
  <2> HIDE DEF n, cs
  <2>5. cs \in Seq(Step) /\ Len(cs) = Len(ss)
    BY <2>1, <2>3, <2>4, ExceptSeq
  <2>6. DOMAIN cs = 1 .. Len(ss) /\ cs[Len(ss)] = n /\ \A i \in 1 .. Len(ss) : i # Len(ss) => cs[i] = ss[i]
    <3>1. DOMAIN cs = 1 .. Len(ss)
      BY <2>5, LenProperties
    <3>2. Len(ss) \in DOMAIN ss
      BY <2>1
    <3> QED  BY <2>1, <2>4, <3>1, <3>2
  <2>7. ASSUME NEW e \in ToSet(cs) PROVE \E s \in ToSet(ss) : ClosedFrom(e, s, ss, post, by)
    <3>1. PICK i \in 1 .. Len(ss) : e = cs[i]
      BY <2>6 DEF ToSet
    <3>2. ss[i] \in ToSet(ss)
      BY <2>1 DEF ToSet
    <3>3. ClosedFrom(e, ss[i], ss, post, by)
      BY <1>2, <2>2, <2>3, <2>6, <3>1 DEF ClosedFrom
    <3> QED  BY <3>2, <3>3
  <2>8. Last(cs).post # Open
    <3>1. Last(cs) = n
      BY <2>5, <2>6 DEF Last
    <3>2. post # 0
      BY MaxAssumption
    <3> QED  BY <2>3, <3>1, <3>2 DEF Open
  <2> QED  BY <2>5, <2>7, <2>8 DEF cs
<1> QED  BY <1>1, <1>2

(* Closing a step keeps it good, as long as what closes a touch was read   *)
(* after it.                                                               *)
LEMMA ClosedGood ==
  ASSUME Ranges, NEW ss, GoodSteps(ss), NEW post \in 1..MaxScreen, NEW by \in {"append", "refresh"},
         by = "refresh" /\ ss # <<>> /\ Last(ss).post = Open /\ Last(ss).kind \in TouchKind
           => post >= Last(ss).born
  PROVE  GoodSteps(Closed(ss, post, by))
<1>1. ss \in Seq(Step) /\ \A s \in ToSet(ss) : Good(s)
  BY DEF GoodSteps
<1>2. ASSUME NEW e \in ToSet(Closed(ss, post, by)) PROVE Good(e)
  <2>1. PICK s \in ToSet(ss) : ClosedFrom(e, s, ss, post, by)
    BY <1>1, ClosedSteps
  <2>2. Good(s) /\ ss # <<>>
    BY <1>1, NoElements
  <2> QED  BY <2>1, <2>2 DEF Good, ClosedFrom
<1> QED  BY <1>1, <1>2, ClosedSteps DEF GoodSteps

(* A step recorded is good if what it types is, and is the last one.       *)
LEMMA RecordedGood ==
  ASSUME Ranges, NEW ss, GoodSteps(ss), NEW of \in 1..MaxScreen, NEW kind \in StepKind,
         NEW field \in BOOLEAN, NEW chars, MaskedIfStep(chars)
  PROVE  /\ GoodSteps(Recorded(ss, of, kind, field, chars))
         /\ Last(Recorded(ss, of, kind, field, chars)).kind = kind
<1> DEFINE new == [kind |-> kind, field |-> field, pre |-> of, post |-> Open, by |-> "nobody",
                   born |-> screen, text |-> chars, secure |-> (chars # <<>> /\ secure)]
<1>1. new \in Step /\ new.kind = kind
  <2>1. /\ screen \in 1..MaxScreen /\ chars \in Seq(Nat) /\ Open \in 0..MaxScreen
        /\ (chars # <<>> /\ secure) \in BOOLEAN
    BY MaxAssumption DEF Ranges, Open, MaskedIfStep
  <2>2. "nobody" \in {"nobody", "append", "refresh"}
    OBVIOUS
  <2> QED  BY <2>1, <2>2 DEF Step
<1>2. Good(new)
  <2>1. new.by = "nobody" /\ new.born = screen /\ new.text = chars
    OBVIOUS
  <2>2. ~new.secure => chars = <<>> \/ ~secure
    OBVIOUS
  <2>3. ~new.secure => ToSet(chars) \cap secrets = {}
    BY <2>2, NoElements DEF MaskedIfStep
  <2> HIDE DEF new
  <2> QED  BY <2>1, <2>3 DEF Good, Ranges, MaskedIfStep
<1> HIDE DEF new
<1>3. GoodSteps(Closed(ss, of, "append"))
  BY ClosedGood
<1>4. Recorded(ss, of, kind, field, chars) = Append(Closed(ss, of, "append"), new)
  BY DEF Recorded, new
<1>5. /\ Append(Closed(ss, of, "append"), new) \in Seq(Step)
      /\ ToSet(Append(Closed(ss, of, "append"), new)) = ToSet(Closed(ss, of, "append")) \cup {new}
      /\ Last(Append(Closed(ss, of, "append"), new)) = new
  BY <1>1, <1>3, ToSetAppend DEF GoodSteps
<1> QED  BY <1>1, <1>2, <1>3, <1>4, <1>5 DEF GoodSteps

(* What was typed, recorded as a step, is masked or holds no secret.       *)
LEMMA FlushedGood ==
  ASSUME RecorderIInv
  PROVE  GoodSteps(Flushed) /\ ReadAfter(Flushed)
<1>1. Ranges /\ GoodSteps(steps) /\ ReadAfter(steps) /\ WaitingMasked
  BY DEF RecorderIInv
<1>2. CASE text = <<>>
  BY <1>1, <1>2 DEF Flushed
<1>3. CASE text # <<>>
  <2>1. Flushed = Recorded(steps, tree.of, "inputText", FALSE, text)
    BY <1>3 DEF Flushed, AppendStep
  <2>2. tree.of \in 1..MaxScreen
    BY <1>1 DEF Ranges
  <2>3. MaskedIfStep(text)
    BY <1>1 DEF WaitingMasked
  <2>4. "inputText" \in StepKind /\ "inputText" \notin TouchKind
    BY DEF StepKind, TouchKind
  <2>5. GoodSteps(Flushed) /\ Last(Flushed).kind = "inputText"
    <3>1. FALSE \in BOOLEAN
      OBVIOUS
    <3>2. /\ GoodSteps(Recorded(steps, tree.of, "inputText", FALSE, text))
          /\ Last(Recorded(steps, tree.of, "inputText", FALSE, text)).kind = "inputText"
      BY <1>1, <2>2, <2>3, <2>4, <3>1, RecordedGood, ZenonT(30)
    <3> QED  BY <2>1, <3>2
  <2> QED  BY <2>4, <2>5 DEF ReadAfter
<1> QED  BY <1>2, <1>3

(* What is recorded after it, a touch apart, can be closed by any read.    *)
LEMMA AppendedGood ==
  ASSUME RecorderIInv, NEW ss, GoodSteps(ss), NEW of \in 1..MaxScreen, NEW kind \in StepKind \ TouchKind
  PROVE  GoodSteps(AppendStep(ss, of, kind, <<>>)) /\ ReadAfter(AppendStep(ss, of, kind, <<>>))
<1>1. MaskedIfStep(<<>>)
  BY NoElements DEF MaskedIfStep
<1>2. /\ GoodSteps(Recorded(ss, of, kind, FALSE, <<>>))
      /\ Last(Recorded(ss, of, kind, FALSE, <<>>)).kind = kind
  <2>1. Ranges /\ FALSE \in BOOLEAN /\ kind \in StepKind
    BY DEF RecorderIInv
  <2> QED  BY <1>1, <2>1, RecordedGood, ZenonT(30)
<1> QED  BY <1>2 DEF AppendStep, ReadAfter

-----------------------------------------------------------------------------
(* Steps that are good stay so while the screen and the inputs go on and   *)
(* nothing typed before becomes a secret.                                  *)
OnlyNewSecrets == secrets' \cap (1..inputs) \subseteq secrets

LEMMA GoodStays ==
  ASSUME Ranges, GoodSteps(steps'), screen' \in Nat, screen <= screen',
         inputs' \in Nat, inputs <= inputs', OnlyNewSecrets
  PROVE  GoodSteps(steps)'
<1>1. ASSUME NEW s \in ToSet(steps') PROVE Good(s)'
  <2>1. Good(s) /\ s \in Step /\ steps' \in Seq(Step)
    BY ToSetElements DEF GoodSteps
  <2>2. s.born \in Nat /\ s.born <= screen /\ screen \in Nat /\ inputs \in Nat
    BY <2>1, MaxAssumption DEF Good, Step, Ranges
  <2>3. ToSet(s.text) \subseteq 1..inputs' /\ ToSet(s.text) \subseteq 1..inputs
    BY <2>1, <2>2 DEF Good
  <2>4. ~s.secure => ToSet(s.text) \cap secrets' = {}
    BY <2>1, <2>3 DEF Good, OnlyNewSecrets
  <2>5. s.by = "refresh" /\ s.kind \in TouchKind => s.post >= s.born
    BY <2>1 DEF Good
  <2> QED  BY <2>2, <2>3, <2>4, <2>5 DEF Good
<1> QED  BY <1>1 DEF GoodSteps

(* A refresh scheduled has not read yet, and it alone is of the newest     *)
(* generation.                                                             *)
LEMMA Scheduled ==
  ASSUME Ranges, ScheduleRefresh
  PROVE  /\ refresh' = refresh + 1 /\ refresh' \in Nat
         /\ reads' \subseteq [gen : 1..refresh', of : 0..MaxScreen]
         /\ ReadAfter(steps)'
<1>1. refresh \in Nat /\ refresh' = refresh + 1 /\ 0 \in 0..MaxScreen
  BY MaxAssumption DEF Ranges, ScheduleRefresh
<1>2. ASSUME NEW r \in reads'
      PROVE  r \in [gen : 1..refresh', of : 0..MaxScreen] /\ (r.gen = refresh' => r.of = 0)
  <2>1. CASE r \in reads
    <3>1. r \in [gen : 1..refresh, of : 0..MaxScreen]
      BY <2>1 DEF Ranges
    <3>2. r.gen \in 1..refresh
      BY <3>1
    <3> QED  BY <1>1, <3>1, <3>2
  <2>2. CASE r = [gen |-> refresh + 1, of |-> 0]
    BY <1>1, <2>2
  <2> QED  BY <2>1, <2>2 DEF ScheduleRefresh
<1> QED  BY <1>1, <1>2 DEF ReadAfter

(* What the recorder knows of the field with the focus follows a tap.      *)
LEMMA FocusNoted ==
  ASSUME Ranges, Sure(focus) => secure, NEW p \in Point, NoteFocus(p)
  PROVE  secure' \in BOOLEAN /\ focus' \in [on : What, seen : BOOLEAN] /\ (Sure(focus') => secure')
<1>1. /\ tree.of \in 1..MaxScreen /\ screen \in 1..MaxScreen
      /\ Shows[tree.of][p] \in What /\ Shows[screen][p] \in What
      /\ focus \in [on : What, seen : BOOLEAN] /\ secure \in BOOLEAN
  BY ShowsAssumption, SMTT(30) DEF Ranges
<1>2. CASE Shows[screen][p] \in TextEntry
  <2>1. focus' = [on |-> Shows[screen][p], seen |-> tree.of = screen]
    BY <1>2 DEF NoteFocus
  <2>2. focus'.on = Shows[screen][p] /\ (focus'.seen = TRUE => tree.of = screen)
    BY <2>1
  <2>3. focus' \in [on : What, seen : BOOLEAN]
    <3>1. (tree.of = screen) \in BOOLEAN
      OBVIOUS
    <3> QED  BY <1>1, <2>1, <3>1
  <2>4. secure' \in BOOLEAN
    BY <1>1 DEF NoteFocus
  <2>5. ASSUME Sure(focus') PROVE secure'
    <3>1. tree.of = screen /\ Shows[screen][p] = "secret"
      BY <2>2, <2>5 DEF Sure
    <3> QED  BY <1>2, <3>1 DEF NoteFocus
  <2> QED  BY <2>3, <2>4, <2>5
<1>3. CASE Shows[screen][p] \notin TextEntry
  <2>1. focus' = [focus EXCEPT !.seen = focus.seen /\ tree.of = screen]
    BY <1>3 DEF NoteFocus
  <2>2. focus'.on = focus.on /\ (focus'.seen = TRUE => focus.seen = TRUE /\ tree.of = screen)
    BY <1>1, <2>1
  <2>3. focus' \in [on : What, seen : BOOLEAN]
    <3>1. (focus.seen /\ tree.of = screen) \in BOOLEAN
      OBVIOUS
    <3> QED  BY <1>1, <2>1, <3>1
  <2>4. secure' \in BOOLEAN
    BY <1>1 DEF NoteFocus
  <2>5. ASSUME Sure(focus') PROVE secure'
    <3>1. tree.of = screen /\ focus.on = "secret" /\ focus.seen = TRUE
      BY <2>2, <2>5 DEF Sure
    <3>2. focus = [on |-> "secret", seen |-> TRUE]
      BY <1>1, <3>1
    <3>3. secure' = secure /\ Sure(focus)
      BY <1>3, <3>1, <3>2 DEF NoteFocus, Sure
    <3> QED  BY <3>3
  <2> QED  BY <2>3, <2>4, <2>5
<1> QED  BY <1>2, <1>3

(* The tree held is one of a screen shown before, read again or not.       *)
LEMMA RereadTyped ==
  ASSUME Ranges, NEW old \in BOOLEAN, NEW t \in Reread(old)
  PROVE  t \in [of : 1..MaxScreen, fresh : BOOLEAN] /\ t.of \in 1..MaxScreen
<1>1. tree \in [of : 1..MaxScreen, fresh : BOOLEAN] /\ screen \in 1..MaxScreen
  BY DEF Ranges
<1>2. t \in {tree, [of |-> tree.of, fresh |-> FALSE], [of |-> screen, fresh |-> TRUE]}
  BY DEF Reread
<1>3. tree.of \in 1..MaxScreen
  BY <1>1
<1>4. CASE t = tree
  BY <1>1, <1>4
<1>5. CASE t = [of |-> tree.of, fresh |-> FALSE]
  BY <1>3, <1>5
<1>6. CASE t = [of |-> screen, fresh |-> TRUE]
  BY <1>1, <1>6
<1> QED  BY <1>2, <1>4, <1>5, <1>6

(* A tap recorded is a good step, and no read under way can close it.      *)
LEMMA TapRecorded ==
  ASSUME Ranges, Sure(focus) => secure, NEW p \in Point, NEW ss, GoodSteps(ss), RecordTap(p, ss)
  PROVE  /\ GoodSteps(steps')
         /\ secure' \in BOOLEAN /\ focus' \in [on : What, seen : BOOLEAN] /\ (Sure(focus') => secure')
         /\ tree' \in [of : 1..MaxScreen, fresh : BOOLEAN]
         /\ refresh' = refresh + 1 /\ reads' \subseteq [gen : 1..refresh', of : 0..MaxScreen]
         /\ ReadAfter(steps)'
<1>1. NoteFocus(p) /\ ScheduleRefresh
  BY DEF RecordTap
<1>2. PICK old \in BOOLEAN : tree' \in Reread(old)
  BY DEF RecordTap
<1>3. tree' \in [of : 1..MaxScreen, fresh : BOOLEAN] /\ tree'.of \in 1..MaxScreen
  BY <1>2, RereadTyped
<1>4. SelectorKind(tree'.of, p, "tapOn") \in StepKind
  BY DEF SelectorKind, StepKind, TouchKind
<1>5. (Shows[tree'.of][p] \in TextEntry) \in BOOLEAN
  OBVIOUS
<1>6. MaskedIfStep(<<>>)
  BY NoElements DEF MaskedIfStep
<1>7. PICK of \in 1..MaxScreen, kind \in StepKind, field \in BOOLEAN :
        steps' = Recorded(ss, of, kind, field, <<>>)
  BY <1>3, <1>4, <1>5 DEF RecordTap
<1>8. GoodSteps(steps')
  BY <1>6, <1>7, RecordedGood
<1> QED  BY <1>1, <1>3, <1>8, FocusNoted, Scheduled

-----------------------------------------------------------------------------
(* An input counts, once.                                                  *)
LEMMA InputCounts ==
  ASSUME Ranges, Input
  PROVE  inputs' = inputs + 1 /\ inputs \in Nat /\ inputs' \in 0..MaxInput /\ recording = TRUE
BY MaxAssumption DEF Ranges, Input

(* The ranges, once what an action may change is known to be in its own.   *)
LEMMA RangesKept ==
  ASSUME Ranges, inputs' \in 0..MaxInput, inputs <= inputs',
         screen' \in 1..MaxScreen, tree' \in [of : 1..MaxScreen, fresh : BOOLEAN],
         focus' \in [on : What, seen : BOOLEAN], refresh' \in 0..inputs',
         pending' = NoTouch \/ pending' \in [start : Point, last : Point],
         text' \in Seq(Nat), hidden' \subseteq 1..inputs', secrets' \subseteq 1..inputs',
         filled' \in Point \cup {NoPoint}, secure' \in BOOLEAN, recording' \in BOOLEAN,
         reads' \subseteq [gen : 1..refresh', of : 0..MaxScreen]
  PROVE  Ranges'
BY DEF Ranges, NoTouch

(* The inputs that only flush what waits, or record a step that no read    *)
(* can close, and the end of the recording.                                *)
LEMMA FlushStep ==
  ASSUME RecorderIInv, GoodSteps(steps'), ReadAfter(steps'), FlushText,
         inputs' \in 0..MaxInput, inputs <= inputs', recording' \in BOOLEAN,
         UNCHANGED <<screen, secure, refresh, reads>>,
         focus' \in [on : What, seen : BOOLEAN], focus' = focus \/ ~Sure(focus'),
         tree' \in [of : 1..MaxScreen, fresh : BOOLEAN],
         pending' = NoTouch \/ pending' \in [start : Point, last : Point],
         filled' \in Point \cup {NoPoint}, filled' # NoPoint => pending' = NoTouch
  PROVE  RecorderIInv'
<1>1. /\ Ranges /\ WaitingMasked /\ text' = <<>> /\ hidden' = hidden /\ secrets' = secrets
      /\ inputs \in Nat /\ inputs' \in Nat /\ screen \in Nat
  BY MaxAssumption DEF RecorderIInv, FlushText, Ranges
<1>2. text' \in Seq(Nat) /\ ToSet(text') = {}
  BY <1>1, NoElements
<1>3. /\ 1..inputs \subseteq 1..inputs' /\ refresh' \in 0..inputs'
      /\ hidden' \subseteq 1..inputs' /\ secrets' \subseteq 1..inputs'
  BY <1>1 DEF Ranges
<1>4. Ranges'
  <2>1. /\ screen' \in 1..MaxScreen /\ secure' \in BOOLEAN
        /\ reads' \subseteq [gen : 1..refresh', of : 0..MaxScreen]
    BY <1>1 DEF Ranges
  <2> QED  BY <1>1, <1>2, <1>3, <2>1, RangesKept
<1>5. GoodSteps(steps)'
  BY <1>1, GoodStays DEF OnlyNewSecrets
<1>6. ReadAfter(steps)'
  BY DEF ReadAfter
<1>7. WaitingMasked'
  <2>1. MaskedIfStep(text)' /\ ToSet(text') \cap secrets' = {}
    BY <1>2 DEF MaskedIfStep
  <2>2. Sure(focus') => secure'
    BY <1>1 DEF WaitingMasked
  <2>3. WaitingMasked' <=> /\ MaskedIfStep(text)'
                           /\ pending' # NoTouch => ToSet(text') \cap secrets' = {}
                           /\ Sure(focus') => secure'
                           /\ filled' # NoPoint => pending' = NoTouch
    BY DEF WaitingMasked, NoTouch, Sure
  <2> QED  BY <2>1, <2>2, <2>3
<1> QED  BY <1>4, <1>5, <1>6, <1>7 DEF RecorderIInv

(* A focus that no tap gave is of something there, and not sure.           *)
LEMMA RefocusedUnseen ==
  ASSUME NEW of \in 1..MaxScreen, NEW f \in Refocused(of)
  PROVE  f \in [on : What, seen : BOOLEAN] /\ ~Sure(f)
<1>1. CASE f = [on |-> "nothing", seen |-> TRUE]
  <2>1. f.on = "nothing" /\ "nothing" \in What
    BY <1>1 DEF What
  <2> QED  BY <1>1, <2>1 DEF Sure
<1>2. ASSUME NEW p \in Point, f = [on |-> Shows[of][p], seen |-> FALSE]
      PROVE  f \in [on : What, seen : BOOLEAN] /\ ~Sure(f)
  <2>1. Shows[of][p] \in What /\ f.seen = FALSE
    BY <1>2, ShowsAssumption
  <2> QED  BY <1>2, <2>1 DEF Sure
<1> QED  BY <1>1, <1>2 DEF Refocused

LEMMA FlushingAction ==
  ASSUME RecorderIInv,
         (\E p \in Point : TouchDown(p) \/ Check(p)) \/ Press \/ Gesture \/ Location \/ StopRecorder
  PROVE  RecorderIInv'
<1>1. Ranges /\ WaitingMasked /\ GoodSteps(Flushed) /\ ReadAfter(Flushed) /\ tree.of \in 1..MaxScreen
  BY FlushedGood DEF RecorderIInv, Ranges
<1>2. /\ focus \in [on : What, seen : BOOLEAN]
      /\ tree \in [of : 1..MaxScreen, fresh : BOOLEAN]
      /\ pending = NoTouch \/ pending \in [start : Point, last : Point]
      /\ filled \in Point \cup {NoPoint} /\ (filled # NoPoint => pending = NoTouch)
      /\ inputs \in 0..MaxInput /\ inputs \in Nat /\ recording \in BOOLEAN
  BY <1>1, MaxAssumption DEF Ranges, WaitingMasked
<1>3. ASSUME NEW p \in Point, TouchDown(p) PROVE RecorderIInv'
  <2>1. /\ inputs' \in 0..MaxInput /\ inputs <= inputs'
        /\ steps' = Flushed /\ FlushText /\ filled' = NoPoint
        /\ UNCHANGED <<screen, focus, secure, refresh, reads, tree, recording>>
    BY <1>1, <1>3, InputCounts DEF TouchDown, later
  <2>2. pending' \in [start : Point, last : Point]
    BY <1>3 DEF TouchDown
  <2> QED  BY <1>1, <1>2, <2>1, <2>2, FlushStep
<1>4. ASSUME NEW kind \in {"pressKey", "setLocation"}, Input,
             steps' = AppendStep(Flushed, tree.of, kind, <<>>), FlushText,
             filled' \in {filled, NoPoint}, UNCHANGED <<screen, tree, secure, pending, later, recording>>,
             focus' \in [on : What, seen : BOOLEAN], focus' = focus \/ ~Sure(focus')
      PROVE  RecorderIInv'
  <2>1. kind \in StepKind \ TouchKind
    BY DEF StepKind, TouchKind
  <2>2. GoodSteps(steps') /\ ReadAfter(steps')
    BY <1>1, <1>4, <2>1, AppendedGood
  <2>3. /\ inputs' \in 0..MaxInput /\ inputs <= inputs'
        /\ UNCHANGED <<screen, secure, refresh, reads, tree, recording, pending>>
    BY <1>1, <1>4, InputCounts DEF later
  <2> QED  BY <1>2, <1>4, <2>2, <2>3, FlushStep
<1>5. CASE Press
  <2>1. focus' = focus \/ focus' \in Refocused(screen)
    BY <1>5 DEF Press
  <2>2. focus' \in [on : What, seen : BOOLEAN] /\ (focus' = focus \/ ~Sure(focus'))
    BY <1>1, <1>2, <2>1, RefocusedUnseen DEF Ranges
  <2> QED  BY <1>4, <1>5, <2>2 DEF Press
<1>6. CASE Location
  BY <1>2, <1>4, <1>6 DEF Location, touch
<1>7. CASE Gesture
  <2>1. /\ inputs' \in 0..MaxInput /\ inputs <= inputs'
        /\ steps' = Flushed /\ FlushText /\ filled' = NoPoint
        /\ UNCHANGED <<screen, focus, secure, refresh, reads, tree, recording, pending>>
    BY <1>1, <1>7, InputCounts DEF Gesture, later
  <2> QED  BY <1>1, <1>2, <2>1, FlushStep
<1>8. CASE StopRecorder
  <2>1. /\ inputs' \in 0..MaxInput /\ inputs <= inputs' /\ recording' \in BOOLEAN
        /\ steps' = Flushed /\ FlushText
        /\ UNCHANGED <<screen, focus, secure, refresh, reads, tree, pending, filled>>
    <3>1. inputs' = inputs /\ recording' = FALSE
      BY <1>8 DEF StopRecorder
    <3>2. inputs' \in 0..MaxInput /\ inputs <= inputs'
      BY <1>2, <3>1
    <3> QED  BY <1>8, <3>1, <3>2 DEF StopRecorder, later, touch
  <2> QED  BY <1>1, <1>2, <2>1, FlushStep
<1>9. ASSUME NEW p \in Point, Check(p) PROVE RecorderIInv'
  <2>1. /\ inputs' \in 0..MaxInput /\ inputs <= inputs' /\ FlushText
        /\ UNCHANGED <<screen, focus, secure, refresh, reads, pending, filled, recording>>
    BY <1>1, <1>9, InputCounts DEF Check, later, touch
  <2>2. tree' \in [of : 1..MaxScreen, fresh : BOOLEAN] /\ tree'.of \in 1..MaxScreen
    BY <1>1, <1>9, RereadTyped DEF Check
  <2>3. GoodSteps(steps') /\ ReadAfter(steps')
    <3>1. CASE steps' = Flushed
      BY <1>1, <3>1
    <3>2. CASE steps' = AppendStep(Flushed, tree'.of, "assertVisible", <<>>)
      <4>1. "assertVisible" \in StepKind \ TouchKind
        BY DEF StepKind, TouchKind
      <4> QED  BY <1>1, <2>2, <3>2, <4>1, AppendedGood
    <3> QED  BY <1>9, <3>1, <3>2 DEF Check
  <2> QED  BY <1>2, <2>1, <2>2, <2>3, FlushStep
<1> QED  BY <1>3, <1>5, <1>6, <1>7, <1>8, <1>9

(* A finger that moves or lifts: what waits stays, and holds no secret.    *)
LEMMA TouchStep ==
  ASSUME RecorderIInv, Input, pending # NoTouch, filled' = NoPoint,
         UNCHANGED <<screen, text, hidden, secrets, recording>>,
         GoodSteps(steps'), ReadAfter(steps)',
         secure' \in BOOLEAN, focus' \in [on : What, seen : BOOLEAN], Sure(focus') => secure',
         tree' \in [of : 1..MaxScreen, fresh : BOOLEAN],
         refresh' \in {refresh, refresh + 1}, reads' \subseteq [gen : 1..refresh', of : 0..MaxScreen],
         pending' = NoTouch \/ pending' \in [start : Point, last : Point]
  PROVE  RecorderIInv'
<1>1. Ranges /\ WaitingMasked
  BY DEF RecorderIInv
<1>2. /\ inputs' = inputs + 1 /\ inputs \in Nat /\ inputs' \in 0..MaxInput
      /\ screen \in Nat /\ recording' \in BOOLEAN /\ screen' \in 1..MaxScreen
      /\ refresh \in 0..inputs /\ text' \in Seq(Nat) /\ inputs <= inputs'
  <2>1. inputs' = inputs + 1 /\ inputs \in Nat /\ inputs' \in 0..MaxInput
    BY <1>1, InputCounts
  <2>2. screen \in Nat /\ screen' \in 1..MaxScreen /\ refresh \in 0..inputs
    BY <1>1, MaxAssumption DEF Ranges
  <2>3. recording' \in BOOLEAN /\ text' \in Seq(Nat)
    BY <1>1 DEF Ranges
  <2> QED  BY <2>1, <2>2, <2>3
<1>3. 1..inputs \subseteq 1..inputs' /\ refresh' \in 0..inputs'
  BY <1>2
<1>4. hidden' \subseteq 1..inputs' /\ secrets' \subseteq 1..inputs'
  BY <1>1, <1>3 DEF Ranges
<1>5. Ranges'
  BY <1>1, <1>2, <1>3, <1>4, RangesKept
<1>6. GoodSteps(steps)'
  BY <1>1, <1>2, GoodStays DEF OnlyNewSecrets
<1>7. ToSet(text') \cap secrets' = {} /\ ToSet(text') \subseteq 1..inputs'
  BY <1>1, <1>3 DEF WaitingMasked, MaskedIfStep
<1>8. WaitingMasked'
  BY <1>2, <1>7 DEF WaitingMasked, MaskedIfStep, Sure
<1> QED  BY <1>5, <1>6, <1>8 DEF RecorderIInv

LEMMA TouchAction ==
  ASSUME RecorderIInv, (\E p \in Point : TouchMove(p)) \/ TouchUp
  PROVE  RecorderIInv'
<1>1. /\ Ranges /\ GoodSteps(steps) /\ ReadAfter(steps) /\ (Sure(focus) => secure) /\ Input
      /\ pending # NoTouch /\ filled' = NoPoint
      /\ UNCHANGED <<screen, text, hidden, secrets, recording>>
  BY DEF RecorderIInv, WaitingMasked, TouchMove, TouchUp, buffer
<1>2. /\ pending \in [start : Point, last : Point] /\ secure \in BOOLEAN
      /\ focus \in [on : What, seen : BOOLEAN] /\ tree \in [of : 1..MaxScreen, fresh : BOOLEAN]
      /\ tree.of \in 1..MaxScreen
  BY <1>1 DEF Ranges
<1>3. ASSUME NEW p \in Point, TouchMove(p) PROVE RecorderIInv'
  <2>1. UNCHANGED <<steps, reads, refresh, secure, focus, tree>> /\ pending' = [pending EXCEPT !.last = p]
    BY <1>3 DEF TouchMove, later
  <2>2. pending' \in [start : Point, last : Point]
    BY <1>2, <2>1
  <2>3. reads' \subseteq [gen : 1..refresh', of : 0..MaxScreen]
    BY <1>1, <2>1 DEF Ranges
  <2>4. ReadAfter(steps)'
    BY <1>1, <2>1 DEF ReadAfter
  <2>5. GoodSteps(steps')
    BY <1>1, <2>1
  <2> QED  BY <1>1, <1>2, <2>1, <2>2, <2>3, <2>4, <2>5, TouchStep
<1>4. CASE TouchUp /\ RecordTap(pending.start, steps)
  <2>1. pending.start \in Point /\ pending' = NoTouch
    BY <1>2, <1>4 DEF TouchUp
  <2> QED  BY <1>1, <1>4, <2>1, TapRecorded, TouchStep
<1>5. CASE TouchUp /\ ~RecordTap(pending.start, steps)
  <2>1. /\ steps' = Recorded(steps, tree.of, "swipe", FALSE, <<>>) /\ ScheduleRefresh
        /\ UNCHANGED <<focus, tree, secure>> /\ pending' = NoTouch
    BY <1>5 DEF TouchUp, AppendStep
  <2>2. "swipe" \in StepKind /\ FALSE \in BOOLEAN /\ MaskedIfStep(<<>>)
    BY NoElements DEF StepKind, TouchKind, MaskedIfStep
  <2>3. GoodSteps(steps')
    BY <1>1, <1>2, <2>1, <2>2, RecordedGood
  <2>4. /\ refresh' = refresh + 1 /\ reads' \subseteq [gen : 1..refresh', of : 0..MaxScreen]
        /\ ReadAfter(steps)'
    BY <1>1, <2>1, Scheduled
  <2> QED  BY <1>1, <1>2, <2>1, <2>3, <2>4, TouchStep
<1> QED  BY <1>3, <1>4, <1>5

(* A character comes, or the last one is taken back.                       *)
LEMMA TypingAction == ASSUME RecorderIInv, Type \/ Backspace PROVE RecorderIInv'
<1>1. /\ Ranges /\ GoodSteps(steps) /\ ReadAfter(steps) /\ WaitingMasked /\ Input
      /\ filled' = NoPoint
      /\ UNCHANGED <<screen, focus, steps, tree, secure, pending, refresh, reads, recording>>
  BY DEF RecorderIInv, Type, Backspace, later
<1>2. inputs' = inputs + 1 /\ inputs \in Nat /\ inputs' \in 0..MaxInput /\ inputs <= inputs'
  BY <1>1, InputCounts
<1>3. /\ 1..inputs \subseteq 1..inputs' /\ inputs' \in 1..inputs' /\ inputs' \notin 1..inputs
      /\ 0..inputs \subseteq 0..inputs'
  BY <1>2
<1>4. /\ text \in Seq(Nat) /\ ToSet(text) \subseteq 1..inputs
      /\ hidden \subseteq 1..inputs /\ secrets \subseteq 1..inputs
      /\ ~secure => ToSet(text) \cap secrets = {}
      /\ pending # NoTouch => ToSet(text) \cap secrets = {}
      /\ Sure(focus) => secure
  BY <1>1 DEF Ranges, WaitingMasked, MaskedIfStep
<1>5. /\ text' \in Seq(Nat) /\ ToSet(text') \subseteq 1..inputs'
      /\ hidden' \subseteq 1..inputs' /\ secrets' \subseteq 1..inputs'
      /\ ~secure => ToSet(text') \cap secrets' = {}
      /\ pending # NoTouch => ToSet(text') \cap secrets' = {}
      /\ secrets' \cap (1..inputs) \subseteq secrets
  <2>1. CASE Type
    <3>1. text' \in Seq(Nat) /\ ToSet(text') = ToSet(text) \cup {inputs'}
      BY <1>2, <1>4, <2>1, ToSetAppend DEF Type
    <3>2. hidden' \in {hidden, hidden \cup {inputs'}} /\ secrets' \in {secrets, secrets \cup {inputs'}}
      BY <2>1 DEF Type
    <3>3. ~secure \/ pending # NoTouch => secrets' = secrets
      BY <1>4, <2>1 DEF Type
    <3> QED  BY <1>3, <1>4, <3>1, <3>2, <3>3
  <2>2. CASE Backspace
    <3>1. text' \in Seq(Nat) /\ ToSet(text') \subseteq ToSet(text)
      BY <1>4, <2>2, ToSetFront DEF Backspace
    <3>2. hidden' \subseteq hidden /\ secrets' \subseteq secrets
      BY <2>2 DEF Backspace
    <3> QED  BY <1>3, <1>4, <3>1, <3>2
  <2> QED  BY <2>1, <2>2
<1>6. Ranges'
  <2>1. /\ screen' \in 1..MaxScreen /\ tree' \in [of : 1..MaxScreen, fresh : BOOLEAN]
        /\ focus' \in [on : What, seen : BOOLEAN] /\ refresh' \in 0..inputs'
        /\ pending' = NoTouch \/ pending' \in [start : Point, last : Point]
        /\ filled' \in Point \cup {NoPoint} /\ secure' \in BOOLEAN /\ recording' \in BOOLEAN
        /\ reads' \subseteq [gen : 1..refresh', of : 0..MaxScreen]
    BY <1>1, <1>3 DEF Ranges
  <2> QED  BY <1>1, <1>2, <1>5, <2>1, RangesKept
<1>7. GoodSteps(steps)'
  <2>1. GoodSteps(steps') /\ screen' \in Nat /\ screen <= screen' /\ OnlyNewSecrets
    BY <1>1, <1>5, MaxAssumption DEF Ranges, OnlyNewSecrets
  <2> QED  BY <1>1, <1>2, <2>1, GoodStays
<1>8. ReadAfter(steps)'
  BY <1>1 DEF ReadAfter
<1>9. WaitingMasked'
  BY <1>1, <1>4, <1>5 DEF WaitingMasked, MaskedIfStep, Sure, NoTouch
<1> QED  BY <1>6, <1>7, <1>8, <1>9 DEF RecorderIInv

LEMMA FillAction == ASSUME RecorderIInv, NEW p \in Point, Fill(p) PROVE RecorderIInv'
<1>1. /\ Ranges /\ WaitingMasked /\ Input /\ filled' = p /\ text' = <<inputs'>>
      /\ UNCHANGED <<screen, recording>>
      /\ secrets' = IF Sure(focus') THEN secrets \cup {inputs'} ELSE secrets
  BY DEF RecorderIInv, Fill
<1>2. inputs' = inputs + 1 /\ inputs \in Nat /\ inputs' \in 0..MaxInput /\ inputs <= inputs'
  BY <1>1, InputCounts
<1>3. /\ 1..inputs \subseteq 1..inputs' /\ inputs' \in 1..inputs' /\ inputs' \notin 1..inputs
      /\ 0..inputs \subseteq 0..inputs'
  BY <1>2
<1>4. text' \in Seq(Nat) /\ ToSet(text') = {inputs'}
  <2>1. inputs' \in Nat
    BY <1>2
  <2> QED  BY <1>1, <2>1, OneElement
<1>5. /\ hidden \subseteq 1..inputs /\ secrets \subseteq 1..inputs /\ screen \in Nat
      /\ refresh \in 0..inputs /\ refresh \in Nat
  BY <1>1, <1>2, MaxAssumption DEF Ranges
<1>6. hidden' \subseteq hidden \cup {inputs'}
  BY DEF Fill
<1>7. /\ GoodSteps(steps') /\ ReadAfter(steps)'
      /\ secure' \in BOOLEAN /\ focus' \in [on : What, seen : BOOLEAN] /\ (Sure(focus') => secure')
      /\ tree' \in [of : 1..MaxScreen, fresh : BOOLEAN]
      /\ refresh' \in 0..inputs' /\ reads' \subseteq [gen : 1..refresh', of : 0..MaxScreen]
      /\ pending' = NoTouch
  <2>1. CASE filled # p
    <3>1. RecordTap(p, Flushed) /\ pending' = NoTouch /\ GoodSteps(Flushed) /\ (Sure(focus) => secure)
      BY <1>1, <2>1, FlushedGood DEF Fill, WaitingMasked
    <3>2. /\ GoodSteps(steps') /\ ReadAfter(steps)'
          /\ secure' \in BOOLEAN /\ focus' \in [on : What, seen : BOOLEAN] /\ (Sure(focus') => secure')
          /\ tree' \in [of : 1..MaxScreen, fresh : BOOLEAN]
          /\ refresh' = refresh + 1 /\ reads' \subseteq [gen : 1..refresh', of : 0..MaxScreen]
      BY <1>1, <3>1, TapRecorded
    <3>3. refresh' \in 0..inputs'
      BY <1>2, <1>5, <3>2
    <3> QED  BY <3>1, <3>2, <3>3
  <2>2. CASE filled = p
    <3>1. UNCHANGED <<focus, steps, tree, secure, pending, refresh, reads>>
      BY <2>2 DEF Fill, later
    <3>2. pending = NoTouch /\ (Sure(focus) => secure)
      BY <1>1, <2>2, NoPointAssumption DEF WaitingMasked
    <3>3. GoodSteps(steps') /\ ReadAfter(steps)'
      BY <3>1 DEF RecorderIInv, ReadAfter
    <3>4. /\ secure \in BOOLEAN /\ focus \in [on : What, seen : BOOLEAN]
          /\ tree \in [of : 1..MaxScreen, fresh : BOOLEAN]
          /\ reads \subseteq [gen : 1..refresh, of : 0..MaxScreen]
      BY <1>1 DEF Ranges
    <3> QED  BY <1>3, <1>5, <3>1, <3>2, <3>3, <3>4
  <2> QED  BY <2>1, <2>2
<1>8. hidden' \subseteq 1..inputs' /\ secrets' \subseteq 1..inputs' /\ OnlyNewSecrets
  BY <1>1, <1>3, <1>5, <1>6 DEF OnlyNewSecrets
<1>9. Ranges'
  <2>1. screen' \in 1..MaxScreen /\ recording' \in BOOLEAN /\ filled' \in Point \cup {NoPoint}
    BY <1>1 DEF Ranges
  <2> QED  BY <1>1, <1>2, <1>4, <1>7, <1>8, <2>1, RangesKept
<1>10. GoodSteps(steps)'
  BY <1>1, <1>2, <1>5, <1>7, <1>8, GoodStays
<1>11. WaitingMasked'
  <2>1. ~secure' => secrets' = secrets
    BY <1>1, <1>7
  <2>2. ~secure' => ToSet(text') \cap secrets' = {}
    BY <1>3, <1>4, <1>5, <2>1
  <2> QED  BY <1>3, <1>4, <1>7, <2>2 DEF WaitingMasked, MaskedIfStep, Sure, NoTouch
<1> QED  BY <1>7, <1>9, <1>10, <1>11 DEF RecorderIInv

(* What moves on its own.                                                  *)
LEMMA OwnStep ==
  ASSUME RecorderIInv, GoodSteps(steps'), ReadAfter(steps)',
         UNCHANGED <<inputs, buffer, secure, touch, refresh, recording>>,
         screen' \in 1..MaxScreen, screen <= screen',
         focus' = focus \/ ~Sure(focus'), focus' \in [on : What, seen : BOOLEAN],
         tree' \in [of : 1..MaxScreen, fresh : BOOLEAN],
         reads' \subseteq [gen : 1..refresh, of : 0..MaxScreen]
  PROVE  RecorderIInv'
<1>1. /\ Ranges /\ WaitingMasked
      /\ UNCHANGED <<text, hidden, secrets, secure, pending, filled, refresh, inputs, recording>>
  BY DEF RecorderIInv, buffer, touch
<1>2. inputs \in 0..MaxInput /\ inputs \in Nat /\ screen' \in Nat
  BY <1>1, MaxAssumption DEF Ranges
<1>3. Ranges'
  <2>1. /\ refresh' \in 0..inputs' /\ text' \in Seq(Nat) /\ hidden' \subseteq 1..inputs'
        /\ secrets' \subseteq 1..inputs' /\ filled' \in Point \cup {NoPoint}
        /\ secure' \in BOOLEAN /\ recording' \in BOOLEAN
        /\ pending' = NoTouch \/ pending' \in [start : Point, last : Point]
    BY <1>1 DEF Ranges
  <2>2. inputs' \in 0..MaxInput /\ inputs <= inputs'
    BY <1>1, <1>2
  <2> QED  BY <1>1, <2>1, <2>2, RangesKept
<1>4. GoodSteps(steps)'
  <2>1. inputs' \in Nat /\ inputs <= inputs' /\ OnlyNewSecrets
    BY <1>1, <1>2 DEF OnlyNewSecrets
  <2> QED  BY <1>1, <1>2, <2>1, GoodStays
<1>5. WaitingMasked'
  <2>1. MaskedIfStep(text)'
    BY <1>1 DEF WaitingMasked, MaskedIfStep
  <2>2. Sure(focus') => secure'
    BY <1>1 DEF WaitingMasked
  <2> QED  BY <1>1, <2>1, <2>2 DEF WaitingMasked, Sure, NoTouch
<1> QED  BY <1>3, <1>4, <1>5 DEF RecorderIInv

LEMMA OwnAction ==
  ASSUME RecorderIInv,
         (\E r \in reads : RefreshReads(r) \/ RefreshStores(r)) \/ TreeAges \/ ScreenMoves
  PROVE  RecorderIInv'
<1>1. /\ Ranges /\ GoodSteps(steps) /\ ReadAfter(steps)
      /\ screen \in 1..MaxScreen /\ screen \in Nat /\ screen <= screen /\ MaxScreen \in Nat
      /\ focus \in [on : What, seen : BOOLEAN] /\ tree \in [of : 1..MaxScreen, fresh : BOOLEAN]
      /\ reads \subseteq [gen : 1..refresh, of : 0..MaxScreen]
  BY MaxAssumption DEF RecorderIInv, Ranges
<1>2. ASSUME NEW r \in reads, RefreshReads(r) PROVE RecorderIInv'
  <2> DEFINE n == [r EXCEPT !.of = screen]
  <2>1. /\ UNCHANGED <<screen, focus, inputs, steps, tree, buffer, secure, touch, refresh, recording>>
        /\ reads' \subseteq reads \cup {n}
    BY <1>2 DEF RefreshReads
  <2>2. r \in [gen : 1..refresh, of : 0..MaxScreen]
    BY <1>1
  <2>3. n \in [gen : 1..refresh, of : 0..MaxScreen] /\ n.of = screen
    BY <1>1, <2>2
  <2> HIDE DEF n
  <2>4. ReadAfter(steps)'
    <3> SUFFICES ASSUME steps # <<>>, Last(steps).post = Open, Last(steps).kind \in TouchKind,
                        NEW x \in reads', x.gen = refresh, x.of # 0
                 PROVE  x.of >= Last(steps).born
      BY <2>1 DEF ReadAfter
    <3>1. Last(steps).born <= screen /\ Last(steps).born \in Nat
      <4>1. Last(steps) \in ToSet(steps) /\ Last(steps) \in Step
        BY <1>1, ToSetElements DEF GoodSteps
      <4>2. Good(Last(steps))
        BY <1>1, <4>1 DEF GoodSteps
      <4> QED  BY <4>1, <4>2, MaxAssumption DEF Good, Step
    <3>2. CASE x \in reads
      BY <1>1, <3>2 DEF ReadAfter
    <3>3. CASE x = n
      BY <1>1, <2>3, <3>1, <3>3
    <3> QED  BY <2>1, <3>2, <3>3
  <2>5. reads' \subseteq [gen : 1..refresh, of : 0..MaxScreen]
    BY <1>1, <2>1, <2>3
  <2> QED  BY <1>1, <2>1, <2>4, <2>5, OwnStep
<1>3. ASSUME NEW r \in reads, RefreshStores(r) PROVE RecorderIInv'
  <2>1. /\ UNCHANGED <<screen, focus, inputs, buffer, secure, touch, refresh, recording>>
        /\ reads' \subseteq reads /\ r.of # 0
    BY <1>3 DEF RefreshStores
  <2>2. r \in [gen : 1..refresh, of : 0..MaxScreen] /\ r.of \in 1..MaxScreen
    BY <1>1, <2>1
  <2>3. reads' \subseteq [gen : 1..refresh, of : 0..MaxScreen]
    BY <1>1, <2>1
  <2>4. CASE r.gen = refresh
    <3>1. tree' = [of |-> r.of, fresh |-> TRUE] /\ steps' = Closed(steps, r.of, "refresh")
      BY <1>3, <2>4 DEF RefreshStores
    <3>2. tree' \in [of : 1..MaxScreen, fresh : BOOLEAN]
      BY <2>2, <3>1
    <3>3. GoodSteps(steps')
      <4>1. steps # <<>> /\ Last(steps).post = Open /\ Last(steps).kind \in TouchKind
              => r.of >= Last(steps).born
        BY <1>1, <2>1, <2>4 DEF ReadAfter
      <4>2. "refresh" \in {"append", "refresh"}
        OBVIOUS
      <4> QED  BY <1>1, <2>2, <3>1, <4>1, <4>2, ClosedGood
    <3>4. ReadAfter(steps)'
      <4>1. steps' # <<>> => Last(steps').post # Open
        BY <1>1, <2>2, <3>1, ClosedSteps DEF GoodSteps
      <4> QED  BY <4>1 DEF ReadAfter
    <3> QED  BY <1>1, <2>1, <2>3, <3>2, <3>3, <3>4, OwnStep
  <2>5. CASE r.gen # refresh
    <3>1. UNCHANGED <<tree, steps>>
      BY <1>3, <2>5 DEF RefreshStores
    <3>2. GoodSteps(steps') /\ ReadAfter(steps)'
      BY <1>1, <2>1, <3>1 DEF ReadAfter
    <3> QED  BY <1>1, <2>1, <2>3, <3>1, <3>2, OwnStep
  <2> QED  BY <2>4, <2>5
<1>4. CASE TreeAges
  <2>1. /\ UNCHANGED <<screen, focus, inputs, steps, buffer, secure, touch, refresh, reads, recording>>
        /\ tree' = [tree EXCEPT !.fresh = FALSE]
    BY <1>4 DEF TreeAges, later
  <2>2. tree' \in [of : 1..MaxScreen, fresh : BOOLEAN]
    BY <1>1, <2>1
  <2>3. GoodSteps(steps') /\ ReadAfter(steps)'
    BY <1>1, <2>1 DEF ReadAfter
  <2> QED  BY <1>1, <2>1, <2>2, <2>3, OwnStep
<1>5. CASE ScreenMoves
  <2>1. /\ UNCHANGED <<inputs, steps, tree, buffer, secure, touch, refresh, reads, recording>>
        /\ focus' \in Refocused(screen')
        /\ screen < MaxScreen /\ screen' = screen + 1
    BY <1>5 DEF ScreenMoves, later
  <2>2. screen' \in 1..MaxScreen /\ screen <= screen'
    BY <1>1, <2>1
  <2>3. focus' \in [on : What, seen : BOOLEAN] /\ ~Sure(focus')
    BY <2>1, <2>2, RefocusedUnseen
  <2>4. GoodSteps(steps') /\ ReadAfter(steps)'
    BY <1>1, <2>1 DEF ReadAfter
  <2> QED  BY <1>1, <2>1, <2>2, <2>3, <2>4, OwnStep
<1> QED  BY <1>2, <1>3, <1>4, <1>5

-----------------------------------------------------------------------------
LEMMA RecorderInitInv == RecorderInit => RecorderIInv
<1> SUFFICES ASSUME RecorderInit PROVE RecorderIInv
  OBVIOUS
<1>1. text = <<>> /\ steps = <<>> /\ MaxScreen \in Nat \ {0} /\ MaxInput \in Nat
  BY MaxAssumption DEF RecorderInit
<1>2. text \in Seq(Nat) /\ steps \in Seq(Step) /\ ToSet(text) = {} /\ ToSet(steps) = {}
  BY <1>1, NoElements
<1>3. Ranges
  <2>1. screen \in 1..MaxScreen /\ tree \in [of : 1..MaxScreen, fresh : BOOLEAN]
    BY <1>1 DEF RecorderInit
  <2>2. focus \in [on : What, seen : BOOLEAN]
    BY DEF RecorderInit, What
  <2>3. /\ inputs \in 0..MaxInput /\ refresh \in 0..inputs
        /\ hidden \subseteq 1..inputs /\ secrets \subseteq 1..inputs
    BY <1>1 DEF RecorderInit
  <2>4. /\ pending = NoTouch /\ filled \in Point \cup {NoPoint}
        /\ secure \in BOOLEAN /\ recording \in BOOLEAN
        /\ reads \subseteq [gen : 1..refresh, of : 0..MaxScreen]
    BY DEF RecorderInit
  <2> QED  BY <1>2, <2>1, <2>2, <2>3, <2>4 DEF Ranges
<1>4. GoodSteps(steps) /\ ReadAfter(steps)
  BY <1>1, <1>2 DEF GoodSteps, ReadAfter
<1>5. WaitingMasked
  <2>1. ~Sure(focus)
    <3>1. focus.on = "nothing"
      BY DEF RecorderInit
    <3> QED  BY <3>1 DEF Sure
  <2> QED  BY <1>2, <2>1 DEF RecorderInit, WaitingMasked, MaskedIfStep
<1> QED  BY <1>3, <1>4, <1>5 DEF RecorderIInv

LEMMA RecorderStep == ASSUME RecorderIInv, [RecorderNext]_recorderVars PROVE RecorderIInv'
<1>1. CASE UNCHANGED recorderVars
  <2>1. UNCHANGED <<screen, focus, inputs, steps, tree, buffer, secure, touch, refresh, reads, recording>>
    BY <1>1 DEF recorderVars, later
  <2>2. GoodSteps(steps') /\ ReadAfter(steps)' /\ Ranges
    BY <2>1 DEF RecorderIInv, ReadAfter
  <2>3. /\ screen' \in 1..MaxScreen /\ focus' \in [on : What, seen : BOOLEAN]
        /\ tree' \in [of : 1..MaxScreen, fresh : BOOLEAN]
        /\ reads' \subseteq [gen : 1..refresh, of : 0..MaxScreen]
    BY <2>1, <2>2 DEF Ranges
  <2>4. screen <= screen'
    BY <2>1, <2>3, MaxAssumption
  <2> QED  BY <2>1, <2>2, <2>3, <2>4, OwnStep
<1>2. CASE RecorderNext
  BY <1>2, FlushingAction, TouchAction, TypingAction, FillAction, OwnAction DEF RecorderNext
<1> QED  BY <1>1, <1>2

(* The recorder's state stays in its ranges, with any number of screens,   *)
(* places and inputs.                                                      *)
THEOREM RecorderTyped == RecorderSpec => []RecorderTypeOK
<1>1. RecorderIInv => RecorderTypeOK
  <2> SUFFICES ASSUME RecorderIInv PROVE RecorderTypeOK
    OBVIOUS
  <2>1. Ranges /\ GoodSteps(steps) /\ WaitingMasked
    BY DEF RecorderIInv
  <2>2. text \in Seq(1..inputs)
    <3>1. \A i \in 1..Len(text) : text[i] \in 1..inputs
      BY <2>1, LenProperties DEF Ranges, WaitingMasked, MaskedIfStep, ToSet
    <3> QED  BY <2>1, <3>1 DEF Ranges
  <2>3. \A s \in ToSet(steps) : s.pre \in 1..MaxScreen /\ s.post \in 0..MaxScreen
    <3>1. ToSet(steps) \subseteq Step
      BY <2>1, ToSetElements DEF GoodSteps
    <3> QED  BY <3>1 DEF Step
  <2>4. inputs \in 0..MaxInput /\ refresh \in 0..MaxInput
    BY <2>1, MaxAssumption DEF Ranges
  <2> QED  BY <2>1, <2>2, <2>3, <2>4 DEF Ranges, RecorderTypeOK
<1> QED  BY <1>1, RecorderInitInv, RecorderStep, PTL DEF RecorderSpec

(* However many refreshes are under way, a tree read before a touch never  *)
(* closes its step: a refresh stores only what it read if none was         *)
(* scheduled since, and recording the touch schedules one                  *)
(* (scheduleRefreshLocked).                                                *)
THEOREM TouchesClosedAfter == RecorderSpec => []TouchClosedAfter
<1>1. RecorderIInv => TouchClosedAfter
  BY DEF RecorderIInv, GoodSteps, Good, TouchClosedAfter, TouchKind
<1> QED  BY <1>1, RecorderInitInv, RecorderStep, PTL DEF RecorderSpec

(* On any screens and any order of inputs: what is typed into a hiding     *)
(* field the recorder saw get the focus is told as a parameter, also while *)
(* it still waits to be a step (noteFocus, textStepLocked).                *)
THEOREM SecretsMasked == RecorderSpec => []MaskedIfSeen
<1>1. RecorderIInv => MaskedIfSeen
  <2> SUFFICES ASSUME RecorderIInv, NEW s \in ToSet(Flushed)
               PROVE  ToSet(Typed(s)) \cap secrets = {}
    BY DEF MaskedIfSeen, Told
  <2>1. Good(s)
    BY FlushedGood DEF GoodSteps
  <2>2. CASE s.secure
    BY <2>2, NoElements DEF Typed
  <2>3. CASE ~s.secure
    BY <2>1, <2>3 DEF Typed, Good
  <2> QED  BY <2>2, <2>3
<1> QED  BY <1>1, RecorderInitInv, RecorderStep, PTL DEF RecorderSpec

-----------------------------------------------------------------------------
(* Words of a selector *)

LEMMA FlattenTogether ==
  ASSUME NEW S, NEW pieces \in Seq(Seq(S))
  PROVE  \E f \in [0..Len(pieces) -> Seq(S)] :
           Together(pieces, f) /\ FlattenSeq(pieces) = f[Len(pieces)]
<1> DEFINE n == Len(pieces)
           V == Seq(S)
           G == [x \in (1..n) \X V |-> x[2] \o pieces[x[1]]]
<1>1. n \in Nat /\ <<>> \in V /\ \A i \in 1..n : pieces[i] \in V
  OBVIOUS
<1>2. G \in [(1..n) \X V -> V]
  BY <1>1
<1>3. PICK f \in [0..n -> V] : f[0] = <<>> /\ \A i \in 1..n : f[i] = G[<<i, f[i - 1]>>]
  <2> HIDE DEF V, G, n
  <2>1. \E f : Chain(f, V, <<>>, n, G)
    BY <1>1, <1>2, OneAfterAnother
  <2> QED  BY <2>1 DEF Chain
<1>4. ASSUME NEW i \in 1..n PROVE f[i - 1] \in V /\ f[i] = f[i - 1] \o pieces[i]
  <2>1. i - 1 \in 0..n
    BY <1>1
  <2>2. <<i, f[i - 1]>> \in (1..n) \X V
    BY <1>3, <2>1
  <2> QED  BY <1>3, <2>2
<1>5. CASE n = 0
  <2>1. pieces = <<>>
    BY <1>5, EmptySeq
  <2> QED  BY <1>3, <1>4, <1>5, <2>1 DEF FlattenSeq, Together
<1>6. CASE n # 0
  <2> DEFINE Flat(g) == [i \in 1..n |-> IF i = 1 THEN pieces[i] ELSE g[i - 1] \o pieces[i]]
             first == [i \in 1..n |-> f[i]]
  <2>1. first = Flat(first)
    <3>1. ASSUME NEW i \in 1..n
          PROVE  first[i] = IF i = 1 THEN pieces[i] ELSE first[i - 1] \o pieces[i]
      <4>1. CASE i = 1
        <5>1. i - 1 = 0 /\ f[i] = <<>> \o pieces[i]
          <6>1. 1 \in 1..n /\ 1 - 1 = 0
            BY <4>1
          <6>2. f[1] = f[1 - 1] \o pieces[1]
            BY <1>4, <6>1
          <6> QED  BY <1>3, <4>1, <6>1, <6>2
        <5> QED  BY <1>1, <4>1, <5>1, ConcatEmptySeq
      <4>2. CASE i # 1
        <5>1. i - 1 \in 1..n
          BY <1>1, <4>2
        <5> QED  BY <1>4, <4>2, <5>1
      <4> QED  BY <4>1, <4>2
    <3> QED  BY <3>1
  <2>2. ASSUME NEW g, g = Flat(g) PROVE g[n] = f[n]
    <3> DEFINE Bad == {i \in 1..n : g[i] # f[i]}
    <3>1. \A i \in 1..n : g[i] = IF i = 1 THEN pieces[i] ELSE g[i - 1] \o pieces[i]
      BY <2>2
    <3>2. \A i \in 1..n : f[i] = IF i = 1 THEN pieces[i] ELSE f[i - 1] \o pieces[i]
      <4>1. \A i \in 1..n : first[i] = IF i = 1 THEN pieces[i] ELSE first[i - 1] \o pieces[i]
        BY <2>1
      <4> SUFFICES ASSUME NEW i \in 1..n
                   PROVE  f[i] = IF i = 1 THEN pieces[i] ELSE f[i - 1] \o pieces[i]
        OBVIOUS
      <4>2. CASE i = 1
        BY <4>1, <4>2
      <4>3. CASE i # 1
        <5>1. i - 1 \in 1..n
          BY <1>1, <4>3
        <5> QED  BY <4>1, <4>3, <5>1
      <4> QED  BY <4>2, <4>3
    <3>3. ASSUME Bad # {} PROVE FALSE
      <4>1. PICK m \in Bad : \A k \in Bad : m <= k
        <5>1. Bad \subseteq Nat
          BY <1>1
        <5> QED  BY <3>3, <5>1, LeastOf
      <4>2. m # 1
        BY <3>1, <3>2, <4>1
      <4>3. m - 1 \in 1..n /\ m - 1 \notin Bad
        <5>1. m \in 1..n /\ m - 1 \in 1..n /\ ~(m <= m - 1)
          BY <1>1, <4>1, <4>2
        <5> QED  BY <4>1, <5>1
      <4> QED  BY <3>1, <3>2, <4>1, <4>2, <4>3
    <3>4. n \in 1..n
      BY <1>1, <1>6
    <3> QED  BY <3>3, <3>4
  <2>3. FlattenSeq(pieces) = (CHOOSE g : g = Flat(g))[n]
    BY <1>6, Zenon DEF FlattenSeq
  <2> HIDE DEF Flat, first
  <2>4. (CHOOSE g : g = Flat(g)) = Flat(CHOOSE g : g = Flat(g))
    BY <2>1
  <2> QED  BY <1>3, <1>4, <2>2, <2>3, <2>4 DEF Together
<1> QED  BY <1>5, <1>6
-----------------------------------------------------------------------------
(* Reading back: a backslash and a character are what E makes of it, and   *)
(* another character is what R makes of it.                                *)
OneRead(p, i, E, R, one, two) ==
  IF p[i] = "\\" /\ i < Len(p) THEN <<E[p[i + 1]]>> \o two ELSE <<R[p[i]]>> \o one
ReadBack(f, p, E, R) ==
  \A i \in 1..Len(p) + 2 :
    f[i] = IF i > Len(p) THEN <<>> ELSE OneRead(p, i, E, R, f[i + 1], f[i + 2])

LEMMA CanBeReadBack ==
  ASSUME NEW S, NEW p \in Seq(S), NEW E \in [S -> S], NEW R \in [S -> S]
  PROVE  \E f \in [1..Len(p) + 2 -> Seq(S)] : ReadBack(f, p, E, R)
<1> DEFINE L == Len(p)
           W == Seq(S)
           V == W \X W
           From(k) == L + 1 - k
           G == [x \in (1..L) \X V |->
                   <<OneRead(p, From(x[1]), E, R, x[2][1], x[2][2]), x[2][1]>>]
<1>1. L \in Nat /\ <<>> \in W /\ <<<<>>, <<>>>> \in V /\ \A i \in 1..L : p[i] \in S
  <2>1. L \in Nat /\ \A i \in 1..L : p[i] \in S
    BY LenProperties, ElementOfSeq
  <2>2. <<>> \in W
    OBVIOUS
  <2> HIDE DEF W, L
  <2> QED  BY <2>1, <2>2
<1>2. ASSUME NEW i \in 1..L, NEW one \in W, NEW two \in W
      PROVE  OneRead(p, i, E, R, one, two) \in W
  <2>1. ASSUME NEW c \in S PROVE <<c>> \in W
    OBVIOUS
  <2>2. ASSUME NEW c \in S, NEW w \in W PROVE <<c>> \o w \in W
    <3> HIDE DEF W
    <3>1. <<c>> \in W
      BY <2>1
    <3> QED  BY <3>1, ConcatProperties DEF W
  <2>3. R[p[i]] \in S /\ (i < Len(p) => E[p[i + 1]] \in S)
    BY <1>1
  <2> HIDE DEF W
  <2> QED  BY <2>2, <2>3 DEF OneRead
<1>3. G \in [(1..L) \X V -> V]
  <2> HIDE DEF W, L
  <2>1. ASSUME NEW x \in (1..L) \X V
        PROVE  <<OneRead(p, From(x[1]), E, R, x[2][1], x[2][2]), x[2][1]>> \in V
    <3>1. From(x[1]) \in 1..L /\ x[2][1] \in W /\ x[2][2] \in W
      BY <1>1
    <3>2. OneRead(p, From(x[1]), E, R, x[2][1], x[2][2]) \in W
      BY <1>2, <3>1
    <3> QED  BY <3>1, <3>2
  <2> HIDE DEF V, From
  <2> QED  BY <2>1
<1>4. PICK h \in [0..L -> V] : h[0] = <<<<>>, <<>>>> /\ \A k \in 1..L : h[k] = G[<<k, h[k - 1]>>]
  <2> HIDE DEF V, G, L
  <2>1. \E h : Chain(h, V, <<<<>>, <<>>>>, L, G)
    BY <1>1, <1>3, OneAfterAnother
  <2> QED  BY <2>1 DEF Chain
<1>5. ASSUME NEW k \in 1..L
      PROVE  /\ h[k][1] = OneRead(p, From(k), E, R, h[k - 1][1], h[k - 1][2])
             /\ h[k][2] = h[k - 1][1]
  <2> HIDE DEF W, L
  <2>1. k - 1 \in 0..L
    BY <1>1
  <2>2. h[k - 1] \in V
    BY <1>4, <2>1
  <2> HIDE DEF V
  <2>3. <<k, h[k - 1]>> \in (1..L) \X V
    BY <2>2
  <2>4. h[k] = <<OneRead(p, From(k), E, R, h[k - 1][1], h[k - 1][2]), h[k - 1][1]>>
    <3> HIDE DEF From
    <3> QED  BY <1>4, <2>3
  <2> QED  BY <2>4
<1> DEFINE f == [i \in 1..L + 2 |-> IF i = L + 2 THEN <<>> ELSE h[From(i)][1]]
<1>6. f \in [1..L + 2 -> W]
  <2> HIDE DEF W, L
  <2>1. ASSUME NEW i \in 1..L + 2, i # L + 2 PROVE h[From(i)][1] \in W
    <3>1. From(i) \in 0..L
      BY <1>1, <2>1
    <3> QED  BY <1>4, <3>1
  <2> QED  BY <1>1, <2>1
<1>7. ASSUME NEW i \in 1..L + 2
      PROVE  f[i] = IF i > L THEN <<>> ELSE OneRead(p, i, E, R, f[i + 1], f[i + 2])
  <2> HIDE DEF W, L
  <2>1. CASE i = L + 2
    BY <1>1, <2>1
  <2>2. CASE i = L + 1
    BY <1>1, <1>4, <2>2
  <2>3. CASE i \in 1..L
    <3>1. /\ From(i) \in 1..L /\ From(From(i)) = i /\ From(i) - 1 = From(i + 1)
          /\ i # L + 2 /\ i + 1 # L + 2 /\ i + 1 \in 1..L + 2 /\ i + 2 \in 1..L + 2
      BY <1>1, <2>3
    <3>2. f[i] = h[From(i)][1] /\ f[i + 1] = h[From(i + 1)][1]
      BY <3>1
    <3>3. h[From(i)][1] = OneRead(p, i, E, R, h[From(i + 1)][1], h[From(i + 1)][2])
      <4> HIDE DEF From
      <4> QED  BY <1>5, <3>1
    <3>4. CASE i < L
      <4>1. From(i + 1) \in 1..L /\ From(i + 1) - 1 = From(i + 2) /\ i + 2 # L + 2
        BY <1>1, <2>3, <3>4
      <4>2. f[i + 2] = h[From(i + 2)][1]
        BY <3>1, <4>1
      <4>3. h[From(i + 1)][2] = f[i + 2]
        <5> HIDE DEF From, f
        <5> QED  BY <1>5, <4>1, <4>2
      <4> HIDE DEF f, From
      <4> QED  BY <1>1, <2>3, <3>2, <3>3, <4>3
    <3>5. CASE ~(i < L)
      <4>1. ~(i < Len(p)) /\ ~(i > L)
        BY <1>1, <2>3, <3>5 DEF L
      <4> HIDE DEF f, From
      <4> QED  BY <3>2, <3>3, <4>1 DEF OneRead
    <3> QED  BY <3>4, <3>5
  <2> QED  BY <1>1, <2>1, <2>2, <2>3
<1> HIDE DEF f
<1> QED  BY <1>6, <1>7 DEF ReadBack

-----------------------------------------------------------------------------
(* A character as it is written, one that is read back.                    *)
Undone(piece, c, E, R) ==
  \/ \E d : piece = <<"\\", d>> /\ E[d] = c
  \/ piece = <<c>> /\ c # "\\" /\ R[c] = c

(* Words written a character at a time, each so that it is read back, are  *)
(* read back.                                                              *)
LEMMA WordsReadBack ==
  ASSUME NEW S, NEW w \in Seq(S), NEW pieces \in Seq(Seq(S)), Len(pieces) = Len(w),
         NEW E, NEW R, \A i \in 1..Len(w) : Undone(pieces[i], w[i], E, R),
         NEW from, ReadBack(from, FlattenSeq(pieces), E, R)
  PROVE  from[1] = w
<1> DEFINE n == Len(w)
           p == FlattenSeq(pieces)
<1>1. PICK f \in [0..n -> Seq(S)] : Together(pieces, f) /\ p = f[n]
  BY FlattenTogether
<1> HIDE DEF p
<1>2. n \in Nat /\ (\A m \in 0..n : f[m] \in Seq(S) /\ Len(f[m]) \in Nat)
      /\ (\A i \in 1..n : pieces[i] \in Seq(S) /\ Len(pieces[i]) \in Nat /\ w[i] \in S)
      /\ Len(p) \in Nat /\ n \in 0..n
  BY <1>1, LenProperties, ElementOfSeq
<1> HIDE DEF n
<1>3. ASSUME NEW i \in 1..n
      PROVE  /\ Len(f[i]) = Len(f[i - 1]) + Len(pieces[i]) /\ Len(f[i]) <= Len(p)
             /\ \A x \in 1..Len(pieces[i]) : p[Len(f[i - 1]) + x] = pieces[i][x]
  <2>0. i \in 0..n /\ i - 1 \in 0..n /\ f[i - 1] \in Seq(S) /\ pieces[i] \in Seq(S)
        /\ Len(f[i - 1]) \in Nat /\ Len(pieces[i]) \in Nat /\ Len(f[i]) \in Nat
    BY <1>2
  <2>1. f[i] = f[i - 1] \o pieces[i]
    BY <1>1 DEF Together, n
  <2>2. /\ Len(f[i]) = Len(f[i - 1]) + Len(pieces[i])
        /\ \A x \in 1..Len(pieces[i]) : f[i][Len(f[i - 1]) + x] = pieces[i][x]
    <3> DEFINE s == f[i - 1]
               t == pieces[i]
    <3>1. s \in Seq(S) /\ t \in Seq(S) /\ f[i] = s \o t
      BY <2>0, <2>1
    <3> HIDE DEF s, t
    <3>2. Len(f[i]) = Len(s) + Len(t) /\ \A x \in 1..Len(t) : f[i][Len(s) + x] = t[x]
      BY <3>1, PlacesOfConcat
    <3> QED  BY <3>2 DEF s, t
  <2>3. Len(f[i]) <= Len(p) /\ \A x \in 1..Len(f[i]) : p[x] = f[i][x]
    <3>1. /\ f \in [0..Len(pieces) -> Seq(S)] /\ Together(pieces, f)
          /\ p = f[Len(pieces)] /\ Len(pieces) \in 0..Len(pieces) /\ i \in 0..Len(pieces)
      BY <1>1, <1>2, <2>0 DEF n
    <3> HIDE DEF p
    <3>2. Begins(f, Len(pieces))
      BY <3>1, Beginnings, Zenon
    <3> QED  BY <3>1, <3>2 DEF Begins
  <2>4. ASSUME NEW x \in 1..Len(pieces[i]) PROVE p[Len(f[i - 1]) + x] = pieces[i][x]
    <3>1. Len(f[i - 1]) + x \in 1..Len(f[i])
      BY <2>0, <2>2
    <3>2. f[i][Len(f[i - 1]) + x] = pieces[i][x]
      BY <2>2
    <3> QED  BY <2>3, <3>1, <3>2
  <2> QED  BY <2>2, <2>3, <2>4
<1> DEFINE Rest(i) == SubSeq(w, i + 1, n)
           Fine(j) == from[Len(f[n - j]) + 1] = Rest(n - j)
           Bad == {j \in 0..n : ~Fine(j)}
<1>4. ASSUME Bad # {} PROVE FALSE
  <2>1. Bad \subseteq 0..n /\ \A j \in 0..n : j \in Bad <=> ~Fine(j)
    OBVIOUS
  <2> HIDE DEF Bad
  <2>2. PICK j \in Bad : \A k \in Bad : j <= k
    <3>1. Bad \subseteq Nat
      BY <2>1
    <3> QED  BY <1>4, <3>1, LeastOf
  <2>3. j # 0
    <3>1. SubSeq(w, n + 1, n) = <<>>
      BY <1>2, SubSeqEmpty
    <3>2. Len(p) + 1 \in 1..Len(p) + 2 /\ Len(p) + 1 > Len(p) /\ n - 0 = n
      BY <1>2
    <3>3. from[Len(p) + 1] = <<>>
      BY <3>2 DEF ReadBack, p
    <3>4. Fine(0)
      BY <1>1, <3>1, <3>2, <3>3
    <3> HIDE DEF Fine
    <3> QED  BY <2>1, <2>2, <3>4
  <2> DEFINE i == n - j + 1
             x == Len(f[i - 1]) + 1
             c == w[i]
  <2>4. j \in 1..n /\ i \in 1..n /\ i - 1 = n - j /\ n - j + 1 = i /\ n - (j - 1) = i /\ j - 1 \in 0..n /\ ~(j <= j - 1)
    BY <1>2, <2>1, <2>2, <2>3
  <2> HIDE DEF i
  <2>5. from[Len(f[i]) + 1] = SubSeq(w, i + 1, n)
    <3>1. j - 1 \notin Bad
      BY <2>2, <2>4
    <3>2. Fine(j - 1)
      <4> HIDE DEF Fine
      <4> QED  BY <2>1, <2>4, <3>1
    <3> QED  BY <2>4, <3>2
  <2>6. SubSeq(w, i, n) = <<c>> \o SubSeq(w, i + 1, n)
    <3>1. i \in 1..Len(w) /\ n \in i..Len(w)
      BY <1>2, <2>4 DEF n
    <3> QED  BY <3>1, SubSeqRecursiveFirst
  <2>7. x \in Nat /\ Len(f[i - 1]) \in Nat /\ Undone(pieces[i], c, E, R)
    BY <1>2, <2>4 DEF n
  <2>8. /\ Len(f[i]) = Len(f[i - 1]) + Len(pieces[i]) /\ Len(f[i]) <= Len(p)
        /\ \A y \in 1..Len(pieces[i]) : p[Len(f[i - 1]) + y] = pieces[i][y]
    BY <1>3, <2>4
  <2>9. CASE \E d : pieces[i] = <<"\\", d>> /\ E[d] = c
    <3>1. PICK d : pieces[i] = <<"\\", d>> /\ E[d] = c
      BY <2>9
    <3>2. Len(pieces[i]) = 2 /\ pieces[i][1] = "\\" /\ pieces[i][2] = d /\ 1 \in 1..2 /\ 2 \in 1..2
      BY <3>1
    <3>3. p[x] = "\\" /\ p[x + 1] = d /\ x < Len(p) /\ x + 2 = Len(f[i]) + 1 /\ x \in 1..Len(p) + 2
      <4>1. p[Len(f[i - 1]) + 1] = "\\" /\ p[Len(f[i - 1]) + 2] = d
        BY <2>8, <3>2
      <4>2. Len(f[i - 1]) + 2 = x + 1
        BY <2>7
      <4>3. Len(f[i]) = Len(f[i - 1]) + 2 /\ Len(f[i]) <= Len(p)
        BY <2>8, <3>2
      <4>4. x < Len(p) /\ x + 2 = Len(f[i]) + 1 /\ x \in 1..Len(p) + 2
        BY <1>2, <2>7, <4>3
      <4> QED  BY <4>1, <4>2, <4>4
    <3>4. from[x] = <<E[p[x + 1]]>> \o from[x + 2]
      <4>1. ~(x > Len(p))
        BY <1>2, <2>7, <3>3
      <4> HIDE DEF x
      <4> QED  BY <3>3, <4>1 DEF ReadBack, OneRead, p
    <3>5. from[x] = SubSeq(w, i, n)
      BY <2>5, <2>6, <3>1, <3>3, <3>4
    <3>6. Fine(j)
      BY <2>4, <3>5
    <3> HIDE DEF Fine
    <3> QED  BY <2>1, <2>2, <3>6
  <2>10. CASE pieces[i] = <<c>> /\ c # "\\" /\ R[c] = c
    <3>1. Len(pieces[i]) = 1 /\ pieces[i][1] = c /\ 1 \in 1..1
      BY <2>10
    <3>2. p[x] = c /\ x + 1 = Len(f[i]) + 1 /\ x \in 1..Len(p) + 2 /\ ~(x > Len(p))
      <4>1. p[x] = c
        BY <2>8, <3>1
      <4>2. Len(f[i]) = Len(f[i - 1]) + 1 /\ Len(f[i]) <= Len(p)
        BY <2>8, <3>1
      <4>3. x + 1 = Len(f[i]) + 1 /\ x \in 1..Len(p) + 2 /\ ~(x > Len(p))
        <5> DEFINE b == Len(f[i - 1])
                   e == Len(f[i])
                   l == Len(p)
        <5>1. b \in Nat /\ l \in Nat /\ e = b + 1 /\ e <= l /\ x = b + 1
          BY <1>2, <2>7, <4>2
        <5> HIDE DEF b, e, l, x
        <5>2. x + 1 = e + 1 /\ x \in 1..l + 2 /\ ~(x > l)
          BY <5>1
        <5> QED  BY <5>2 DEF e, l
      <4> QED  BY <4>1, <4>3
    <3>3. from[x] = <<R[p[x]]>> \o from[x + 1]
      <4> HIDE DEF x
      <4> QED  BY <2>10, <3>2 DEF ReadBack, OneRead, p
    <3>4. from[x] = SubSeq(w, i, n)
      BY <2>5, <2>6, <2>10, <3>2, <3>3
    <3>5. Fine(j)
      BY <2>4, <3>4
    <3> HIDE DEF Fine
    <3> QED  BY <2>1, <2>2, <3>5
  <2> QED  BY <2>7, <2>9, <2>10 DEF Undone
<1>5. Fine(n)
  <2> HIDE DEF Fine
  <2> QED  BY <1>2, <1>4
<1>6. f[0] = <<>> /\ n - n = 0 /\ Len(f[0]) = 0
  BY <1>1, <1>2 DEF Together
<1>7. SubSeq(w, 1, n) = w
  BY SubSeqFull DEF n
<1>8. Len(f[0]) + 1 = 1 /\ 0 + 1 = 1
  BY <1>6
<1>9. from[1] = SubSeq(w, 1, n)
  BY <1>5, <1>6, <1>8
<1> QED  BY <1>7, <1>9
-----------------------------------------------------------------------------
(* A function read back so far is the one a decoder chooses.               *)
LEMMA FlattenedWords ==
  ASSUME NEW S, NEW pieces \in Seq(Seq(S))
  PROVE  FlattenSeq(pieces) \in Seq(S)
<1>1. PICK f \in [0..Len(pieces) -> Seq(S)] : FlattenSeq(pieces) = f[Len(pieces)]
  BY FlattenTogether
<1>2. Len(pieces) \in 0..Len(pieces)
  BY LenProperties
<1> QED  BY <1>1, <1>2

(* The characters there are, by their names.                               *)
Alphabet == STRING \cup {"\\", "n", Newline, " ", AnyChar}

(* A regular expression of escaped words matches the words.                *)
LEMMA EscapedMeansItself ==
  ASSUME NEW w \in Seq(Alphabet)
  PROVE  Escaped(w) \in Seq(Alphabet) /\ Items(Escaped(w)) = w
<1> DEFINE S == Alphabet
           pieces == [i \in DOMAIN w |-> IF w[i] \in Meta THEN <<"\\", w[i]>> ELSE <<w[i]>>]
           E == [c \in S |-> c]
           R == [c \in S |-> IF c = "." THEN AnyChar ELSE c]
           p == FlattenSeq(pieces)
<1>1. DOMAIN w = 1..Len(w) /\ Len(w) \in Nat /\ \A i \in 1..Len(w) : w[i] \in Alphabet
  BY LenProperties, ElementOfSeq
<1>2. \A i \in 1..Len(w) : pieces[i] = IF w[i] \in Meta THEN <<"\\", w[i]>> ELSE <<w[i]>>
  BY <1>1
<1>3. pieces \in Seq(Seq(S)) /\ Len(pieces) = Len(w)
  <2>1. ASSUME NEW i \in 1..Len(w)
        PROVE  (IF w[i] \in Meta THEN <<"\\", w[i]>> ELSE <<w[i]>>) \in Seq(Alphabet)
    <3>1. <<"\\", w[i]>> \in Seq(Alphabet)
      <4>1. "\\" \in Alphabet /\ w[i] \in Alphabet
        BY <1>1 DEF Alphabet
      <4> QED  BY <4>1
    <3>2. <<w[i]>> \in Seq(Alphabet)
      BY <1>1
    <3> QED  BY <3>1, <3>2
  <2>2. pieces \in [1..Len(w) -> Seq(Alphabet)]
    BY <1>1, <2>1
  <2> HIDE DEF pieces
  <2> QED  BY <1>1, <2>2, IsASeq, LenProperties
<1>4. ASSUME NEW i \in 1..Len(w) PROVE Undone(pieces[i], w[i], E, R)
  <2>1. CASE w[i] \in Meta
    <3>1. pieces[i] = <<"\\", w[i]>> /\ E[w[i]] = w[i]
      BY <1>1, <1>2, <2>1
    <3> HIDE DEF pieces, E, R
    <3> QED  BY <3>1 DEF Undone
  <2>2. CASE w[i] \notin Meta
    <3>1. pieces[i] = <<w[i]>> /\ R[w[i]] = w[i] /\ w[i] # "\\"
      BY <1>1, <1>2, <2>2 DEF Meta
    <3> HIDE DEF pieces, E, R
    <3> QED  BY <3>1 DEF Undone
  <2> QED  BY <2>1, <2>2
<1>5. E \in [S -> S] /\ R \in [S -> S]
  <2>1. E \in [S -> S]
    OBVIOUS
  <2>2. AnyChar \in Alphabet
    BY DEF Alphabet
  <2>3. R \in [S -> S]
    BY <2>2
  <2> QED  BY <2>1, <2>3
<1>6. p = Escaped(w)
  BY DEF Escaped, Each
<1>7. p \in Seq(S) /\ \A i \in 1..Len(p) : p[i] \in Alphabet
  <2>1. p \in Seq(S)
    <3> HIDE DEF pieces
    <3> QED  BY <1>3, FlattenedWords
  <2> HIDE DEF p
  <2> QED  BY <2>1, ElementOfSeq
<1> HIDE DEF p
<1> DEFINE Body(f) ==
             [i \in 1..Len(p) + 2 |->
                IF i > Len(p) THEN <<>>
                ELSE IF p[i] = "\\" /\ i < Len(p) THEN <<p[i + 1]>> \o f[i + 2]
                     ELSE <<IF p[i] = "." THEN AnyChar ELSE p[i]>> \o f[i + 1]]
           from == CHOOSE f : f = Body(f)
<1>8. Items(p) = from[1]
  BY DEF Items
<1>9. \E f : f = Body(f)
  <2>1. PICK f \in [1..Len(p) + 2 -> Seq(S)] : ReadBack(f, p, E, R)
    <3> HIDE DEF E, R, S
    <3> QED  BY <1>5, <1>7, CanBeReadBack
  <2>2. ASSUME NEW i \in 1..Len(p) + 2 PROVE f[i] = Body(f)[i]
    <3>0. Len(p) \in Nat
      BY <1>7, LenProperties
    <3>1. f[i] = IF i > Len(p) THEN <<>> ELSE OneRead(p, i, E, R, f[i + 1], f[i + 2])
      BY <2>1 DEF ReadBack
    <3>2. ~(i > Len(p)) => R[p[i]] = IF p[i] = "." THEN AnyChar ELSE p[i]
      BY <1>7, <3>0
    <3>3. i < Len(p) => E[p[i + 1]] = p[i + 1]
      BY <1>7, <3>0
    <3> HIDE DEF E, R
    <3> QED  BY <3>1, <3>2, <3>3 DEF OneRead
  <2> QED  BY <2>1, <2>2
<1>10. from = Body(from)
  <2> HIDE DEF Body
  <2> QED  BY <1>9
<1>11. ReadBack(from, p, E, R)
  <2> HIDE DEF from
  <2> SUFFICES ASSUME NEW i \in 1..Len(p) + 2
               PROVE  from[i] = IF i > Len(p) THEN <<>> ELSE OneRead(p, i, E, R, from[i + 1], from[i + 2])
    BY DEF ReadBack
  <2>0. Len(p) \in Nat
    BY <1>7, LenProperties
  <2>1. from[i] = IF i > Len(p) THEN <<>>
                  ELSE IF p[i] = "\\" /\ i < Len(p) THEN <<p[i + 1]>> \o from[i + 2]
                       ELSE <<IF p[i] = "." THEN AnyChar ELSE p[i]>> \o from[i + 1]
    BY <1>10
  <2>2. ~(i > Len(p)) => R[p[i]] = IF p[i] = "." THEN AnyChar ELSE p[i]
    BY <1>7, <2>0
  <2>3. i < Len(p) => E[p[i + 1]] = p[i + 1]
    BY <1>7, <2>0
  <2> HIDE DEF E, R
  <2> QED  BY <2>1, <2>2, <2>3 DEF OneRead
<1> HIDE DEF from, E, R, pieces, S
<1>12. from[1] = w
  <2>1. w \in Seq(S)
    BY DEF S
  <2> QED  BY <1>3, <1>4, <1>11, <2>1, WordsReadBack DEF p
<1> QED  BY <1>6, <1>7, <1>8, <1>12 DEF S
(* What is quoted as YAML is read as it was.                               *)
LEMMA QuotedReadsItself ==
  ASSUME NEW w \in Seq(Alphabet)
  PROVE  Quoted(w) \in Seq(Alphabet) /\ Read(Quoted(w)) = w
<1> DEFINE S == Alphabet
           pieces == [i \in DOMAIN w |-> IF w[i] \in {"\\", "\""} THEN <<"\\", w[i]>>
                             ELSE IF w[i] = Newline THEN <<"\\", "n">> ELSE <<w[i]>>]
           E == [c \in S |-> IF c = "n" THEN Newline ELSE c]
           R == [c \in S |-> IF c = Newline THEN " " ELSE c]
           p == FlattenSeq(pieces)
<1>1. DOMAIN w = 1..Len(w) /\ Len(w) \in Nat /\ \A i \in 1..Len(w) : w[i] \in Alphabet
  BY LenProperties, ElementOfSeq
<1>2. \A i \in 1..Len(w) : pieces[i] = IF w[i] \in {"\\", "\""} THEN <<"\\", w[i]>>
                             ELSE IF w[i] = Newline THEN <<"\\", "n">> ELSE <<w[i]>>
  BY <1>1
<1>3. pieces \in Seq(Seq(S)) /\ Len(pieces) = Len(w)
  <2>1. ASSUME NEW i \in 1..Len(w)
        PROVE  (IF w[i] \in {"\\", "\""} THEN <<"\\", w[i]>>
                             ELSE IF w[i] = Newline THEN <<"\\", "n">> ELSE <<w[i]>>) \in Seq(Alphabet)
    <3>1. <<"\\", w[i]>> \in Seq(Alphabet)
      <4>1. "\\" \in Alphabet /\ w[i] \in Alphabet
        BY <1>1 DEF Alphabet
      <4> QED  BY <4>1
    <3>2. <<w[i]>> \in Seq(Alphabet)
      BY <1>1
    <3>3. <<"\\", "n">> \in Seq(Alphabet)
      <4>1. "\\" \in Alphabet /\ "n" \in Alphabet
        BY DEF Alphabet
      <4> QED  BY <4>1
    <3> QED  BY <3>1, <3>2, <3>3
  <2>2. pieces \in [1..Len(w) -> Seq(Alphabet)]
    BY <1>1, <2>1
  <2> HIDE DEF pieces
  <2> QED  BY <1>1, <2>2, IsASeq, LenProperties
<1>4. ASSUME NEW i \in 1..Len(w) PROVE Undone(pieces[i], w[i], E, R)
  <2>1. CASE w[i] \in {"\\", "\""}
    <3>1. pieces[i] = <<"\\", w[i]>> /\ w[i] # "n" /\ E[w[i]] = w[i]
      BY <1>1, <1>2, <2>1
    <3> HIDE DEF pieces, E, R
    <3> QED  BY <3>1 DEF Undone
  <2>2. CASE w[i] = Newline
    <3>1. pieces[i] = <<"\\", "n">> /\ E["n"] = w[i]
      BY <1>1, <1>2, <2>2 DEF Newline, Alphabet
    <3> HIDE DEF pieces, E, R
    <3> QED  BY <3>1 DEF Undone
  <2>3. CASE w[i] \notin {"\\", "\"", Newline}
    <3>1. pieces[i] = <<w[i]>> /\ R[w[i]] = w[i] /\ w[i] # "\\"
      BY <1>1, <1>2, <2>3
    <3> HIDE DEF pieces, E, R
    <3> QED  BY <3>1 DEF Undone
  <2> QED  BY <2>1, <2>2, <2>3
<1>5. E \in [S -> S] /\ R \in [S -> S]
  <2>0. Newline \in S
    BY DEF Alphabet
  <2>1. E \in [S -> S]
    BY <2>0
  <2>2. " " \in S
    BY DEF Alphabet
  <2>3. R \in [S -> S]
    BY <2>2
  <2> QED  BY <2>1, <2>3
<1>6. p = Quoted(w)
  BY DEF Quoted, Each
<1>7. p \in Seq(S) /\ \A i \in 1..Len(p) : p[i] \in Alphabet
  <2>1. p \in Seq(S)
    <3> HIDE DEF pieces
    <3> QED  BY <1>3, FlattenedWords
  <2> HIDE DEF p
  <2> QED  BY <2>1, ElementOfSeq
<1> HIDE DEF p
<1> DEFINE Body(f) ==
             [i \in 1..Len(p) + 2 |->
                IF i > Len(p) THEN <<>>
                ELSE IF p[i] = "\\" /\ i < Len(p)
                     THEN <<IF p[i + 1] = "n" THEN Newline ELSE p[i + 1]>> \o f[i + 2]
                     ELSE <<IF p[i] = Newline THEN " " ELSE p[i]>> \o f[i + 1]]
           from == CHOOSE f : f = Body(f)
<1>8. Read(p) = from[1]
  BY DEF Read
<1>9. \E f : f = Body(f)
  <2>1. PICK f \in [1..Len(p) + 2 -> Seq(S)] : ReadBack(f, p, E, R)
    <3> HIDE DEF E, R, S
    <3> QED  BY <1>5, <1>7, CanBeReadBack
  <2>2. ASSUME NEW i \in 1..Len(p) + 2 PROVE f[i] = Body(f)[i]
    <3>0. Len(p) \in Nat
      BY <1>7, LenProperties
    <3>1. f[i] = IF i > Len(p) THEN <<>> ELSE OneRead(p, i, E, R, f[i + 1], f[i + 2])
      BY <2>1 DEF ReadBack
    <3>2. ~(i > Len(p)) => R[p[i]] = IF p[i] = Newline THEN " " ELSE p[i]
      <4>1. ~(i > Len(p)) => i \in 1..Len(p)
        BY <3>0
      <4>2. ~(i > Len(p)) => p[i] \in Alphabet
        BY <1>7, <4>1
      <4> QED  BY <4>2
    <3>3. i < Len(p) => E[p[i + 1]] = IF p[i + 1] = "n" THEN Newline ELSE p[i + 1]
      <4>1. i < Len(p) => i + 1 \in 1..Len(p)
        BY <3>0
      <4>2. i < Len(p) => p[i + 1] \in Alphabet
        BY <1>7, <4>1
      <4> QED  BY <4>2
    <3> HIDE DEF E, R
    <3> QED  BY <3>1, <3>2, <3>3 DEF OneRead
  <2> QED  BY <2>1, <2>2
<1>10. from = Body(from)
  <2> HIDE DEF Body
  <2> QED  BY <1>9
<1>11. ReadBack(from, p, E, R)
  <2> HIDE DEF from
  <2> SUFFICES ASSUME NEW i \in 1..Len(p) + 2
               PROVE  from[i] = IF i > Len(p) THEN <<>> ELSE OneRead(p, i, E, R, from[i + 1], from[i + 2])
    BY DEF ReadBack
  <2>0. Len(p) \in Nat
    BY <1>7, LenProperties
  <2>1. from[i] = IF i > Len(p) THEN <<>>
                  ELSE IF p[i] = "\\" /\ i < Len(p)
                       THEN <<IF p[i + 1] = "n" THEN Newline ELSE p[i + 1]>> \o from[i + 2]
                       ELSE <<IF p[i] = Newline THEN " " ELSE p[i]>> \o from[i + 1]
    BY <1>10
  <2>2. ~(i > Len(p)) => R[p[i]] = IF p[i] = Newline THEN " " ELSE p[i]
    <3>1. ~(i > Len(p)) => i \in 1..Len(p)
      BY <2>0
    <3>2. ~(i > Len(p)) => p[i] \in Alphabet
      BY <1>7, <3>1
    <3> QED  BY <3>2
  <2>3. i < Len(p) => E[p[i + 1]] = IF p[i + 1] = "n" THEN Newline ELSE p[i + 1]
    <3>1. i < Len(p) => i + 1 \in 1..Len(p)
      BY <2>0
    <3>2. i < Len(p) => p[i + 1] \in Alphabet
      BY <1>7, <3>1
    <3> QED  BY <3>2
  <2> HIDE DEF E, R
  <2> QED  BY <2>1, <2>2, <2>3 DEF OneRead
<1> HIDE DEF from, E, R, pieces, S
<1>12. from[1] = w
  <2>1. w \in Seq(S)
    BY DEF S
  <2> QED  BY <1>3, <1>4, <1>11, <2>1, WordsReadBack DEF p
<1> QED  BY <1>6, <1>7, <1>8, <1>12 DEF S

(* What the flow says for a name is, to the runner, the name.              *)
LEMMA WrittenIsItself ==
  ASSUME NEW w \in Seq(Alphabet)
  PROVE  Written(w) = w
<1> DEFINE e == Escaped(w)
<1>1. e \in Seq(Alphabet) /\ Items(e) = w
  BY EscapedMeansItself
<1> HIDE DEF e
<1>2. Read(Quoted(e)) = e
  BY <1>1, QuotedReadsItself
<1> QED  BY <1>1, <1>2 DEF e, Written

(* It means the name alone when it holds no character that stands for any. *)
LEMMA MeansItselfAlone ==
  ASSUME NEW w \in Seq(Alphabet \ {AnyChar}), NEW v \in Seq(Alphabet)
  PROVE  Means(w, v) <=> v = w
<1>1. /\ Len(w) \in Nat /\ Len(v) \in Nat /\ DOMAIN v = 1..Len(v) /\ DOMAIN w = 1..Len(w)
      /\ \A i \in 1..Len(w) : w[i] # AnyChar
  <2>1. \A i \in 1..Len(w) : w[i] \in Alphabet \ {AnyChar}
    BY ElementOfSeq
  <2> QED  BY <2>1, LenProperties
<1>2. ASSUME Means(w, v) PROVE v = w
  <2>1. Len(v) = Len(w) /\ \A i \in 1..Len(v) : v[i] = w[i]
    BY <1>1, <1>2 DEF Means
  <2>2. w \in Seq(Alphabet)
    <3>1. Alphabet \ {AnyChar} \subseteq Alphabet
      OBVIOUS
    <3> QED  BY <3>1, SeqMonotonic
  <2> QED  BY <2>1, <2>2, SeqEqual
<1>3. ASSUME v = w PROVE Means(w, v)
  BY <1>1, <1>3 DEF Means
<1> QED  BY <1>2, <1>3

-----------------------------------------------------------------------------
(* An element with its ancestors, which come before it, and so do theirs.  *)
(* The first is the application.                                           *)
Placed ==
  [type : Types, id : Seq(Char), label : Seq(Char), title : Seq(Char), value : Seq(Char),
   frame : SUBSET Place, owner : {"app", "framework", "system"}, clickable : BOOLEAN,
   above : SUBSET Nat]

Nested ==
  /\ dump \in Seq(Placed) /\ dump # <<>> /\ dump[1] = Root
  /\ \A i \in DOMAIN dump :
       /\ dump[i].above \subseteq 1..(i - 1)
       /\ \A j \in dump[i].above : dump[j].above \subseteq dump[i].above

LEMMA RootNested == ASSUME ScreenInit PROVE Nested
<1>1. dump = <<Root>>
  BY DEF ScreenInit
<1>2. Root \in Placed /\ Root.above = {}
  <2>1. None \in Seq(Char) /\ Place \in SUBSET Place /\ {} \in SUBSET Nat /\ FALSE \in BOOLEAN
    BY DEF None
  <2>2. "Application" \in Types /\ "app" \in {"app", "framework", "system"}
    BY DEF Types
  <2>3. Root \in Placed
    BY <2>1, <2>2 DEF Root, Placed
  <2> QED  BY <2>3 DEF Root
<1>3. dump \in Seq(Placed) /\ DOMAIN dump = {1} /\ dump[1] = Root /\ dump # <<>>
  BY <1>1, <1>2
<1> QED  BY <1>2, <1>3 DEF Nested

(* What an engine makes of an element is one.                              *)
LEMMA NodeUnplaced ==
  ASSUME NEW k \in Unplaced
  PROVE  AndroidNode(k) \in Unplaced /\ IosNode(k) \in Unplaced
<1>1. /\ k.type \in Types /\ k.id \in Seq(Char) /\ k.label \in Seq(Char) /\ k.title \in Seq(Char)
      /\ None \in Seq(Char)
  BY DEF Unplaced, None
<1>2. ResourceID(k) \in Seq(Char) /\ ButtonIfClickable(k) \in Types /\ AndroidLabel(k) \in Seq(Char)
  <2>1. ResourceID(k) \in Seq(Char)
    BY <1>1 DEF ResourceID
  <2>2. ButtonIfClickable(k) \in Types
    BY <1>1 DEF ButtonIfClickable, Types
  <2>3. AndroidLabel(k) \in Seq(Char)
    BY <1>1 DEF AndroidLabel
  <2> QED  BY <2>1, <2>2, <2>3
<1>3. AndroidNode(k) \in Unplaced
  <2>1. ASSUME NEW t \in Types, NEW i \in Seq(Char), NEW l \in Seq(Char)
        PROVE  [k EXCEPT !.type = t, !.id = i, !.label = l] \in Unplaced
    BY DEF Unplaced
  <2> QED  BY <1>2, <2>1 DEF AndroidNode
<1>4. IosNode(k) \in Unplaced
  BY <1>1 DEF Unplaced, IosNode
<1> QED  BY <1>3, <1>4

(* A new element goes under one that is there.                             *)
LEMMA GrowNested ==
  ASSUME Nested, android \in BOOLEAN, NEW k \in Kinds[android], NEW parent \in DOMAIN dump, Grow(k, parent)
  PROVE  Nested'
<1> DEFINE node == IF android THEN AndroidNode(k) ELSE IosNode(k)
           above == {parent} \cup dump[parent].above
           new == [node EXCEPT !.above = above]
           n == Len(dump) + 1
<1>1. node \in Unplaced
  BY NodeUnplaced, KindsAssumption
<1>2. /\ Len(dump) \in Nat \ {0} /\ DOMAIN dump = 1..Len(dump) /\ dump \in Seq(Placed)
      /\ \A i \in DOMAIN dump : dump[i] \in Placed
  BY LenProperties, ElementOfSeq, EmptySeq DEF Nested
<1>3. above \subseteq 1..Len(dump)
  BY <1>2 DEF Nested
<1>4. dump' = Append(dump, new)
  BY DEF Grow
<1> HIDE DEF node
<1>5. new \in Placed /\ new.above = above
  <2>1. above \in SUBSET Nat
    BY <1>2, <1>3
  <2> HIDE DEF above
  <2> QED  BY <1>1, <2>1 DEF Unplaced, Placed
<1> HIDE DEF new
<1>6. /\ dump' \in Seq(Placed) /\ Len(dump') = n
      /\ \A i \in 1..Len(dump) : dump'[i] = dump[i]
      /\ dump'[n] = new
  BY <1>2, <1>4, <1>5, AppendProperties
<1>7. DOMAIN dump' = 1..n /\ dump' # <<>> /\ dump'[1] = Root
  <2>1. DOMAIN dump' = 1..n
    BY <1>6, LenProperties
  <2>2. dump' # <<>>
    BY <1>2, <1>6, EmptySeq
  <2>3. 1 \in 1..Len(dump)
    BY <1>2
  <2> QED  BY <1>6, <2>1, <2>2, <2>3 DEF Nested
<1>8. ASSUME NEW i \in 1..n
      PROVE  /\ dump'[i].above \subseteq 1..(i - 1)
             /\ \A j \in dump'[i].above : dump'[j].above \subseteq dump'[i].above
  <2>1. CASE i \in 1..Len(dump)
    <3>1. dump'[i] = dump[i] /\ dump[i].above \subseteq 1..(i - 1)
      BY <1>2, <1>6, <2>1 DEF Nested
    <3>2. \A j \in dump[i].above : dump'[j] = dump[j] /\ dump[j].above \subseteq dump[i].above
      BY <1>2, <1>6, <2>1, <3>1 DEF Nested
    <3> QED  BY <3>1, <3>2
  <2>2. CASE i = n
    <3>1. dump'[i].above = above
      BY <1>5, <1>6, <2>2
    <3>2. \A j \in above : dump'[j] = dump[j]
      BY <1>3, <1>6
    <3>3. \A j \in above : dump[j].above \subseteq above
      BY <1>2 DEF Nested
    <3>4. 1..Len(dump) = 1..(i - 1)
      BY <1>2, <2>2
    <3> QED  BY <1>3, <3>1, <3>2, <3>3, <3>4
  <2> QED  BY <1>2, <2>1, <2>2
<1> QED  BY <1>6, <1>7, <1>8 DEF Nested

-----------------------------------------------------------------------------
LEMMA Elements ==
  ASSUME Nested
  PROVE  /\ Len(dump) \in Nat \ {0} /\ DOMAIN dump = 1..Len(dump) /\ dump[1] = Root
         /\ \A i \in DOMAIN dump : /\ dump[i] \in Placed /\ i \in Nat
                                  /\ Ancestors(i) \subseteq 1..(i - 1) /\ Ancestors(i) \subseteq DOMAIN dump
                                  /\ \A j \in Ancestors(i) : Ancestors(j) \subseteq Ancestors(i)
<1>1. /\ Len(dump) \in Nat \ {0} /\ DOMAIN dump = 1..Len(dump) /\ dump \in Seq(Placed)
      /\ \A i \in DOMAIN dump : dump[i] \in Placed
  BY LenProperties, ElementOfSeq, EmptySeq DEF Nested
<1>2. ASSUME NEW i \in DOMAIN dump
      PROVE  /\ Ancestors(i) \subseteq 1..(i - 1) /\ Ancestors(i) \subseteq DOMAIN dump
             /\ \A j \in Ancestors(i) : Ancestors(j) \subseteq Ancestors(i)
  <2>1. Ancestors(i) \subseteq 1..(i - 1) /\ i \in 1..Len(dump)
    BY <1>1 DEF Nested, Ancestors
  <2>2. 1..(i - 1) \subseteq 1..Len(dump)
    BY <1>1, <2>1
  <2> QED  BY <1>1, <2>1, <2>2 DEF Nested, Ancestors
<1> QED  BY <1>1, <1>2 DEF Nested

(* What is over an element of the tree is in the tree.                     *)
LEMMA UpInTree ==
  ASSUME Nested, NEW i \in Tree, NEW a \in Ancestors(i)
  PROVE  a \in Tree
<1>1. i \in DOMAIN dump /\ ~Within(i, Dropped)
  BY DEF Tree
<1>2. a \in DOMAIN dump /\ Ancestors(a) \subseteq Ancestors(i)
  BY <1>1, Elements
<1>3. ~Within(a, Dropped)
  BY <1>1, <1>2 DEF Within, Under
<1> QED  BY <1>2, <1>3 DEF Tree

(* hitTest finds a candidate in the tree that is no key.                   *)
LEMMA HitIsCandidate ==
  ASSUME Nested, NEW p, HitTest(p) # 0
  PROVE  HitTest(p) \in Tree \ Keyboard /\ Candidate(HitTest(p), p)
<1> DEFINE cs == {i \in Tree \ Keyboard : Candidate(i, p)}
           best == {i \in cs : \A j \in cs : Score(i) <= Score(j)}
           scores == {Score(i) : i \in cs}
<1>1. cs \subseteq Nat
  BY Elements DEF Tree
<1>2. cs # {} /\ HitTest(p) = Min(best)
  BY DEF HitTest
<1>3. scores \subseteq Nat /\ scores # {}
  <2>1. ASSUME NEW i \in cs PROVE Score(i) \in Nat
    <3>1. dump[i].frame \subseteq Place
      BY Elements DEF Tree, Placed
    <3>2. Cardinality(dump[i].frame) \in Nat
      BY <3>1, PlaceAssumption, FS_Subset, FS_CardinalityType
    <3> QED  BY <3>2 DEF Score
  <2> QED  BY <1>2, <2>1
<1>4. PICK m \in scores : \A x \in scores : m <= x
  BY <1>3, LeastOf
<1>5. best # {}
  <2>1. PICK i \in cs : m = Score(i)
    BY <1>4
  <2>2. \A j \in cs : Score(i) <= Score(j)
    BY <1>4, <2>1
  <2> QED  BY <2>1, <2>2
<1>6. Min(best) \in best
  <2>1. best \subseteq Nat
    BY <1>1
  <2> HIDE DEF best
  <2> QED  BY <1>5, <2>1, MinOf
<1> QED  BY <1>2, <1>6

(* The control that owns an element is itself or one of those over it,     *)
(* never the application.                                                  *)
LEMMA OwnerOf ==
  ASSUME Nested, NEW i \in Tree, i # 1
  PROVE  /\ OwningControl(i) \in Tree /\ OwningControl(i) # 1
         /\ \/ OwningControl(i) = i
            \/ /\ OwningControl(i) \in Ancestors(i) /\ dump[i].id = None
               /\ dump[OwningControl(i)].type \in ControlTypes
<1> DEFINE identified == {a \in Ancestors(i) \cap Tree : dump[a].id # None}
           a == IdentifiedAncestor(i)
<1>1. CASE OwningControl(i) = i
  BY <1>1
<1>2. CASE OwningControl(i) # i
  <2>1. OwningControl(i) = a /\ dump[i].id = None /\ a # 0 /\ dump[a].type \in ControlTypes
    BY <1>2 DEF OwningControl
  <2>2. identified # {} /\ a = Max(identified)
    BY <2>1 DEF IdentifiedAncestor
  <2>3. i \in DOMAIN dump /\ identified \subseteq 1..Len(dump) /\ Len(dump) \in Nat
    BY Elements DEF Tree
  <2>4. Max(identified) \in identified
    <3> HIDE DEF identified
    <3> QED  BY <2>2, <2>3, MaxOf
  <2>5. dump[1].id = None
    BY Elements DEF Root
  <2> QED  BY <2>1, <2>2, <2>4, <2>5
<1> QED  BY <1>1, <1>2

(* A view superseded, and what is in it, is not in the tree of iOS.        *)
LEMMA NotSuperseded ==
  ASSUME Nested, ~android, NEW i \in Tree, NEW v \in FullScreen, NEW w \in FullScreen, v < w
  PROVE  ~Under(i, v)
<1>1. FullScreen \subseteq 1..Len(dump) /\ Len(dump) \in Nat
  BY Elements DEF FullScreen
<1>2. Max(FullScreen) >= w /\ Max(FullScreen) \in FullScreen
  BY <1>1, MaxOf
<1>3. v # Max(FullScreen)
  BY <1>1, <1>2
<1>4. v \in Dropped
  BY <1>3 DEF Dropped, Superseded
<1> QED  BY <1>4 DEF Tree, Within

(* A window of the system, and what is in it, is not in that of Android.   *)
LEMMA NotOfSystem ==
  ASSUME Nested, android, NEW i \in Tree, i # 1, NEW s \in OfSystem
  PROVE  WindowOf(s) # WindowOf(i)
<1>1. /\ i \in DOMAIN dump /\ i \in Nat /\ Ancestors(i) \subseteq Nat
  BY Elements DEF Tree
<1>2. WindowOf(i) \in {i} \cup Ancestors(i)
  <2> DEFINE over == {i} \cup (Ancestors(i) \ {1})
  <2>1. over \subseteq Nat /\ over # {}
    BY <1>1
  <2>2. WindowOf(i) = Min(over)
    BY DEF WindowOf
  <2>3. Min(over) \in over
    BY <2>1, MinOf
  <2> QED  BY <2>2, <2>3
<1>3. Under(i, WindowOf(i))
  BY <1>2 DEF Under
<1>4. WindowOf(i) \notin SystemWindows
  BY <1>3 DEF Tree, Within, Dropped
<1> QED  BY <1>4 DEF SystemWindows

(* What is no key is under no keyboard.                                    *)
LEMMA NoKey ==
  ASSUME Nested, NEW i \in Tree \ Keyboard, NEW a \in Ancestors(i) \cup {i}
  PROVE  dump[a].type # "Keyboard"
<1>1. a \in Tree
  BY UpInTree
<1> QED  BY <1>1 DEF Keyboard, Within, Under

LEMMA TapShown == ASSUME Nested, android \in BOOLEAN, NEW p \in Place, TapAt(p) PROVE TapsWhatIsShown'
<1> DEFINE hit == HitTest(p)
           n == OwningControl(hit)
<1>1. /\ tapped' = InFlow(Selector(n), p) /\ hit # 0 /\ UNCHANGED <<android, dump>>
  BY DEF TapAt
<1>2. tapped'.node = n /\ tapped'.at = p
  BY <1>1 DEF InFlow, Selector
<1>3. hit \in Tree \ Keyboard /\ Candidate(hit, p)
  BY <1>1, HitIsCandidate
<1> HIDE DEF hit
<1>4. hit # 1 /\ p \in dump[hit].frame
  BY <1>3 DEF Candidate
<1>5. /\ n \in Tree /\ n # 1
      /\ n = hit \/ (n \in Ancestors(hit) /\ dump[hit].id = None)
  BY <1>3, <1>4, OwnerOf
<1> HIDE DEF n
<1>6. android \/ \A v, w \in FullScreen : v < w => ~Under(n, v)
  BY <1>5, NotSuperseded
<1>7. android => ~\E s \in OfSystem : WindowOf(s) = WindowOf(n)
  BY <1>5, NotOfSystem
<1>8. ~\E i \in Ancestors(n) \cup {n} : dump[i].type = "Keyboard"
  <2>1. Ancestors(n) \cup {n} \subseteq Ancestors(hit) \cup {hit}
    <3>1. hit \in DOMAIN dump
      BY <1>3 DEF Tree
    <3>2. \A j \in Ancestors(hit) : Ancestors(j) \subseteq Ancestors(hit)
      BY <3>1, Elements
    <3> QED  BY <1>5, <3>2
  <2> QED  BY <1>3, <2>1, NoKey
<1>9. \E i \in Tree : p \in dump[i].frame /\ (i = n \/ (dump[i].id = None /\ n \in Ancestors(i)))
  BY <1>3, <1>4, <1>5
<1>10. TapsWhatIsShown' <=>
         (tapped' # NoStep =>
            /\ android \/ \A v, w \in FullScreen : v < w => ~Under(tapped'.node, v)
            /\ android => ~\E s \in OfSystem : WindowOf(s) = WindowOf(tapped'.node)
            /\ ~\E i \in Ancestors(tapped'.node) \cup {tapped'.node} : dump[i].type = "Keyboard"
            /\ \E i \in Tree : /\ tapped'.at \in dump[i].frame
                               /\ i = tapped'.node \/ (dump[i].id = None /\ tapped'.node \in Ancestors(i)))
  BY <1>1 DEF TapsWhatIsShown, FullScreen, Under, Ancestors, OfSystem, WindowOf, Tree, Within, Dropped,
              SystemWindows, Superseded, NoStep
<1> QED  BY <1>2, <1>6, <1>7, <1>8, <1>9, <1>10

-----------------------------------------------------------------------------
(* Replay *)

(* Words of the screen mean themselves alone.                              *)
LEMMA SaysOnlyItself ==
  ASSUME NEW w \in Seq(Char), NEW v \in Seq(Char)
  PROVE  Means(Written(w), v) <=> v = w
<1>1. Char \subseteq Alphabet \ {AnyChar} /\ Char \subseteq Alphabet
  BY DEF Char, Alphabet
<1>2. w \in Seq(Alphabet) /\ w \in Seq(Alphabet \ {AnyChar}) /\ v \in Seq(Alphabet)
  BY <1>1, SeqMonotonic
<1>3. Written(w) = w
  BY <1>2, WrittenIsItself
<1> QED  BY <1>2, <1>3, MeansItselfAlone

(* What an element is named by is words of the screen.                    *)
LEMMA WordsOf ==
  ASSUME Nested, NEW i \in DOMAIN dump
  PROVE  dump[i].id \in Seq(Char) /\ VisibleText(i) \in Seq(Char)
BY Elements DEF Placed, VisibleText

(* What a tap names has an identifier or words.                            *)
LEMMA OwnerHasName ==
  ASSUME Nested, NEW p, HitTest(p) # 0
  PROVE  LET n == OwningControl(HitTest(p)) IN
           n \in Tree /\ (dump[n].id # None \/ VisibleText(n) # None)
<1> DEFINE hit == HitTest(p)
           n == OwningControl(hit)
           a == IdentifiedAncestor(hit)
           identified == {b \in Ancestors(hit) \cap Tree : dump[b].id # None}
<1>1. hit \in Tree /\ hit # 1 /\ (dump[hit].id # None \/ VisibleText(hit) # None)
  BY HitIsCandidate DEF Candidate
<1>2. n \in Tree
  <2> HIDE DEF hit
  <2> QED  BY <1>1, OwnerOf
<1>3. CASE n = hit
  BY <1>1, <1>2, <1>3
<1>4. CASE n # hit
  <2>1. n = a /\ a # 0
    <3> HIDE DEF hit
    <3> QED  BY <1>4 DEF OwningControl
  <2>2. identified # {} /\ a = Max(identified)
    <3> HIDE DEF hit
    <3> QED  BY <2>1 DEF IdentifiedAncestor
  <2>3. identified \subseteq 1..Len(dump) /\ Len(dump) \in Nat
    BY <1>1, Elements DEF Tree
  <2>4. Max(identified) \in identified
    <3> HIDE DEF identified
    <3> QED  BY <2>2, <2>3, MaxOf
  <2> QED  BY <1>2, <2>1, <2>2, <2>4
<1> QED  BY <1>3, <1>4

(* Of numbers, one alone has so many of them before it.                    *)
LEMMA CountTells ==
  ASSUME NEW S, IsFiniteSet(S), S \subseteq Nat, NEW n \in S
  PROVE  {i \in S : Cardinality({m \in S : m < i}) = Cardinality({m \in S : m < n})} = {n}
<1> DEFINE Before(i) == {m \in S : m < i}
<1>1. ASSUME NEW i \in S, NEW j \in S, i < j PROVE Cardinality(Before(i)) < Cardinality(Before(j))
  <2>1. IsFiniteSet(Before(j))
    BY FS_Subset
  <2>2. Before(i) \in SUBSET Before(j)
    <3>1. i \in Nat /\ j \in Nat /\ \A k \in S : k \in Nat
      OBVIOUS
    <3>2. ASSUME NEW k \in S, k < i PROVE k < j
      BY <1>1, <3>1, <3>2
    <3> QED  BY <3>2
  <2>3. i \in Before(j) /\ i \notin Before(i)
    <3>1. i \in Nat /\ ~(i < i)
      OBVIOUS
    <3> QED  BY <1>1, <3>1
  <2>4. /\ Cardinality(Before(i)) <= Cardinality(Before(j))
        /\ Cardinality(Before(i)) # Cardinality(Before(j))
        /\ IsFiniteSet(Before(i))
    <3> HIDE DEF Before
    <3> QED  BY <2>1, <2>2, <2>3, FS_Subset
  <2>5. Cardinality(Before(i)) \in Nat /\ Cardinality(Before(j)) \in Nat
    <3> HIDE DEF Before
    <3> QED  BY <2>1, <2>4, FS_CardinalityType
  <2> HIDE DEF Before
  <2> QED  BY <2>4, <2>5
<1>2. ASSUME NEW i \in S, Cardinality(Before(i)) = Cardinality(Before(n)) PROVE i = n
  <2>1. i \in Nat /\ n \in Nat /\ IsFiniteSet(Before(n))
    BY FS_Subset
  <2>2. Cardinality(Before(n)) \in Nat
    <3> HIDE DEF Before
    <3> QED  BY <2>1, FS_CardinalityType
  <2> HIDE DEF Before
  <2>3. ~(i < n)
    BY <1>1, <1>2, <2>2
  <2>4. ~(n < i)
    BY <1>1, <1>2, <2>2
  <2> QED  BY <2>1, <2>3, <2>4
<1> QED  BY <1>2

(* The elements that a step finds on the screen it was recorded on.        *)
LEMMA FoundBySays ==
  ASSUME Nested, NEW n \in Tree, dump[n].id # None \/ VisibleText(n) # None, NEW p,
         Selector(n).childOf \in Seq(Char)
  PROVE  LET s == Selector(n)
             t == InFlow(s, p)
             ms == Matches(s.id, s.text)
         IN /\ n \in ms /\ ms \subseteq NamedAs(n) /\ n \in NamedAs(n)
            /\ Found(t) = {i \in NamedAs(n) : s.childOf # None =>
                              \E a \in Ancestors(i) : dump[a].id = s.childOf}
<1> DEFINE s == Selector(n)
           t == InFlow(s, p)
           ms == Matches(s.id, s.text)
           w == IF s.id # None THEN s.id ELSE s.text
<1>1. s.id = dump[n].id /\ s.text = IF dump[n].id = None THEN VisibleText(n) ELSE None
  BY DEF Selector
<1>2. /\ t.id = s.id /\ t.text = s.text /\ t.childOf = s.childOf /\ t.says = Written(w)
      /\ t.under = Written(s.childOf)
  BY DEF InFlow
<1>3. n \in DOMAIN dump /\ Tree \subseteq DOMAIN dump
  BY DEF Tree
<1> HIDE DEF s, t
<1>4. w \in Seq(Char) /\ (s.id = None => s.text # None) /\ s.childOf \in Seq(Char)
  BY <1>1, <1>3, WordsOf DEF s
<1>5. NamedAs(n) \subseteq DOMAIN dump /\ n \in NamedAs(n)
  BY <1>3 DEF NamedAs, Named
<1>6. ASSUME NEW i \in DOMAIN dump PROVE Says(i, t) <=> i \in NamedAs(n)
  <2>1. dump[i].id \in Seq(Char) /\ VisibleText(i) \in Seq(Char)
    BY WordsOf
  <2>2. CASE s.id # None
    <3>1. w = s.id /\ (Says(i, t) <=> Means(Written(w), dump[i].id))
      BY <1>2, <2>2 DEF Says
    <3>2. i \in NamedAs(n) <=> dump[i].id = s.id
      BY <1>1, <2>2 DEF NamedAs, Named
    <3> HIDE DEF w
    <3> QED  BY <1>4, <2>1, <3>1, <3>2, SaysOnlyItself
  <2>3. CASE s.id = None
    <3>1. w = s.text /\ (Says(i, t) <=> Means(Written(w), VisibleText(i)))
      BY <1>2, <2>3 DEF Says
    <3>2. i \in NamedAs(n) <=> VisibleText(i) = s.text
      BY <1>1, <2>3 DEF NamedAs
    <3> HIDE DEF w
    <3> QED  BY <1>4, <2>1, <3>1, <3>2, SaysOnlyItself
  <2> QED  BY <2>2, <2>3
<1>7. n \in ms /\ ms \subseteq NamedAs(n)
  BY <1>1, <1>3 DEF Matches, NamedAs, Named
<1>8. ASSUME NEW i \in DOMAIN dump
      PROVE  (\E a \in Ancestors(i) : Means(t.under, dump[a].id))
               <=> \E a \in Ancestors(i) : dump[a].id = s.childOf
  <2>1. ASSUME NEW a \in Ancestors(i) PROVE Means(t.under, dump[a].id) <=> dump[a].id = s.childOf
    <3>1. a \in DOMAIN dump
      BY Elements
    <3>2. dump[a].id \in Seq(Char)
      BY <3>1, WordsOf
    <3> QED  BY <1>2, <1>4, <3>2, SaysOnlyItself
  <2> QED  BY <2>1
<1>9. Found(t) = {i \in NamedAs(n) : s.childOf # None => \E a \in Ancestors(i) : dump[a].id = s.childOf}
  <2> HIDE DEF ms
  <2> QED  BY <1>2, <1>5, <1>6, <1>8 DEF Found
<1> QED  BY <1>5, <1>7, <1>9 DEF s, t

(* What a replay of a step finds, and what it touches.                     *)
Replays(t) ==
  LET alike == NamedAs(t.node)
      counted == alike \subseteq Matches(t.id, t.text)
      anchored == \E a \in DOMAIN dump : Named(t.childOf) = {a}
  IN /\ t.node \in Found(t) /\ Found(t) \subseteq alike
     /\ counted /\ (t.childOf = None \/ anchored) => Replayed(t) = {t.node}
     /\ t.grade = "low" => alike # {t.node}

(* The nearest ancestor with an identifier is one.                         *)
LEMMA AncestorOf ==
  ASSUME Nested, NEW n \in Tree, IdentifiedAncestor(n) # 0
  PROVE  /\ IdentifiedAncestor(n) \in Ancestors(n) \cap Tree
         /\ dump[IdentifiedAncestor(n)].id # None
<1> DEFINE identified == {b \in Ancestors(n) \cap Tree : dump[b].id # None}
<1>1. identified # {} /\ IdentifiedAncestor(n) = Max(identified)
  BY DEF IdentifiedAncestor
<1>2. identified \subseteq 1..Len(dump) /\ Len(dump) \in Nat
  BY Elements DEF Tree
<1>3. Max(identified) \in identified
  <2> HIDE DEF identified
  <2> QED  BY <1>1, <1>2, MaxOf
<1> QED  BY <1>1, <1>3

LEMMA SelectorReplays ==
  ASSUME Nested, NEW n \in Tree, dump[n].id # None \/ VisibleText(n) # None, NEW p
  PROVE  Replays(InFlow(Selector(n), p))
<1> DEFINE s == Selector(n)
           t == InFlow(s, p)
           ms == Matches(s.id, s.text)
           a == IdentifiedAncestor(n)
           alike == NamedAs(n)
           alone == Cardinality(ms) <= 1
           under == ~alone /\ a # 0 /\ {m \in ms : a \in Ancestors(m)} = {n}
<1>1. /\ s.childOf = IF under THEN dump[a].id ELSE None
      /\ s.index = IF alone \/ under THEN 0 ELSE Cardinality({m \in ms : m < n})
  BY DEF Selector, IndexOf
<1>2. /\ t.node = n /\ t.id = s.id /\ t.text = s.text /\ t.childOf = s.childOf /\ t.index = s.index
      /\ t.grade = "low" => s.index > 0
  BY DEF InFlow, Selector, Confidence
<1>3. a # 0 => a \in Ancestors(n) \cap Tree /\ dump[a].id # None
  BY AncestorOf
<1>4. Tree \subseteq DOMAIN dump /\ DOMAIN dump = 1..Len(dump) /\ Len(dump) \in Nat
  BY Elements DEF Tree
<1>5. s.childOf \in Seq(Char)
  <2>1. None \in Seq(Char)
    BY DEF None
  <2>2. a # 0 => dump[a].id \in Seq(Char)
    BY <1>3, <1>4, WordsOf
  <2> HIDE DEF under, a, s
  <2> QED  BY <1>1, <2>1, <2>2 DEF under
<1>6. /\ n \in ms /\ ms \subseteq alike /\ n \in alike
      /\ Found(t) = {i \in alike : s.childOf # None => \E b \in Ancestors(i) : dump[b].id = s.childOf}
  BY <1>5, FoundBySays
<1>7. ms \subseteq DOMAIN dump
  BY <1>4 DEF Matches
<1> HIDE DEF s, t, ms, a, alike
<1>8. ms \subseteq Nat /\ IsFiniteSet(ms)
  <2>1. IsFiniteSet(1..Len(dump))
    BY <1>4, FS_Interval
  <2>2. ms \in SUBSET (1..Len(dump))
    BY <1>4, <1>7
  <2>3. IsFiniteSet(ms)
    BY <2>1, <2>2, FS_Subset
  <2>4. ms \subseteq Nat
    BY <1>4, <2>2
  <2> QED  BY <2>3, <2>4
<1>9. Cardinality(ms) \in Nat
  BY <1>8, FS_CardinalityType
<1>10. Found(t) \subseteq alike
  BY <1>6
<1> DEFINE anchored == \E x \in DOMAIN dump : Named(t.childOf) = {x}
<1>11. ASSUME n \in Found(t), t.grade = "low" => alike # {n},
              alike \subseteq ms /\ (t.childOf = None \/ anchored) => Replayed(t) = {n}
       PROVE  Replays(t)
  <2>1. NamedAs(t.node) = alike /\ Matches(t.id, t.text) = ms
    BY <1>2 DEF ms, alike
  <2> QED  BY <1>2, <1>10, <1>11, <2>1 DEF Replays
<1>12. ASSUME ~under PROVE Replays(t)
  <2>1. s.childOf = None /\ Found(t) = alike
    BY <1>1, <1>6, <1>12
  <2>2. s.index = Cardinality({m \in ms : m < n})
    <3>1. CASE alone
      <4>1. ms = {n}
        <5>1. IsFiniteSet({n}) /\ Cardinality({n}) = 1 /\ {n} \in SUBSET ms
          BY <1>6, FS_Singleton
        <5>2. Cardinality({n}) <= Cardinality(ms)
          BY <1>8, <5>1, FS_Subset
        <5>3. Cardinality(ms) = Cardinality({n})
          BY <1>9, <3>1, <5>1, <5>2
        <5> QED  BY <1>8, <5>1, <5>3, FS_Subset
      <4>2. {m \in ms : m < n} = {}
        <5>1. n \in Nat
          BY <1>6, <1>8
        <5>2. ~(n < n)
          BY <5>1
        <5> QED  BY <4>1, <5>2
      <4> QED  BY <1>1, <3>1, <4>2, FS_EmptySet
    <3>2. CASE ~alone
      <4> HIDE DEF alone
      <4> QED  BY <1>1, <1>12, <3>2
    <3> QED  BY <3>1, <3>2
  <2>3. ASSUME alike \subseteq ms PROVE Replayed(t) = {n}
    <3>1. Found(t) = ms
      BY <1>6, <2>1, <2>3
    <3>2. {i \in ms : Cardinality({m \in ms : m < i}) = Cardinality({m \in ms : m < n})} = {n}
      BY <1>6, <1>8, CountTells
    <3>3. t.index = Cardinality({m \in ms : m < n})
      BY <1>2, <2>2
    <3> QED  BY <3>1, <3>2, <3>3 DEF Replayed
  <2>4. ASSUME t.grade = "low" PROVE alike # {n}
    <3>1. ~alone
      <4> HIDE DEF under
      <4>1. s.index > 0
        BY <1>2, <2>4
      <4>2. ~(0 > 0)
        OBVIOUS
      <4> QED  BY <1>1, <4>1, <4>2
    <3>2. ASSUME alike = {n} PROVE FALSE
      <4>1. ms = {n}
        BY <1>6, <3>2
      <4> QED  BY <3>1, <4>1, FS_Singleton
    <3> QED  BY <3>2
  <2>5. n \in Found(t)
    BY <1>6, <2>1
  <2> HIDE DEF under, alone, anchored
  <2> QED  BY <1>11, <2>3, <2>4, <2>5
<1>13. ASSUME under PROVE Replays(t)
  <2>1. a # 0 /\ {m \in ms : a \in Ancestors(m)} = {n} /\ s.index = 0 /\ s.childOf = dump[a].id
    BY <1>1, <1>13
  <2>2. a \in Ancestors(n) \cap Tree /\ dump[a].id # None
    BY <1>3, <2>1
  <2>3. n \in Found(t)
    BY <1>6, <2>1, <2>2
  <2>4. ASSUME alike \subseteq ms, NEW x, Named(s.childOf) = {x} PROVE Replayed(t) = {n}
    <3>1. x = a
      BY <1>4, <2>1, <2>2, <2>4 DEF Named
    <3>2. ASSUME NEW i \in Found(t) PROVE i = n
      <4>1. i \in ms /\ i \in DOMAIN dump
        BY <1>6, <1>7, <2>4, <3>2
      <4>2. PICK b \in Ancestors(i) : dump[b].id = s.childOf
        BY <1>6, <2>1, <2>2, <3>2
      <4>3. b \in DOMAIN dump
        BY <4>1, Elements
      <4>4. b = a
        BY <2>4, <3>1, <4>2, <4>3 DEF Named
      <4> QED  BY <2>1, <4>1, <4>2, <4>4
    <3>3. Found(t) = {n}
      BY <2>3, <3>2
    <3>4. {m \in Found(t) : m < n} = {}
      <4>1. n \in Nat
        BY <1>6, <1>8
      <4>2. ~(n < n)
        BY <4>1
      <4> QED  BY <3>3, <4>2
    <3>5. Cardinality({m \in Found(t) : m < n}) = 0
      BY <3>4, FS_EmptySet
    <3> QED  BY <1>2, <2>1, <3>3, <3>5 DEF Replayed
  <2>5. t.grade # "low"
    <3>1. ~(0 > 0)
      OBVIOUS
    <3> QED  BY <1>2, <2>1, <3>1
  <2>6. t.childOf # None
    BY <1>2, <2>1, <2>2
  <2> HIDE DEF under, alone
  <2>7. anchored => \E x : Named(s.childOf) = {x}
    BY <1>2
  <2> HIDE DEF anchored
  <2> QED  BY <1>11, <2>3, <2>4, <2>5, <2>6, <2>7
<1> HIDE DEF under, alone
<1>14. Replays(t)
  BY <1>12, <1>13
<1> QED  BY <1>14 DEF t, s

(* What a tap records is such a step.                                      *)
LEMMA TapReplays == ASSUME Nested, NEW p \in Place, TapAt(p) PROVE ReplayFindsTouched'
<1> DEFINE n == OwningControl(HitTest(p))
<1>1. /\ tapped' = InFlow(Selector(n), p) /\ HitTest(p) # 0 /\ UNCHANGED <<android, dump>>
  BY DEF TapAt
<1>2. n \in Tree /\ (dump[n].id # None \/ VisibleText(n) # None)
  BY <1>1, OwnerHasName
<1> HIDE DEF n
<1>3. Replays(tapped')
  BY <1>1, <1>2, SelectorReplays
<1>4. ReplayFindsTouched' <=> (tapped' # NoStep => Replays(tapped'))
  BY <1>1 DEF ReplayFindsTouched, Replays, Replayed, Found, Says, NamedAs, Named, Matches, VisibleText, Tree, Within, Under, Ancestors,
              Dropped, SystemWindows, OfSystem, WindowOf, Superseded, FullScreen, NoStep
<1> QED  BY <1>3, <1>4

ScreenIInv == Nested /\ android \in BOOLEAN /\ TapsWhatIsShown /\ ReplayFindsTouched

LEMMA ScreenStep == ASSUME ScreenIInv, [ScreenNext]_screenVars PROVE ScreenIInv'
<1>1. Nested /\ android \in BOOLEAN /\ TapsWhatIsShown /\ ReplayFindsTouched
  BY DEF ScreenIInv
<1>2. ASSUME NEW k \in Kinds[android], NEW parent \in DOMAIN dump, Grow(k, parent) PROVE ScreenIInv'
  <2>1. tapped' = NoStep' /\ android' = android
    BY <1>2 DEF Grow, NoStep
  <2>2. Nested'
    BY <1>1, <1>2, GrowNested
  <2>3. TapsWhatIsShown' /\ ReplayFindsTouched'
    BY <2>1 DEF TapsWhatIsShown, ReplayFindsTouched
  <2> QED  BY <1>1, <2>1, <2>2, <2>3 DEF ScreenIInv
<1>3. ASSUME NEW p \in Place, TapAt(p) PROVE ScreenIInv'
  <2>1. TapsWhatIsShown'
    BY <1>1, <1>3, TapShown
  <2>2. ReplayFindsTouched'
    BY <1>1, <1>3, TapReplays
  <2> QED  BY <1>1, <1>3, <2>1, <2>2 DEF TapAt, Nested, ScreenIInv
<1>4. CASE UNCHANGED screenVars
  <2>1. UNCHANGED <<android, dump, tapped>>
    BY <1>4 DEF screenVars
  <2>2. Nested'
    BY <1>1, <2>1 DEF Nested
  <2>3. Tree' = Tree /\ FullScreen' = FullScreen
    BY <2>1 DEF Tree, Within, Under, Ancestors, Dropped, SystemWindows, OfSystem, WindowOf, Superseded, FullScreen
  <2>4. TapsWhatIsShown'
    BY <1>1, <2>1, <2>3 DEF TapsWhatIsShown, Under, Ancestors, OfSystem, WindowOf, NoStep
  <2>5. ReplayFindsTouched'
    <3>1. ReplayFindsTouched' <=> ReplayFindsTouched
      BY <2>1, <2>3 DEF ReplayFindsTouched, Replayed, Found, Says, NamedAs, Named, Matches, VisibleText,
                             Ancestors, NoStep
    <3> QED  BY <1>1, <3>1
  <2> QED  BY <1>1, <2>1, <2>2, <2>4, <2>5 DEF ScreenIInv
<1> QED  BY <1>2, <1>3, <1>4 DEF ScreenNext

(* On a screen of any number of elements: what a tap is recorded for is    *)
(* in front, the app's, no key, and what the finger was on or the control  *)
(* that owns it (supersededViews, withoutSystemWindows, hitTest and        *)
(* owningControl).                                                         *)
THEOREM TapNamesWhatIsShown == ScreenSpec => []TapsWhatIsShown
<1>1. ScreenInit => ScreenIInv
  BY RootNested DEF ScreenInit, TapsWhatIsShown, ReplayFindsTouched, ScreenIInv
<1>2. ScreenIInv => TapsWhatIsShown
  BY DEF ScreenIInv
<1> QED  BY <1>1, <1>2, ScreenStep, PTL DEF ScreenSpec

(* On a screen of any number of elements, with any words: a replay of a    *)
(* step finds the element the step was recorded for, and others only if    *)
(* they are named the same, for the flow says its words so that they mean  *)
(* themselves; its position or its ancestor tells it from those that the   *)
(* recorder counted; and a step graded low does share its name (reEscape,  *)
(* quote, qualify, indexOf, confidence).                                   *)
THEOREM ReplayFindsWhatWasTouched == ScreenSpec => []ReplayFindsTouched
<1>1. ScreenInit => ScreenIInv
  BY RootNested DEF ScreenInit, TapsWhatIsShown, ReplayFindsTouched, ScreenIInv
<1>2. ScreenIInv => ReplayFindsTouched
  BY DEF ScreenIInv
<1> QED  BY <1>1, <1>2, ScreenStep, PTL DEF ScreenSpec

-----------------------------------------------------------------------------
(* IosSnapshot *)

(* The state told is one of the app's, at the moment it was asked for.     *)
SnapIInv == app \in AppState /\ app \in was /\ ToldTheTruth

(* An answer with a state the app is in, or that cannot be told, and with a *)
(* tree just when that state is no other than the front.                   *)
LEMMA AnswerTrue ==
  ASSUME NEW s \in was \cup {Unknown}, NEW t \in BOOLEAN, t = InFront(s), Answer(s, t), was' = was
  PROVE  ToldTheTruth'
<1>1. answer'.state = s /\ answer'.tree = t
  BY DEF Answer
<1>2. answer'.tree <=> InFront(answer'.state)
  BY <1>1, Zenon
<1> QED  BY <1>1, <1>2 DEF ToldTheTruth

LEMMA SnapStep == ASSUME SnapIInv, [SnapNext]_snapVars PROVE SnapIInv'
<1>1. CASE UNCHANGED snapVars
  BY <1>1 DEF SnapIInv, ToldTheTruth, InFront, snapVars
<1>2. CASE AskState \/ AskAgain
  <2>1. app' = app /\ was' = was /\ asking # "done"
    BY <1>2 DEF AskState, AskAgain
  <2>2. PICK s \in AppState \cup {Unknown} :
          /\ AgentSays(s)
          /\ \/ ~InFront(s) /\ Answer(s, FALSE)
             \/ asking' = "capture"
             \/ answer' = SnapFailed
    BY <1>2 DEF AskState, AskAgain
  <2>3. s \in was \cup {Unknown}
    BY <2>2 DEF AgentSays, SnapIInv
  <2>4. ToldTheTruth'
    <3>1. CASE ~InFront(s) /\ Answer(s, FALSE)
      <4>1. FALSE = InFront(s)
        BY <3>1 DEF InFront
      <4> QED  BY <2>1, <2>3, <3>1, <4>1, AnswerTrue
    <3>2. CASE asking' = "capture" \/ answer' = SnapFailed
      BY <3>2 DEF ToldTheTruth
    <3> QED  BY <2>2, <3>1, <3>2
  <2> QED  BY <2>1, <2>4 DEF SnapIInv
<1>3. CASE Capture
  <2>1. app' = app /\ was' = was
    BY <1>3 DEF Capture
  <2>2. ToldTheTruth'
    <3>1. CASE \E s \in {Unknown, app} : Answer(s, InFront(s))
      <4>1. PICK s \in {Unknown, app} : Answer(s, InFront(s))
        BY <3>1
      <4>2. s \in was \cup {Unknown} /\ InFront(s) \in BOOLEAN
        BY DEF SnapIInv, InFront
      <4> QED  BY <2>1, <4>1, <4>2, AnswerTrue
    <3>2. CASE asking' = "again" \/ answer' = SnapFailed
      BY <3>2 DEF ToldTheTruth
    <3> QED  BY <1>3, <3>1, <3>2 DEF Capture
  <2> QED  BY <2>1, <2>2 DEF SnapIInv
<1>4. CASE AppMoves
  BY <1>4 DEF AppMoves, SnapIInv, ToldTheTruth
<1> QED  BY <1>1, <1>2, <1>3, <1>4 DEF SnapNext

(* Whatever the app does while it is asked for its state and then for its  *)
(* tree, any number of times it moves: a state told is one it was in, and  *)
(* a tree comes with a state of that same moment (SnapshotState).          *)
THEOREM SnapshotTellsTheTruth == SnapSpec => []ToldTheTruth
<1>1. SnapInit => SnapIInv  BY DEF SnapInit, SnapIInv, ToldTheTruth, AppState
<1>2. SnapIInv => ToldTheTruth  BY DEF SnapIInv
<1> QED  BY <1>1, <1>2, SnapStep, PTL DEF SnapSpec

-----------------------------------------------------------------------------
(* AndroidDriver *)

(* What an engine that is up has changed on the device, and what it knows  *)
(* of the setting it found there.                                          *)
TunedOnly ==
  /\ ime \in Setting /\ found \in Setting
  /\ step \in {"down", "start", "connect", "up"}
  /\ step \in {"start", "connect"} => ime = found
  /\ step = "up" => ime \in {"0", found} /\ imeBefore \in {"", found}

DriverIInv == TunedOnly /\ LeftAsFound

LEMMA DriverStep == ASSUME DriverIInv, [DriverNext]_driverVars PROVE DriverIInv'
<1>1. CASE UNCHANGED driverVars
  BY <1>1 DEF DriverIInv, TunedOnly, LeftAsFound, driverVars
<1>2. CASE StartEngine \/ Starts
  BY <1>2 DEF StartEngine, Starts, DriverIInv, TunedOnly, LeftAsFound
<1>3. CASE BringUpFails
  BY <1>3 DEF BringUpFails, Retry, StopDriver, DriverIInv, TunedOnly, LeftAsFound
<1>4. CASE Tune
  BY <1>4 DEF Tune, DriverIInv, TunedOnly, LeftAsFound, Setting
<1>5. CASE StopEngine
  <2>1. Restored \in Setting /\ (imeBefore # "" => Restored = found)
    BY <1>5 DEF StopEngine, Restored, DriverIInv, TunedOnly, Setting
  <2>2. ime' \in Setting /\ found' \in Setting /\ ime' = found'
    BY <1>5, <2>1 DEF StopEngine, DriverIInv, TunedOnly
  <2> QED  BY <1>5, <2>2 DEF StopEngine, StopDriver, DriverIInv, TunedOnly, LeftAsFound
<1> QED  BY <1>1, <1>2, <1>3, <1>4, <1>5 DEF DriverNext

(* Wherever a start fails, and however often it is retried, the device is  *)
(* left as it was found, but for a driver it failed to stop when it was    *)
(* last told to: retryStart tells it after each failed try, the last one   *)
(* too, and Stop, which puts the setting back, tells it as well.           *)
THEOREM EngineLeavesDeviceAsFound == DriverSpec => []LeftAsFound
<1>1. DriverInit => DriverIInv
  BY DEF DriverInit, DriverIInv, TunedOnly, LeftAsFound
<1>2. DriverIInv => LeftAsFound  BY DEF DriverIInv
<1> QED  BY <1>1, <1>2, DriverStep, PTL DEF DriverSpec

-----------------------------------------------------------------------------
(* Agent *)

(* What is about to be tapped is an element of the tree that was read, and *)
(* one judged reachable in it.                                             *)
Aimed ==
  /\ dom \in Screens
  /\ \E i \in DOMAIN dom.nodes : target = dom.nodes[i]
  /\ Reachable(dom, target)

AgentIInv ==
  /\ onScreen \in Screens
  /\ doing = "resolve" => dom \in Screens
  /\ doing = "act" /\ tool.name = "tap" => Aimed
  /\ got # "" => doing = "told"
  /\ LandsInApp

(* targetIndex finds one of the nodes.                                     *)
LEMMA FirstIsThere ==
  ASSUME NEW s \in Screens, Finds(s.nodes)
  PROVE  \E i \in DOMAIN s.nodes : First(s.nodes) = s.nodes[i]
<1>1. Meant(s.nodes) \subseteq Nat /\ Meant(s.nodes) \subseteq DOMAIN s.nodes /\ Meant(s.nodes) # {}
  BY ScreensAssumption DEF Finds, Meant
<1>2. \E i \in Meant(s.nodes) : \A j \in Meant(s.nodes) : i <= j
  BY <1>1, LeastOf
<1> QED  BY <1>1, <1>2 DEF First

(* What is in front of a reachable element is the element.                 *)
LEMMA ReachableReceives ==
  ASSUME onScreen \in Screens, NEW i \in DOMAIN onScreen.nodes,
         Reachable(onScreen, onScreen.nodes[i])
  PROVE  Receiver(onScreen.nodes[i].row)
           = IF onScreen.nodes[i].type = "app" THEN "app" ELSE "keys"
<1> DEFINE n == onScreen.nodes[i]
<1>1. /\ n.row \in Nat /\ onScreen.bar \in Nat /\ onScreen.keys \in Nat /\ Rows \in Nat
      /\ n.type # "app" => HasKeyboard(onScreen.nodes) /\ n.row = Rows
  BY ScreensAssumption
<1>2. /\ n.row \in 1..Rows /\ n.row \notin 1..onScreen.bar
      /\ ~(onScreen.keys > 0 /\ n.row \in onScreen.keys..Rows)
      /\ HasKeyboard(onScreen.nodes) /\ n.row = Rows => n.type # "app"
  BY <1>1 DEF Reachable
<1> HIDE DEF n
<1>3. Receiver(n.row) = IF n.type = "app" THEN "app" ELSE "keys"
  <2>1. CASE n.type = "app"
    BY <1>2, <2>1 DEF Receiver
  <2>2. CASE n.type # "app"
    BY <1>1, <1>2, <2>2 DEF Receiver
  <2> QED  BY <2>1, <2>2
<1> QED  BY <1>3 DEF n

LEMMA AgentStep == ASSUME AgentIInv, [AgentNext]_agentVars PROVE AgentIInv'
<1>1. CASE UNCHANGED agentVars
  BY <1>1 DEF AgentIInv, LandsInApp, Aimed, Reachable, HasKeyboard, agentVars
<1>2. ASSUME NEW c \in Call, CallTool(c) PROVE AgentIInv'
  BY <1>2 DEF CallTool, deviceVars, AgentIInv, LandsInApp
<1>3. CASE ReadTree
  BY <1>3 DEF ReadTree, deviceVars, Tell, AgentIInv, LandsInApp
<1>4. CASE Resolve
  <2>1. /\ dom \in Screens /\ got = "" /\ UNCHANGED <<onScreen, tool, dom, got>>
        /\ doing' \in {"told", "act"}
    BY <1>4 DEF Resolve, deviceVars, Tell, AgentIInv
  <2>2. doing' = "act" => Finds(dom.nodes) /\ target' = First(dom.nodes) /\ Reachable(dom, target')
    BY <1>4 DEF Resolve, Tell
  <2>3. doing' = "act" => Aimed'
    BY <2>1, <2>2, FirstIsThere DEF Aimed, Reachable, HasKeyboard
  <2> QED  BY <2>1, <2>3 DEF AgentIInv, LandsInApp
<1>5. CASE Look \/ CheckWait
  BY <1>5 DEF Look, CheckWait, deviceVars, Tell, AgentIInv, LandsInApp
<1>6. CASE Wakes \/ Act \/ Enter \/ PressTool \/ Settled
  BY <1>6 DEF Wakes, Act, Enter, PressTool, Settled, deviceVars, Tell, AgentIInv, LandsInApp
<1>7. CASE TapTool
  <2>1. /\ Aimed /\ got = "" /\ doing' = "told" /\ UNCHANGED <<onScreen, tool, dom, target>>
        /\ got' \in {"", Receiver(target.row)}
    BY <1>7 DEF TapTool, deviceVars, Tell, AgentIInv
  <2>2. onScreen = dom => Receiver(target.row) = IF target.type = "app" THEN "app" ELSE "keys"
    BY <2>1, ReachableReceives DEF Aimed
  <2>3. LandsInApp'
    BY <2>1, <2>2 DEF LandsInApp
  <2> QED  BY <2>1, <2>3 DEF AgentIInv
<1>8. CASE DeadlinePasses
  BY <1>8 DEF DeadlinePasses, deviceVars, AgentIInv, LandsInApp, Aimed, Reachable, HasKeyboard
<1>9. CASE DeviceMoves
  BY <1>9 DEF DeviceMoves, AgentIInv, LandsInApp, Aimed, Reachable, HasKeyboard
<1> QED  BY <1>1, <1>2, <1>3, <1>4, <1>5, <1>6, <1>7, <1>8, <1>9 DEF AgentNext, Steps

(* On any screens, a tap on the screen that was read goes to the element   *)
(* it named: not to a bar, to keys in front of it or past the edge, as     *)
(* long as reachable is asked of what targetIndex found (target.go).       *)
THEOREM AgentTapLandsInApp == AgentSpec => []LandsInApp
<1>1. AgentInit => AgentIInv
  BY DEF AgentInit, AgentIInv, LandsInApp, NoCall
<1>2. AgentIInv => LandsInApp  BY DEF AgentIInv
<1> QED  BY <1>1, <1>2, AgentStep, PTL DEF AgentSpec

-----------------------------------------------------------------------------
(* Refs *)

Drawn ==
  [uid : Nat \ {0}, parent : 0..MaxUid, role : {k.role : k \in ElementKind},
   id : {k.id : k \in ElementKind}, text : {k.text : k \in ElementKind}]

(* A tree the device has shown: each of its elements is another.           *)
Shown(nodes) ==
  /\ nodes \in Seq(Drawn)
  /\ \A i \in DOMAIN nodes : nodes[i].uid <= drawn
  /\ \A i, j \in DOMAIN nodes : nodes[i].uid = nodes[j].uid => i = j

(* A ref is given to one identity only, and it names, on the screen of the *)
(* last snapshot as a whole walk sees it, the element its line showed.     *)
RefsIInv ==
  /\ drawn \in Nat /\ lastRef \in Nat
  /\ Shown(elements) /\ Shown(seen)
  /\ \A w \in DOMAIN ids : ids[w] \in 1..lastRef
  /\ \A v, w \in DOMAIN ids : ids[v] = ids[w] => v = w
  /\ \A ref \in DOMAIN prev : \E i \in Holding(seen, ref) : prev[ref] = seen[i]

(* A walk of a tree lists places of it, finitely many.                     *)
LEMMA WalkOf ==
  ASSUME NEW nodes \in Seq(Drawn), NEW full \in BOOLEAN, NEW S \in SUBSET Listed(nodes, full)
  PROVE  S \subseteq 1..Len(nodes) /\ IsFiniteSet(S) /\ Cardinality(S) \in Nat
<1>1. S \subseteq 1..Len(nodes)
  BY DEF Listed
<1>2. IsFiniteSet(1..Len(nodes))
  BY FS_Interval
<1>3. IsFiniteSet(S)
  BY <1>1, <1>2, FS_Subset
<1> QED  BY <1>1, <1>3, FS_CardinalityType

(* Of elements that share a key, the walk of the controls lists all that   *)
(* the whole walk does, if it lists one.                                   *)
LEMMA KeyDecides ==
  ASSUME NEW nodes \in Seq(Drawn), NEW i \in Listed(nodes, FALSE), NEW j \in DOMAIN nodes,
         Key(nodes, nodes[j]) = Key(nodes, nodes[i])
  PROVE  j \in Listed(nodes, TRUE) <=> j \in Listed(nodes, FALSE)
<1>1. /\ i \in DOMAIN nodes /\ nodes[i] \in Drawn /\ nodes[j] \in Drawn
      /\ nodes[i].role # "#" /\ nodes[j].role # "#"
  <2>1. i \in DOMAIN nodes /\ nodes[i] \in Drawn /\ nodes[j] \in Drawn
    BY DEF Listed
  <2>2. \A n \in Drawn : n.role # "#"
    BY KindAssumption DEF Drawn
  <2> QED  BY <2>1, <2>2
<1>2. (nodes[i].id = "") = (nodes[j].id = "")
  BY <1>1 DEF Key
<1>3. ASSUME nodes[i].id = "" PROVE nodes[j].role \in Interactive
  BY <1>1, <1>2, <1>3 DEF Key, Listed, Included
<1>4. ASSUME nodes[i].id # "", j \in Listed(nodes, TRUE) PROVE j \in Listed(nodes, FALSE)
  BY <1>1, <1>2, <1>4, KindAssumption DEF Listed, Included
<1>5. j \in Listed(nodes, FALSE) => j \in Listed(nodes, TRUE)
  BY DEF Listed, Included
<1> QED  BY <1>3, <1>4, <1>5 DEF Listed, Included

(* So the two walks agree on who an element is.                            *)
LEMMA WalksAgree ==
  ASSUME NEW nodes \in Seq(Drawn), NEW full \in BOOLEAN, NEW i \in Listed(nodes, full)
  PROVE  /\ i \in Listed(nodes, TRUE)
         /\ IdentityAt(nodes, Listed(nodes, full), i) = IdentityAt(nodes, Listed(nodes, TRUE), i)
<1>1. i \in Listed(nodes, TRUE)
  BY DEF Listed, Included
<1>2. CASE full
  BY <1>1, <1>2
<1>3. CASE ~full
  <2>1. i \in Listed(nodes, FALSE) /\ full = FALSE
    BY <1>3
  <2> DEFINE Same(list) == {j \in list : j <= i /\ Key(nodes, nodes[j]) = Key(nodes, nodes[i])}
  <2>2. \A j \in DOMAIN nodes : Key(nodes, nodes[j]) = Key(nodes, nodes[i])
          => (j \in Listed(nodes, TRUE) <=> j \in Listed(nodes, FALSE))
    BY <2>1, KeyDecides
  <2>3. Listed(nodes, TRUE) \subseteq DOMAIN nodes /\ Listed(nodes, FALSE) \subseteq DOMAIN nodes
    BY DEF Listed
  <2>4. Same(Listed(nodes, TRUE)) = Same(Listed(nodes, FALSE))
    BY <2>2, <2>3
  <2> QED  BY <1>1, <2>1, <2>4 DEF IdentityAt
<1> QED  BY <1>2, <1>3

(* Of numbers, those up to a lesser one of them are fewer.                 *)
LEMMA FewerBefore ==
  ASSUME NEW S, IsFiniteSet(S), S \subseteq Nat, NEW i \in S, NEW j \in S, i < j
  PROVE  Cardinality({k \in S : k <= i}) < Cardinality({k \in S : k <= j})
<1> DEFINE UpTo(n) == {k \in S : k <= n}
<1>1. IsFiniteSet(UpTo(j))
  BY FS_Subset
<1>2. UpTo(i) \in SUBSET UpTo(j)
  <2>1. i \in Nat /\ j \in Nat /\ \A k \in S : k \in Nat
    OBVIOUS
  <2>2. ASSUME NEW k \in S, k <= i PROVE k <= j
    BY <2>1, <2>2
  <2> QED  BY <2>2
<1>3. j \in UpTo(j) /\ j \notin UpTo(i)
  OBVIOUS
<1>4. /\ Cardinality(UpTo(i)) <= Cardinality(UpTo(j))
      /\ Cardinality(UpTo(i)) # Cardinality(UpTo(j))
      /\ IsFiniteSet(UpTo(i))
  BY <1>1, <1>2, <1>3, FS_Subset
<1>5. Cardinality(UpTo(i)) \in Nat /\ Cardinality(UpTo(j)) \in Nat
  BY <1>1, <1>4, FS_CardinalityType
<1> QED  BY <1>4, <1>5

(* Two elements of a walk are not the same.                                *)
LEMMA IdentityTells ==
  ASSUME NEW nodes \in Seq(Drawn), NEW full \in BOOLEAN,
         NEW i \in Listed(nodes, full), NEW j \in Listed(nodes, full),
         IdentityAt(nodes, Listed(nodes, full), i) = IdentityAt(nodes, Listed(nodes, full), j)
  PROVE  i = j
<1> DEFINE key == Key(nodes, nodes[i])
           Alike == {k \in Listed(nodes, full) : Key(nodes, nodes[k]) = key}
           UpTo(n) == {k \in Alike : k <= n}
<1>1. Alike \subseteq Nat /\ IsFiniteSet(Alike)
  BY WalkOf
<1>2. /\ Key(nodes, nodes[j]) = key
      /\ Cardinality({k \in Listed(nodes, full) : k <= i /\ Key(nodes, nodes[k]) = key})
         = Cardinality({k \in Listed(nodes, full) : k <= j /\ Key(nodes, nodes[k]) = key})
  BY DEF IdentityAt
<1>3. i \in Alike /\ j \in Alike
  BY <1>2
<1>4. Cardinality(UpTo(i)) = Cardinality(UpTo(j))
  <2>1. \A n : UpTo(n) = {k \in Listed(nodes, full) : k <= n /\ Key(nodes, nodes[k]) = key}
    BY Zenon
  <2> QED  BY <1>2, <2>1
<1>5. IsFiniteSet(UpTo(i)) /\ IsFiniteSet(UpTo(j))
  BY <1>1, FS_Subset
<1>6. Cardinality(UpTo(i)) \in Nat /\ Cardinality(UpTo(j)) \in Nat
  BY <1>5, FS_CardinalityType
<1> HIDE DEF Alike
<1> DEFINE count(n) == Cardinality(UpTo(n))
<1>7. \A a, b \in Alike : a < b => count(a) < count(b)
  BY <1>1, FewerBefore
<1>8. count(i) = count(j) /\ count(i) \in Nat
  BY <1>4, <1>6
<1> HIDE DEF count
<1>9. ~(i < j) /\ ~(j < i)
  BY <1>3, <1>7, <1>8
<1> QED  BY <1>1, <1>3, <1>9

(* What is put into a tree leaves the others where they were, or one on.   *)
LEMMA Inserted ==
  ASSUME NEW S, NEW s \in Seq(S), NEW i \in 0..Len(s), NEW e \in S
  PROVE  /\ InsertAt(s, i + 1, e) \in Seq(S) /\ Len(InsertAt(s, i + 1, e)) = Len(s) + 1
         /\ \A j \in 1..Len(s) + 1 :
              InsertAt(s, i + 1, e)[j]
                = IF j <= i THEN s[j] ELSE IF j = i + 1 THEN e ELSE s[j - 1]
<1> DEFINE ahead == SubSeq(s, 1, i)
           after == SubSeq(s, i + 1, Len(s))
<1>1. ahead \in Seq(S) /\ Len(ahead) = i /\ \A j \in 1..i : ahead[j] = s[j]
  BY SubSeqProperties
<1>2. after \in Seq(S) /\ Len(after) = Len(s) - i /\ \A j \in 1..Len(s) - i : after[j] = s[i + j]
  BY SubSeqProperties
<1>3. InsertAt(s, i + 1, e) = ahead \o <<e>> \o after
  <2>1. (i + 1) - 1 = i
    OBVIOUS
  <2> QED  BY <2>1 DEF InsertAt
<1> HIDE DEF ahead, after
<1>4. /\ ahead \o <<e>> \o after \in Seq(S)
      /\ Len(ahead \o <<e>> \o after) = Len(s) + 1
  <2> DEFINE upTo == ahead \o <<e>>
  <2>1. upTo \in Seq(S) /\ Len(upTo) = i + 1
    BY <1>1
  <2> HIDE DEF upTo
  <2>2. upTo \o after \in Seq(S) /\ Len(upTo \o after) = Len(upTo) + Len(after)
    BY <1>2, <2>1, ConcatProperties
  <2>3. Len(upTo) + Len(after) = Len(s) + 1
    BY <1>2, <2>1
  <2> QED  BY <2>2, <2>3 DEF upTo
<1>5. ASSUME NEW j \in 1..Len(s) + 1
      PROVE  (ahead \o <<e>> \o after)[j]
               = IF j <= i THEN s[j] ELSE IF j = i + 1 THEN e ELSE s[j - 1]
  <2> DEFINE upTo == ahead \o <<e>>
  <2>1. upTo \in Seq(S) /\ Len(upTo) = i + 1
    BY <1>1
  <2>2. \A k \in 1..i + 1 : upTo[k] = IF k <= i THEN s[k] ELSE e
    BY <1>1
  <2> HIDE DEF upTo
  <2>3. CASE j <= i + 1
    <3>1. (upTo \o after)[j] = upTo[j]
      BY <1>2, <2>1, <2>3
    <3>2. upTo[j] = IF j <= i THEN s[j] ELSE e
      BY <2>2, <2>3
    <3>3. ~(j <= i) => j = i + 1
      BY <2>3
    <3> QED  BY <3>1, <3>2, <3>3 DEF upTo
  <2>4. CASE j > i + 1
    <3>1. j - (i + 1) \in 1..Len(s) - i /\ i + (j - (i + 1)) = j - 1 /\ ~(j <= i) /\ j # i + 1
      BY <2>4
    <3>2. (upTo \o after)[j] = after[j - (i + 1)]
      BY <1>2, <2>1, <2>4
    <3>3. after[j - (i + 1)] = s[i + (j - (i + 1))]
      BY <1>2, <3>1
    <3> QED  BY <3>1, <3>2, <3>3 DEF upTo
  <2>5. j <= i + 1 \/ j > i + 1
    OBVIOUS
  <2> QED  BY <2>3, <2>4, <2>5, Zenon
<1>6. InsertAt(s, i + 1, e) \in Seq(S) /\ Len(InsertAt(s, i + 1, e)) = Len(s) + 1
  BY <1>3, <1>4, Zenon
<1>7. ASSUME NEW j \in 1..Len(s) + 1
      PROVE  InsertAt(s, i + 1, e)[j] = IF j <= i THEN s[j] ELSE IF j = i + 1 THEN e ELSE s[j - 1]
  BY <1>3, <1>5, Zenon
<1> QED  BY <1>6, <1>7, Zenon

LEMMA UidOf ==
  ASSUME drawn \in Nat, NEW nodes, Shown(nodes), NEW j \in DOMAIN nodes
  PROVE  nodes[j].uid \in Nat /\ nodes[j].uid <= drawn
<1>1. nodes[j] \in Drawn
  BY DEF Shown
<1> QED  BY <1>1 DEF Shown, Drawn

LEMMA DrawKeeps ==
  ASSUME RefsIInv, NEW i \in 0..Len(elements), NEW kind \in ElementKind, NEW parent \in 0..MaxUid,
         Draw(i, kind, parent)
  PROVE  RefsIInv'
<1> DEFINE e == [uid |-> drawn + 1, parent |-> parent,
                 role |-> kind.role, id |-> kind.id, text |-> kind.text]
<1>1. /\ drawn \in Nat /\ Shown(elements) /\ Shown(seen) /\ drawn' = drawn + 1
      /\ elements' = InsertAt(elements, i + 1, e)
      /\ elements \in Seq(Drawn) /\ e \in Drawn /\ e.uid = drawn + 1
  BY DEF RefsIInv, Draw, Shown, Drawn
<1> HIDE DEF e
<1>2. /\ elements' \in Seq(Drawn) /\ Len(elements') = Len(elements) + 1
      /\ \A j \in 1..Len(elements) + 1 :
           elements'[j] = IF j <= i THEN elements[j]
                          ELSE IF j = i + 1 THEN e ELSE elements[j - 1]
  <2> DEFINE t == InsertAt(elements, i + 1, e)
  <2>1. t \in Seq(Drawn) /\ Len(t) = Len(elements) + 1
    BY <1>1, Inserted
  <2>2. \A j \in 1..Len(elements) + 1 :
          t[j] = IF j <= i THEN elements[j] ELSE IF j = i + 1 THEN e ELSE elements[j - 1]
    <3>1. elements \in Seq(Drawn) /\ e \in Drawn /\ i \in 0..Len(elements)
      BY <1>1
    <3>2. ASSUME NEW j \in 1..Len(elements) + 1
          PROVE  InsertAt(elements, i + 1, e)[j]
                   = IF j <= i THEN elements[j] ELSE IF j = i + 1 THEN e ELSE elements[j - 1]
      BY <3>1, Inserted, SMTT(30)
    <3> QED  BY <3>2
  <2> HIDE DEF t
  <2>3. elements' = t
    BY <1>1 DEF t
  <2> QED  BY <2>1, <2>2, <2>3
<1>3. Shown(elements)'
  <2>1. \A j \in 1..Len(elements) : elements[j].uid \in Nat /\ elements[j].uid <= drawn
    BY <1>1, UidOf
  <2>2. ASSUME NEW j \in 1..Len(elements') PROVE elements'[j].uid <= drawn + 1
    <3>1. j \in 1..Len(elements) + 1 /\ Len(elements) \in Nat
      BY <1>1, <1>2
    <3>2. CASE j <= i
      <4>1. j \in 1..Len(elements) /\ elements'[j] = elements[j]
        BY <1>2, <3>1, <3>2
      <4> QED  BY <1>1, <2>1, <4>1
    <3>3. CASE j = i + 1
      <4>1. elements'[j] = e
        BY <1>2, <3>1, <3>3
      <4> QED  BY <1>1, <4>1
    <3>4. CASE j > i + 1
      <4>1. j - 1 \in 1..Len(elements) /\ elements'[j] = elements[j - 1]
        BY <1>2, <3>1, <3>4
      <4> QED  BY <1>1, <2>1, <4>1
    <3> QED  BY <3>1, <3>2, <3>3, <3>4
  <2>3. \A j, k \in 1..Len(elements) : elements[j].uid = elements[k].uid => j = k
    BY <1>1 DEF Shown
  <2>4. ASSUME NEW j \in 1..Len(elements'), NEW k \in 1..Len(elements'),
               elements'[j].uid = elements'[k].uid
        PROVE  j = k
    <3> DEFINE from(n) == IF n <= i THEN n ELSE n - 1
    <3>1. ASSUME NEW n \in 1..Len(elements'), n # i + 1
          PROVE  /\ from(n) \in 1..Len(elements) /\ elements'[n] = elements[from(n)]
                 /\ elements'[n].uid \in Nat /\ elements'[n].uid <= drawn
      <4>1. n \in 1..Len(elements) + 1 /\ Len(elements) \in Nat
        BY <1>1, <1>2
      <4>2. from(n) \in 1..Len(elements)
        BY <3>1, <4>1
      <4>3. elements'[n] = elements[from(n)]
        BY <1>2, <3>1, <4>1
      <4> HIDE DEF from
      <4> QED  BY <2>1, <4>2, <4>3
    <3>2. elements'[i + 1].uid = drawn + 1 /\ i + 1 \in 1..Len(elements')
      <4>1. i + 1 \in 1..Len(elements) + 1
        BY <1>1
      <4>2. elements'[i + 1] = e
        BY <1>2, <4>1
      <4> QED  BY <1>1, <1>2, <4>1, <4>2
    <3>3. j = i + 1 <=> k = i + 1
      BY <1>1, <2>4, <3>1, <3>2, SMTT(30)
    <3>4. CASE j # i + 1
      <4>1. from(j) = from(k)
        BY <2>3, <2>4, <3>1, <3>3, <3>4, SMTT(30)
      <4> QED  BY <3>3, <3>4, <4>1
    <3> QED  BY <3>3, <3>4
  <2>5. DOMAIN elements' = 1..Len(elements')
    BY <1>2
  <2> QED  BY <1>1, <1>2, <2>2, <2>4, <2>5 DEF Shown
<1>4. Shown(seen)'
  <2>1. seen' = seen /\ \A j \in DOMAIN seen : seen[j].uid \in Nat /\ seen[j].uid <= drawn
    BY <1>1, UidOf DEF Draw
  <2>2. \A j \in DOMAIN seen : seen[j].uid <= drawn + 1
    BY <1>1, <2>1
  <2> QED  BY <1>1, <2>1, <2>2 DEF Shown
<1>5. UNCHANGED <<ids, lastRef, prev, seen>>
  BY DEF Draw
<1>6. \A ref : Holding(seen, ref)' = Holding(seen, ref)
  BY <1>5 DEF Holding
<1>7. drawn' \in Nat
  BY <1>1
<1> QED  BY <1>3, <1>4, <1>5, <1>6, <1>7 DEF RefsIInv

LEMMA EraseKeeps ==
  ASSUME RefsIInv, NEW i \in DOMAIN elements, Erase(i)
  PROVE  RefsIInv'
<1>1. Shown(elements) /\ UNCHANGED <<drawn, ids, lastRef, prev, seen>>
  BY DEF RefsIInv, Erase
<1> DEFINE gone == elements[i].uid
           stay == {j \in DOMAIN elements :
                      elements[j].uid # gone /\ gone \notin Above(elements, elements[j].uid)}
<1>2. PICK at \in [1..Cardinality(stay) -> stay] :
        /\ \A j, k \in DOMAIN at : j < k => at[j] < at[k]
        /\ elements' = [j \in DOMAIN at |-> elements[at[j]]]
  BY DEF Erase
<1>a. stay \in SUBSET DOMAIN elements
  OBVIOUS
<1> HIDE DEF gone, stay
<1>3. elements \in Seq(Drawn) /\ DOMAIN elements = 1..Len(elements)
  BY <1>1 DEF Shown
<1>4. Cardinality(stay) \in Nat
  <2>1. IsFiniteSet(1..Len(elements))
    BY <1>3, FS_Interval
  <2>2. IsFiniteSet(stay)
    BY <1>3, <1>a, <2>1, FS_Subset
  <2> QED  BY <2>2, FS_CardinalityType
<1>5. elements' \in Seq(Drawn) /\ DOMAIN elements' = DOMAIN at
  <2>1. \A j \in 1..Cardinality(stay) : elements[at[j]] \in Drawn
    BY <1>2, <1>3, <1>a
  <2> QED  BY <1>2, <1>4, <2>1
<1>6. \A j \in DOMAIN at : at[j] \in DOMAIN elements /\ at[j] \in Nat /\ elements'[j] = elements[at[j]]
  BY <1>2, <1>3, <1>a
<1>7. ASSUME NEW j \in DOMAIN at, NEW k \in DOMAIN at, elements'[j].uid = elements'[k].uid
      PROVE  j = k
  <2>1. at[j] = at[k]
    BY <1>1, <1>6, <1>7 DEF Shown
  <2>2. ~(j < k) /\ ~(k < j)
    BY <1>2, <1>6, <2>1
  <2> QED  BY <1>2, <1>4, <2>2
<1>8. Shown(elements)' /\ Shown(seen)'
  BY <1>1, <1>5, <1>6, <1>7 DEF Shown, RefsIInv
<1> QED  BY <1>1, <1>8, ZenonT(30) DEF RefsIInv, Holding

LEMMA SnapshotKeeps ==
  ASSUME RefsIInv, NEW full \in BOOLEAN, Snapshot(full)
  PROVE  RefsIInv'
<1> DEFINE list == Listed(elements, full)
           who(i) == IdentityAt(elements, list, i)
           new == {i \in list : who(i) \notin DOMAIN ids}
           count(i) == Cardinality({j \in new : j <= i})
           its(w) == CHOOSE i \in new : who(i) = w
<1>1. /\ elements \in Seq(Drawn) /\ lastRef \in Nat /\ drawn \in Nat
      /\ \A w \in DOMAIN ids : ids[w] \in 1..lastRef
      /\ \A v, w \in DOMAIN ids : ids[v] = ids[w] => v = w
  BY DEF RefsIInv, Shown
<1>2. /\ ids' = [w \in DOMAIN ids \cup {who(i) : i \in new} |->
                   IF w \in DOMAIN ids THEN ids[w] ELSE lastRef + count(its(w))]
      /\ lastRef' = lastRef + Cardinality(new)
      /\ prev' = [r \in {ids'[who(i)] : i \in list} |->
                    elements[Max({i \in list : ids'[who(i)] = r})]]
      /\ seen' = elements /\ elements' = elements /\ drawn' = drawn
  BY DEF Snapshot
<1>3. /\ new \subseteq Nat /\ IsFiniteSet(new) /\ Cardinality(new) \in Nat
      /\ list \subseteq 1..Len(elements)
  <2>1. new \in SUBSET list /\ list \in SUBSET list
    OBVIOUS
  <2>2. /\ new \subseteq 1..Len(elements) /\ IsFiniteSet(new) /\ Cardinality(new) \in Nat
        /\ list \subseteq 1..Len(elements)
    BY <1>1, <2>1, WalkOf
  <2> QED  BY <2>2
<1>4. \A i, j \in list : who(i) = who(j) => i = j
  BY <1>1, IdentityTells
<1>5. \A i \in new : count(i) \in 1..Cardinality(new)
  <2> SUFFICES ASSUME NEW i \in new PROVE count(i) \in 1..Cardinality(new)
    OBVIOUS
  <2> DEFINE upTo == {j \in new : j <= i}
  <2>1. upTo \in SUBSET new /\ i \in upTo
    BY <1>3
  <2>2. IsFiniteSet(upTo) /\ Cardinality(upTo) <= Cardinality(new) /\ upTo # {}
    BY <1>3, <2>1, FS_Subset
  <2>3. Cardinality(upTo) \in Nat /\ Cardinality(upTo) # 0
    BY <2>2, FS_CardinalityType, FS_EmptySet
  <2> HIDE DEF upTo
  <2>4. Cardinality(upTo) \in 1..Cardinality(new)
    BY <1>3, <2>2, <2>3
  <2> QED  BY <2>4 DEF upTo
<1>6. \A i, j \in new : count(i) = count(j) => i = j
  <2>1. \A i, j \in new : i < j => count(i) < count(j)
    BY <1>3, FewerBefore
  <2>2. \A i \in new : i \in Nat /\ count(i) \in Nat
    <3>1. 1..Cardinality(new) \subseteq Nat
      BY <1>3
    <3> HIDE DEF new, count
    <3> QED  BY <1>3, <1>5, <3>1
  <2> HIDE DEF new, count
  <2> QED  BY <2>1, <2>2
<1>7. \A i \in new : who(i) \notin DOMAIN ids /\ its(who(i)) = i /\ who(i) \in DOMAIN ids'
  BY <1>2, <1>4
<1>8. \A w \in DOMAIN ids : w \in DOMAIN ids' /\ ids'[w] = ids[w]
  BY <1>2
<1>9. \A i \in new : ids'[who(i)] = lastRef + count(i)
  BY <1>2, <1>7, ZenonT(30)
<1>10. \A w \in DOMAIN ids' : w \in DOMAIN ids \/ \E i \in new : w = who(i)
  BY <1>2
<1>11. \A i \in list : who(i) \in DOMAIN ids'
  BY <1>7, <1>8
<1> HIDE DEF who, count, its, new
<1>12. \A w \in DOMAIN ids' : ids'[w] \in 1..lastRef'
  <2>1. ASSUME NEW w \in DOMAIN ids PROVE ids'[w] \in 1..lastRef'
    BY <1>1, <1>2, <1>3, <1>8
  <2>2. ASSUME NEW i \in new PROVE ids'[who(i)] \in 1..lastRef'
    <3>1. count(i) \in 1..Cardinality(new) /\ ids'[who(i)] = lastRef + count(i)
      BY <1>5, <1>9
    <3>2. lastRef' = lastRef + Cardinality(new) /\ lastRef \in Nat /\ Cardinality(new) \in Nat
      BY <1>1, <1>2, <1>3
    <3> QED  BY <3>1, <3>2
  <2> QED  BY <1>10, <2>1, <2>2
<1>13. ASSUME NEW v \in DOMAIN ids', NEW w \in DOMAIN ids', ids'[v] = ids'[w] PROVE v = w
  <2>1. CASE v \in DOMAIN ids /\ w \in DOMAIN ids
    BY <1>1, <1>8, <1>13, <2>1
  <2>2. ASSUME NEW a \in DOMAIN ids, NEW i \in new PROVE ids'[a] # ids'[who(i)]
    BY <1>1, <1>3, <1>5, <1>8, <1>9
  <2>3. ASSUME NEW i \in new, NEW j \in new, ids'[who(i)] = ids'[who(j)] PROVE i = j
    BY <1>1, <1>3, <1>5, <1>6, <1>9, <2>3
  <2> QED  BY <1>10, <1>13, <2>1, <2>2, <2>3
<1>14. ASSUME NEW r \in DOMAIN prev' PROVE \E i \in Holding(seen, r)' : prev'[r] = seen'[i]
  <2> DEFINE at == {i \in list : ids'[who(i)] = r}
             m == Max(at)
  <2>1. at # {} /\ prev'[r] = elements[m]
    BY <1>2
  <2>2. m \in at
    <3>1. at \subseteq 1..Len(elements) /\ Len(elements) \in Nat
      BY <1>1, <1>3
    <3> HIDE DEF at
    <3> QED  BY <2>1, <3>1, MaxOf
  <2>3. m \in Listed(elements, TRUE) /\ who(m) = IdentityAt(elements, Listed(elements, TRUE), m)
    BY <1>1, <2>2, WalksAgree DEF who
  <2>4. m \in Holding(seen, r)'
    BY <1>2, <1>11, <2>2, <2>3 DEF Holding
  <2> QED  BY <1>2, <2>1, <2>4
<1>15. Shown(elements)' /\ Shown(seen)'
  BY <1>2 DEF RefsIInv, Shown
<1>16. lastRef' \in Nat /\ drawn' \in Nat
  BY <1>1, <1>2, <1>3
<1> QED  BY <1>12, <1>13, <1>14, <1>15, <1>16 DEF RefsIInv

LEMMA RefsStep == ASSUME RefsIInv, [RefsNext]_refVars PROVE RefsIInv'
<1>1. ASSUME NEW i \in 0..Len(elements), NEW kind \in ElementKind, NEW parent \in 0..MaxUid,
             Draw(i, kind, parent)
      PROVE  RefsIInv'
  BY <1>1, DrawKeeps
<1>2. ASSUME NEW i \in DOMAIN elements, Erase(i) PROVE RefsIInv'
  BY <1>2, EraseKeeps
<1>3. ASSUME NEW full \in BOOLEAN, Snapshot(full) PROVE RefsIInv'
  BY <1>3, SnapshotKeeps
<1>4. CASE UNCHANGED refVars
  <2>1. UNCHANGED <<elements, drawn, ids, lastRef, prev, seen>>
    BY <1>4 DEF refVars
  <2>2. \A ref : Holding(seen, ref)' = Holding(seen, ref)
    BY <2>1 DEF Holding
  <2>3. Shown(elements)' /\ Shown(seen)'
    BY <2>1 DEF RefsIInv, Shown
  <2> QED  BY <2>1, <2>2, <2>3 DEF RefsIInv
<1> QED  BY <1>1, <1>2, <1>3, <1>4 DEF RefsNext

(* An element is who a ref is held by, and no other of its tree is.        *)
LEMMA HeldByOne ==
  ASSUME RefsIInv, NEW nodes \in Seq(Drawn), NEW ref,
         NEW i \in Holding(nodes, ref), NEW j \in Holding(nodes, ref)
  PROVE  i = j
<1>1. IdentityAt(nodes, Listed(nodes, TRUE), i) = IdentityAt(nodes, Listed(nodes, TRUE), j)
  BY ZenonT(30) DEF Holding, RefsIInv
<1>2. i \in Listed(nodes, TRUE) /\ j \in Listed(nodes, TRUE)
  BY DEF Holding
<1> QED  BY <1>1, <1>2, IdentityTells

(* refIndex answers with an element that holds the ref.                    *)
LEMMA IndexOfHolding ==
  ASSUME NEW nodes \in Seq(Drawn), NEW ref, Holding(nodes, ref) # {}
  PROVE  \E i \in Holding(nodes, ref) : RefIndex(nodes, ref) = nodes[i].uid
<1>1. Holding(nodes, ref) \subseteq Nat
  <2>1. Holding(nodes, ref) \in SUBSET Listed(nodes, TRUE)
    BY DEF Holding
  <2>2. Holding(nodes, ref) \subseteq 1..Len(nodes)
    BY <2>1, WalkOf
  <2> QED  BY <2>2
<1>2. Min(Holding(nodes, ref)) \in Holding(nodes, ref)
  BY <1>1, MinOf
<1> QED  BY <1>2 DEF RefIndex

LEMMA NamesShown == ASSUME RefsIInv PROVE RefsNameWhatTheyShow
<1> SUFFICES ASSUME elements = seen, NEW ref \in DOMAIN prev
             PROVE  RefIndex(elements, ref) = prev[ref].uid
  BY DEF RefsNameWhatTheyShow
<1>1. elements \in Seq(Drawn)
  BY DEF RefsIInv, Shown
<1>2. PICK i \in Holding(elements, ref) : prev[ref] = elements[i]
  BY DEF RefsIInv
<1>3. PICK j \in Holding(elements, ref) : RefIndex(elements, ref) = elements[j].uid
  BY <1>1, <1>2, IndexOfHolding
<1>4. i = j
  BY <1>1, HeldByOne
<1> QED  BY <1>2, <1>3, <1>4

LEMMA KeepsMeaning == ASSUME RefsIInv PROVE RefKeepsItsMeaning
<1> SUFFICES ASSUME NEW ref \in DOMAIN prev, RefIndex(elements, ref) # 0
             PROVE  LET n == At(elements, RefIndex(elements, ref))
                        m == prev[ref]
                    IN IF m.id # "" THEN n.id = m.id
                       ELSE n.role = m.role /\ Name(elements, n) = Name(seen, m)
  BY DEF RefKeepsItsMeaning
<1>1. elements \in Seq(Drawn) /\ seen \in Seq(Drawn)
  BY DEF RefsIInv, Shown
<1>2. PICK i \in Holding(seen, ref) : prev[ref] = seen[i]
  BY DEF RefsIInv
<1>3. PICK j \in Holding(elements, ref) : RefIndex(elements, ref) = elements[j].uid
  BY <1>1, IndexOfHolding DEF RefIndex
<1>4. /\ i \in DOMAIN seen /\ j \in DOMAIN elements
      /\ seen[i] \in Drawn /\ elements[j] \in Drawn
  BY <1>1 DEF Holding, Listed
<1>5. At(elements, RefIndex(elements, ref)) = elements[j]
  <2>1. \A n \in ToSet(elements) : n.uid = elements[j].uid => n = elements[j]
    BY <1>4 DEF RefsIInv, Shown, ToSet
  <2>2. elements[j] \in ToSet(elements)
    BY <1>4 DEF ToSet
  <2> QED  BY <1>3, <2>1, <2>2 DEF At
<1>6. IdentityAt(elements, Listed(elements, TRUE), j) = IdentityAt(seen, Listed(seen, TRUE), i)
  BY ZenonT(30) DEF Holding, RefsIInv
<1>7. Key(elements, elements[j]) = Key(seen, seen[i])
  BY <1>6 DEF IdentityAt
<1>8. \A n \in Drawn : n.role # "#"
  BY KindAssumption DEF Drawn
<1>9. IF seen[i].id # "" THEN elements[j].id = seen[i].id
      ELSE elements[j].role = seen[i].role /\ Name(elements, elements[j]) = Name(seen, seen[i])
  BY <1>4, <1>7, <1>8 DEF Key
<1> QED  BY <1>2, <1>5, <1>9

(* Whatever screens an app shows and whenever an agent looks at them: on   *)
(* the screen of a snapshot a ref acts on the element its line showed, and *)
(* on a later one on none or on one with its identifier, or its role and   *)
(* name (refRegistry, snapLines, refIndex).                                *)
THEOREM RefsKeepTheirMeaning == RefsSpec => []RefsHold
<1>1. RefsInit => RefsIInv
  <2> SUFFICES ASSUME RefsInit PROVE RefsIInv
    OBVIOUS
  <2>1. <<>> \in Seq(Drawn) /\ DOMAIN <<>> = {}
    OBVIOUS
  <2>2. DOMAIN ids = {} /\ DOMAIN prev = {}
    BY DEF RefsInit
  <2> QED  BY <2>1, <2>2 DEF RefsInit, RefsIInv, Shown
<1>2. RefsIInv => RefsHold
  BY NamesShown, KeepsMeaning DEF RefsHold
<1> QED  BY <1>1, <1>2, RefsStep, PTL DEF RefsSpec

==============================================================================
