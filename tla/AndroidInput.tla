---------------------------- MODULE AndroidInput ----------------------------
(***************************************************************************)
(* The Android input translator of internal/input/android.go for one       *)
(* device: characters wait in a buffer until typing pauses or something    *)
(* else is done, and a touch that went down and up becomes one tap or      *)
(* swipe.  A handler keeps the translator's mutex over its calls of the    *)
(* driver, so each frame is one step; a timer that fired waits for it.     *)
(***************************************************************************)
EXTENDS Naturals, Sequences

CONSTANTS Point,     \* places of the screen, farther apart than tapSlopPx
          NoPoint,
          MaxFrame   \* bound: frames the page sends

ASSUME NoPointAssumption == NoPoint \notin Point
ASSUME MaxFrameAssumption == MaxFrame \in Nat

VARIABLES
  sent,     \* frames the page sent; a frame is known by its number
  finger,   \* where the page's finger went down, or NoPoint
  seen,     \* the frame of that was handled
  textBuf,  \* the characters waiting
  timer,    \* flushTimer: "none", "armed", or "fired" and not cleared
  late,     \* callbacks of fired timers that wait for the mutex
  size,     \* the screen's size is known
  down,     \* a gesture is under way
  start,    \* downX and downY, or NoPoint before the first
  device,   \* what the driver did, by the frame that asked for it
  gestures, \* the taps and swipes it did: <<frame, from, to>>
  system    \* the system gestures and legacy buttons it pressed

page == <<sent, finger, seen>>
text == <<textBuf, timer, late>>
touch == <<size, down, start>>
driver == <<device, gestures, system>>
translatorVars == <<page, text, touch, driver>>

TranslatorInit ==
  /\ sent = 0 /\ finger = NoPoint /\ seen = FALSE
  /\ textBuf = <<>> /\ timer = "none" /\ late = 0
  /\ size = FALSE /\ down = FALSE /\ start = NoPoint
  /\ device = <<>> /\ gestures = {} /\ system = {}

Frame == sent < MaxFrame /\ sent' = sent + 1

-----------------------------------------------------------------------------
(* flushTextLocked: the timer is stopped and the buffer emptied, then the  *)
(* text goes in one call, which may fail; after it comes what the frame    *)
(* itself does.  Mutant: what the frame does comes first.                  *)
FlushedLast(ok, after) ==
  /\ timer' = "none" /\ textBuf' = <<>>
  /\ device' = IF ok THEN device \o after \o textBuf ELSE device

Flushed(ok, after) ==
  /\ timer' = "none" /\ textBuf' = <<>>
  /\ device' = IF ok THEN device \o textBuf \o after ELSE device

(* A call that is not made does not fail.                                  *)
Ok == IF textBuf = <<>> THEN {TRUE} ELSE BOOLEAN

(* A printable key waits, and the timer starts again.                      *)
Type ==
  /\ Frame
  /\ textBuf' = Append(textBuf, sent')
  /\ timer' = "armed"
  /\ UNCHANGED <<finger, seen, late, touch, driver>>

(* A control key is pressed after the flush, unless that failed.           *)
ControlKey ==
  /\ Frame
  /\ \E ok \in Ok, done \in {<<>>, <<sent'>>} : Flushed(ok, done)
  /\ UNCHANGED <<finger, seen, late, touch, gestures, system>>

(* System gestures and legacy buttons.                                     *)
System ==
  /\ Frame
  /\ system' \in {system, system \cup {sent'}}
  /\ UNCHANGED <<finger, seen, text, touch, device, gestures>>

(* The two calls before a touch is handled: the flush, and the size of the *)
(* screen while it is not known.                                           *)
Touched(ok, measured) == ok /\ (size \/ measured)
Measured(ok, measured) == size' = (size \/ (ok /\ measured))

TouchDown ==
  /\ Frame /\ finger = NoPoint /\ finger' \in Point
  /\ \E ok \in Ok, measured \in BOOLEAN :
       /\ Flushed(ok, <<>>) /\ Measured(ok, measured)
       /\ seen' = Touched(ok, measured)
       /\ down' = (down \/ seen')
       /\ start' = IF seen' THEN finger' ELSE start
  /\ UNCHANGED <<late, gestures, system>>

(* A move changes lastX and lastY only.                                  *)
TouchMove ==
  /\ Frame /\ finger # NoPoint
  /\ \E ok \in Ok, measured \in BOOLEAN : Flushed(ok, <<>>) /\ Measured(ok, measured)
  /\ UNCHANGED <<finger, seen, late, down, start, gestures, system>>

(* finishGesture: a tap when it ends where it began, otherwise a swipe.    *)
TouchUp ==
  /\ Frame /\ finger # NoPoint
  /\ finger' = NoPoint /\ seen' = FALSE
  /\ \E ok \in Ok, measured \in BOOLEAN, to \in Point, done \in BOOLEAN :
       LET finished == Touched(ok, measured) /\ down
           acts == finished /\ done
       IN /\ Flushed(ok, IF acts THEN <<sent'>> ELSE <<>>) /\ Measured(ok, measured)
          /\ down' = (down /\ ~finished)
          /\ gestures' = IF acts THEN gestures \cup {<<sent', start, to>>} ELSE gestures
  /\ UNCHANGED <<late, start, system>>

(* resolve fails: the translator does not see the frame.                   *)
Unresolved ==
  /\ Frame
  /\ \/ finger = NoPoint /\ finger' \in Point /\ UNCHANGED seen
     \/ finger # NoPoint /\ finger' = NoPoint /\ seen' = FALSE
     \/ UNCHANGED <<finger, seen>>
  /\ UNCHANGED <<text, touch, driver>>

-----------------------------------------------------------------------------
(* The server flushes at the end of an action.                             *)
Flush ==
  /\ \E ok \in Ok : Flushed(ok, <<>>)
  /\ UNCHANGED <<page, late, touch, gestures, system>>

(* Typing paused; what fired can be stopped no more.                       *)
Fires ==
  /\ timer = "armed"
  /\ timer' = "fired" /\ late' = late + 1
  /\ UNCHANGED <<page, textBuf, touch, driver>>

FlushLate ==
  /\ late > 0 /\ late' = late - 1
  /\ \E ok \in Ok : Flushed(ok, <<>>)
  /\ UNCHANGED <<page, touch, gestures, system>>

TranslatorNext ==
  \/ Type \/ ControlKey \/ System
  \/ TouchDown \/ TouchMove \/ TouchUp \/ Unresolved
  \/ Flush \/ Fires \/ FlushLate

(* Timers fire and goroutines get the mutex.                               *)
TranslatorFairness == WF_translatorVars(Fires) /\ WF_translatorVars(FlushLate)

TranslatorSpec == TranslatorInit /\ [][TranslatorNext]_translatorVars /\ TranslatorFairness

-----------------------------------------------------------------------------
(* The ranges of the variables; a gesture under way began somewhere.       *)
TranslatorTypeOK ==
  /\ sent \in 0..MaxFrame
  /\ finger \in Point \cup {NoPoint}
  /\ seen \in BOOLEAN /\ size \in BOOLEAN /\ down \in BOOLEAN
  /\ textBuf \in Seq(1..sent)
  /\ timer \in {"none", "armed", "fired"}
  /\ late \in Nat
  /\ start \in Point \cup {NoPoint} /\ (down => start # NoPoint)
  /\ device \in Seq(1..sent)
  /\ gestures \subseteq (1..sent) \X Point \X Point
  /\ system \subseteq 1..sent

(* Characters, control keys, taps and swipes reach the device once and in  *)
(* the order the page sent them, whatever timers fire late and calls fail, *)
(* and a failed call loses only what it carried (androidTranslator).       *)
Queue == INSTANCE InputQueue WITH offered <- sent, waiting <- textBuf, applied <- device
ImplementsInputQueue == Queue!Spec

(* Text never waits with nothing left to send it: its timer runs, or a     *)
(* callback is waiting for the mutex (key, flushTextLocked).               *)
FlushIsComing == textBuf # <<>> => timer = "armed" \/ late > 0

(* A tap or swipe begins where the page's finger went down, when that was  *)
(* handled, with whatever was typed, flushed and lost in between.          *)
GestureFromFinger ==
  [][seen => \A g \in gestures' \ gestures : g[2] = finger]_translatorVars

(* What the comment of textBuf says: text is flushed before any event that *)
(* is not typing.  The code does not do so before system gestures and      *)
(* legacy buttons.                                                         *)
TextBeforeSystem ==
  \A s \in system : \A i \in 1..Len(textBuf) : textBuf[i] > s
=============================================================================
