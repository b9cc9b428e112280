--------------------------- MODULE AndroidCapture ---------------------------
(***************************************************************************)
(* RunAndroidCapture (internal/video/android.go, emugrpc.go, emuh264.go):  *)
(* the process that captures an emulator's screen.  Its loop runs one      *)
(* source after another - a stream of the emulator, or a screenrecord -    *)
(* while readCommands serves the requests for a keyframe and the end of    *)
(* standard input, which must stop a source the loop may just be starting. *)
(***************************************************************************)
EXTENDS Naturals

CONSTANTS Forced,      \* values DEVICEDECK_ANDROID_CAPTURE may have
          MaxStream,   \* streams that may fail: 3
          MaxFast      \* cycles that may fail at once, in a row: 5

VARIABLES
  forced, path,   \* the path forced, and the one taken: "stream" or "record"
  loop,           \* where the loop is
  alive,          \* the source runs
  registered,     \* c.current or c.cancelStream is the source's
  age,            \* 2 s went by: 0 no, 1 since it started, 2 since registered
  cut,            \* a request for a keyframe ended it
  failures, fast, \* streamGRPC's and runScreenrecordLoop's counts
  closed,
  reader, held    \* where readCommands is, and whose handle it holds

sourceVars == <<alive, registered, age, cut>>
captureVars == <<forced, path, loop, sourceVars, failures, fast, closed, reader, held>>

CaptureInit ==
  /\ forced \in Forced /\ path = "none" /\ loop = "choose"
  /\ alive = FALSE /\ registered = FALSE /\ age = 0 /\ cut = FALSE
  /\ failures = 0 /\ fast = 0 /\ closed = FALSE
  /\ reader = "read" /\ held = "none"

-----------------------------------------------------------------------------
(* RunAndroidCapture: the emulator's stream when it has a discovery file.  *)
Record == path' = "record" /\ loop' = "start"
Choose ==
  /\ loop = "choose"
  /\ \/ forced # "screenrecord" /\ path' = "stream" /\ loop' = "start"
     \/ forced = "h264" /\ loop' = "ended" /\ UNCHANGED path
     \/ forced # "h264" /\ Record
  /\ UNCHANGED <<forced, sourceVars, failures, fast, closed, reader, held>>

(* A stream's context is made, or a screenrecord started; a handle that    *)
(* readCommands holds is now an old one.                                   *)
StartSource ==
  /\ loop = "start" /\ loop' = "started"
  /\ alive' = TRUE /\ registered' = FALSE /\ age' = 0 /\ cut' = FALSE
  /\ held' = (IF held = "this" THEN "old" ELSE held)
  /\ UNCHANGED <<forced, path, failures, fast, closed, reader>>

(* runOnce and setCancel register it under the lock; one that the end of   *)
(* input could not find is stopped here.  Mutant: it is not.               *)
RegisterOnly ==
  /\ loop = "started" /\ registered' = TRUE /\ loop' = "running"
  /\ UNCHANGED <<forced, path, alive, age, cut, failures, fast, closed, reader, held>>
Register ==
  /\ loop = "started" /\ registered' = TRUE
  /\ loop' = (IF closed THEN "stop" ELSE "running")
  /\ UNCHANGED <<forced, path, alive, age, cut, failures, fast, closed, reader, held>>
StopOwn ==
  /\ loop = "stop" /\ loop' = "running" /\ alive' = FALSE
  /\ UNCHANGED <<forced, path, registered, age, cut, failures, fast, closed, reader, held>>

(* A source ends by itself: a stream breaks, adb fails, three minutes are  *)
(* over.                                                                   *)
Breaks ==
  /\ alive /\ alive' = FALSE
  /\ UNCHANGED <<forced, path, loop, registered, age, cut, failures, fast, closed, reader, held>>
Ages ==
  /\ alive /\ age < (IF registered THEN 2 ELSE 1) /\ age' = age + 1
  /\ UNCHANGED <<forced, path, loop, alive, registered, cut, failures, fast, closed, reader, held>>

(* streamGRPC counts failures; after the last, the loop falls back to      *)
(* screenrecord unless the path was forced.                                *)
StreamEnds ==
  /\ path = "stream" /\ loop = "running" /\ ~alive
  /\ IF closed THEN loop' = "ended" /\ UNCHANGED <<path, failures>>
     ELSE /\ failures' = failures + 1
          /\ IF failures + 1 < MaxStream THEN loop' = "start" /\ UNCHANGED path
             ELSE IF forced \in {"grpc", "h264"} THEN loop' = "ended" /\ UNCHANGED path
             ELSE Record
  /\ UNCHANGED <<forced, sourceVars, fast, closed, reader, held>>

(* runScreenrecordLoop, from a cycle that failed: one of less than 2 s     *)
(* counts, a longer one begins the count again.                            *)
Again ==
  IF age = 0
  THEN /\ fast' = fast + 1
       /\ loop' = (IF fast + 1 >= MaxFast THEN "ended" ELSE "start")
  ELSE fast' = 0 /\ loop' = "start"
NotStarted ==
  /\ path = "record" /\ loop = "started" /\ age = 0 /\ alive' = FALSE /\ Again
  /\ UNCHANGED <<forced, path, registered, age, cut, failures, closed, reader, held>>
CycleEnds ==
  /\ path = "record" /\ loop = "running" /\ ~alive
  /\ IF closed THEN loop' = "ended" /\ UNCHANGED fast ELSE Again
  /\ UNCHANGED <<forced, path, sourceVars, failures, closed, reader, held>>

-----------------------------------------------------------------------------
(* readCommands and requestKeyframe: the encoder is asked when there is    *)
(* one; otherwise a still is sent, then the process is looked up and, if   *)
(* it is not a young one, killed.  Mutant: a young one too.                *)
Handle == IF registered THEN "this" ELSE "old"
Keyframe ==
  /\ reader = "read" /\ reader' = (IF forced = "h264" THEN "read" ELSE "still")
  /\ UNCHANGED <<forced, path, loop, sourceVars, failures, fast, closed, held>>
LookAny ==
  /\ reader = "still"
  /\ IF path = "record" THEN reader' = "cut" /\ held' = Handle
     ELSE reader' = "read" /\ UNCHANGED held
  /\ UNCHANGED <<forced, path, loop, sourceVars, failures, fast, closed>>
Look ==
  /\ reader = "still"
  /\ IF path = "record" /\ (~registered \/ age = 2) THEN reader' = "cut" /\ held' = Handle
     ELSE reader' = "read" /\ UNCHANGED held
  /\ UNCHANGED <<forced, path, loop, sourceVars, failures, fast, closed>>
Kill(then, keyframe) ==
  /\ reader' = then /\ held' = "none"
  /\ alive' = (alive /\ held # "this")
  /\ cut' = (cut \/ (keyframe /\ alive /\ held = "this"))
  /\ UNCHANGED <<forced, path, loop, registered, age, failures, fast, closed>>
CutKills == reader = "cut" /\ Kill("read", TRUE)

Eof ==
  /\ reader = "read" /\ reader' = "closing" /\ closed' = TRUE /\ held' = Handle
  /\ UNCHANGED <<forced, path, loop, sourceVars, failures, fast>>
CloseKills == reader = "closing" /\ Kill("done", FALSE)

CaptureLoop == Choose \/ StartSource \/ Register \/ StopOwn \/ StreamEnds \/ NotStarted \/ CycleEnds
Reader == Look \/ CutKills \/ CloseKills
CaptureNext == CaptureLoop \/ Reader \/ Breaks \/ Ages \/ Keyframe \/ Eof

(* Its two goroutines run, and adb answers when asked for a still.         *)
CaptureFairness == WF_captureVars(CaptureLoop) /\ WF_captureVars(Reader)
CaptureSpec == CaptureInit /\ [][CaptureNext]_captureVars /\ CaptureFairness

-----------------------------------------------------------------------------
(* The end of input ends the capture, whatever the loop was doing when it  *)
(* came: no source that was just being started is left running.            *)
CaptureEnds == closed ~> loop = "ended" /\ ~alive

(* Viewers who join never make the capture give up: a cycle that a request *)
(* for a keyframe ended is not one of the quick failures that are counted. *)
QuickFailuresAreReal == [][fast' > fast => ~cut]_captureVars
=============================================================================
