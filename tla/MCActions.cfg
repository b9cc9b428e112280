SPECIFICATION MCSpec
CONSTANTS
  Sender = {r1, r2}
  MaxSidecar = 2
  r1 = r1
  r2 = r2
  key = key
  tap = tap
  ActId <- MCActId
  Asked <- MCAsked
  Frames <- MCFrames
  Remembered = 1
  Point = {p, q}
  NoPoint = NoPoint
  MaxFrame = 5
  Shown = {s1, s2}
  Offers = {s2}
  Focus = {f1, f2}
  Quiet = 2
  Cap = 2
  Window = 1
  Late = 1
  Attempts = 3
  Forced = {"none", "grpc", "h264", "screenrecord"}
  MaxStream = 3
  MaxFast = 5
  Nals <- MCNals
  Sizes = {1, 2, 4, 7, 11}
  MaxChunk = 2
INVARIANTS
  NoSidecarLeaked
  FrameOnce
  SettledIsQuiet
  LaunchNotLost
  UnitsWhole
PROPERTIES
  AnsweredActsOnce
  ImplementsInputQueue
  WaitsEnd
  CaptureEnds
  QuickFailuresAreReal
  NotHeldBack
CHECK_DEADLOCK FALSE
