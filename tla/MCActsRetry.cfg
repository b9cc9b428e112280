SPECIFICATION Spec
CONSTANTS
  Sender = {r1, r2}
  MaxSidecar = 2
  r1 = r1
  r2 = r2
  key = key
  tap = tap
  ActId <- MCActId
  Asked <- MCAsked
  Frames <- MCFrames
  Remembered = 1
INVARIANT NoDoubleTap
CHECK_DEADLOCK FALSE
