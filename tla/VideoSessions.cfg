SPECIFICATION Spec
CONSTANTS
  Viewer = {v1, v2}
  MaxSession = 2
  Free = Free
  Exit = Exit
INVARIANTS
  CapturesHeld
PROPERTIES
  UnwatchedEnds
  ViewersToldOfEnd
  ManagerNotStuck
CHECK_DEADLOCK FALSE
