\* Two drivers, one taking over from the other.
SPECIFICATION Spec
CONSTANTS
  Conn = {c1, c2}
  Device = {d1}
  NoConn = NoConn
INVARIANT DriverFingerDown
CHECK_DEADLOCK FALSE
