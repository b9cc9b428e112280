SPECIFICATION MCSpec
CONSTANTS
  Conn = {c1, c2}
  NoConn = NoConn
  a = a
  b = b
  Build = {a, b}
  Process = {p1}
  Ships <- MCShips
  Apk = {"d", "e"}
  Printer = {q1, q2}
  Key = {k1, k2}
  Window = 2
  MaxSeen = 1
  MaxLine = 3
  MaxClock = 3
  Device = {d1}
  Driven = {d1, d2}
  Handler = {h1, h2}
  None = None
  Nil = Nil
  ReqHandler = {h1}
  Setter = {h1, h2}
  Nothing = Nothing
  Token = TRUE
  NameLists <- MCNameLists
  Declared = {"READ_MEDIA_IMAGES", "READ_EXTERNAL_STORAGE"}
  Releases <- MCReleases
  Floor <- MCFloor
  MaxListed = 2
  MaxLines = 3
INVARIANTS
  NoOrphanContact
  LetGoIsOff
  Resolves
  EachAnsweredOnce
  OnlyAsAsked
  AppliedIsDone
  DriversWhole
  NothingPrintedIsLost
  SaidLately
  StartsAsAsked
PROPERTIES
  DeadDriverFreed
  ImplementsDriverLock
  ServeReturns
CHECK_DEADLOCK FALSE
