\* A session ended while its warm-up was under way.
SPECIFICATION Spec
CONSTANTS
  Client = {c1}
  Ender = {e1}
  MaxMade = 2
  MaxRun = 2
INVARIANT ReadyIsFresh
