SPECIFICATION TranslatorSpec
CONSTANTS
  Point = {q1, q2}
  NoPoint = NoPoint
  MaxFrame = 5
INVARIANT TextBeforeSystem
CHECK_DEADLOCK FALSE
