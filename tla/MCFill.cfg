SPECIFICATION FillSpec
CONSTANTS
  Field = {1, 2}
  EndsWith <- MCEndsWith
  Long = {1}
  MaxMove = 2
INVARIANT FillsNamed
CHECK_DEADLOCK FALSE
