SPECIFICATION RefsSpec
CONSTANTS
  ElementKind <- MCElementKind
  Interactive = {"button"}
  MaxUid = 3
INVARIANT GoneRefFails
CHECK_DEADLOCK FALSE
