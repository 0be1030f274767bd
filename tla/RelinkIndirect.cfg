CONSTANTS
  PathOrder <- MCPathOrder
  Menus <- MCRenamed
  Tearable <- MCNoMenus
  Absent <- MCAbsent
  MaxPending = 2
SPECIFICATION Spec
INVARIANT ScopedEqualsGlobal
CHECK_DEADLOCK FALSE
