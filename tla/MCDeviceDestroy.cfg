SPECIFICATION MCSpec
CONSTANTS
  File = {f1, f2}
  MaxStreams = 2
  Width = 3
  Drivers = {"d1", "d2"}
CHECK_DEADLOCK FALSE
INVARIANT
  DestroyFindsNone
