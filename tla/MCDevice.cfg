SPECIFICATION MCSpec
CONSTANTS
  File = {f1, f2}
  MaxStreams = 2
  Width = 3
  Drivers = {"d1", "d2"}
\* The kernel stops in BUG_ON.
CHECK_DEADLOCK FALSE
INVARIANTS
  ClientsFindTables
  OnlyEarlyStreamsUnhashed
  MaskAgrees
PROPERTIES
  DestroyFindsOnlyHeld
  LineServed
