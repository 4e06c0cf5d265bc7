SPECIFICATION RegSpec
CONSTANTS
  File = {f1, f2}
  SttbEntries = 2
  TrtbEntries = 4
  MaxTracks = 4
  RA_MAX_CHANNELS = 4
  Input <- MCInput
  NULL = NULL
  RA_TRACK_TABLE_MUTE = MUTE
SYMMETRY Symmetry
INVARIANTS
  IInv
  RollbackHasRoom
  RegistersCatchUp
  OthersUndisturbed
  NeverCrossRouted
PROPERTIES
  ActivationIsLast
  Implements
