SPECIFICATION RegSpec
CONSTANTS
  File = {f1, f2}
  SttbEntries = 2
  TrtbEntries = 4
  MaxTracks = 2
  RA_MAX_CHANNELS = 3
  U8 = 3
  Stray <- MCStray
  RA_MAX_ETHERNET_PACKET_SIZE = 1460
  Input <- MCInput
  NULL = NULL
  RA_TRACK_TABLE_MUTE = MUTE
SYMMETRY Symmetry
INVARIANTS
  IInv
  PacketLengthMatches
  RegistersCatchUp
  OthersUndisturbed
PROPERTIES
  ActivationIsLast
  KeepsSending
  Implements
