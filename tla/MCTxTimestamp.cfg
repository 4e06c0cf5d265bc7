SPECIFICATION TsSpec
CONSTANTS
  Packets = 4
  Seq_id <- MCIds
  Short <- MCShort
  RA_NET_TX_SKB_LIST_SIZE = 3
  RA_NET_TX_TS_LIST_SIZE = 3
  MaxResets = 1
  NULL = NULL
INVARIANTS
  SkbsAccounted
  StampIsOwn
PROPERTIES
  GivesUpOnlyUnstamped
  EverySkbLeaves
