SPECIFICATION TsSpec
CONSTANTS
  Packets = 3
  Seq_id <- MCGrowing
  Short <- MCShort
  RA_NET_TX_SKB_LIST_SIZE = 3
  RA_NET_TX_TS_LIST_SIZE = 3
  MaxResets = 1
  NULL = NULL
PROPERTY
  DrainsOnlyLost
