----------------------------- MODULE TableWrites -----------------------------
(***************************************************************************)
(* The register writes behind an update of the FPGA tables, in the order   *)
(* the CPU issues them.  A write carries the index of the stream it is     *)
(* made for.  __iowrite32_copy writes the words of a stream table entry in *)
(* ascending order; a word is given as the set of entry fields in it.      *)
(***************************************************************************)
EXTENDS TrackTable, Sequences

TrtbWrite(index, x, v) == [table |-> "trtb", index |-> index, at |-> x, value |-> v]

ra_track_table_set_writes(index, e) ==
  [i \in 1 .. e.stream.num_channels |->
     TrtbWrite(index, e.trtb_index + i - 1,
               IF e.stream.tracks[i - 1] >= 0 THEN e.stream.tracks[i - 1]
                                              ELSE RA_TRACK_TABLE_MUTE)]

\* Mutant: frees one entry too many.
FreeWritesOneMore(index, e) ==
  [i \in 1 .. e.stream.num_channels + 1 |->
     TrtbWrite(index, e.trtb_index + i - 1, RA_TRACK_TABLE_MUTE)]

ra_track_table_free_writes(index, e) ==
  [i \in 1 .. e.stream.num_channels |->
     TrtbWrite(index, e.trtb_index + i - 1, RA_TRACK_TABLE_MUTE)]

\* One pass over a stream table entry, word by word.
stream_write(index, entry, words) ==
  [i \in 1 .. Len(words) |->
     [table |-> "sttb", index |-> index, at |-> words[i], value |-> entry]]

\* The tables after one write.
TrtbAfter(trtb, w) ==
  IF w.table = "trtb" THEN [trtb EXCEPT ![w.at] = w.value] ELSE trtb

SttbAfter(sttb, w) ==
  IF w.table = "sttb"
    THEN [sttb EXCEPT ![w.index] =
            [field \in DOMAIN @ |-> IF field \in w.at THEN w.value[field]
                                                      ELSE @[field]]]
    ELSE sttb

=============================================================================
