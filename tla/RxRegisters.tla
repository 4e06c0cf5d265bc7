----------------------------- MODULE RxRegisters -----------------------------
(***************************************************************************)
(* The RX ioctls as the FPGA sees them.  The FPGA keeps receiving while    *)
(* the driver, holding rx->mutex, changes its tables one 32 bit register   *)
(* at a time.  RxStreams gives the bookkeeping and the tables each ioctl   *)
(* aims at (trtb, sttb); here the FPGA has its own copy of the tables, and *)
(* the ioctl in progress a queue of writes not yet made.                   *)
(***************************************************************************)
EXTENDS RxStreams, TableWrites

VARIABLES
  fpga_trtb,  \* the track table as it is in the FPGA
  fpga_sttb,  \* the stream table as it is in the FPGA
  pending,    \* the writes the holder of rx->mutex has yet to make
  closing     \* the streams ra_sd_rx_delete_streams has yet to come to

fpga == <<fpga_trtb, fpga_sttb>>
regVars == <<vars, fpga, pending, closing>>

\* The words of struct ra_stream_table_rx_fpga that matter here: 0-2 are the
\* addresses, 3 has the VLD bit, 5 the base address.
Words == <<{"primary", "secondary"}, {"num_channels", "misc_control"},
           {"trtp_base_addr"}>>

Zero == [primary |-> NoInterface, secondary |-> NoInterface,
         num_channels |-> 0, trtp_base_addr |-> 0, misc_control |-> {}]

\* Mutant: makes the entry valid in the first pass.
SetWritesAtOnce(i, e) ==
  stream_write(i, ra_stream_table_rx_set(e.stream, e.trtb_index), Words)

\* ra_stream_table_rx_set: all zero, everything but VLD, everything.
ra_stream_table_rx_set_writes(i, e) ==
  stream_write(i, Zero, Words)
    \o stream_write(i, ra_stream_table_rx_fill(e.stream, e.trtb_index), Words)
    \o stream_write(i, ra_stream_table_rx_set(e.stream, e.trtb_index), Words)

ra_sd_rx_free_stream_writes(i, e) ==
  ra_track_table_free_writes(i, e) \o stream_write(i, ra_stream_table_rx_del(fpga_sttb[i]), Words)

\* Mutant: activates the stream before its tracks are set.
PutSttbFirst(i) ==
  ra_stream_table_rx_set_writes(i, streams'[i])
    \o ra_track_table_set_writes(i, streams'[i])

\* What an ioctl writes for the stream it leaves in slot i.
PutWrites(i) ==
  ra_track_table_set_writes(i, streams'[i])
    \o ra_stream_table_rx_set_writes(i, streams'[i])

-----------------------------------------------------------------------------
RegInit ==
  /\ Init
  /\ fpga_trtb = trtb
  /\ fpga_sttb = sttb
  /\ pending = <<>>
  /\ closing = [i \in Index |-> NULL]

\* Nobody holds the mutex: no call has writes to make.
MutexFree == pending = <<>> /\ Live(closing) = {}

Starts(writes) ==
  /\ MutexFree
  /\ pending' = writes
  /\ UNCHANGED <<fpga, closing>>

RegOpen(f) == Open(f) /\ UNCHANGED <<fpga, pending, closing>>

RegAdd(f, s) ==
  /\ f \in files
  /\ \/ AddRefused(f, s) /\ Starts(<<>>)
     \/ Add(f, s) /\ Starts(PutWrites(last'.ret))

\* Mutant: the new area is written before the old one is muted.
RegUpdateFreesLast(f, i, s) ==
  /\ f \in files
  /\ \/ UpdateInPlace(f, i, s) /\ Starts(PutWrites(i))
     \/ /\ UpdateMoved(f, i, s) \/ UpdateRolledBack(f, i, s)
        /\ Starts(PutWrites(i) \o ra_track_table_free_writes(i, streams[i]))

RegUpdate(f, i, s) ==
  /\ f \in files
  /\ \/ UpdateRefused(f, i, s) /\ Starts(<<>>)
     \/ UpdateInPlace(f, i, s) /\ Starts(PutWrites(i))
     \/ /\ UpdateMoved(f, i, s) \/ UpdateRolledBack(f, i, s)
        /\ Starts(ra_track_table_free_writes(i, streams[i]) \o PutWrites(i))
     \/ /\ UpdateWarns(f, i, s)
        /\ Starts(ra_track_table_free_writes(i, streams[i]))

RegDelete(f, i) ==
  /\ f \in files
  /\ \/ DeleteRefused(f, i) /\ Starts(<<>>)
     \/ Delete(f, i) /\ Starts(ra_sd_rx_free_stream_writes(i, streams[i]))

RegRelease(f) ==
  /\ MutexFree
  /\ ra_sd_rx_delete_streams(f)
  /\ closing' = [i \in Index |-> IF i \in Live(streams) /\ streams[i].filp = f
                                   THEN streams[i] ELSE NULL]
  /\ UNCHANGED <<fpga, pending>>

\* xa_for_each of ra_sd_rx_delete_streams comes to the next of the streams.
FreeNext ==
  /\ pending = <<>>
  /\ \E i \in Live(closing) :
       /\ \A j \in Live(closing) : i <= j
       /\ pending' = ra_sd_rx_free_stream_writes(i, closing[i])
       /\ closing' = [closing EXCEPT ![i] = NULL]
  /\ UNCHANGED <<vars, fpga>>

Write ==
  /\ pending # <<>>
  /\ fpga_trtb' = TrtbAfter(fpga_trtb, Head(pending))
  /\ fpga_sttb' = SttbAfter(fpga_sttb, Head(pending))
  /\ pending' = Tail(pending)
  /\ UNCHANGED <<vars, closing>>

RegNext ==
  \/ Write
  \/ FreeNext
  \/ \E f \in File :
       \/ RegOpen(f)
       \/ \E s \in Input : RegAdd(f, s)
       \/ \E i \in CmdIndex, s \in Input : RegUpdate(f, i, s)
       \/ \E i \in CmdIndex : RegDelete(f, i)
       \/ RegRelease(f)

RegSpec == RegInit /\ [][RegNext]_regVars

-----------------------------------------------------------------------------
(* Properties                                                              *)

Valid(entry) == "VLD" \in entry.misc_control

\* The streams that the ioctl in progress is about.
Busy == {pending[k].index : k \in DOMAIN pending}

\* The track table entries, and the tracks, the FPGA serves for stream i.
FpgaArea(i) ==
  IF Valid(fpga_sttb[i])
    THEN Area(fpga_sttb[i].trtp_base_addr, fpga_sttb[i].num_channels)
    ELSE {}

FpgaTracks(i) == {fpga_trtb[x] : x \in FpgaArea(i) \cap Entry} \ {RA_TRACK_TABLE_MUTE}

\* Once an ioctl has made its writes, the FPGA has the tables it aimed at,
\* also where a stream moves into an area that overlaps its old one.
RegistersCatchUp == MutexFree => fpga_trtb = trtb /\ fpga_sttb = sttb

\* No register write of an ioctl disturbs, even for a moment, the reception of
\* a stream that the ioctl is not about.
OthersUndisturbed ==
  \A i \in Live(streams) \ Busy :
    /\ fpga_sttb[i] = sttb[i]
    /\ \A x \in AreaOf(streams[i]) : fpga_trtb[x] = trtb[x]

\* Between any two register writes, a valid entry covers no track table entry
\* of another stream, and no two streams are routed to one track.
NeverCrossRouted ==
  \A i, j \in Index : i # j =>
    /\ streams[j] # NULL => FpgaArea(i) \cap AreaOf(streams[j]) = {}
    /\ FpgaTracks(i) \cap FpgaTracks(j) = {}

\* "Now activate the stream and trigger a hash operation" comes last: the
\* write that makes an entry valid finds all its other words in place, and the
\* track table too, so the hash is taken of the final addresses.
ActivationIsLast ==
  [][\A i \in Index :
       ~Valid(fpga_sttb[i]) /\ Valid(fpga_sttb'[i]) =>
         /\ fpga_sttb'[i] = sttb[i]
         /\ \A x \in AreaOf(streams[i]) : fpga_trtb[x] = trtb[x]]_regVars

-----------------------------------------------------------------------------
(* The inductive invariant: what is left to be written, and what that      *)
(* means for the tables in the FPGA.                                       *)

Track == (0 .. MaxTracks - 1) \cup {RA_TRACK_TABLE_MUTE}

RegWrite ==
  [table : {"trtb"}, index : Index, at : Entry, value : Track]
    \cup [table : {"sttb"}, index : Index, at : {Words[1], Words[2], Words[3]},
          value : SttbEntry]

RegTypeOK ==
  /\ fpga_trtb \in [Entry -> Track]
  /\ fpga_sttb \in [Index -> SttbEntry]
  /\ pending \in Seq(RegWrite)
  /\ closing \in [Index -> Elem \cup {NULL}]

ToTrtb(k) == pending[k].table = "trtb"

\* All writes are for one stream.
OneStream == \A k, m \in DOMAIN pending : pending[k].index = pending[m].index

\* The writes to the stream table with which a call ends.
LastWrites(i) ==
  IF streams[i] = NULL THEN stream_write(i, sttb[i], Words)
                       ELSE ra_stream_table_rx_set_writes(i, streams[i])

\* The track table is written first and then the stream table.
WritesInOrder ==
  \A k \in DOMAIN pending :
    LET i == pending[k].index
        n == Len(pending) - Len(LastWrites(i))
    IN IF k <= n THEN ToTrtb(k) ELSE pending[k] = LastWrites(i)[k - n]

\* An entry on its way from old to new, by the number of writes that are left:
\* which of its fields are final, and when it is invalid.
Rewritten(now, new, left) ==
  /\ left \in 2 .. 7 => ~Valid(now)
  /\ left <= 5 => now.primary = new.primary /\ now.secondary = new.secondary
  /\ left <= 4 => now.num_channels = new.num_channels
  /\ left <= 3 => now.trtp_base_addr = new.trtp_base_addr
  /\ left <= 1 => now.misc_control = new.misc_control

\* An entry that is being deleted: only the control bits change.
Deleted(now, new, left) ==
  /\ now.primary = new.primary /\ now.secondary = new.secondary
  /\ now.num_channels = new.num_channels
  /\ now.trtp_base_addr = new.trtp_base_addr
  /\ left <= 1 => now.misc_control = new.misc_control

StreamTableFollows ==
  \A i \in Index :
    /\ i \in Busy =>
         IF streams[i] = NULL THEN Deleted(fpga_sttb[i], sttb[i], Len(pending))
                              ELSE Rewritten(fpga_sttb[i], sttb[i], Len(pending))
    /\ i \notin Busy /\ closing[i] = NULL => fpga_sttb[i] = sttb[i]

\* The last write to an entry of the track table is the right one, and what is
\* not to be written is right already.
TrackTableFollows ==
  /\ \A k \in DOMAIN pending :
       ToTrtb(k) /\ (\A m \in DOMAIN pending :
                       m > k /\ ToTrtb(m) => pending[m].at # pending[k].at)
         => pending[k].value = trtb[pending[k].at]
  /\ \A x \in Entry :
       /\ \A k \in DOMAIN pending : ToTrtb(k) => pending[k].at # x
       /\ \A i \in Live(closing) : x \notin AreaOf(closing[i])
       => fpga_trtb[x] = trtb[x]

\* The streams that ra_sd_rx_delete_streams has yet to come to are as they were,
\* and their areas are nobody else's.
ClosingUntouched ==
  \A i \in Live(closing) :
    /\ streams[i] = NULL /\ i \notin Busy
    /\ fpga_sttb[i] = ra_stream_table_rx_set(closing[i].stream, closing[i].trtb_index)
    /\ sttb[i] = ra_stream_table_rx_del(fpga_sttb[i])
    /\ AreaOf(closing[i]) \subseteq Entry \ used_entries
    /\ \A j \in Live(closing) \ {i} : AreaOf(closing[i]) \cap AreaOf(closing[j]) = {}

\* A write to the track table is to no entry that another stream has or the FPGA
\* serves for another, and routes no channel to a track that is another's.
WritesApart ==
  \A k \in DOMAIN pending : \A j \in Index \ {pending[k].index} : ToTrtb(k) =>
    /\ pending[k].at \notin FpgaArea(j)
    /\ pending[k].value \notin FpgaTracks(j)
    /\ streams[j] # NULL => /\ pending[k].at \notin AreaOf(streams[j])
                            /\ pending[k].value \notin ActiveTracks(streams[j].stream)
    /\ closing[j] # NULL => pending[k].at \notin AreaOf(closing[j])

\* The FPGA receives into no track that is another stream's.
TracksApart ==
  \A i \in Live(streams), j \in Index :
    i # j => ActiveTracks(streams[i].stream) \cap FpgaTracks(j) = {}

RegIInv ==
  /\ IInv /\ RegTypeOK /\ OneStream /\ WritesInOrder /\ StreamTableFollows
  /\ TrackTableFollows /\ ClosingUntouched /\ WritesApart /\ TracksApart
  /\ NeverCrossRouted

=============================================================================
