----------------------------- MODULE TxRegisters -----------------------------
(***************************************************************************)
(* The TX ioctls as the FPGA sees them: TxStreams with the FPGA's own copy *)
(* of the tables and the queue of register writes that the holder of       *)
(* tx->mutex has yet to make (compare RxRegisters).  Unlike RX, an update  *)
(* does not invalidate the entry first, so that the stream keeps sending.  *)
(***************************************************************************)
EXTENDS TxStreams, TableWrites

VARIABLES
  fpga_trtb,  \* the track table as it is in the FPGA
  fpga_sttb,  \* the stream table as it is in the FPGA
  pending,    \* the writes the holder of tx->mutex has yet to make
  closing     \* the streams ra_sd_tx_delete_streams has yet to come to

fpga == <<fpga_trtb, fpga_sttb>>
regVars == <<vars, fpga, pending, closing>>

\* Words 0, 1 and 8 of struct ra_stream_table_tx_fpga.
Words == <<{"trtp_base_addr", "codec", "misc_control"},
           {"num_channels", "num_samples"}, {"ip_total_len"}>>

\* Mutant: one pass, valid at once.
SetWritesAtOnce(i, e, invalidate) ==
  stream_write(i, ra_stream_table_tx_set(e.stream, e.trtb_index,
                    ra_sd_tx_stream_ip_length(e.stream)), Words)

\* Mutant: every update invalidates the entry.
SetWritesInvalidate(i, e, invalidate) ==
  LET len == ra_sd_tx_stream_ip_length(e.stream) IN
  stream_write(i, ra_stream_table_tx_fill(e.stream, e.trtb_index, len), Words)
    \o stream_write(i, ra_stream_table_tx_set(e.stream, e.trtb_index, len), Words)

ra_stream_table_tx_set_writes(i, e, invalidate) ==
  LET len == ra_sd_tx_stream_ip_length(e.stream) IN
  (IF invalidate
     THEN stream_write(i, ra_stream_table_tx_fill(e.stream, e.trtb_index, len), Words)
     ELSE <<>>)
    \o stream_write(i, ra_stream_table_tx_set(e.stream, e.trtb_index, len), Words)

ra_sd_tx_free_stream_writes(i, e) ==
  ra_track_table_free_writes(i, e) \o stream_write(i, ra_stream_table_tx_del, Words)

\* ra_track_table_set writes what it reads for each channel: that of trtb'.
TrackWrites(i, e) ==
  [k \in 1 .. e.stream.num_channels |->
     TrtbWrite(i, e.trtb_index + k - 1, trtb'[e.trtb_index + k - 1])]

\* What an ioctl writes for the stream it leaves in slot i.
PutWrites(i, invalidate) ==
  TrackWrites(i, streams'[i])
    \o ra_stream_table_tx_set_writes(i, streams'[i], invalidate)

-----------------------------------------------------------------------------
RegInit ==
  /\ Init
  /\ fpga_trtb = trtb
  /\ fpga_sttb = sttb
  /\ pending = <<>>
  /\ closing = [i \in Index |-> NULL]

\* Nobody holds the mutex: no call has writes to make.
MutexFree == pending = <<>> /\ Live(closing) = {}

Starts(writes) ==
  /\ MutexFree
  /\ pending' = writes
  /\ UNCHANGED <<fpga, closing>>

RegOpen(f) == Open(f) /\ UNCHANGED <<fpga, pending, closing>>

RegAdd(f, s) ==
  /\ f \in files
  /\ \/ AddRefused(f, s) /\ Starts(<<>>)
     \/ Add(f, s) /\ Starts(PutWrites(last'.ret, TRUE))

\* Mutant: the new area is written before the old one is muted.
RegUpdateFreesLast(f, i, s) ==
  /\ f \in files
  /\ \/ UpdateInPlace(f, i, s) /\ Starts(PutWrites(i, FALSE))
     \/ /\ UpdateMoved(f, i, s) \/ UpdateRolledBack(f, i, s)
        /\ Starts(PutWrites(i, FALSE) \o ra_track_table_free_writes(i, streams[i]))

RegUpdate(f, i, s) ==
  /\ f \in files
  /\ \/ UpdateRefused(f, i, s) /\ Starts(<<>>)
     \/ UpdateInPlace(f, i, s) /\ Starts(PutWrites(i, FALSE))
     \/ /\ UpdateMoved(f, i, s) \/ UpdateRolledBack(f, i, s)
        /\ Starts(ra_track_table_free_writes(i, streams[i]) \o PutWrites(i, FALSE))
     \/ /\ UpdateWarns(f, i, s)
        /\ Starts(ra_track_table_free_writes(i, streams[i]))

RegDelete(f, i) ==
  /\ f \in files
  /\ \/ DeleteRefused(f, i) /\ Starts(<<>>)
     \/ Delete(f, i) /\ Starts(ra_sd_tx_free_stream_writes(i, streams[i]))

RegRelease(f) ==
  /\ MutexFree
  /\ ra_sd_tx_delete_streams(f)
  /\ closing' = [i \in Index |-> IF i \in Live(streams) /\ streams[i].filp = f
                                   THEN streams[i] ELSE NULL]
  /\ UNCHANGED <<fpga, pending>>

\* xa_for_each of ra_sd_tx_delete_streams comes to the next of the streams.
FreeNext ==
  /\ pending = <<>>
  /\ \E i \in Live(closing) :
       /\ \A j \in Live(closing) : i <= j
       /\ pending' = ra_sd_tx_free_stream_writes(i, closing[i])
       /\ closing' = [closing EXCEPT ![i] = NULL]
  /\ UNCHANGED <<vars, fpga>>

Write ==
  /\ pending # <<>>
  /\ fpga_trtb' = TrtbAfter(fpga_trtb, Head(pending))
  /\ fpga_sttb' = SttbAfter(fpga_sttb, Head(pending))
  /\ pending' = Tail(pending)
  /\ UNCHANGED <<vars, closing>>

RegNext ==
  \/ Write
  \/ FreeNext
  \/ \E f \in File :
       \/ RegOpen(f)
       \/ \E s \in Input : RegAdd(f, s)
       \/ \E i \in CmdIndex, s \in Input : RegUpdate(f, i, s)
       \/ \E i \in CmdIndex : RegDelete(f, i)
       \/ RegRelease(f)

RegSpec == RegInit /\ [][RegNext]_regVars

-----------------------------------------------------------------------------
(* Properties                                                              *)

Valid(entry) == "VLD" \in entry.misc_control

\* The streams that the ioctl in progress is about.
Busy == {pending[k].index : k \in DOMAIN pending}

FpgaArea(i) ==
  IF Valid(fpga_sttb[i])
    THEN Area(fpga_sttb[i].trtp_base_addr, fpga_sttb[i].num_channels)
    ELSE {}

\* Once an ioctl has made its writes, the FPGA has the tables it aimed at,
\* also where a stream moves into an area that overlaps its old one.
RegistersCatchUp == MutexFree => fpga_trtb = trtb /\ fpga_sttb = sttb

\* No register write of an ioctl disturbs, even for a moment, what the FPGA
\* sends for a stream that the ioctl is not about.
OthersUndisturbed ==
  \A i \in Live(streams) \ Busy :
    /\ fpga_sttb[i] = sttb[i]
    /\ \A x \in AreaOf(streams[i]) : fpga_trtb[x] = trtb[x]

\* A new stream starts to send only when its entry and its tracks are complete.
ActivationIsLast ==
  [][\A i \in Index :
       ~Valid(fpga_sttb[i]) /\ Valid(fpga_sttb'[i]) =>
         /\ fpga_sttb'[i] = sttb[i]
         /\ \A x \in AreaOf(streams[i]) : fpga_trtb[x] = trtb[x]]_regVars

\* ra_stream_table_tx_set is told not to invalidate on updates: a stream that
\* sends keeps sending through every update and rollback, until it is deleted.
KeepsSending ==
  [][\A i \in Index : Valid(fpga_sttb[i]) /\ streams[i] # NULL =>
       Valid(fpga_sttb'[i])]_regVars

\* "for each active stream, a range of consecutive tracks is allocated in the
\* track table for all of its channels" (README.md:255): a stream never sends
\* from the range of another.
NeverForeignArea ==
  \A i, j \in Index : i # j /\ streams[j] # NULL =>
    FpgaArea(i) \cap AreaOf(streams[j]) = {}

-----------------------------------------------------------------------------
(* The inductive invariant: what is left to be written, and what that      *)
(* means for the tables in the FPGA.                                       *)

RegWrite ==
  [table : {"trtb"}, index : Index, at : Entry, value : Track]
    \cup [table : {"sttb"}, index : Index, at : {Words[1], Words[2], Words[3]},
          value : SttbEntry]

RegTypeOK ==
  /\ fpga_trtb \in [Entry -> Track]
  /\ fpga_sttb \in [Index -> SttbEntry]
  /\ pending \in Seq(RegWrite)
  /\ closing \in [Index -> Elem \cup {NULL}]

ToTrtb(k) == pending[k].table = "trtb"

\* All writes are for one stream.
OneStream == \A k, m \in DOMAIN pending : pending[k].index = pending[m].index

\* A stream that was added, until the write that makes its entry valid.
Activating(i) == streams[i] # NULL /\ ~Valid(fpga_sttb[i])

\* The entry of a stream before it is activated.
Filled(e) ==
  ra_stream_table_tx_fill(e.stream, e.trtb_index, ra_sd_tx_stream_ip_length(e.stream))

\* The track table is written first; then the words of the stream table entry,
\* and before them those of the entry that is not yet valid, for a new stream.
WritesInOrder ==
  \A k \in DOMAIN pending :
    LET i == pending[k].index
        left == Len(pending) - k + 1
    IN IF left <= 3 THEN pending[k] = stream_write(i, sttb[i], Words)[4 - left]
       ELSE IF left <= 6 /\ Activating(i)
         THEN pending[k] = stream_write(i, Filled(streams[i]), Words)[7 - left]
       ELSE ToTrtb(k)

\* Which words of an entry are final, by the number of writes that are left.
Rewritten(now, new, left) ==
  /\ left <= 2 => /\ now.trtp_base_addr = new.trtp_base_addr /\ now.codec = new.codec
                  /\ now.misc_control = new.misc_control
  /\ left <= 1 => now.num_channels = new.num_channels /\ now.num_samples = new.num_samples

\* The same for an entry that is not valid yet: all but the control bits.
FilledIn(now, new, left) ==
  /\ left <= 5 => now.trtp_base_addr = new.trtp_base_addr /\ now.codec = new.codec
  /\ left <= 4 => now.num_channels = new.num_channels /\ now.num_samples = new.num_samples
  /\ left <= 3 => now.ip_total_len = new.ip_total_len

StreamTableFollows ==
  \A i \in Index :
    /\ i \in Busy => Rewritten(fpga_sttb[i], sttb[i], Len(pending))
    /\ i \in Busy /\ Activating(i) => FilledIn(fpga_sttb[i], sttb[i], Len(pending))
    /\ i \notin Busy /\ closing[i] = NULL => fpga_sttb[i] = sttb[i]

\* The last write to an entry of the track table is the right one, and what is
\* not to be written is right already.
TrackTableFollows ==
  /\ \A k \in DOMAIN pending :
       ToTrtb(k) /\ (\A m \in DOMAIN pending :
                       m > k /\ ToTrtb(m) => pending[m].at # pending[k].at)
         => pending[k].value = trtb[pending[k].at]
  /\ \A x \in Entry :
       /\ \A k \in DOMAIN pending : ToTrtb(k) => pending[k].at # x
       /\ \A i \in Live(closing) : x \notin AreaOf(closing[i])
       => fpga_trtb[x] = trtb[x]

\* The areas of the streams that ra_sd_tx_delete_streams has yet to come to are
\* nobody else's.
ClosingUntouched ==
  \A i \in Live(closing) :
    /\ streams[i] = NULL /\ i \notin Busy
    /\ AreaOf(closing[i]) \subseteq Entry \ used_entries

\* A write to the track table is to no entry that another stream has.
WritesApart ==
  \A k \in DOMAIN pending : \A j \in Live(streams) \ {pending[k].index} :
    ToTrtb(k) => pending[k].at \notin AreaOf(streams[j])

RegIInv ==
  /\ IInv /\ RegTypeOK /\ OneStream /\ WritesInOrder /\ StreamTableFollows
  /\ TrackTableFollows /\ ClosingUntouched /\ WritesApart

=============================================================================
