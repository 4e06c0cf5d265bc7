------------------------------ MODULE TxStreams ------------------------------
(***************************************************************************)
(* The TX half of the stream device (modules/stream-device/tx.c with       *)
(* track-table.c and stream-table-tx.c).  It differs from the RX half in   *)
(* what it checks: a track may feed any number of streams, so there is no  *)
(* used_tracks, and a packet must fit an Ethernet frame.  tx->mutex covers *)
(* each ioctl, which is one action here.  TxRegisters.tla opens them up.   *)
(***************************************************************************)
EXTENDS TrackTable, StreamTypes

CONSTANTS
  File,             \* struct file pointers
  SttbEntries,      \* tx->sttb.max_entries
  MaxTracks,        \* priv->max_tracks
  RA_MAX_CHANNELS,  \* length of tracks[] in the ioctl argument
  U8,               \* 256: num_channels is a __u8 of the table entry
  Stray,            \* what the memory behind tracks[] may hold
  RA_MAX_ETHERNET_PACKET_SIZE,
  Input,            \* the ra_sd_tx_stream records clients pass in
  NULL              \* an empty slot of the xarray

Interface ==
  [destination_ip : Nat, destination_port : Nat, source_ip : Nat,
   source_port : Nat, vlan_tag : Nat]

Stream ==
  [primary : Interface, secondary : Interface,
   use_primary : BOOLEAN, use_secondary : BOOLEAN,
   vlan_tagged : BOOLEAN, codec : Nat, rtp_payload_type : Nat, dscp_tos : Nat,
   rtp_ssrc : Nat, num_samples : 0 .. 255, num_channels : Nat, active : BOOLEAN,
   tracks : [0 .. RA_MAX_CHANNELS - 1 -> Int]]

ASSUME TxAssumption ==
  /\ SttbEntries \in Nat
  /\ MaxTracks \in Nat
  /\ MaxTracks <= 256
  /\ RA_MAX_CHANNELS \in Nat
  /\ U8 \in Nat \ {0}
  /\ U8 <= RA_MAX_CHANNELS
  /\ Stray \subseteq Int
  /\ Stray # {}
  /\ RA_MAX_ETHERNET_PACKET_SIZE \in Nat
  /\ RA_MAX_ETHERNET_PACKET_SIZE <= 1460
  /\ Input \subseteq Stream
  /\ NULL \notin [filp : File, stream : Stream, trtb_index : Nat]

VARIABLES
  files,         \* open files of the misc device
  streams,       \* tx->streams: index -> ra_sd_tx_stream_elem or NULL
  used_entries,  \* tx->trtb.used_entries
  trtb,          \* TX track table in the FPGA
  sttb,          \* TX stream table in the FPGA
  last,          \* who made the last system call, and what it returned
  warned         \* WARN_ON() in ra_sd_tx_update_stream_ioctl has fired

vars == <<files, streams, used_entries, trtb, sttb, last, warned>>

Index == 0 .. SttbEntries - 1

Live(strs) == {i \in Index : strs[i] # NULL}

AreaOf(e) == Area(e.trtb_index, e.stream.num_channels)

-----------------------------------------------------------------------------
(* Validation of ioctl arguments.                                          *)

ra_sd_tx_validate_stream_interface(iface, vlan) ==
  /\ iface.destination_ip # 0
  /\ iface.destination_port # 0
  /\ iface.source_ip # 0
  /\ iface.source_port # 0
  /\ vlan => iface.vlan_tag <= 4095

ra_sd_tx_validate_stream(s) ==
  /\ s.use_primary \/ s.use_secondary
  /\ s.use_primary =>
       ra_sd_tx_validate_stream_interface(s.primary, s.vlan_tagged)
  /\ s.use_secondary =>
       ra_sd_tx_validate_stream_interface(s.secondary, s.vlan_tagged)
  /\ s.dscp_tos < 64
  /\ s.rtp_ssrc # 0
  /\ ra_sd_validate_rtp_payload_type(s.rtp_payload_type, s.num_channels, s.codec)
  /\ s.codec < RA_STREAM_CODEC_MAX
  /\ \A i \in 0 .. RA_MAX_CHANNELS - 1 : s.tracks[i] < MaxTracks

\* IP, UDP and RTP headers, and the samples.
ra_sd_tx_stream_ip_length(s) ==
  20 + 8 + 12 + s.num_channels * s.num_samples * ra_sd_codec_sample_length(s.codec)

Acceptable(s) ==
  /\ ra_sd_tx_validate_stream(s)
  /\ ra_sd_tx_stream_ip_length(s) <= RA_MAX_ETHERNET_PACKET_SIZE

-----------------------------------------------------------------------------
(* The TX stream table.                                                    *)

\* What the FPGA gets to see of a stream; num_channels is a __u8 and
\* ip_total_len a __u16 of the table entry, without a check that they fit.
ra_stream_table_tx_fill(s, trtb_index, ip_total_len) ==
  [trtp_base_addr |-> trtb_index, num_channels |-> s.num_channels % U8,
   num_samples |-> s.num_samples, codec |-> ra_sd_codec_fpga_code(s.codec),
   ip_total_len |-> ip_total_len % 65536,
   misc_control |-> {bit \in {"ACT", "PRI", "SEC"} :
                       \/ bit = "ACT" /\ s.active
                       \/ bit = "PRI" /\ s.use_primary
                       \/ bit = "SEC" /\ s.use_secondary}]

\* The entry after the last write.
ra_stream_table_tx_set(s, trtb_index, ip_total_len) ==
  [ra_stream_table_tx_fill(s, trtb_index, ip_total_len)
     EXCEPT !.misc_control = @ \cup {"VLD"}]

ra_stream_table_tx_del ==
  [trtp_base_addr |-> 0, num_channels |-> 0, num_samples |-> 0, codec |-> 0,
   ip_total_len |-> 0, misc_control |-> {}]

ra_stream_table_tx_reset == [i \in Index |-> ra_stream_table_tx_del]

-----------------------------------------------------------------------------
(* ra_sd_tx_probe leaves both tables reset and the bitmap empty.           *)
Init ==
  /\ files = {}
  /\ streams = [i \in Index |-> NULL]
  /\ used_entries = {}
  /\ trtb = ra_track_table_reset
  /\ sttb = ra_stream_table_tx_reset
  /\ last = [filp |-> NULL, ret |-> 0]
  /\ warned = FALSE

Returns(f, value) == last' = [filp |-> f, ret |-> value]

\* The command has the wrong size or version, or cannot be copied from the user.
BadCommand(f) == Returns(f, -EINVAL) \/ Returns(f, -EFAULT)

txState == <<streams, used_entries, trtb, sttb, warned>>

Open(f) ==
  /\ f \notin files
  /\ files' = files \cup {f}
  /\ Returns(f, 0)
  /\ UNCHANGED txState

-----------------------------------------------------------------------------
(* RA_SD_ADD_TX_STREAM                                                     *)

\* kzalloc and xa_alloc may fail with -ENOMEM.
AddRefused(f, s) ==
  /\ \/ BadCommand(f)
     \/ ~Acceptable(s) /\ Returns(f, -EINVAL)
     \/ Acceptable(s) /\ Returns(f, -ENOMEM)
     \/ Acceptable(s) /\ Live(streams) = Index /\ Returns(f, -EBUSY)
     \/ /\ Acceptable(s) /\ Live(streams) # Index
        /\ ra_track_table_alloc(used_entries, s.num_channels) = {}
        /\ Returns(f, -ENOSPC)
  /\ UNCHANGED <<files, txState>>

\* What ra_track_table_set reads for the channels of a stream.  Nothing in tx.c
\* bounds num_channels by the length of tracks[], so the loop may run past it.
TracksRead(s) ==
  {[c \in 0 .. s.num_channels - 1 |->
      IF c < RA_MAX_CHANNELS THEN s.tracks[c] ELSE behind[c]] :
     behind \in [RA_MAX_CHANNELS .. s.num_channels - 1 -> Stray]}

\* The slot and the area of the track table a stream gets.
Put(f, index, s, start, table) ==
  /\ streams' = [streams EXCEPT ![index] =
                   [filp |-> f, stream |-> s, trtb_index |-> start]]
  /\ \E tracks \in TracksRead(s) :
       trtb' = ra_track_table_set(table, start, s.num_channels, tracks)
  /\ sttb' = [sttb EXCEPT ![index] =
                ra_stream_table_tx_set(s, start, ra_sd_tx_stream_ip_length(s))]

\* xa_alloc takes the lowest free index.
Add(f, s) ==
  /\ Acceptable(s)
  /\ \E index \in Index \ Live(streams),
        start \in ra_track_table_alloc(used_entries, s.num_channels) :
       /\ \A i \in Index \ Live(streams) : index <= i
       /\ Put(f, index, s, start, trtb)
       /\ used_entries' = used_entries \cup Area(start, s.num_channels)
       /\ Returns(f, index)
  /\ UNCHANGED <<files, warned>>

ra_sd_tx_add_stream_ioctl(f, s) == f \in files /\ (AddRefused(f, s) \/ Add(f, s))

-----------------------------------------------------------------------------
(* RA_SD_UPDATE_TX_STREAM                                                  *)

\* cmd.index is any number the client likes.
CmdIndex == 0 .. SttbEntries

ra_sd_tx_stream_elem_find_by_index(index) ==
  IF index \in Index THEN streams[index] ELSE NULL

\* Mutant: anybody may update or delete any stream.
MayAccessAny(f, index) == ra_sd_tx_stream_elem_find_by_index(index) # NULL

\* "Streams can only be updated by their creators"
MayAccess(f, index) ==
  LET e == ra_sd_tx_stream_elem_find_by_index(index) IN e # NULL /\ e.filp = f

UpdateRefused(f, index, s) ==
  LET e == ra_sd_tx_stream_elem_find_by_index(index) IN
  /\ \/ BadCommand(f)
     \/ ~Acceptable(s) /\ Returns(f, -EINVAL)
     \/ Acceptable(s) /\ e = NULL /\ Returns(f, -ENOENT)
     \/ Acceptable(s) /\ e # NULL /\ e.filp # f /\ Returns(f, -EACCES)
  /\ UNCHANGED <<files, txState>>

\* The same number of channels: the area of the track table is reused.
UpdateInPlace(f, index, s) ==
  LET e == streams[index] IN
  /\ Acceptable(s)
  /\ MayAccess(f, index)
  /\ s.num_channels = e.stream.num_channels
  /\ Put(e.filp, index, s, e.trtb_index, trtb)
  /\ Returns(f, 0)
  /\ UNCHANGED <<files, used_entries, warned>>

\* Another number of channels: free the area, allocate another.  ret is the
\* new trtb_index, and that is what the ioctl returns.
UpdateMoved(f, index, s) ==
  LET e == streams[index] IN
  /\ Acceptable(s)
  /\ MayAccess(f, index)
  /\ s.num_channels # e.stream.num_channels
  /\ \E start \in ra_track_table_alloc(used_entries \ AreaOf(e), s.num_channels) :
       /\ Put(e.filp, index, s, start, ra_track_table_free(trtb, AreaOf(e)))
       /\ used_entries' = (used_entries \ AreaOf(e)) \cup Area(start, s.num_channels)
       /\ Returns(f, start)
  /\ UNCHANGED <<files, warned>>

\* Mutant: rolls back with the packet length of the stream that was refused.
RolledBackWithNewLength(f, index, s) ==
  LET e == streams[index]
      n == e.stream.num_channels
  IN
  /\ Acceptable(s)
  /\ MayAccess(f, index)
  /\ s.num_channels # n
  /\ ra_track_table_alloc(used_entries \ AreaOf(e), s.num_channels) = {}
  /\ \E start \in ra_track_table_alloc(used_entries \ AreaOf(e), n) :
       /\ streams' = [streams EXCEPT ![index] =
                        [filp |-> e.filp, stream |-> e.stream, trtb_index |-> start]]
       /\ \E tracks \in TracksRead(e.stream) :
            trtb' = ra_track_table_set(ra_track_table_free(trtb, AreaOf(e)),
                                       start, n, tracks)
       /\ sttb' = [sttb EXCEPT ![index] = ra_stream_table_tx_set(e.stream, start,
                                            ra_sd_tx_stream_ip_length(s))]
       /\ used_entries' = (used_entries \ AreaOf(e)) \cup Area(start, n)
  /\ Returns(f, -ENOSPC)
  /\ UNCHANGED <<files, warned>>

\* Mutant: the old area stays freed after a failed update.
RolledBackNowhere(f, index, s) ==
  LET e == streams[index] IN
  /\ Acceptable(s)
  /\ MayAccess(f, index)
  /\ s.num_channels # e.stream.num_channels
  /\ ra_track_table_alloc(used_entries \ AreaOf(e), s.num_channels) = {}
  /\ trtb' = ra_track_table_free(trtb, AreaOf(e))
  /\ used_entries' = used_entries \ AreaOf(e)
  /\ Returns(f, -ENOSPC)
  /\ UNCHANGED <<files, streams, sttb, warned>>

\* No room for the new number of channels: allocate again for the old one.
\* First fit may put the stream elsewhere than before.
UpdateRolledBack(f, index, s) ==
  LET e == streams[index]
      n == e.stream.num_channels
  IN
  /\ Acceptable(s)
  /\ MayAccess(f, index)
  /\ s.num_channels # n
  /\ ra_track_table_alloc(used_entries \ AreaOf(e), s.num_channels) = {}
  /\ \E start \in ra_track_table_alloc(used_entries \ AreaOf(e), n) :
       /\ Put(e.filp, index, e.stream, start, ra_track_table_free(trtb, AreaOf(e)))
       /\ used_entries' = (used_entries \ AreaOf(e)) \cup Area(start, n)
  /\ Returns(f, -ENOSPC)
  /\ UNCHANGED <<files, warned>>

\* "Can't really happen because the allocation was valid before."
UpdateWarns(f, index, s) ==
  LET e == streams[index] IN
  /\ Acceptable(s)
  /\ MayAccess(f, index)
  /\ s.num_channels # e.stream.num_channels
  /\ ra_track_table_alloc(used_entries \ AreaOf(e), s.num_channels) = {}
  /\ ra_track_table_alloc(used_entries \ AreaOf(e), e.stream.num_channels) = {}
  /\ warned' = TRUE
  /\ trtb' = ra_track_table_free(trtb, AreaOf(e))
  /\ used_entries' = used_entries \ AreaOf(e)
  /\ Returns(f, -ENOSPC)
  /\ UNCHANGED <<files, streams, sttb>>

ra_sd_tx_update_stream_ioctl(f, index, s) ==
  /\ f \in files
  /\ \/ UpdateRefused(f, index, s)
     \/ UpdateInPlace(f, index, s)
     \/ UpdateMoved(f, index, s)
     \/ UpdateRolledBack(f, index, s)
     \/ UpdateWarns(f, index, s)

-----------------------------------------------------------------------------
(* RA_SD_DELETE_TX_STREAM, and release() of the file                       *)

\* ra_sd_tx_free_stream for every index of S.
ra_sd_tx_free_stream(S) ==
  LET area == UNION {AreaOf(streams[i]) : i \in S} IN
  /\ trtb' = ra_track_table_free(trtb, area)
  /\ used_entries' = used_entries \ area
  /\ sttb' = [i \in Index |-> IF i \in S THEN ra_stream_table_tx_del ELSE sttb[i]]
  /\ streams' = [i \in Index |-> IF i \in S THEN NULL ELSE streams[i]]

DeleteRefused(f, index) ==
  LET e == ra_sd_tx_stream_elem_find_by_index(index) IN
  /\ \/ BadCommand(f)
     \/ e = NULL /\ Returns(f, -ENOENT)
     \/ e # NULL /\ e.filp # f /\ Returns(f, -EACCES)
  /\ UNCHANGED <<files, txState>>

Delete(f, index) ==
  /\ MayAccess(f, index)
  /\ ra_sd_tx_free_stream({index})
  /\ Returns(f, 0)
  /\ UNCHANGED <<files, warned>>

ra_sd_tx_delete_stream_ioctl(f, index) ==
  f \in files /\ (DeleteRefused(f, index) \/ Delete(f, index))

\* From ra_sd_release: close, exit or crash of the client.
ra_sd_tx_delete_streams(f) ==
  /\ f \in files
  /\ files' = files \ {f}
  /\ ra_sd_tx_free_stream({i \in Live(streams) : streams[i].filp = f})
  /\ Returns(f, 0)
  /\ UNCHANGED warned

Next ==
  \E f \in File :
    \/ Open(f)
    \/ \E s \in Input : ra_sd_tx_add_stream_ioctl(f, s)
    \/ \E index \in CmdIndex, s \in Input : ra_sd_tx_update_stream_ioctl(f, index, s)
    \/ \E index \in CmdIndex : ra_sd_tx_delete_stream_ioctl(f, index)
    \/ ra_sd_tx_delete_streams(f)

Spec == Init /\ [][Next]_vars

-----------------------------------------------------------------------------
(* Properties                                                              *)

Elem ==
  [filp : File, stream : {s \in Stream : Acceptable(s)}, trtb_index : Entry]

SttbEntry ==
  [trtp_base_addr : Nat, num_channels : 0 .. U8 - 1, num_samples : Nat,
   codec : {0, 16, 24, 32, 168}, ip_total_len : Nat,
   misc_control : SUBSET {"VLD", "ACT", "PRI", "SEC"}]

\* What an entry of the track table may hold.
Track == (0 .. MaxTracks - 1) \cup (Stray \cap Nat) \cup {RA_TRACK_TABLE_MUTE}

TypeOK ==
  /\ files \subseteq File
  /\ streams \in [Index -> Elem \cup {NULL}]
  /\ used_entries \subseteq Entry
  /\ trtb \in [Entry -> Track]
  /\ sttb \in [Index -> SttbEntry]
  /\ last \in [filp : File \cup {NULL}, ret : Int]
  /\ warned \in BOOLEAN

\* "for each active stream, a range of consecutive tracks is allocated in the
\* track table for all of its channels" (README.md): the bitmap marks exactly
\* the areas of the live streams and no entry belongs to two streams, through
\* relocations and failed updates.
EntriesAccounted ==
  /\ \A i \in Live(streams) : AreaOf(streams[i]) \subseteq used_entries
  /\ \A x \in used_entries : \E i \in Live(streams) : x \in AreaOf(streams[i])
  /\ \A i, j \in Live(streams) :
       i # j => AreaOf(streams[i]) \cap AreaOf(streams[j]) = {}

\* The FPGA track table feeds each channel of each stream from the track its
\* client asked for, as far as tracks[] goes, and what no stream has is muted.
TrackTableRoutes ==
  /\ \A i \in Live(streams) : \A x \in AreaOf(streams[i]) :
       LET c == x - streams[i].trtb_index
           t == streams[i].stream.tracks[c]
       IN c < RA_MAX_CHANNELS =>
            trtb[x] = IF t >= 0 THEN t ELSE RA_TRACK_TABLE_MUTE
  /\ \A x \in Entry \ used_entries : trtb[x] = RA_TRACK_TABLE_MUTE

\* A stream table entry is valid exactly while its stream lives, and then
\* describes it, with the area that the stream has now: a stream that was moved,
\* or rolled back to another area, never sends from its old one, and nothing of
\* an update that failed stays behind in the entry.
StreamTableCurrent ==
  \A i \in Index :
    sttb[i] = IF streams[i] = NULL THEN ra_stream_table_tx_del
              ELSE LET s == streams[i].stream IN
                   ra_stream_table_tx_set(s, streams[i].trtb_index,
                                          ra_sd_tx_stream_ip_length(s))

\* The bytes of a sample, by the code the FPGA knows the codec by.
SampleBytes(code) == IF code = 168 THEN 8 ELSE code \div 8

\* The FPGA is told how long a packet is and, in other registers, what to put
\* into it.  The two agree after every call, failed and rolled back updates
\* included, except for a stream that has samples and more channels than the
\* entry can count; and the packet fits an Ethernet frame.
PacketLengthMatches ==
  \A i \in Live(streams) :
    /\ sttb[i].ip_total_len <= RA_MAX_ETHERNET_PACKET_SIZE
    /\ sttb[i].ip_total_len
         = 20 + 8 + 12 + sttb[i].num_channels * sttb[i].num_samples
                           * SampleBytes(sttb[i].codec)
       <=> streams[i].stream.num_channels < U8 \/ sttb[i].num_samples = 0

\* Streams belong to open files only: when a client closes the device or dies,
\* the FPGA stops sending for it.
OwnersAreOpen == \A i \in Live(streams) : streams[i].filp \in files

\* The bitmap, the list of streams and the two FPGA tables agree, and nothing
\* is used twice or left behind, after every system call: the candidate for an
\* inductive invariant.
IInv ==
  /\ TypeOK
  /\ EntriesAccounted
  /\ TrackTableRoutes
  /\ StreamTableCurrent
  /\ OwnersAreOpen

-----------------------------------------------------------------------------
(* What the clients see of this: StreamService.                            *)

\* The service a stream asks for: its table entry, wherever its area is, and
\* the track behind each channel that the entry counts.
ServiceOf(s) ==
  [entry |-> ra_stream_table_tx_set(s, 0, ra_sd_tx_stream_ip_length(s)),
   tracks |-> [c \in 0 .. (s.num_channels % U8) - 1 |->
                 IF s.tracks[c] >= 0 THEN s.tracks[c] ELSE RA_TRACK_TABLE_MUTE]]

\* What the FPGA does under index i, read from its two tables alone.
FpgaService(i) ==
  IF "VLD" \notin sttb[i].misc_control THEN NULL
  ELSE [entry |-> [sttb[i] EXCEPT !.trtp_base_addr = 0],
        tracks |-> [c \in 0 .. sttb[i].num_channels - 1 |->
                      trtb[sttb[i].trtp_base_addr + c]]]

\* Any two streams may send from one track.
Client == INSTANCE StreamService WITH
  Service <- {ServiceOf(s) : s \in {s \in Input : Acceptable(s)}},
  Conflict <- {}, open <- files,
  owner <- [i \in Index |-> IF streams[i] = NULL THEN NULL ELSE streams[i].filp],
  carried <- [i \in Index |-> FpgaService(i)],
  answer <- [filp |-> last.filp, ok |-> last.ret >= 0]

\* The ioctls implement StreamService: through allocation, relocation, rollback,
\* deletion and the death of clients, what the FPGA's tables make it send is
\* what the owner of each index last asked for with success; a failed call, even
\* one that moved an area, cannot be seen; no client changes another's stream.
Implements == Client!Spec

=============================================================================
