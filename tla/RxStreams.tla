------------------------------ MODULE RxStreams ------------------------------
(***************************************************************************)
(* The RX half of the stream device (modules/stream-device/rx.c with       *)
(* track-table.c and stream-table-rx.c): the streams clients have created, *)
(* the bitmaps that account for tracks and track table entries, and the    *)
(* two FPGA tables.  Every ioctl holds rx->mutex from its first look at    *)
(* this state to its last change of it, so an ioctl is one action.         *)
(* RxRegisters.tla opens the ioctls up into single register writes.        *)
(***************************************************************************)
EXTENDS TrackTable, StreamTypes

CONSTANTS
  File,             \* struct file pointers
  SttbEntries,      \* rx->sttb.max_entries, the number of streams
  MaxTracks,        \* priv->max_tracks, from the device tree
  RA_MAX_CHANNELS,  \* length of tracks[] in the ioctl argument
  Input,            \* the ra_sd_rx_stream records clients pass in
  NULL              \* an empty slot of the xarray

Interface == [destination_ip : Nat, destination_port : Nat]

Stream ==
  [primary : Interface, secondary : Interface,
   vlan_tagged : BOOLEAN, vlan_tag : Nat, codec : Nat, num_channels : Nat,
   rtp_payload_type : Nat, active : BOOLEAN,
   tracks : [0 .. RA_MAX_CHANNELS - 1 -> Int]]

ASSUME RxAssumption ==
  /\ SttbEntries \in Nat
  /\ MaxTracks \in Nat
  /\ MaxTracks <= 256              \* ra_sd_probe refuses more
  /\ RA_MAX_CHANNELS \in Nat
  /\ RA_MAX_CHANNELS <= 256
  /\ Input \subseteq Stream
  /\ NULL \notin [filp : File, stream : Stream, trtb_index : Nat]

VARIABLES
  files,         \* open files of the misc device
  streams,       \* rx->streams: index -> ra_sd_rx_stream_elem or NULL
  used_tracks,   \* rx->used_tracks
  used_entries,  \* rx->trtb.used_entries
  trtb,          \* RX track table in the FPGA
  sttb,          \* RX stream table in the FPGA
  last,          \* who made the last system call, and what it returned
  warned         \* WARN_ON() in ra_sd_rx_update_stream_ioctl has fired

vars == <<files, streams, used_tracks, used_entries, trtb, sttb, last, warned>>

Index == 0 .. SttbEntries - 1

Live(strs) == {i \in Index : strs[i] # NULL}

AreaOf(e) == Area(e.trtb_index, e.stream.num_channels)

-----------------------------------------------------------------------------
(* Validation of ioctl arguments and of the tracks they name.              *)

ra_sd_rx_validate_stream_interface(iface) ==
  iface.destination_ip # 0 => iface.destination_port # 0

ra_sd_rx_validate_stream(s) ==
  /\ s.primary.destination_ip # 0 \/ s.secondary.destination_ip # 0
  /\ ra_sd_rx_validate_stream_interface(s.primary)
  /\ ra_sd_rx_validate_stream_interface(s.secondary)
  /\ s.vlan_tagged => s.vlan_tag <= 4095
  /\ s.codec < RA_STREAM_CODEC_MAX
  /\ s.num_channels <= RA_MAX_CHANNELS
  /\ ra_sd_validate_rtp_payload_type(s.rtp_payload_type, s.num_channels, s.codec)
  /\ \A i \in 0 .. s.num_channels - 1 : s.tracks[i] < MaxTracks

\* ra_for_each_active_track: the channels that are mapped to a track.
ActiveChannels(s) == {i \in 0 .. s.num_channels - 1 : s.tracks[i] >= 0}

ActiveTracks(s) == {s.tracks[i] : i \in ActiveChannels(s)}

\* The channels at which ra_sd_rx_tracks_available stops with an error.
Conflicts(used, s) ==
  {i \in ActiveChannels(s) :
     \/ s.tracks[i] \in used
     \/ \E j \in ActiveChannels(s) : j < i /\ s.tracks[j] = s.tracks[i]}

ra_sd_rx_tracks_available(used, s) ==
  IF Conflicts(used, s) = {} THEN 0
  ELSE IF \E i \in Conflicts(used, s) :
             /\ s.tracks[i] \in used
             /\ \A j \in Conflicts(used, s) : i <= j
  THEN -EBUSY ELSE -EINVAL

-----------------------------------------------------------------------------
(* The RX stream table.                                                    *)

\* What the FPGA gets to see of a stream.  A stream with one interface gets the
\* same address on both.  num_channels is a __u8, misc_control a set of bits.
ra_stream_table_rx_fill(s, trtb_index) ==
  LET pri == IF s.primary.destination_ip = 0 THEN s.secondary ELSE s.primary
      sec == IF s.secondary.destination_ip = 0 THEN pri ELSE s.secondary
  IN  [primary |-> pri, secondary |-> sec,
       num_channels |-> s.num_channels % 256, trtp_base_addr |-> trtb_index,
       misc_control |-> IF s.active THEN {"ACT"} ELSE {}]

\* The entry after the last of the three writes.
ra_stream_table_rx_set(s, trtb_index) ==
  [ra_stream_table_rx_fill(s, trtb_index)
     EXCEPT !.misc_control = @ \cup {"VLD", "EXEC_HASH"}]

ra_stream_table_rx_del(entry) ==
  [entry EXCEPT !.misc_control = (@ \ {"VLD", "ACT"}) \cup {"EXEC_HASH"}]

NoInterface == [destination_ip |-> 0, destination_port |-> 0]

ra_stream_table_rx_reset ==
  [i \in Index |-> [primary |-> NoInterface, secondary |-> NoInterface,
                    num_channels |-> 0, trtp_base_addr |-> 0,
                    misc_control |-> {}]]

-----------------------------------------------------------------------------
(* ra_sd_rx_probe leaves both tables reset and all bitmaps empty.          *)
Init ==
  /\ files = {}
  /\ streams = [i \in Index |-> NULL]
  /\ used_tracks = {}
  /\ used_entries = {}
  /\ trtb = ra_track_table_reset
  /\ sttb = ra_stream_table_rx_reset
  /\ last = [filp |-> NULL, ret |-> 0]
  /\ warned = FALSE

Returns(f, value) == last' = [filp |-> f, ret |-> value]

\* The command has the wrong size or version, or cannot be copied from the user.
BadCommand(f) == Returns(f, -EINVAL) \/ Returns(f, -EFAULT)

rxState == <<streams, used_tracks, used_entries, trtb, sttb, warned>>

Open(f) ==
  /\ f \notin files
  /\ files' = files \cup {f}
  /\ Returns(f, 0)
  /\ UNCHANGED rxState

-----------------------------------------------------------------------------
(* RA_SD_ADD_RX_STREAM                                                     *)

\* kzalloc, the temporary bitmap and xa_alloc may each fail with -ENOMEM.
AddRefused(f, s) ==
  LET valid == ra_sd_rx_validate_stream(s)
      avail == ra_sd_rx_tracks_available(used_tracks, s)
  IN  /\ \/ BadCommand(f)
         \/ ~valid /\ Returns(f, -EINVAL)
         \/ valid /\ Returns(f, -ENOMEM)
         \/ valid /\ avail < 0 /\ Returns(f, avail)
         \/ valid /\ avail = 0 /\ Live(streams) = Index /\ Returns(f, -EBUSY)
         \/ /\ valid /\ avail = 0 /\ Live(streams) # Index
            /\ ra_track_table_alloc(used_entries, s.num_channels) = {}
            /\ Returns(f, -ENOSPC)
      /\ UNCHANGED <<files, rxState>>

\* xa_alloc takes the lowest free index.
Add(f, s) ==
  /\ ra_sd_rx_validate_stream(s)
  /\ ra_sd_rx_tracks_available(used_tracks, s) = 0
  /\ \E index \in Index \ Live(streams),
        start \in ra_track_table_alloc(used_entries, s.num_channels) :
       /\ \A i \in Index \ Live(streams) : index <= i
       /\ streams' = [streams EXCEPT ![index] =
                        [filp |-> f, stream |-> s, trtb_index |-> start]]
       /\ used_entries' = used_entries \cup Area(start, s.num_channels)
       /\ used_tracks' = used_tracks \cup ActiveTracks(s)
       /\ trtb' = ra_track_table_set(trtb, start, s.num_channels, s.tracks)
       /\ sttb' = [sttb EXCEPT ![index] = ra_stream_table_rx_set(s, start)]
       /\ Returns(f, index)
  /\ UNCHANGED <<files, warned>>

ra_sd_rx_add_stream_ioctl(f, s) == f \in files /\ (AddRefused(f, s) \/ Add(f, s))

-----------------------------------------------------------------------------
(* RA_SD_UPDATE_RX_STREAM                                                  *)

\* cmd.index is any number the client likes.
CmdIndex == 0 .. SttbEntries

ra_sd_rx_stream_elem_find_by_index(index) ==
  IF index \in Index THEN streams[index] ELSE NULL

\* "Streams can only be updated by their creators"
MayAccess(f, index) ==
  LET e == ra_sd_rx_stream_elem_find_by_index(index) IN e # NULL /\ e.filp = f

\* used_tracks while the ioctl has taken its own stream's tracks out of it.
OtherTracks(e) == used_tracks \ ActiveTracks(e.stream)

\* Mutant: returns without going through out_rollback.
RefusedWithoutRollback(f, index, s) ==
  /\ ra_sd_rx_validate_stream(s)
  /\ MayAccess(f, index)
  /\ ra_sd_rx_tracks_available(OtherTracks(streams[index]), s) < 0
  /\ Returns(f, -EBUSY)
  /\ used_tracks' = OtherTracks(streams[index])
  /\ UNCHANGED <<files, streams, used_entries, trtb, sttb, warned>>

\* Before anything but used_tracks was touched; the exit at out_rollback marks
\* the old tracks used again.
UpdateRefused(f, index, s) ==
  LET valid == ra_sd_rx_validate_stream(s)
      e == ra_sd_rx_stream_elem_find_by_index(index)
  IN  /\ \/ BadCommand(f) /\ UNCHANGED used_tracks
         \/ ~valid /\ Returns(f, -EINVAL) /\ UNCHANGED used_tracks
         \/ valid /\ e = NULL /\ Returns(f, -ENOENT) /\ UNCHANGED used_tracks
         \/ valid /\ e # NULL /\ e.filp # f /\ Returns(f, -EACCES)
                  /\ UNCHANGED used_tracks
         \/ /\ valid /\ MayAccess(f, index)
            /\ \/ Returns(f, -ENOMEM)
               \/ /\ ra_sd_rx_tracks_available(OtherTracks(e), s) < 0
                  /\ Returns(f, ra_sd_rx_tracks_available(OtherTracks(e), s))
            /\ used_tracks' = OtherTracks(e) \cup ActiveTracks(e.stream)
      /\ UNCHANGED <<files, streams, used_entries, trtb, sttb, warned>>

\* From here on the update passed its checks.
UpdateAccepted(f, index, s) ==
  /\ ra_sd_rx_validate_stream(s)
  /\ MayAccess(f, index)
  /\ ra_sd_rx_tracks_available(OtherTracks(streams[index]), s) = 0

\* The same number of channels: the area of the track table is reused.
UpdateInPlace(f, index, s) ==
  LET e == streams[index] IN
  /\ UpdateAccepted(f, index, s)
  /\ s.num_channels = e.stream.num_channels
  /\ streams' = [streams EXCEPT ![index] =
                   [filp |-> e.filp, stream |-> s, trtb_index |-> e.trtb_index]]
  /\ used_tracks' = OtherTracks(e) \cup ActiveTracks(s)
  /\ trtb' = ra_track_table_set(trtb, e.trtb_index, s.num_channels, s.tracks)
  /\ sttb' = [sttb EXCEPT ![index] = ra_stream_table_rx_set(s, e.trtb_index)]
  /\ Returns(f, 0)
  /\ UNCHANGED <<files, used_entries, warned>>

\* Another number of channels: free the area, allocate another.  ret is the
\* new trtb_index, and that is what the ioctl returns.
UpdateMoved(f, index, s) ==
  LET e == streams[index]
      freed == ra_track_table_free(trtb, AreaOf(e))
  IN
  /\ UpdateAccepted(f, index, s)
  /\ s.num_channels # e.stream.num_channels
  /\ \E start \in ra_track_table_alloc(used_entries \ AreaOf(e), s.num_channels) :
       /\ streams' = [streams EXCEPT ![index] =
                        [filp |-> e.filp, stream |-> s, trtb_index |-> start]]
       /\ used_entries' = (used_entries \ AreaOf(e)) \cup Area(start, s.num_channels)
       /\ trtb' = ra_track_table_set(freed, start, s.num_channels, s.tracks)
       /\ sttb' = [sttb EXCEPT ![index] = ra_stream_table_rx_set(s, start)]
       /\ Returns(f, start)
  /\ used_tracks' = OtherTracks(e) \cup ActiveTracks(s)
  /\ UNCHANGED <<files, warned>>

\* Mutant: assumes that the second allocation returns the old area.
RolledBackInPlace(f, index, s) ==
  LET e == streams[index]
      n == e.stream.num_channels
      freed == ra_track_table_free(trtb, AreaOf(e))
  IN
  /\ UpdateAccepted(f, index, s)
  /\ s.num_channels # n
  /\ ra_track_table_alloc(used_entries \ AreaOf(e), s.num_channels) = {}
  /\ \E start \in ra_track_table_alloc(used_entries \ AreaOf(e), n) :
       /\ streams' = [streams EXCEPT ![index] =
                        [filp |-> e.filp, stream |-> e.stream, trtb_index |-> start]]
       /\ used_entries' = (used_entries \ AreaOf(e)) \cup Area(start, n)
       /\ trtb' = ra_track_table_set(freed, start, n, e.stream.tracks)
  /\ used_tracks' = OtherTracks(e) \cup ActiveTracks(e.stream)
  /\ Returns(f, -ENOSPC)
  /\ UNCHANGED <<files, sttb, warned>>

\* No room for the new number of channels: allocate again for the old one.
\* First fit may put the stream elsewhere than before.
UpdateRolledBack(f, index, s) ==
  LET e == streams[index]
      n == e.stream.num_channels
      freed == ra_track_table_free(trtb, AreaOf(e))
  IN
  /\ UpdateAccepted(f, index, s)
  /\ s.num_channels # n
  /\ ra_track_table_alloc(used_entries \ AreaOf(e), s.num_channels) = {}
  /\ \E start \in ra_track_table_alloc(used_entries \ AreaOf(e), n) :
       /\ streams' = [streams EXCEPT ![index] =
                        [filp |-> e.filp, stream |-> e.stream, trtb_index |-> start]]
       /\ used_entries' = (used_entries \ AreaOf(e)) \cup Area(start, n)
       /\ trtb' = ra_track_table_set(freed, start, n, e.stream.tracks)
       /\ sttb' = [sttb EXCEPT ![index] = ra_stream_table_rx_set(e.stream, start)]
  /\ used_tracks' = OtherTracks(e) \cup ActiveTracks(e.stream)
  /\ Returns(f, -ENOSPC)
  /\ UNCHANGED <<files, warned>>

\* "Can't really happen because the allocation was valid before."
UpdateWarns(f, index, s) ==
  LET e == streams[index] IN
  /\ UpdateAccepted(f, index, s)
  /\ s.num_channels # e.stream.num_channels
  /\ ra_track_table_alloc(used_entries \ AreaOf(e), s.num_channels) = {}
  /\ ra_track_table_alloc(used_entries \ AreaOf(e), e.stream.num_channels) = {}
  /\ warned' = TRUE
  /\ trtb' = ra_track_table_free(trtb, AreaOf(e))
  /\ used_entries' = used_entries \ AreaOf(e)
  /\ used_tracks' = OtherTracks(e) \cup ActiveTracks(e.stream)
  /\ Returns(f, -ENOSPC)
  /\ UNCHANGED <<files, streams, sttb>>

ra_sd_rx_update_stream_ioctl(f, index, s) ==
  /\ f \in files
  /\ \/ UpdateRefused(f, index, s)
     \/ UpdateInPlace(f, index, s)
     \/ UpdateMoved(f, index, s)
     \/ UpdateRolledBack(f, index, s)
     \/ UpdateWarns(f, index, s)

-----------------------------------------------------------------------------
(* RA_SD_DELETE_RX_STREAM, and release() of the file                       *)

\* ra_sd_rx_free_stream for every index of S.
ra_sd_rx_free_stream(S) ==
  LET area == UNION {AreaOf(streams[i]) : i \in S} IN
  /\ trtb' = ra_track_table_free(trtb, area)
  /\ used_entries' = used_entries \ area
  /\ used_tracks' = used_tracks \ UNION {ActiveTracks(streams[i].stream) : i \in S}
  /\ sttb' = [i \in Index |-> IF i \in S THEN ra_stream_table_rx_del(sttb[i])
                                         ELSE sttb[i]]
  /\ streams' = [i \in Index |-> IF i \in S THEN NULL ELSE streams[i]]

DeleteRefused(f, index) ==
  LET e == ra_sd_rx_stream_elem_find_by_index(index) IN
  /\ \/ BadCommand(f)
     \/ e = NULL /\ Returns(f, -ENOENT)
     \/ e # NULL /\ e.filp # f /\ Returns(f, -EACCES)
  /\ UNCHANGED <<files, rxState>>

Delete(f, index) ==
  /\ MayAccess(f, index)
  /\ ra_sd_rx_free_stream({index})
  /\ Returns(f, 0)
  /\ UNCHANGED <<files, warned>>

ra_sd_rx_delete_stream_ioctl(f, index) ==
  f \in files /\ (DeleteRefused(f, index) \/ Delete(f, index))

\* ra_sd_release calls ra_sd_rx_delete_streams; an exit or crash of the client
\* process ends in the same call.
ra_sd_rx_delete_streams(f) ==
  /\ f \in files
  /\ files' = files \ {f}
  /\ ra_sd_rx_free_stream({i \in Live(streams) : streams[i].filp = f})
  /\ Returns(f, 0)
  /\ UNCHANGED warned

Next ==
  \E f \in File :
    \/ Open(f)
    \/ \E s \in Input : ra_sd_rx_add_stream_ioctl(f, s)
    \/ \E index \in CmdIndex, s \in Input : ra_sd_rx_update_stream_ioctl(f, index, s)
    \/ \E index \in CmdIndex : ra_sd_rx_delete_stream_ioctl(f, index)
    \/ ra_sd_rx_delete_streams(f)

Spec == Init /\ [][Next]_vars

-----------------------------------------------------------------------------
(* Properties                                                              *)

Elem == [filp : File, stream : {s \in Stream : ra_sd_rx_validate_stream(s)},
         trtb_index : Entry]

SttbEntry ==
  [primary : Interface, secondary : Interface, num_channels : 0 .. 255,
   trtp_base_addr : Nat, misc_control : SUBSET {"VLD", "ACT", "EXEC_HASH"}]

TypeOK ==
  /\ files \subseteq File
  /\ streams \in [Index -> Elem \cup {NULL}]
  /\ used_tracks \subseteq 0 .. MaxTracks - 1
  /\ used_entries \subseteq Entry
  /\ trtb \in [Entry -> (0 .. MaxTracks - 1) \cup {RA_TRACK_TABLE_MUTE}]
  /\ sttb \in [Index -> SttbEntry]
  /\ last \in [filp : File \cup {NULL}, ret : Int]
  /\ warned \in BOOLEAN

\* "for each active stream, a range of consecutive tracks is allocated in the
\* track table for all of its channels" (README.md): the bitmap marks exactly
\* the areas of the live streams, each inside the table, and no entry belongs
\* to two streams.  It must survive relocation and failed updates.
EntriesAccounted ==
  /\ \A i \in Live(streams) : AreaOf(streams[i]) \subseteq used_entries
  /\ \A x \in used_entries : \E i \in Live(streams) : x \in AreaOf(streams[i])
  /\ \A i, j \in Live(streams) :
       i # j => AreaOf(streams[i]) \cap AreaOf(streams[j]) = {}

\* Two streams never receive into the same track, nor two channels of one
\* stream, and used_tracks marks exactly the tracks of the live streams: no
\* path of add, update, rollback, delete or release leaks or frees a track.
TracksExclusive ==
  /\ \A i \in Live(streams) : ActiveTracks(streams[i].stream) \subseteq used_tracks
  /\ \A t \in used_tracks :
       \E i \in Live(streams) : t \in ActiveTracks(streams[i].stream)
  /\ \A i, j \in Live(streams) : i # j =>
       ActiveTracks(streams[i].stream) \cap ActiveTracks(streams[j].stream) = {}
  /\ \A i \in Live(streams) :
       LET s == streams[i].stream IN
       \A c, d \in ActiveChannels(s) : s.tracks[c] = s.tracks[d] => c = d

\* The FPGA track table holds exactly what the live streams ask for: each
\* channel of each stream is routed to its track, everything else is muted.
TrackTableRoutes ==
  /\ \A i \in Live(streams) : \A x \in AreaOf(streams[i]) :
       LET t == streams[i].stream.tracks[x - streams[i].trtb_index] IN
       trtb[x] = IF t >= 0 THEN t ELSE RA_TRACK_TABLE_MUTE
  /\ \A x \in Entry \ used_entries : trtb[x] = RA_TRACK_TABLE_MUTE

\* A stream table entry is valid exactly while its stream lives, and then
\* describes that stream and where its area of the track table is now.
StreamTableCurrent ==
  \A i \in Index :
    IF streams[i] = NULL THEN sttb[i].misc_control \cap {"VLD", "ACT"} = {}
    ELSE sttb[i] = ra_stream_table_rx_set(streams[i].stream, streams[i].trtb_index)

\* "Otherwise the hstb will be flooded with identical entries for hash(0,0)"
\* (stream-table-rx.c:91): no valid entry has a zero address or port.
NoZeroHash ==
  \A i \in Index : "VLD" \in sttb[i].misc_control =>
    \A iface \in {sttb[i].primary, sttb[i].secondary} :
      iface.destination_ip # 0 /\ iface.destination_port # 0

\* Streams belong to open files only.  e->filp is compared by address, so a
\* stream that outlived its file could be taken over by the next file that
\* the kernel allocates at the same address.
OwnersAreOpen == \A i \in Live(streams) : streams[i].filp \in files

\* The inductive invariant: the two bitmaps, the list of streams and the two
\* FPGA tables agree, and nothing is used twice or left behind, after every
\* system call.
IInv ==
  /\ TypeOK
  /\ EntriesAccounted
  /\ TracksExclusive
  /\ TrackTableRoutes
  /\ StreamTableCurrent
  /\ OwnersAreOpen

\* For a stream that has channels, the second allocation of a failed update
\* finds room: the entries just freed are still there.
RollbackHasRoom ==
  \A i \in Live(streams) :
    streams[i].stream.num_channels > 0 =>
      ZeroAreas(used_entries \ AreaOf(streams[i]),
                streams[i].stream.num_channels) # {}

\* "Streams can only be updated by their creators", "can only be torn down by
\* their creators": no call of one client changes a stream of another, not
\* even by moving its area.
OnlyOwnerChangesStreams ==
  [][\A i \in Index : streams'[i] # streams[i] =>
       /\ streams[i] # NULL => streams[i].filp = last'.filp
       /\ streams'[i] # NULL => streams'[i].filp = last'.filp]_vars

\* A call that returns an error changes no stream's configuration and no track
\* reservation; at most it moves the area of the stream it was about.
FailedCallsChangeNothing ==
  [][last'.ret < 0 =>
       /\ used_tracks' = used_tracks
       /\ files' = files
       /\ \A i \in Index :
            /\ streams'[i] = NULL <=> streams[i] = NULL
            /\ streams[i] # NULL =>
                 /\ streams'[i].filp = streams[i].filp
                 /\ streams'[i].stream = streams[i].stream]_vars

-----------------------------------------------------------------------------
(* What the clients see of this: StreamService.                            *)

\* The service a stream asks for: its table entry, wherever its area is, and
\* the track behind each channel that the entry counts.
ServiceOf(s) ==
  [entry |-> ra_stream_table_rx_set(s, 0),
   tracks |-> [c \in 0 .. (s.num_channels % 256) - 1 |->
                 IF s.tracks[c] >= 0 THEN s.tracks[c] ELSE RA_TRACK_TABLE_MUTE]]

Services == {ServiceOf(s) : s \in {s \in Input : ra_sd_rx_validate_stream(s)}}

\* Two services that receive into one track.
Sharing ==
  {p \in Services \X Services :
     \E c \in DOMAIN p[1].tracks, d \in DOMAIN p[2].tracks :
       p[1].tracks[c] = p[2].tracks[d] /\ p[1].tracks[c] # RA_TRACK_TABLE_MUTE}

\* What the FPGA does under index i, read from its two tables alone.
FpgaService(i) ==
  IF "VLD" \notin sttb[i].misc_control THEN NULL
  ELSE [entry |-> [sttb[i] EXCEPT !.trtp_base_addr = 0],
        tracks |-> [c \in 0 .. sttb[i].num_channels - 1 |->
                      trtb[sttb[i].trtp_base_addr + c]]]

Client == INSTANCE StreamService WITH
  Service <- Services, Conflict <- Sharing, open <- files,
  owner <- [i \in Index |-> IF streams[i] = NULL THEN NULL ELSE streams[i].filp],
  carried <- [i \in Index |-> FpgaService(i)],
  answer <- [filp |-> last.filp, ok |-> last.ret >= 0]

\* The ioctls implement StreamService: through allocation, relocation, rollback,
\* deletion and the death of clients, what the FPGA's tables make it do is what
\* the owner of each index last asked for with success; a failed call, even one
\* that moved an area, cannot be seen; no client changes another's service; no
\* two streams are received into one track.
Implements == Client!Spec

=============================================================================
