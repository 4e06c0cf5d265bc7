--------------------------- MODULE RxStreamsProofs ---------------------------
(***************************************************************************)
(* The invariants of RxStreams, for tables of any size and any number of   *)
(* clients.  None of them is inductive alone: that a freed area can be     *)
(* overwritten needs the areas disjoint, that a track can be released      *)
(* needs the tracks disjoint, and the FPGA tables follow the bookkeeping.  *)
(* IInv is their conjunction.                                              *)
(***************************************************************************)
EXTENDS RxStreams, TrackTableProofs

\* The provers to try, in this order: a leaf gets more attempts than by default,
\* since one attempt can run out of time on a slow machine.
USE SMTT(10), ZenonT(20), Z3T(20), SMTT(30), Z3T(40), SMTT(60), ZenonT(40)

-----------------------------------------------------------------------------
(* Adding a stream, updating it in place, moving it and rolling back an    *)
(* update all replace what is in one slot of the xarray: they release what *)
(* the slot held, and then take an area and tracks that are free.          *)

OldArea(k) == IF streams[k] = NULL THEN {} ELSE AreaOf(streams[k])

OldTracks(k) ==
  IF streams[k] = NULL THEN {} ELSE ActiveTracks(streams[k].stream)

Replaces(k, e) ==
  /\ AreaOf(e) \subseteq Entry
  /\ AreaOf(e) \cap (used_entries \ OldArea(k)) = {}
  /\ Conflicts(used_tracks \ OldTracks(k), e.stream) = {}
  /\ streams' = [streams EXCEPT ![k] = e]
  /\ used_entries' = (used_entries \ OldArea(k)) \cup AreaOf(e)
  /\ used_tracks' = (used_tracks \ OldTracks(k)) \cup ActiveTracks(e.stream)
  /\ trtb' = ra_track_table_set(ra_track_table_free(trtb, OldArea(k)),
               e.trtb_index, e.stream.num_channels, e.stream.tracks)
  /\ sttb' = [sttb EXCEPT ![k] = ra_stream_table_rx_set(e.stream, e.trtb_index)]

-----------------------------------------------------------------------------
(* Facts about single streams.                                             *)

\* The sizes the device tree and the FPGA give are natural numbers.
LEMMA ConstantTypes ==
  /\ SttbEntries \in Nat /\ MaxTracks \in Nat /\ RA_MAX_CHANNELS \in Nat
  /\ TrtbEntries \in Nat /\ RA_TRACK_TABLE_MUTE \notin Int
BY RxAssumption, TrackTableAssumption

\* A validated stream names tracks of the device only.
LEMMA ActiveTracksType ==
  ASSUME NEW s \in Stream, ra_sd_rx_validate_stream(s)
  PROVE  ActiveTracks(s) \subseteq 0 .. MaxTracks - 1
BY RxAssumption DEF Stream, ra_sd_rx_validate_stream, ActiveTracks, ActiveChannels

\* If ra_sd_rx_tracks_available finds no conflict, the stream's tracks are
\* distinct and nobody else uses them.
LEMMA NoConflicts ==
  ASSUME NEW used, NEW s \in Stream, Conflicts(used, s) = {}
  PROVE  /\ ActiveTracks(s) \cap used = {}
         /\ \A c, d \in ActiveChannels(s) : s.tracks[c] = s.tracks[d] => c = d
<1>1. ActiveChannels(s) \subseteq Int
  BY DEF ActiveChannels, Stream
<1>2. ActiveTracks(s) \cap used = {}
  BY DEF ActiveTracks, Conflicts
<1>3. ASSUME NEW c \in ActiveChannels(s), NEW d \in ActiveChannels(s),
             s.tracks[c] = s.tracks[d], c # d
      PROVE  FALSE
  <2>1. c < d \/ d < c
    BY <1>1, <1>3
  <2> QED
    BY <2>1, <1>3 DEF Conflicts
<1> QED
  BY <1>2, <1>3

\* Conversely, a stream with distinct tracks that nobody else uses passes.
LEMMA DistinctMeansNoConflicts ==
  ASSUME NEW used, NEW s \in Stream, ActiveTracks(s) \cap used = {},
         \A c, d \in ActiveChannels(s) : s.tracks[c] = s.tracks[d] => c = d
  PROVE  Conflicts(used, s) = {}
<1>1. ActiveChannels(s) \subseteq Int
  BY DEF ActiveChannels, Stream
<1> QED
  BY <1>1 DEF Conflicts, ActiveTracks

\* The return value 0 of ra_sd_rx_tracks_available means no conflict.
LEMMA AvailableMeansNoConflicts ==
  ASSUME NEW used, NEW s, ra_sd_rx_tracks_available(used, s) = 0
  PROVE  Conflicts(used, s) = {}
BY DEF ra_sd_rx_tracks_available, EBUSY, EINVAL

\* The stream table entry of a validated stream is well-typed and valid, and
\* both its addresses are nonzero.
LEMMA FillType ==
  ASSUME NEW s \in Stream, ra_sd_rx_validate_stream(s), NEW start \in Nat
  PROVE  LET entry == ra_stream_table_rx_set(s, start) IN
         /\ entry \in SttbEntry
         /\ "VLD" \in entry.misc_control
         /\ \A iface \in {entry.primary, entry.secondary} :
              iface.destination_ip # 0 /\ iface.destination_port # 0
<1> DEFINE pri == IF s.primary.destination_ip = 0 THEN s.secondary ELSE s.primary
           sec == IF s.secondary.destination_ip = 0 THEN pri ELSE s.secondary
           n == s.num_channels % 256
           mc == IF s.active THEN {"ACT"} ELSE {}
<1>1. n \in 0 .. 255
  <2>1. s.num_channels \in Nat
    BY DEF Stream
  <2> QED
    BY <2>1
<1>2. /\ s.primary \in Interface /\ s.secondary \in Interface
      /\ s.active \in BOOLEAN
  BY DEF Stream
<1>3. /\ pri \in Interface /\ pri.destination_ip # 0 /\ pri.destination_port # 0
      /\ sec \in Interface /\ sec.destination_ip # 0 /\ sec.destination_port # 0
  BY <1>2 DEF ra_sd_rx_validate_stream, ra_sd_rx_validate_stream_interface
<1>4. ra_stream_table_rx_set(s, start) =
        [primary |-> pri, secondary |-> sec, num_channels |-> n,
         trtp_base_addr |-> start, misc_control |-> mc \cup {"VLD", "EXEC_HASH"}]
  <2>1. ra_stream_table_rx_fill(s, start) =
          [primary |-> pri, secondary |-> sec, num_channels |-> n,
           trtp_base_addr |-> start, misc_control |-> mc]
    BY Zenon DEF ra_stream_table_rx_fill
  <2> HIDE DEF pri, sec, n, mc
  <2> QED
    BY <2>1 DEF ra_stream_table_rx_set
<1>5. mc \cup {"VLD", "EXEC_HASH"} \in SUBSET {"VLD", "ACT", "EXEC_HASH"}
  OBVIOUS
<1> HIDE DEF pri, sec, n, mc
<1> QED
  <2> DEFINE entry == ra_stream_table_rx_set(s, start)
  <2>1. entry \in SttbEntry
    BY <1>1, <1>2, <1>3, <1>4, <1>5 DEF SttbEntry
  <2>2. "VLD" \in entry.misc_control /\ entry.primary = pri /\ entry.secondary = sec
    BY <1>4
  <2> QED
    BY <1>3, <2>1, <2>2

\* An element is never the empty slot.
LEMMA ElemNotNull == NULL \notin Elem
<1>1. \A x \in Entry : x \in Nat
  BY TrackTableAssumption DEF Entry
<1>2. Elem \subseteq [filp : File, stream : Stream, trtb_index : Nat]
  <2> SUFFICES ASSUME NEW e \in Elem
               PROVE  e \in [filp : File, stream : Stream, trtb_index : Nat]
    OBVIOUS
  <2>1. /\ e.filp \in File /\ e.stream \in Stream /\ e.trtb_index \in Nat
        /\ e = [filp |-> e.filp, stream |-> e.stream, trtb_index |-> e.trtb_index]
    BY <1>1 DEF Elem
  <2> QED
    BY <2>1
<1> QED
  BY <1>2, RxAssumption

-----------------------------------------------------------------------------
(* Replacing the contents of a slot preserves the invariant.               *)

\* AreaOf is inside the naturals, and channel c of a stream is at x - index.
LEMMA AreaChannels ==
  ASSUME NEW e \in Elem, NEW x \in AreaOf(e)
  PROVE  x - e.trtb_index \in 0 .. e.stream.num_channels - 1
BY TrackTableAssumption DEF Elem, AreaOf, Area, Entry, Stream

\* What a slot of the xarray and its stream hold.
LEMMA ElemType ==
  ASSUME NEW e \in Elem
  PROVE  /\ e.filp \in File
         /\ e.stream \in Stream
         /\ ra_sd_rx_validate_stream(e.stream)
         /\ e.trtb_index \in Entry
         /\ e.trtb_index \in Nat
         /\ e.stream.num_channels \in Nat
         /\ e.stream.num_channels <= RA_MAX_CHANNELS
         /\ e.stream.tracks \in [0 .. RA_MAX_CHANNELS - 1 -> Int]
<1>1. e.filp \in File /\ e.stream \in {s \in Stream : ra_sd_rx_validate_stream(s)}
      /\ e.trtb_index \in Entry
  BY DEF Elem
<1>2. e.trtb_index \in Nat
  BY <1>1, TrackTableAssumption DEF Entry
<1>3. e.stream \in Stream /\ ra_sd_rx_validate_stream(e.stream)
  BY <1>1
<1>4. e.stream.num_channels <= RA_MAX_CHANNELS
  BY <1>3 DEF ra_sd_rx_validate_stream
<1>5. /\ e.stream.num_channels \in Nat
      /\ e.stream.tracks \in [0 .. RA_MAX_CHANNELS - 1 -> Int]
  BY <1>3 DEF Stream
<1> QED
  BY <1>1, <1>2, <1>3, <1>4, <1>5

\* The table after ra_track_table_set routes the area and nothing else.
LEMMA TrtbSetRoutes ==
  ASSUME NEW e \in Elem, NEW old, NEW x \in Entry
  PROVE  LET new == ra_track_table_set(old, e.trtb_index, e.stream.num_channels,
                                       e.stream.tracks)
             t == e.stream.tracks[x - e.trtb_index]
         IN  /\ x \in AreaOf(e) =>
                  new[x] = IF t >= 0 THEN t ELSE RA_TRACK_TABLE_MUTE
             /\ x \notin AreaOf(e) => new[x] = old[x]
BY DEF ra_track_table_set, AreaOf

\* Writing the tracks of a validated stream keeps the track table well-typed.
LEMMA TrtbSetType ==
  ASSUME NEW e \in Elem,
         NEW old \in [Entry -> (0 .. MaxTracks - 1) \cup {RA_TRACK_TABLE_MUTE}]
  PROVE  ra_track_table_set(old, e.trtb_index, e.stream.num_channels,
                            e.stream.tracks)
           \in [Entry -> (0 .. MaxTracks - 1) \cup {RA_TRACK_TABLE_MUTE}]
<1> DEFINE tr == e.stream.tracks
           n == e.stream.num_channels
<1>1. \A c \in 0 .. n - 1 : tr[c] \in Int /\ tr[c] < MaxTracks
  <2>1. \A c \in 0 .. n - 1 : tr[c] < MaxTracks
    BY ElemType DEF ra_sd_rx_validate_stream
  <2>2. \A c \in 0 .. n - 1 : c \in 0 .. RA_MAX_CHANNELS - 1
    <3>1. n \in Nat /\ n <= RA_MAX_CHANNELS
      BY ElemType
    <3> HIDE DEF n
    <3> QED
      BY <3>1, ConstantTypes
  <2> QED
    BY <2>1, <2>2, ElemType
<1>2. ASSUME NEW x \in Entry
      PROVE  (IF x \in Area(e.trtb_index, n)
                THEN IF tr[x - e.trtb_index] >= 0 THEN tr[x - e.trtb_index]
                                                  ELSE RA_TRACK_TABLE_MUTE
                ELSE old[x]) \in (0 .. MaxTracks - 1) \cup {RA_TRACK_TABLE_MUTE}
  <2>1. CASE x \in Area(e.trtb_index, n)
    <3>1. x - e.trtb_index \in 0 .. n - 1
      BY <2>1, AreaChannels DEF AreaOf
    <3>2. tr[x - e.trtb_index] \in Int /\ tr[x - e.trtb_index] < MaxTracks
      BY <3>1, <1>1
    <3> HIDE DEF tr, n
    <3> QED
      BY <2>1, <3>2, ConstantTypes
  <2>2. CASE x \notin Area(e.trtb_index, n)
    BY <2>2
  <2> QED
    BY <2>1, <2>2
<1> QED
  BY <1>2 DEF ra_track_table_set

\* What the other streams own, they own outside of what slot k held; and what
\* is left in the bitmaps without slot k belongs to one of them.
LEMMA OthersKeepTheirs ==
  ASSUME IInv, NEW k \in Index
  PROVE  /\ \A i \in Live(streams) \ {k} :
              /\ AreaOf(streams[i]) \subseteq used_entries \ OldArea(k)
              /\ ActiveTracks(streams[i].stream) \subseteq used_tracks \ OldTracks(k)
         /\ \A x \in used_entries \ OldArea(k) :
              \E i \in Live(streams) \ {k} : x \in AreaOf(streams[i])
         /\ \A t \in used_tracks \ OldTracks(k) :
              \E i \in Live(streams) \ {k} : t \in ActiveTracks(streams[i].stream)
<1>1. CASE streams[k] = NULL
  <2>1. OldArea(k) = {} /\ OldTracks(k) = {} /\ k \notin Live(streams)
    BY <1>1 DEF OldArea, OldTracks, Live
  <2> QED
    BY <2>1 DEF IInv, EntriesAccounted, TracksExclusive
<1>2. CASE streams[k] # NULL
  <2>1. /\ k \in Live(streams)
        /\ OldArea(k) = AreaOf(streams[k])
        /\ OldTracks(k) = ActiveTracks(streams[k].stream)
    BY <1>2 DEF OldArea, OldTracks, Live
  <2> QED
    BY <2>1 DEF IInv, EntriesAccounted, TracksExclusive
<1> QED
  BY <1>1, <1>2

\* Replacing the stream of a slot preserves every invariant, whatever the slot
\* held: this is the core of add and of every way an update can end.
LEMMA ReplacePreserves ==
  ASSUME IInv, NEW k \in Index, NEW e \in Elem, Replaces(k, e),
         e.filp \in files, files' = files,
         last' \in [filp : File \cup {NULL}, ret : Int], warned' \in BOOLEAN
  PROVE  IInv'
<1>1. /\ streams'[k] = e
      /\ \A i \in Index : i # k => streams'[i] = streams[i]
      /\ streams' \in [Index -> Elem \cup {NULL}]
  BY DEF IInv, TypeOK, Replaces
<1>2. /\ Live(streams') = Live(streams) \cup {k}
      /\ \A i \in Live(streams') : streams'[i] \in Elem
  BY <1>1, ElemNotNull DEF Live
<1>3. \A i \in Live(streams') : i # k => i \in Live(streams) \ {k}
                                        /\ streams'[i] = streams[i]
  BY <1>1, <1>2 DEF Live
<1>4. /\ ActiveTracks(e.stream) \cap (used_tracks \ OldTracks(k)) = {}
      /\ \A c, d \in ActiveChannels(e.stream) :
           e.stream.tracks[c] = e.stream.tracks[d] => c = d
  BY NoConflicts, ElemType DEF Replaces
<1>5. ActiveTracks(e.stream) \subseteq 0 .. MaxTracks - 1
  BY ActiveTracksType, ElemType
<1> DEFINE freed == ra_track_table_free(trtb, OldArea(k))
<1>6. /\ freed \in [Entry -> (0 .. MaxTracks - 1) \cup {RA_TRACK_TABLE_MUTE}]
      /\ \A x \in Entry : freed[x] = IF x \in OldArea(k) THEN RA_TRACK_TABLE_MUTE
                                                         ELSE trtb[x]
  BY DEF IInv, TypeOK, ra_track_table_free
<1>7. trtb' = ra_track_table_set(freed, e.trtb_index, e.stream.num_channels,
                                 e.stream.tracks)
  BY DEF Replaces
<1> HIDE DEF freed
<1>8. TypeOK'
  <2>1. used_tracks' \subseteq 0 .. MaxTracks - 1 /\ used_entries' \subseteq Entry
    BY <1>5 DEF IInv, TypeOK, Replaces
  <2>2. trtb' \in [Entry -> (0 .. MaxTracks - 1) \cup {RA_TRACK_TABLE_MUTE}]
    BY <1>6, <1>7, TrtbSetType
  <2>3. sttb' \in [Index -> SttbEntry]
    <3>1. ra_stream_table_rx_set(e.stream, e.trtb_index) \in SttbEntry
      BY FillType, ElemType
    <3> QED
      BY <3>1 DEF IInv, TypeOK, Replaces
  <2> QED
    BY <1>1, <2>1, <2>2, <2>3 DEF IInv, TypeOK
<1>9. EntriesAccounted'
  <2>1. /\ AreaOf(e) \cap (used_entries \ OldArea(k)) = {}
        /\ used_entries' = (used_entries \ OldArea(k)) \cup AreaOf(e)
    BY DEF Replaces
  <2>2. \A i \in Live(streams') : AreaOf(streams'[i]) \subseteq used_entries'
    BY <1>1, <1>3, <2>1, OthersKeepTheirs
  <2>3. \A x \in used_entries' : \E i \in Live(streams') : x \in AreaOf(streams'[i])
    <3> TAKE x \in used_entries'
    <3>1. CASE x \in AreaOf(e)
      BY <3>1, <1>1, <1>2
    <3>2. CASE x \in used_entries \ OldArea(k)
      BY <3>2, <1>2, <1>3, OthersKeepTheirs
    <3> QED
      BY <2>1, <3>1, <3>2
  <2>4. ASSUME NEW i \in Live(streams'), NEW j \in Live(streams'), i # j
        PROVE  AreaOf(streams'[i]) \cap AreaOf(streams'[j]) = {}
    <3>1. CASE i # k /\ j # k
      BY <3>1, <1>3, <2>4 DEF IInv, EntriesAccounted
    <3>2. CASE i = k \/ j = k
      BY <3>2, <1>1, <1>3, <2>1, <2>4, OthersKeepTheirs
    <3> QED
      BY <3>1, <3>2
  <2> QED
    BY <2>2, <2>3, <2>4 DEF EntriesAccounted
<1>10. TracksExclusive'
  <2>1. used_tracks' = (used_tracks \ OldTracks(k)) \cup ActiveTracks(e.stream)
    BY DEF Replaces
  <2>2. \A i \in Live(streams') : ActiveTracks(streams'[i].stream) \subseteq used_tracks'
    BY <1>1, <1>3, <2>1, OthersKeepTheirs
  <2>3. \A t \in used_tracks' :
          \E i \in Live(streams') : t \in ActiveTracks(streams'[i].stream)
    <3> TAKE t \in used_tracks'
    <3>1. CASE t \in ActiveTracks(e.stream)
      BY <3>1, <1>1, <1>2
    <3>2. CASE t \in used_tracks \ OldTracks(k)
      BY <3>2, <1>2, <1>3, OthersKeepTheirs
    <3> QED
      BY <2>1, <3>1, <3>2
  <2>4. ASSUME NEW i \in Live(streams'), NEW j \in Live(streams'), i # j
        PROVE  ActiveTracks(streams'[i].stream) \cap ActiveTracks(streams'[j].stream) = {}
    <3>1. CASE i # k /\ j # k
      BY <3>1, <1>3, <2>4 DEF IInv, TracksExclusive
    <3>2. CASE i = k \/ j = k
      BY <3>2, <1>1, <1>3, <1>4, <2>4, OthersKeepTheirs
    <3> QED
      BY <3>1, <3>2
  <2>5. ASSUME NEW i \in Live(streams')
        PROVE  LET s == streams'[i].stream IN
               \A c, d \in ActiveChannels(s) : s.tracks[c] = s.tracks[d] => c = d
    <3>1. CASE i = k
      BY <3>1, <1>1, <1>4
    <3>2. CASE i # k
      BY <3>2, <1>3 DEF IInv, TracksExclusive
    <3> QED
      BY <3>1, <3>2
  <2> QED
    BY <2>2, <2>3, <2>4, <2>5 DEF TracksExclusive
<1>11. TrackTableRoutes'
  <2>1. ASSUME NEW i \in Live(streams'), NEW x \in AreaOf(streams'[i])
        PROVE  LET t == streams'[i].stream.tracks[x - streams'[i].trtb_index]
               IN  trtb'[x] = IF t >= 0 THEN t ELSE RA_TRACK_TABLE_MUTE
    <3>1. CASE i = k
      <4>1. x \in AreaOf(e) /\ x \in Entry /\ streams'[i] = e
        BY <3>1, <1>1, <2>1 DEF Replaces
      <4> QED
        BY <4>1, <1>7, TrtbSetRoutes
    <3>2. CASE i # k
      <4>1. i \in Live(streams) \ {k} /\ streams'[i] = streams[i]
        BY <1>3, <3>2
      <4>2. x \in used_entries \ OldArea(k) /\ x \in Entry
        BY <4>1, <2>1, OthersKeepTheirs DEF IInv, TypeOK
      <4>3. x \notin AreaOf(e)
        BY <4>2 DEF Replaces
      <4>4. trtb'[x] = trtb[x]
        BY <4>2, <4>3, <1>6, <1>7, TrtbSetRoutes
      <4> QED
        BY <4>1, <4>4, <2>1 DEF IInv, TrackTableRoutes
    <3> QED
      BY <3>1, <3>2
  <2>2. ASSUME NEW x \in Entry \ used_entries'
        PROVE  trtb'[x] = RA_TRACK_TABLE_MUTE
    <3>1. x \in Entry /\ x \notin AreaOf(e)
          /\ (x \in OldArea(k) \/ x \notin used_entries)
      BY <2>2 DEF Replaces
    <3>2. trtb'[x] = freed[x]
      BY <3>1, <1>7, TrtbSetRoutes
    <3> QED
      BY <3>1, <3>2, <1>6 DEF IInv, TrackTableRoutes
  <2> QED
    BY <2>1, <2>2 DEF TrackTableRoutes
<1>12. StreamTableCurrent'
  BY <1>1, <1>2, ElemNotNull DEF IInv, TypeOK, StreamTableCurrent, Replaces
<1>13. OwnersAreOpen'
  BY <1>1, <1>2, <1>3 DEF IInv, OwnersAreOpen
<1> QED
  BY <1>8, <1>9, <1>10, <1>11, <1>12, <1>13 DEF IInv

-----------------------------------------------------------------------------
(* Freeing streams, and the calls that change nothing.                     *)

\* ra_stream_table_rx_del leaves a well-typed entry.
LEMMA DelType ==
  ASSUME NEW entry \in SttbEntry
  PROVE  ra_stream_table_rx_del(entry) \in SttbEntry
<1> DEFINE mc == (entry.misc_control \ {"VLD", "ACT"}) \cup {"EXEC_HASH"}
<1>1. mc \in SUBSET {"VLD", "ACT", "EXEC_HASH"}
  BY DEF SttbEntry
<1>2. ra_stream_table_rx_del(entry) = [entry EXCEPT !.misc_control = mc]
  BY DEF ra_stream_table_rx_del
<1> HIDE DEF mc
<1> QED
  BY <1>1, <1>2 DEF SttbEntry

\* ra_sd_rx_free_stream preserves the invariant, for one stream or for all the
\* streams of a file, if the owners that remain are open.
LEMMA FreePreserves ==
  ASSUME IInv, NEW S \in SUBSET Live(streams), ra_sd_rx_free_stream(S),
         files' \subseteq files,
         \A i \in Live(streams) \ S : streams[i].filp \in files',
         last' \in [filp : File \cup {NULL}, ret : Int], warned' \in BOOLEAN
  PROVE  IInv'
<1> DEFINE area == UNION {AreaOf(streams[i]) : i \in S}
           tracks == UNION {ActiveTracks(streams[i].stream) : i \in S}
<1>1. /\ \A i \in Index : streams'[i] = IF i \in S THEN NULL ELSE streams[i]
      /\ streams' \in [Index -> Elem \cup {NULL}]
  BY DEF ra_sd_rx_free_stream, IInv, TypeOK
<1>2. Live(streams') = Live(streams) \ S
  BY <1>1 DEF Live
<1>3. \A i \in Live(streams') : streams'[i] = streams[i]
  BY <1>1, <1>2 DEF Live
<1>4. /\ used_entries' = used_entries \ area
      /\ used_tracks' = used_tracks \ tracks
      /\ \A x \in Entry : trtb'[x] = IF x \in area THEN RA_TRACK_TABLE_MUTE
                                                   ELSE trtb[x]
      /\ trtb' \in [Entry -> (0 .. MaxTracks - 1) \cup {RA_TRACK_TABLE_MUTE}]
  BY DEF ra_sd_rx_free_stream, ra_track_table_free, IInv, TypeOK
<1>5. /\ \A i \in Live(streams') :
           /\ AreaOf(streams[i]) \cap area = {}
           /\ ActiveTracks(streams[i].stream) \cap tracks = {}
      /\ \A x \in used_entries \ area :
           \E i \in Live(streams') : x \in AreaOf(streams[i])
      /\ \A t \in used_tracks \ tracks :
           \E i \in Live(streams') : t \in ActiveTracks(streams[i].stream)
  <2>1. \A i \in Live(streams'), j \in S : i \in Live(streams) /\ j \in Live(streams)
                                           /\ i # j
    BY <1>2
  <2> QED
    BY <1>2, <2>1 DEF IInv, EntriesAccounted, TracksExclusive
<1> HIDE DEF area, tracks
<1>6. TypeOK'
  <2>1. ASSUME NEW i \in Index
        PROVE  ra_stream_table_rx_del(sttb[i]) \in SttbEntry
    BY DelType DEF IInv, TypeOK
  <2>2. sttb' \in [Index -> SttbEntry]
    BY <2>1 DEF ra_sd_rx_free_stream, IInv, TypeOK
  <2> QED
    BY <1>1, <1>4, <2>2 DEF IInv, TypeOK
<1>7. EntriesAccounted'
  BY <1>2, <1>3, <1>4, <1>5 DEF IInv, EntriesAccounted
<1>8. TracksExclusive'
  BY <1>2, <1>3, <1>4, <1>5 DEF IInv, TracksExclusive
<1>9. TrackTableRoutes'
  <2>1. ASSUME NEW i \in Live(streams'), NEW x \in AreaOf(streams'[i])
        PROVE  LET t == streams'[i].stream.tracks[x - streams'[i].trtb_index]
               IN  trtb'[x] = IF t >= 0 THEN t ELSE RA_TRACK_TABLE_MUTE
    <3>1. i \in Live(streams) /\ streams'[i] = streams[i] /\ x \in AreaOf(streams[i])
      BY <1>2, <1>3, <2>1
    <3>2. x \in Entry /\ x \notin area
      BY <1>5, <3>1, <2>1 DEF IInv, TypeOK, EntriesAccounted
    <3> QED
      BY <1>4, <3>1, <3>2 DEF IInv, TrackTableRoutes
  <2>2. ASSUME NEW x \in Entry \ used_entries'
        PROVE  trtb'[x] = RA_TRACK_TABLE_MUTE
    BY <1>4, <2>2 DEF IInv, TrackTableRoutes
  <2> QED
    BY <2>1, <2>2 DEF TrackTableRoutes
<1>10. StreamTableCurrent'
  <2>1. ASSUME NEW i \in S
        PROVE  /\ sttb'[i].misc_control \cap {"VLD", "ACT"} = {}
               /\ streams'[i] = NULL
    <3>1. sttb'[i] = ra_stream_table_rx_del(sttb[i]) /\ sttb[i] \in SttbEntry
          /\ streams'[i] = NULL
      BY <1>1 DEF ra_sd_rx_free_stream, IInv, TypeOK, Live
    <3> QED
      BY <3>1 DEF SttbEntry, ra_stream_table_rx_del
  <2>2. ASSUME NEW i \in Index, i \notin S
        PROVE  sttb'[i] = sttb[i] /\ streams'[i] = streams[i]
    BY <1>1, <2>2 DEF ra_sd_rx_free_stream
  <2> QED
    BY <2>1, <2>2 DEF IInv, StreamTableCurrent
<1>11. OwnersAreOpen'
  BY <1>2, <1>3 DEF OwnersAreOpen
<1> QED
  BY <1>6, <1>7, <1>8, <1>9, <1>10, <1>11 DEF IInv

\* A refused call preserves the invariant: it changes neither the streams nor
\* what they own.
LEMMA UnchangedPreserves ==
  ASSUME IInv, UNCHANGED <<streams, used_tracks, used_entries, trtb, sttb>>,
         files \subseteq files', files' \subseteq File,
         last' \in [filp : File \cup {NULL}, ret : Int], warned' \in BOOLEAN
  PROVE  IInv'
<1>1. TypeOK'
  BY DEF IInv, TypeOK
<1>2. EntriesAccounted' /\ TracksExclusive'
  BY DEF IInv, EntriesAccounted, TracksExclusive
<1>3. TrackTableRoutes' /\ StreamTableCurrent'
  BY DEF IInv, TrackTableRoutes, StreamTableCurrent
<1>4. OwnersAreOpen'
  BY DEF IInv, OwnersAreOpen
<1> QED
  BY <1>1, <1>2, <1>3, <1>4 DEF IInv

-----------------------------------------------------------------------------
(* One lemma per ioctl.                                                    *)

\* Every return value is a number, so the bookkeeping of calls stays typed.
LEMMA ReturnsType ==
  ASSUME NEW f \in File, NEW value \in Int, Returns(f, value)
  PROVE  last' \in [filp : File \cup {NULL}, ret : Int]
BY DEF Returns

\* ra_sd_rx_tracks_available returns 0 or a negative error number.
LEMMA AvailableType ==
  ASSUME NEW used, NEW s
  PROVE  ra_sd_rx_tracks_available(used, s) \in Int
BY DEF ra_sd_rx_tracks_available, EBUSY, EINVAL

\* Adding a stream puts it into a free slot, whose index the ioctl returns.
LEMMA AddReplaces ==
  ASSUME IInv, NEW f \in File, NEW s \in Input, Add(f, s)
  PROVE  \E k \in Index, e \in Elem :
           /\ Replaces(k, e) /\ e.filp = f
           /\ OldArea(k) = {} /\ Returns(f, k)
<1>1. s \in Stream /\ ra_sd_rx_validate_stream(s) /\ s.num_channels \in Nat
  BY RxAssumption DEF Add, Stream
<1>2. PICK k \in Index \ Live(streams),
           start \in ra_track_table_alloc(used_entries, s.num_channels) :
        /\ streams' = [streams EXCEPT ![k] =
                         [filp |-> f, stream |-> s, trtb_index |-> start]]
        /\ used_entries' = used_entries \cup Area(start, s.num_channels)
        /\ used_tracks' = used_tracks \cup ActiveTracks(s)
        /\ trtb' = ra_track_table_set(trtb, start, s.num_channels, s.tracks)
        /\ sttb' = [sttb EXCEPT ![k] = ra_stream_table_rx_set(s, start)]
        /\ Returns(f, k)
  BY DEF Add
<1> DEFINE e == [filp |-> f, stream |-> s, trtb_index |-> start]
<1>3. /\ start \in Entry /\ Area(start, s.num_channels) \subseteq Entry
      /\ Area(start, s.num_channels) \cap used_entries = {}
  BY <1>1, AllocSound
<1>4. e \in Elem
  BY <1>1, <1>3 DEF Elem
<1>5. OldArea(k) = {} /\ OldTracks(k) = {}
  BY DEF OldArea, OldTracks, Live
<1>6. Conflicts(used_tracks, s) = {}
  BY AvailableMeansNoConflicts DEF Add
<1>7. ra_track_table_free(trtb, {}) = trtb
  BY DEF ra_track_table_free, IInv, TypeOK
<1>8. /\ e.filp = f /\ e.stream = s /\ e.trtb_index = start
      /\ AreaOf(e) = Area(start, s.num_channels)
  BY DEF AreaOf
<1>9. streams' = [streams EXCEPT ![k] = e]
  BY <1>2
<1> HIDE DEF e
<1>10. Replaces(k, e)
  BY <1>2, <1>3, <1>5, <1>6, <1>7, <1>8, <1>9 DEF Replaces
<1> QED
  BY <1>2, <1>4, <1>5, <1>8, <1>10

\* RA_SD_ADD_RX_STREAM preserves the invariant.
LEMMA AddPreserves ==
  ASSUME IInv, NEW f \in File, NEW s \in Input, ra_sd_rx_add_stream_ioctl(f, s)
  PROVE  IInv'
<1>1. CASE AddRefused(f, s)
  <2>1. last' \in [filp : File \cup {NULL}, ret : Int]
    BY <1>1, ReturnsType, AvailableType
       DEF AddRefused, BadCommand, EFAULT, EINVAL, ENOMEM, EBUSY, ENOSPC
  <2>2. UNCHANGED <<files, rxState>>
    BY <1>1 DEF AddRefused
  <2> QED
    BY <2>1, <2>2, UnchangedPreserves DEF rxState, IInv, TypeOK
<1>2. CASE Add(f, s)
  <2>1. PICK k \in Index, e \in Elem : Replaces(k, e) /\ e.filp = f /\ Returns(f, k)
    BY <1>2, AddReplaces
  <2>2. k \in Int
    BY ConstantTypes DEF Index
  <2>3. /\ last' \in [filp : File \cup {NULL}, ret : Int]
        /\ f \in files /\ files' = files /\ warned' \in BOOLEAN
    BY <1>2, <2>1, <2>2, ReturnsType DEF Add, ra_sd_rx_add_stream_ioctl, IInv, TypeOK
  <2> QED
    BY <2>1, <2>3, ReplacePreserves
<1> QED
  BY <1>1, <1>2 DEF ra_sd_rx_add_stream_ioctl

\* What an update that passed its checks may rely on.
LEMMA AcceptedFacts ==
  ASSUME IInv, NEW f \in File, NEW k, NEW s \in Input, UpdateAccepted(f, k, s)
  PROVE  /\ k \in Index
         /\ streams[k] \in Elem
         /\ streams[k].filp = f
         /\ streams[k] = [filp |-> f, stream |-> streams[k].stream,
                          trtb_index |-> streams[k].trtb_index]
         /\ OldArea(k) = AreaOf(streams[k])
         /\ OldTracks(k) = ActiveTracks(streams[k].stream)
         /\ AreaOf(streams[k]) \subseteq Entry
         /\ OldTracks(k) \subseteq used_tracks
         /\ s \in Stream /\ ra_sd_rx_validate_stream(s)
         /\ s.num_channels \in Nat
         /\ Conflicts(used_tracks \ OldTracks(k), s) = {}
<1>1. k \in Index /\ streams[k] # NULL /\ streams[k].filp = f
  BY DEF UpdateAccepted, MayAccess, ra_sd_rx_stream_elem_find_by_index
<1>2. streams[k] \in Elem /\ k \in Live(streams)
  BY <1>1 DEF IInv, TypeOK, Live
<1>3. streams[k] = [filp |-> f, stream |-> streams[k].stream,
                    trtb_index |-> streams[k].trtb_index]
  BY <1>1, <1>2 DEF Elem
<1>4. /\ OldArea(k) = AreaOf(streams[k])
      /\ OldTracks(k) = ActiveTracks(streams[k].stream)
  BY <1>1 DEF OldArea, OldTracks
<1>5. AreaOf(streams[k]) \subseteq Entry /\ OldTracks(k) \subseteq used_tracks
  BY <1>2, <1>4 DEF IInv, TypeOK, EntriesAccounted, TracksExclusive
<1>6. s \in Stream /\ ra_sd_rx_validate_stream(s) /\ s.num_channels \in Nat
  BY RxAssumption DEF UpdateAccepted, Stream
<1>7. Conflicts(used_tracks \ OldTracks(k), s) = {}
  BY <1>4, AvailableMeansNoConflicts DEF UpdateAccepted, OtherTracks
<1> QED
  BY <1>1, <1>2, <1>3, <1>4, <1>5, <1>6, <1>7

\* What an accepted stream is in the xarray, and what storing it there writes.
StreamElem(f, s, start) == [filp |-> f, stream |-> s, trtb_index |-> start]

Stores(f, k, s, start) ==
  /\ streams' = [streams EXCEPT ![k] = StreamElem(f, s, start)]
  /\ used_entries' = (used_entries \ OldArea(k)) \cup Area(start, s.num_channels)
  /\ used_tracks' = (used_tracks \ OldTracks(k)) \cup ActiveTracks(s)
  /\ trtb' = ra_track_table_set(ra_track_table_free(trtb, OldArea(k)),
                                start, s.num_channels, s.tracks)
  /\ sttb' = [sttb EXCEPT ![k] = ra_stream_table_rx_set(s, start)]

\* Putting a stream that passed the checks into its slot, with an area that is
\* free once the old one is, is a replacement.
LEMMA PutReplaces ==
  ASSUME NEW f \in File, NEW k \in Index,
         NEW s \in Stream, ra_sd_rx_validate_stream(s), NEW start \in Entry,
         Area(start, s.num_channels) \subseteq Entry,
         Area(start, s.num_channels) \cap (used_entries \ OldArea(k)) = {},
         Conflicts(used_tracks \ OldTracks(k), s) = {}, Stores(f, k, s, start)
  PROVE  /\ StreamElem(f, s, start) \in Elem
         /\ StreamElem(f, s, start).filp = f
         /\ AreaOf(StreamElem(f, s, start)) = Area(start, s.num_channels)
         /\ Replaces(k, StreamElem(f, s, start))
<1> DEFINE e == StreamElem(f, s, start)
<1>1. e \in Elem
  BY DEF Elem, StreamElem
<1>2. /\ e.filp = f /\ e.stream = s /\ e.trtb_index = start
      /\ AreaOf(e) = Area(start, s.num_channels)
  BY DEF AreaOf, StreamElem
<1>3. streams' = [streams EXCEPT ![k] = e]
  BY DEF Stores
<1> HIDE DEF e
<1>4. Replaces(k, e)
  BY <1>2, <1>3 DEF Replaces, Stores
<1> QED
  BY <1>1, <1>2, <1>4 DEF e

\* However an update that passed its checks ends, it replaces what its slot held.
LEMMA UpdateReplaces ==
  ASSUME IInv, NEW f \in File, NEW k \in CmdIndex, NEW s \in Input,
         \/ UpdateInPlace(f, k, s)
         \/ UpdateMoved(f, k, s)
         \/ UpdateRolledBack(f, k, s)
  PROVE  /\ UpdateAccepted(f, k, s)
         /\ \E new \in Elem : /\ Replaces(k, new) /\ new.filp = f
                              /\ UpdateInPlace(f, k, s) => AreaOf(new) = OldArea(k)
         /\ \E value \in Int : Returns(f, value)
         /\ files' = files /\ warned' = warned
<1> DEFINE e == streams[k]
           n == e.stream.num_channels
<1>0. UpdateAccepted(f, k, s)
  BY DEF UpdateInPlace, UpdateMoved, UpdateRolledBack
<1>1. CASE UpdateInPlace(f, k, s)
  <2>0. PICK start : start = e.trtb_index
    OBVIOUS
  <2>1. UpdateAccepted(f, k, s)
    BY <1>1 DEF UpdateInPlace
  <2>2. /\ k \in Index /\ e \in Elem /\ e.filp = f
        /\ OldArea(k) = AreaOf(e) /\ OldTracks(k) = ActiveTracks(e.stream)
        /\ s \in Stream /\ ra_sd_rx_validate_stream(s)
        /\ Conflicts(used_tracks \ OldTracks(k), s) = {}
    BY <2>1, AcceptedFacts
  <2>3. start \in Entry /\ OldArea(k) \subseteq Entry
    BY <2>0, <2>1, <2>2, AcceptedFacts, ElemType
  <2>4. OldArea(k) = Area(start, s.num_channels)
    BY <1>1, <2>0, <2>2 DEF AreaOf, UpdateInPlace
  <2>5. OldArea(k) \subseteq used_entries
    BY <2>2, ElemNotNull DEF IInv, EntriesAccounted, Live
  <2>6. streams' = [streams EXCEPT ![k] =
                      [filp |-> f, stream |-> s, trtb_index |-> start]]
    BY <1>1, <2>0, <2>2 DEF UpdateInPlace
  <2>7. used_entries' = (used_entries \ OldArea(k)) \cup OldArea(k)
    BY <1>1, <2>5 DEF UpdateInPlace
  <2>8. used_tracks' = (used_tracks \ OldTracks(k)) \cup ActiveTracks(s)
    BY <1>1, <2>2 DEF UpdateInPlace, OtherTracks
  <2>9. trtb' = ra_track_table_set(ra_track_table_free(trtb, OldArea(k)),
                                   start, s.num_channels, s.tracks)
    <3>1. trtb' = ra_track_table_set(trtb, start, s.num_channels, s.tracks)
      BY <1>1, <2>0 DEF UpdateInPlace
    <3> QED
      BY <3>1, <2>4 DEF ra_track_table_set, ra_track_table_free
  <2>10. /\ sttb' = [sttb EXCEPT ![k] = ra_stream_table_rx_set(s, start)]
         /\ Returns(f, 0) /\ 0 \in Int /\ UNCHANGED <<files, warned>>
    BY <1>1, <2>0 DEF UpdateInPlace
  <2>11. /\ Area(start, s.num_channels) \subseteq Entry
         /\ Area(start, s.num_channels) \cap (used_entries \ OldArea(k)) = {}
         /\ used_entries' = (used_entries \ OldArea(k))
                              \cup Area(start, s.num_channels)
    BY <2>3, <2>4, <2>7
  <2> HIDE DEF e, n
  <2>12. /\ k \in Index /\ s \in Stream /\ ra_sd_rx_validate_stream(s) /\ start \in Entry
         /\ Conflicts(used_tracks \ OldTracks(k), s) = {}
    BY <2>2, <2>3
  <2>13. Stores(f, k, s, start)
    BY <2>6, <2>8, <2>9, <2>10, <2>11 DEF Stores, StreamElem
  <2>14. /\ StreamElem(f, s, start) \in Elem /\ Replaces(k, StreamElem(f, s, start))
         /\ StreamElem(f, s, start).filp = f
         /\ AreaOf(StreamElem(f, s, start)) = OldArea(k)
    BY <2>4, <2>11, <2>12, <2>13, PutReplaces
  <2> QED
    BY <1>0, <2>10, <2>14
<1>2. CASE UpdateMoved(f, k, s)
  <2>1. UpdateAccepted(f, k, s)
    BY <1>2 DEF UpdateMoved
  <2>2. /\ k \in Index /\ e \in Elem /\ e.filp = f
        /\ OldArea(k) = AreaOf(e) /\ OldTracks(k) = ActiveTracks(e.stream)
        /\ s \in Stream /\ ra_sd_rx_validate_stream(s) /\ s.num_channels \in Nat
        /\ Conflicts(used_tracks \ OldTracks(k), s) = {}
    BY <2>1, AcceptedFacts
  <2>3. PICK start \in ra_track_table_alloc(used_entries \ OldArea(k), s.num_channels) :
          /\ streams' = [streams EXCEPT ![k] =
                           [filp |-> f, stream |-> s, trtb_index |-> start]]
          /\ used_entries' = (used_entries \ OldArea(k)) \cup Area(start, s.num_channels)
          /\ trtb' = ra_track_table_set(ra_track_table_free(trtb, OldArea(k)),
                                        start, s.num_channels, s.tracks)
          /\ sttb' = [sttb EXCEPT ![k] = ra_stream_table_rx_set(s, start)]
          /\ Returns(f, start)
    BY <1>2, <2>2 DEF UpdateMoved
  <2>4. /\ start \in Entry /\ Area(start, s.num_channels) \subseteq Entry
        /\ Area(start, s.num_channels) \cap (used_entries \ OldArea(k)) = {}
    BY <2>2, AllocSound
  <2>5. start \in Int
    BY <2>4, ConstantTypes DEF Entry
  <2>6. used_tracks' = (used_tracks \ OldTracks(k)) \cup ActiveTracks(s)
    BY <1>2, <2>2 DEF UpdateMoved, OtherTracks
  <2>7. UNCHANGED <<files, warned>>
    BY <1>2 DEF UpdateMoved
  <2>8. ~UpdateInPlace(f, k, s)
    BY <1>2 DEF UpdateMoved, UpdateInPlace
  <2> HIDE DEF e, n
  <2>9. Stores(f, k, s, start)
    BY <2>3, <2>6 DEF Stores, StreamElem
  <2>10. /\ StreamElem(f, s, start) \in Elem /\ Replaces(k, StreamElem(f, s, start))
         /\ StreamElem(f, s, start).filp = f
    BY <2>2, <2>4, <2>9, PutReplaces
  <2> QED
    BY <1>0, <2>3, <2>5, <2>7, <2>8, <2>10
<1>3. CASE UpdateRolledBack(f, k, s)
  <2>1. UpdateAccepted(f, k, s)
    BY <1>3 DEF UpdateRolledBack
  <2>2. /\ k \in Index /\ e \in Elem /\ e.filp = f
        /\ OldArea(k) = AreaOf(e) /\ OldTracks(k) = ActiveTracks(e.stream)
    BY <2>1, AcceptedFacts
  <2>3. e.stream \in Stream /\ ra_sd_rx_validate_stream(e.stream) /\ n \in Nat
    BY <2>2, ElemType
  <2>4. Conflicts(used_tracks \ OldTracks(k), e.stream) = {}
    <3>1. ActiveTracks(e.stream) \cap (used_tracks \ OldTracks(k)) = {}
      BY <2>2
    <3>2. \A c, d \in ActiveChannels(e.stream) :
            e.stream.tracks[c] = e.stream.tracks[d] => c = d
      BY <2>2, ElemNotNull DEF IInv, TracksExclusive, Live
    <3> QED
      BY <3>1, <3>2, <2>3, DistinctMeansNoConflicts
  <2>5. PICK start \in ra_track_table_alloc(used_entries \ OldArea(k), n) :
          /\ streams' = [streams EXCEPT ![k] =
                           [filp |-> f, stream |-> e.stream, trtb_index |-> start]]
          /\ used_entries' = (used_entries \ OldArea(k)) \cup Area(start, n)
          /\ trtb' = ra_track_table_set(ra_track_table_free(trtb, OldArea(k)),
                                        start, n, e.stream.tracks)
          /\ sttb' = [sttb EXCEPT ![k] = ra_stream_table_rx_set(e.stream, start)]
    BY <1>3, <2>2 DEF UpdateRolledBack
  <2>6. /\ start \in Entry /\ Area(start, n) \subseteq Entry
        /\ Area(start, n) \cap (used_entries \ OldArea(k)) = {}
    BY <2>3, AllocSound
  <2>7. used_tracks' = (used_tracks \ OldTracks(k)) \cup ActiveTracks(e.stream)
    BY <1>3, <2>2 DEF UpdateRolledBack, OtherTracks
  <2>8. Returns(f, -ENOSPC) /\ -ENOSPC \in Int /\ UNCHANGED <<files, warned>>
    BY <1>3 DEF UpdateRolledBack, ENOSPC
  <2>9. ~UpdateInPlace(f, k, s)
    BY <1>3 DEF UpdateRolledBack, UpdateInPlace
  <2>10. Stores(f, k, e.stream, start)
    BY <2>5, <2>7 DEF Stores, StreamElem
  <2> HIDE DEF e
  <2>11. /\ StreamElem(f, e.stream, start) \in Elem
         /\ Replaces(k, StreamElem(f, e.stream, start))
         /\ StreamElem(f, e.stream, start).filp = f
    BY <2>2, <2>3, <2>4, <2>6, <2>10, PutReplaces
  <2> QED
    BY <1>0, <2>8, <2>9, <2>11
<1> QED
  BY <1>1, <1>2, <1>3

\* The WARN_ON is reached with a stream without channels only, and then nothing
\* but the warning changes.
LEMMA WarnChangesNothing ==
  ASSUME IInv, NEW f \in File, NEW k \in CmdIndex, NEW s \in Input, UpdateWarns(f, k, s)
  PROVE  /\ k \in Index /\ streams[k] \in Elem /\ streams[k].stream.num_channels = 0
         /\ UNCHANGED <<files, streams, used_tracks, used_entries, trtb, sttb>>
<1> DEFINE e == streams[k]
           n == e.stream.num_channels
<1>1. UpdateAccepted(f, k, s)
  BY DEF UpdateWarns
<1>2. k \in Index /\ e \in Elem /\ AreaOf(e) \subseteq Entry
      /\ ActiveTracks(e.stream) \subseteq used_tracks
  BY <1>1, AcceptedFacts
<1>3. e.trtb_index \in Entry /\ e.trtb_index \in Nat /\ n \in Nat
  BY <1>2, ElemType
<1>4. ~(n > 0)
  BY <1>2, <1>3, FreedAreaIsZero, AllocComplete DEF UpdateWarns, AreaOf
<1>5. n = 0
  <2> HIDE DEF n
  <2> QED
    BY <1>3, <1>4
<1>6. AreaOf(e) = {}
  BY <1>3, <1>5 DEF AreaOf, Area
<1>7. trtb' = trtb /\ used_entries' = used_entries
  BY <1>6 DEF UpdateWarns, ra_track_table_free, IInv, TypeOK
<1>8. used_tracks' = used_tracks
  BY <1>2 DEF UpdateWarns, OtherTracks
<1> QED
  BY <1>2, <1>5, <1>7, <1>8 DEF UpdateWarns

\* An update that is refused changes neither the streams nor what they own.
LEMMA RefusalChangesNothing ==
  ASSUME IInv, NEW f \in File, NEW k \in CmdIndex, NEW s \in Input, UpdateRefused(f, k, s)
  PROVE  UNCHANGED <<files, streams, used_tracks, used_entries, trtb, sttb, warned>>
<1> DEFINE e == streams[k]
<1>1. UNCHANGED <<files, streams, used_entries, trtb, sttb, warned>>
  BY DEF UpdateRefused
<1>2. CASE ~MayAccess(f, k)
  BY <1>1, <1>2 DEF UpdateRefused
<1>3. CASE MayAccess(f, k)
  <2>1. k \in Index /\ streams[k] # NULL /\ streams[k].filp = f
    BY <1>3 DEF MayAccess, ra_sd_rx_stream_elem_find_by_index
  <2>2. ActiveTracks(e.stream) \subseteq used_tracks
    BY <2>1 DEF IInv, TracksExclusive, Live
  <2>3. \/ used_tracks' = used_tracks
        \/ used_tracks' = OtherTracks(e) \cup ActiveTracks(e.stream)
    BY <2>1 DEF UpdateRefused, ra_sd_rx_stream_elem_find_by_index
  <2>4. used_tracks' = used_tracks
    BY <2>2, <2>3 DEF OtherTracks
  <2> QED
    BY <1>1, <2>4
<1> QED
  BY <1>2, <1>3

\* RA_SD_UPDATE_RX_STREAM preserves the invariant, however it ends.
LEMMA UpdateIoctlPreserves ==
  ASSUME IInv, NEW f \in File, NEW k \in CmdIndex, NEW s \in Input,
         ra_sd_rx_update_stream_ioctl(f, k, s)
  PROVE  IInv'
<1>0. f \in files
  BY DEF ra_sd_rx_update_stream_ioctl
<1>1. CASE UpdateRefused(f, k, s)
  <2>1. last' \in [filp : File \cup {NULL}, ret : Int]
    BY <1>1, ReturnsType, AvailableType
       DEF UpdateRefused, BadCommand, EFAULT, EINVAL, ENOENT, EACCES, ENOMEM
  <2>2. UNCHANGED <<files, streams, used_tracks, used_entries, trtb, sttb, warned>>
    BY <1>1, RefusalChangesNothing
  <2> QED
    BY <2>1, <2>2, UnchangedPreserves DEF IInv, TypeOK
<1>2. CASE UpdateInPlace(f, k, s) \/ UpdateMoved(f, k, s) \/ UpdateRolledBack(f, k, s)
  <2>1. /\ UpdateAccepted(f, k, s) /\ files' = files /\ warned' = warned
        /\ \E e \in Elem : Replaces(k, e) /\ e.filp = f
        /\ \E value \in Int : Returns(f, value)
    BY <1>2, UpdateReplaces
  <2>4. k \in Index
    BY <2>1, AcceptedFacts
  <2>2. last' \in [filp : File \cup {NULL}, ret : Int]
    BY <2>1, ReturnsType
  <2>3. warned' \in BOOLEAN
    BY <2>1 DEF IInv, TypeOK
  <2> QED
    BY <1>0, <2>1, <2>2, <2>3, <2>4, ReplacePreserves
<1>3. CASE UpdateWarns(f, k, s)
  <2>1. UNCHANGED <<files, streams, used_tracks, used_entries, trtb, sttb>>
    BY <1>3, WarnChangesNothing
  <2>2. warned' \in BOOLEAN /\ Returns(f, -ENOSPC) /\ -ENOSPC \in Int
    BY <1>3 DEF UpdateWarns, ENOSPC
  <2>3. last' \in [filp : File \cup {NULL}, ret : Int]
    BY <2>2, ReturnsType
  <2> QED
    BY <2>1, <2>2, <2>3, UnchangedPreserves DEF IInv, TypeOK
<1> QED
  BY <1>1, <1>2, <1>3 DEF ra_sd_rx_update_stream_ioctl

\* RA_SD_DELETE_RX_STREAM and release() preserve the invariant.
LEMMA DeletePreserves ==
  ASSUME IInv, NEW f \in File,
         \/ \E k \in CmdIndex : ra_sd_rx_delete_stream_ioctl(f, k)
         \/ ra_sd_rx_delete_streams(f)
  PROVE  IInv'
<1>1. ASSUME NEW k \in CmdIndex, f \in files, DeleteRefused(f, k)
      PROVE  IInv'
  <2>1. last' \in [filp : File \cup {NULL}, ret : Int]
    BY <1>1, ReturnsType DEF DeleteRefused, BadCommand, EFAULT, EINVAL, ENOENT, EACCES
  <2> QED
    BY <1>1, <2>1, UnchangedPreserves DEF DeleteRefused, rxState, IInv, TypeOK
<1>2. ASSUME NEW k \in CmdIndex, f \in files, Delete(f, k)
      PROVE  IInv'
  <2>1. {k} \in SUBSET Live(streams)
    BY <1>2 DEF Delete, MayAccess, ra_sd_rx_stream_elem_find_by_index, Live
  <2>2. \A i \in Live(streams) \ {k} : streams[i].filp \in files'
    BY <1>2 DEF Delete, IInv, OwnersAreOpen
  <2>3. last' \in [filp : File \cup {NULL}, ret : Int]
    BY <1>2, ReturnsType DEF Delete
  <2> QED
    BY <1>2, <2>1, <2>2, <2>3, FreePreserves DEF Delete, IInv, TypeOK
<1>3. ASSUME ra_sd_rx_delete_streams(f)
      PROVE  IInv'
  <2> DEFINE S == {i \in Live(streams) : streams[i].filp = f}
  <2>1. ra_sd_rx_free_stream(S) /\ files' = files \ {f} /\ warned' = warned
    BY <1>3 DEF ra_sd_rx_delete_streams
  <2>2. \A i \in Live(streams) \ S : streams[i].filp \in files'
    BY <2>1 DEF IInv, OwnersAreOpen
  <2>3. last' \in [filp : File \cup {NULL}, ret : Int]
    BY <1>3, ReturnsType DEF ra_sd_rx_delete_streams
  <2>4. S \in SUBSET Live(streams)
    OBVIOUS
  <2> HIDE DEF S
  <2> QED
    BY <2>1, <2>2, <2>3, <2>4, FreePreserves DEF IInv, TypeOK
<1> QED
  BY <1>1, <1>2, <1>3 DEF ra_sd_rx_delete_stream_ioctl

-----------------------------------------------------------------------------
(* The theorems.                                                           *)

\* After ra_sd_rx_probe there are no streams, and the tables are reset.
LEMMA InitIInv == Init => IInv
<1> SUFFICES ASSUME Init PROVE IInv
  OBVIOUS
<1>1. Live(streams) = {}
  BY DEF Init, Live
<1>2. TypeOK
  <2>1. ra_stream_table_rx_reset \in [Index -> SttbEntry]
    BY DEF ra_stream_table_rx_reset, SttbEntry, Interface, NoInterface
  <2>2. trtb \in [Entry -> (0 .. MaxTracks - 1) \cup {RA_TRACK_TABLE_MUTE}]
    BY DEF Init, ra_track_table_reset
  <2>3. last \in [filp : File \cup {NULL}, ret : Int]
    BY DEF Init
  <2>4. warned \in BOOLEAN /\ streams \in [Index -> Elem \cup {NULL}]
    BY DEF Init
  <2> QED
    BY <2>1, <2>2, <2>3, <2>4 DEF Init, TypeOK
<1>3. TrackTableRoutes
  BY <1>1 DEF Init, TrackTableRoutes, ra_track_table_reset
<1>4. StreamTableCurrent
  BY DEF Init, StreamTableCurrent, ra_stream_table_rx_reset
<1>5. EntriesAccounted /\ TracksExclusive /\ OwnersAreOpen
  BY <1>1 DEF Init, EntriesAccounted, TracksExclusive, OwnersAreOpen
<1> QED
  BY <1>2, <1>3, <1>4, <1>5 DEF IInv

\* Every system call preserves the invariant.
LEMMA NextIInv == IInv /\ [Next]_vars => IInv'
<1> SUFFICES ASSUME IInv, [Next]_vars PROVE IInv'
  OBVIOUS
<1>1. ASSUME NEW f \in File, Open(f)
      PROVE  IInv'
  <2>1. last' \in [filp : File \cup {NULL}, ret : Int]
    BY <1>1, ReturnsType DEF Open
  <2> QED
    BY <1>1, <2>1, UnchangedPreserves DEF Open, rxState, IInv, TypeOK
<1>2. ASSUME UNCHANGED vars
      PROVE  IInv'
  BY <1>2, UnchangedPreserves DEF vars, IInv, TypeOK
<1> QED
  BY <1>1, <1>2, AddPreserves, UpdateIoctlPreserves, DeletePreserves DEF Next

\* The inductive invariant holds in every reachable state of the RX half.
THEOREM Invariance == Spec => []IInv
BY InitIInv, NextIInv, PTL DEF Spec

\* For tables of any size and any number of clients: the bitmap of the track
\* table marks exactly the areas of the live streams, which are disjoint.
THEOREM EntriesAccountedAlways == Spec => []EntriesAccounted
BY Invariance, PTL DEF IInv

\* No two channels, of one stream or of two, ever receive into one track, and
\* used_tracks marks exactly the tracks in use.
THEOREM TracksExclusiveAlways == Spec => []TracksExclusive
BY Invariance, PTL DEF IInv

\* The FPGA track table routes exactly the channels of the live streams.
THEOREM TrackTableRoutesAlways == Spec => []TrackTableRoutes
BY Invariance, PTL DEF IInv

\* The FPGA stream table describes exactly the live streams.
THEOREM StreamTableCurrentAlways == Spec => []StreamTableCurrent
BY Invariance, PTL DEF IInv

\* All variables keep their types, and every stream belongs to an open file.
THEOREM TypesAndOwners == Spec => [](TypeOK /\ OwnersAreOpen)
BY Invariance, PTL DEF IInv

\* The hash table never gets a valid entry with a zero address or port,
\* because validation and ra_stream_table_rx_fill together exclude it.
THEOREM NoZeroHashAlways == Spec => []NoZeroHash
<1>1. IInv => NoZeroHash
  <2> SUFFICES ASSUME IInv, NEW i \in Index, "VLD" \in sttb[i].misc_control
               PROVE  \A iface \in {sttb[i].primary, sttb[i].secondary} :
                        iface.destination_ip # 0 /\ iface.destination_port # 0
    BY DEF NoZeroHash
  <2>1. streams[i] # NULL
    BY DEF IInv, StreamTableCurrent
  <2>2. /\ streams[i] \in Elem
        /\ sttb[i] = ra_stream_table_rx_set(streams[i].stream, streams[i].trtb_index)
    BY <2>1 DEF IInv, TypeOK, StreamTableCurrent
  <2> QED
    BY <2>2, ElemType, FillType
<1> QED
  BY <1>1, Invariance, PTL

\* The second allocation of a failed update finds room for any stream that has
\* channels: the comment above the WARN_ON is right about those.
THEOREM RollbackHasRoomAlways == Spec => []RollbackHasRoom
<1>1. IInv => RollbackHasRoom
  <2> SUFFICES ASSUME IInv, NEW i \in Live(streams),
                      streams[i].stream.num_channels > 0
               PROVE  ZeroAreas(used_entries \ AreaOf(streams[i]),
                                streams[i].stream.num_channels) # {}
    BY DEF RollbackHasRoom
  <2>1. streams[i] \in Elem /\ AreaOf(streams[i]) \subseteq Entry
    BY DEF IInv, TypeOK, EntriesAccounted, Live
  <2> QED
    BY <2>1, ElemType, FreedAreaIsZero DEF AreaOf
<1> QED
  BY <1>1, Invariance, PTL

\* No system call of one client adds to, changes, moves or removes a stream of
\* another.
THEOREM OnlyOwnerChanges == Spec => OnlyOwnerChangesStreams
<1> DEFINE A(i) == streams'[i] # streams[i] =>
             /\ streams[i] # NULL => streams[i].filp = last'.filp
             /\ streams'[i] # NULL => streams'[i].filp = last'.filp
<1>1. ASSUME IInv, Next, NEW i \in Index
      PROVE  A(i)
  <2>1. PICK f \in File :
          \/ Open(f)
          \/ \E s \in Input : ra_sd_rx_add_stream_ioctl(f, s)
          \/ \E index \in CmdIndex, s \in Input :
               ra_sd_rx_update_stream_ioctl(f, index, s)
          \/ \E index \in CmdIndex : ra_sd_rx_delete_stream_ioctl(f, index)
          \/ ra_sd_rx_delete_streams(f)
    BY <1>1 DEF Next
  <2>2. CASE streams' = streams
    BY <2>2
  <2>3. ASSUME NEW s \in Input, Add(f, s)
        PROVE  A(i)
    BY <1>1, <2>3 DEF Add, Returns, Live, IInv, TypeOK
  <2>4. ASSUME NEW k \in CmdIndex, NEW s \in Input,
               UpdateInPlace(f, k, s) \/ UpdateMoved(f, k, s)
               \/ UpdateRolledBack(f, k, s)
        PROVE  A(i)
    <3>1. UpdateAccepted(f, k, s)
      BY <2>4 DEF UpdateInPlace, UpdateMoved, UpdateRolledBack
    <3>2. k \in Index /\ streams[k].filp = f
      BY <1>1, <3>1, AcceptedFacts
    <3>3. \E st, start : streams' = [streams EXCEPT ![k] =
                           [filp |-> f, stream |-> st, trtb_index |-> start]]
      BY <2>4, <3>2 DEF UpdateInPlace, UpdateMoved, UpdateRolledBack
    <3>4. last'.filp = f
      BY <2>4 DEF UpdateInPlace, UpdateMoved, UpdateRolledBack, Returns
    <3> QED
      BY <1>1, <3>2, <3>3, <3>4 DEF IInv, TypeOK
  <2>5. ASSUME NEW k \in CmdIndex, Delete(f, k)
        PROVE  A(i)
    BY <2>5 DEF Delete, MayAccess, ra_sd_rx_stream_elem_find_by_index,
                ra_sd_rx_free_stream, Returns
  <2>6. CASE ra_sd_rx_delete_streams(f)
    BY <2>6 DEF ra_sd_rx_delete_streams, ra_sd_rx_free_stream, Returns
  <2> QED
    BY <2>1, <2>2, <2>3, <2>4, <2>5, <2>6
       DEF Open, rxState, ra_sd_rx_add_stream_ioctl, AddRefused,
           ra_sd_rx_update_stream_ioctl, UpdateRefused, UpdateWarns,
           ra_sd_rx_delete_stream_ioctl, DeleteRefused
<1>2. IInv /\ [Next]_vars => [\A i \in Index : A(i)]_vars
  BY <1>1
<1> QED
  BY <1>2, Invariance, PTL DEF Spec, OnlyOwnerChangesStreams

\* What a step with a negative return value leaves as it was.
LEMMA FailedStep ==
  ASSUME IInv, Next, last'.ret < 0
  PROVE  /\ used_tracks' = used_tracks
         /\ files' = files
         /\ \A i \in Index :
              /\ streams'[i] = NULL <=> streams[i] = NULL
              /\ streams[i] # NULL =>
                   /\ streams'[i].filp = streams[i].filp
                   /\ streams'[i].stream = streams[i].stream
<1> DEFINE A == /\ used_tracks' = used_tracks
                /\ files' = files
                /\ \A i \in Index :
                     /\ streams'[i] = NULL <=> streams[i] = NULL
                     /\ streams[i] # NULL =>
                          /\ streams'[i].filp = streams[i].filp
                          /\ streams'[i].stream = streams[i].stream
<1>1. PICK f \in File :
        \/ Open(f)
        \/ \E s \in Input : ra_sd_rx_add_stream_ioctl(f, s)
        \/ \E index \in CmdIndex, s \in Input :
             ra_sd_rx_update_stream_ioctl(f, index, s)
        \/ \E index \in CmdIndex : ra_sd_rx_delete_stream_ioctl(f, index)
        \/ ra_sd_rx_delete_streams(f)
  BY DEF Next
<1>2. CASE UNCHANGED <<files, streams, used_tracks>>
  BY <1>2
<1>3. ASSUME NEW s \in Input, Add(f, s)
      PROVE  FALSE
  BY <1>3, ConstantTypes DEF Add, Returns, Index
<1>4. ASSUME NEW k \in CmdIndex, NEW s \in Input, UpdateMoved(f, k, s)
      PROVE  FALSE
  <2>1. \E start \in Entry : last'.ret = start
    BY <1>4 DEF UpdateMoved, ra_track_table_alloc, ZeroAreas, Returns
  <2> QED
    BY <2>1, ConstantTypes DEF Entry
<1>5. ASSUME NEW k \in CmdIndex, NEW s \in Input,
             UpdateRefused(f, k, s) \/ UpdateRolledBack(f, k, s)
             \/ UpdateWarns(f, k, s)
      PROVE  A
  <2>1. CASE ~MayAccess(f, k)
    BY <1>5, <2>1 DEF UpdateRefused, UpdateRolledBack, UpdateWarns, UpdateAccepted
  <2>2. CASE MayAccess(f, k)
    <3> DEFINE e == streams[k]
    <3>1. k \in Index /\ e # NULL /\ e.filp = f
      BY <2>2 DEF MayAccess, ra_sd_rx_stream_elem_find_by_index
    <3>2. ActiveTracks(e.stream) \subseteq used_tracks
      BY <3>1 DEF IInv, TracksExclusive, Live
    <3>3. \/ used_tracks' = used_tracks
          \/ used_tracks' = OtherTracks(e) \cup ActiveTracks(e.stream)
      BY <1>5, <3>1 DEF UpdateRefused, UpdateRolledBack, UpdateWarns,
                        ra_sd_rx_stream_elem_find_by_index
    <3>4. used_tracks' = used_tracks
      BY <3>2, <3>3 DEF OtherTracks
    <3>5. files' = files
      BY <1>5 DEF UpdateRefused, UpdateRolledBack, UpdateWarns
    <3>6. \/ streams' = streams
          \/ \E start \in Entry : streams' = [streams EXCEPT ![k] =
               [filp |-> e.filp, stream |-> e.stream, trtb_index |-> start]]
      BY <1>5 DEF UpdateRefused, UpdateRolledBack, UpdateWarns,
                  ra_track_table_alloc, ZeroAreas
    <3>7. CASE streams' = streams
      BY <3>4, <3>5, <3>7
    <3>8. ASSUME NEW start \in Entry,
                 streams' = [streams EXCEPT ![k] =
                   [filp |-> e.filp, stream |-> e.stream, trtb_index |-> start]]
          PROVE  A
      <4> DEFINE new == [filp |-> e.filp, stream |-> e.stream,
                         trtb_index |-> start]
      <4>1. e \in Elem
        BY <3>1 DEF IInv, TypeOK
      <4>2. new # NULL /\ new.filp = e.filp /\ new.stream = e.stream
        BY <4>1, ElemNotNull DEF Elem
      <4>3. /\ streams'[k] = new
            /\ \A i \in Index : i # k => streams'[i] = streams[i]
        BY <3>1, <3>8 DEF IInv, TypeOK
      <4> HIDE DEF new
      <4> QED
        BY <3>1, <3>4, <3>5, <4>2, <4>3
    <3> QED
      BY <3>6, <3>7, <3>8
  <2> QED
    BY <2>1, <2>2
<1>6. ASSUME \/ \E k \in CmdIndex : Delete(f, k)
             \/ ra_sd_rx_delete_streams(f)
             \/ \E k \in CmdIndex, s \in Input : UpdateInPlace(f, k, s)
             \/ Open(f)
      PROVE  FALSE
  <2>1. Returns(f, 0)
    BY <1>6 DEF Delete, ra_sd_rx_delete_streams, UpdateInPlace, Open
  <2> QED
    BY <2>1 DEF Returns
<1> QED
  BY <1>1, <1>2, <1>3, <1>4, <1>5, <1>6
     DEF rxState, ra_sd_rx_add_stream_ioctl, AddRefused,
         ra_sd_rx_update_stream_ioctl, ra_sd_rx_delete_stream_ioctl, DeleteRefused

\* A system call that fails leaves every stream's configuration, all track
\* reservations and the open files as they were, rollback included.
THEOREM FailedCalls == Spec => FailedCallsChangeNothing
<1> DEFINE A == /\ used_tracks' = used_tracks
                /\ files' = files
                /\ \A i \in Index :
                     /\ streams'[i] = NULL <=> streams[i] = NULL
                     /\ streams[i] # NULL =>
                          /\ streams'[i].filp = streams[i].filp
                          /\ streams'[i].stream = streams[i].stream
<1>1. ASSUME IInv, Next, last'.ret < 0
      PROVE  A
  BY <1>1, FailedStep
<1>2. IInv /\ [Next]_vars => [last'.ret < 0 => A]_vars
  BY <1>1
<1> QED
  BY <1>2, Invariance, PTL DEF Spec, FailedCallsChangeNothing

-----------------------------------------------------------------------------
(* RxStreams implements StreamService.  The invariant ties the FPGA tables *)
(* to the list of streams; so what the FPGA carries can be read from that  *)
(* list before and after every system call.                                *)

\* The services of the streams in the xarray.
Wanted(strs) ==
  [i \in Index |-> IF strs[i] = NULL THEN NULL ELSE ServiceOf(strs[i].stream)]

\* An entry counts at most the channels of its stream.
LEMMA CountedChannels ==
  ASSUME NEW n \in Nat, n <= RA_MAX_CHANNELS
  PROVE  /\ n % 256 \in Nat
         /\ n % 256 <= n
BY RxAssumption

\* Where the area of a stream is makes no difference to the rest of its entry.
LEMMA EntryElsewhere ==
  ASSUME NEW e \in Elem
  PROVE  LET entry == ra_stream_table_rx_set(e.stream, e.trtb_index) IN
         /\ "VLD" \in entry.misc_control
         /\ [entry EXCEPT !.trtp_base_addr = 0] = ra_stream_table_rx_set(e.stream, 0)
         /\ entry.trtp_base_addr = e.trtb_index
         /\ entry.num_channels = e.stream.num_channels % 256
<1> DEFINE s == e.stream
           pri == IF s.primary.destination_ip = 0 THEN s.secondary ELSE s.primary
           sec == IF s.secondary.destination_ip = 0 THEN pri ELSE s.secondary
           ctl == (IF s.active THEN {"ACT"} ELSE {}) \cup {"VLD", "EXEC_HASH"}
           n == s.num_channels % 256
           Entry0(base) == [primary |-> pri, secondary |-> sec, num_channels |-> n,
                            trtp_base_addr |-> base, misc_control |-> ctl]
<1>1. \A base : ra_stream_table_rx_set(s, base) = Entry0(base)
  BY DEF ra_stream_table_rx_set, ra_stream_table_rx_fill
<1>2. "VLD" \in ctl
  OBVIOUS
<1> HIDE DEF pri, sec, ctl, n
<1>3. \A base : [Entry0(base) EXCEPT !.trtp_base_addr = 0] = Entry0(0)
  OBVIOUS
<1>4. \A base : /\ Entry0(base).misc_control = ctl
                /\ Entry0(base).trtp_base_addr = base
                /\ Entry0(base).num_channels = n
  OBVIOUS
<1> HIDE DEF Entry0
<1>5. /\ ra_stream_table_rx_set(e.stream, e.trtb_index) = Entry0(e.trtb_index)
      /\ ra_stream_table_rx_set(e.stream, 0) = Entry0(0)
      /\ n = e.stream.num_channels % 256
  BY <1>1 DEF n
<1> QED
  BY <1>2, <1>3, <1>4, <1>5

\* What the tables make the FPGA do is what the streams in the xarray ask for.
LEMMA FpgaCarries == IInv => [i \in Index |-> FpgaService(i)] = Wanted(streams)
<1> SUFFICES ASSUME IInv, NEW i \in Index
             PROVE  FpgaService(i) = IF streams[i] = NULL THEN NULL
                                     ELSE ServiceOf(streams[i].stream)
  BY DEF Wanted
<1>1. CASE streams[i] = NULL
  BY <1>1 DEF IInv, StreamTableCurrent, FpgaService
<1>2. CASE streams[i] # NULL
  <2> DEFINE e == streams[i]
             s == e.stream
             n == s.num_channels
             route(c) == IF s.tracks[c] >= 0 THEN s.tracks[c] ELSE RA_TRACK_TABLE_MUTE
  <2>1. e \in Elem /\ sttb[i] = ra_stream_table_rx_set(s, e.trtb_index)
    BY <1>2 DEF IInv, TypeOK, StreamTableCurrent
  <2>2. n \in Nat /\ n <= RA_MAX_CHANNELS /\ e.trtb_index \in Nat
    BY <2>1, ElemType
  <2>3. ASSUME NEW c \in 0 .. (n % 256) - 1
        PROVE  trtb[e.trtb_index + c] = route(c)
    <3>1. c \in 0 .. n - 1
      BY <2>2, CountedChannels
    <3>2. e.trtb_index + c \in AreaOf(e) /\ (e.trtb_index + c) - e.trtb_index = c
      BY <2>2, <3>1 DEF AreaOf, Area
    <3> QED
      BY <1>2, <3>2 DEF IInv, TrackTableRoutes, Live
  <2>4. FpgaService(i) =
          [entry |-> ra_stream_table_rx_set(s, 0),
           tracks |-> [c \in 0 .. (n % 256) - 1 |-> trtb[e.trtb_index + c]]]
    <3> DEFINE entry == sttb[i]
    <3>1. /\ "VLD" \in entry.misc_control
          /\ [entry EXCEPT !.trtp_base_addr = 0] = ra_stream_table_rx_set(s, 0)
          /\ entry.trtp_base_addr = e.trtb_index
          /\ entry.num_channels = n % 256
      BY <2>1, EntryElsewhere
    <3>2. FpgaService(i) =
            [entry |-> [entry EXCEPT !.trtp_base_addr = 0],
             tracks |-> [c \in 0 .. entry.num_channels - 1 |->
                           trtb[entry.trtp_base_addr + c]]]
      BY <3>1 DEF FpgaService
    <3> HIDE DEF entry, e, n
    <3> QED
      BY <3>1, <3>2
  <2>5. [c \in 0 .. (n % 256) - 1 |-> trtb[e.trtb_index + c]]
        = [c \in 0 .. (n % 256) - 1 |-> route(c)]
    BY <2>3
  <2> QED
    BY <1>2, <2>4, <2>5 DEF ServiceOf
<1> QED
  BY <1>1, <1>2

\* Streams without a common track have services that do not conflict.
LEMMA DisjointServices ==
  ASSUME NEW s \in Stream, NEW t \in Stream,
         s.num_channels <= RA_MAX_CHANNELS, t.num_channels <= RA_MAX_CHANNELS,
         ActiveTracks(s) \cap ActiveTracks(t) = {}
  PROVE  <<ServiceOf(s), ServiceOf(t)>> \notin Sharing
<1> SUFFICES ASSUME NEW c \in DOMAIN ServiceOf(s).tracks,
                    NEW d \in DOMAIN ServiceOf(t).tracks,
                    ServiceOf(s).tracks[c] = ServiceOf(t).tracks[d],
                    ServiceOf(s).tracks[c] # RA_TRACK_TABLE_MUTE
             PROVE  FALSE
  BY DEF Sharing
<1>1. /\ s.num_channels \in Nat /\ t.num_channels \in Nat
      /\ s.tracks \in [0 .. RA_MAX_CHANNELS - 1 -> Int]
      /\ t.tracks \in [0 .. RA_MAX_CHANNELS - 1 -> Int]
  BY DEF Stream
<1>2. /\ c \in 0 .. (s.num_channels % 256) - 1
      /\ d \in 0 .. (t.num_channels % 256) - 1
  BY DEF ServiceOf
<1>3. c \in 0 .. s.num_channels - 1 /\ d \in 0 .. t.num_channels - 1
  BY <1>1, <1>2, CountedChannels
<1>4. s.tracks[c] >= 0 /\ t.tracks[d] >= 0 /\ s.tracks[c] = t.tracks[d]
  BY <1>2 DEF ServiceOf
<1> QED
  BY <1>3, <1>4 DEF ActiveTracks, ActiveChannels

-----------------------------------------------------------------------------
(* Every system call is a step of StreamService.                           *)

\* The mapped variables after a step, read from the xarray.
LEMMA MappedAfter ==
  ASSUME IInv'
  PROVE  [i \in Index |-> FpgaService(i)]' = Wanted(streams')
<1>1. (IInv => [i \in Index |-> FpgaService(i)] = Wanted(streams))'
  BY FpgaCarries, PTL
<1> QED
  BY <1>1 DEF Wanted

\* The state after probe is an initial state of StreamService.
LEMMA InitImplements == Init => Client!Init
<1> SUFFICES ASSUME Init PROVE Client!Init
  OBVIOUS
<1>1. [i \in Index |-> FpgaService(i)] = Wanted(streams)
  BY InitIInv, FpgaCarries
<1>2. streams = [i \in Index |-> NULL] /\ files = {} /\ last = [filp |-> NULL, ret |-> 0]
  BY DEF Init
<1>3. Wanted(streams) = [i \in Index |-> NULL]
  BY <1>2 DEF Wanted
<1>4. last.filp = NULL /\ (last.ret >= 0) = TRUE
  BY <1>2
<1>5. [filp |-> last.filp, ok |-> last.ret >= 0] = [filp |-> NULL, ok |-> TRUE]
  BY <1>4
<1>6. [i \in Index |-> IF streams[i] = NULL THEN NULL ELSE streams[i].filp]
      = [i \in Index |-> NULL]
  BY <1>2
<1> QED
  BY <1>1, <1>2, <1>3, <1>5, <1>6 DEF Client!Init

\* No two streams receive into the same track.
LEMMA TracksDisjoint ==
  IInv =>
    \A a, b \in Live(streams) : a # b =>
      ActiveTracks(streams[a].stream) \cap ActiveTracks(streams[b].stream) = {}
BY DEF IInv, TracksExclusive


\* A call that puts stream s under index k for client f, which had it or found
\* it free, is Carry.
LEMMA PutCarries ==
  ASSUME IInv, IInv', NEW f \in files, NEW k \in Index, NEW s \in Input,
         ra_sd_rx_validate_stream(s), NEW start \in Entry, last'.filp = f, last'.ret >= 0,
         streams[k] # NULL => streams[k].filp = f,
         streams' = [streams EXCEPT ![k] =
                       [filp |-> f, stream |-> s, trtb_index |-> start]],
         files' = files
  PROVE  Client!Carry(f, k, ServiceOf(s))
<1> DEFINE new == [filp |-> f, stream |-> s, trtb_index |-> start]
           C == [i \in Index |-> FpgaService(i)]
           O == [i \in Index |-> IF streams[i] = NULL THEN NULL ELSE streams[i].filp]
<1>1. streams \in [Index -> Elem \cup {NULL}]
  BY DEF IInv, TypeOK
<1>2. /\ streams'[k] = new
      /\ \A j \in Index \ {k} : streams'[j] = streams[j]
  BY <1>1
<1>3. new.filp = f /\ new.stream = s
  OBVIOUS
<1>4. new \in Elem /\ new # NULL
  <2>1. f \in File /\ s \in Stream
    BY RxAssumption DEF IInv, TypeOK
  <2> QED
    BY <2>1, ElemNotNull DEF Elem
<1> HIDE DEF new
<1>5. C = Wanted(streams) /\ C' = Wanted(streams')
  BY FpgaCarries, MappedAfter
<1>6. C' = [C EXCEPT ![k] = ServiceOf(s)]
  <2>1. \A i \in Index : Wanted(streams')[i] =
          IF i = k THEN ServiceOf(s) ELSE Wanted(streams)[i]
    BY <1>2, <1>3, <1>4 DEF Wanted
  <2>2. Wanted(streams') = [i \in Index |-> Wanted(streams')[i]]
    BY DEF Wanted
  <2>3. Wanted(streams) = [i \in Index |-> Wanted(streams)[i]]
    BY DEF Wanted
  <2> HIDE DEF C
  <2> QED
    BY <1>5, <2>1, <2>2, <2>3
<1>7. O' = [O EXCEPT ![k] = f] /\ O[k] \in {NULL, f}
  <2>1. \A i \in Index : O'[i] = IF i = k THEN f ELSE O[i]
    BY <1>2, <1>3, <1>4
  <2>2. O' = [i \in Index |-> O'[i]] /\ O = [i \in Index |-> O[i]]
    OBVIOUS
  <2>3. O[k] \in {NULL, f}
    OBVIOUS
  <2> HIDE DEF O
  <2> QED
    BY <2>1, <2>2, <2>3
<1>8. ASSUME NEW j \in Index \ {k}, C[j] # NULL
      PROVE  <<ServiceOf(s), C[j]>> \notin Sharing
  <2> DEFINE t == streams[j].stream
  <2>1. streams[j] # NULL /\ C[j] = ServiceOf(t)
    BY <1>5, <1>8 DEF Wanted
  <2>2. streams[j] \in Elem /\ streams'[j] = streams[j]
    BY <1>1, <1>2, <2>1
  <2>3. /\ s \in Stream /\ s.num_channels <= RA_MAX_CHANNELS
        /\ t \in Stream /\ t.num_channels <= RA_MAX_CHANNELS
    BY <1>3, <1>4, <2>2, ElemType
  <2>4. streams'[k].stream = s /\ streams'[j].stream = t
        /\ k \in Live(streams') /\ j \in Live(streams')
    BY <1>2, <1>3, <1>4, <2>1, <2>2 DEF Live
  <2>5. IInv' =>
          (\A a, b \in Live(streams) : a # b =>
             ActiveTracks(streams[a].stream) \cap ActiveTracks(streams[b].stream) = {})'
    BY TracksDisjoint, PTL
  <2>6. ActiveTracks(s) \cap ActiveTracks(t) = {}
    BY <2>4, <2>5
  <2> QED
    BY <2>1, <2>3, <2>6, DisjointServices
<1>9. [filp |-> last'.filp, ok |-> last'.ret >= 0] = [filp |-> f, ok |-> TRUE]
  <2>1. (last'.ret >= 0) = TRUE
    OBVIOUS
  <2> QED
    BY <2>1
<1> QED
  BY <1>6, <1>7, <1>8, <1>9 DEF Client!Carry, Client!Answers

\* Freeing the streams of S drops their services; free slots among T hold none.
LEMMA FreeDrops ==
  ASSUME IInv, IInv', NEW S \in SUBSET Index, NEW T \in SUBSET Index,
         ra_sd_rx_free_stream(S), S \subseteq T,
         \A i \in T \ S : streams[i] = NULL
  PROVE  Client!Drop(T)
<1> DEFINE C == [i \in Index |-> FpgaService(i)]
           O == [i \in Index |-> IF streams[i] = NULL THEN NULL ELSE streams[i].filp]
<1>1. C = Wanted(streams) /\ C' = Wanted(streams')
  BY FpgaCarries, MappedAfter
<1>2. \A i \in Index : streams'[i] = IF i \in T THEN NULL ELSE streams[i]
  BY DEF ra_sd_rx_free_stream
<1>3. Wanted(streams') = [i \in Index |-> IF i \in T THEN NULL ELSE Wanted(streams)[i]]
  BY <1>2 DEF Wanted
<1>4. O' = [i \in Index |-> IF i \in T THEN NULL ELSE O[i]]
  BY <1>2
<1> HIDE DEF C
<1>5. C' = [i \in Index |-> IF i \in T THEN NULL ELSE C[i]]
  BY <1>1, <1>3
<1> QED
  BY <1>4, <1>5 DEF Client!Drop, C

\* A step that succeeds is the step of StreamService with its name.
LEMMA SuccessImplements ==
  ASSUME IInv, IInv', Next, last'.ret >= 0
  PROVE  Client!Next
<1>0. last'.ret \in Int
  BY DEF IInv, TypeOK
<1>1. PICK f \in File :
        \/ Open(f)
        \/ \E s \in Input : ra_sd_rx_add_stream_ioctl(f, s)
        \/ \E index \in CmdIndex, s \in Input :
             ra_sd_rx_update_stream_ioctl(f, index, s)
        \/ \E index \in CmdIndex : ra_sd_rx_delete_stream_ioctl(f, index)
        \/ ra_sd_rx_delete_streams(f)
  BY DEF Next
<1>2. last'.filp = f => [filp |-> last'.filp, ok |-> last'.ret >= 0]
                        = [filp |-> f, ok |-> TRUE]
  <2>1. (last'.ret >= 0) = TRUE
    OBVIOUS
  <2> QED
    BY <2>1
<1>3. CASE Open(f)
  <2>1. UNCHANGED <<streams, trtb, sttb>> /\ last'.filp = f
    BY <1>3 DEF Open, rxState, Returns
  <2>2. Client!Open(f)
    BY <1>2, <1>3, <2>1 DEF Open, Client!Open, Client!Answers, FpgaService
  <2> QED
    BY <2>2 DEF Client!Next
<1>4. ASSUME NEW s \in Input, ra_sd_rx_add_stream_ioctl(f, s)
      PROVE  Client!Next
  <2>1. Add(f, s) /\ f \in files
    <3>1. ASSUME AddRefused(f, s)
          PROVE  FALSE
      <4>1. \/ last'.ret \in {-EINVAL, -EFAULT, -ENOMEM, -EBUSY, -ENOSPC}
            \/ last'.ret < 0
        BY <3>1 DEF AddRefused, BadCommand, Returns
      <4> QED
        BY <4>1, <1>0 DEF EINVAL, EFAULT, ENOMEM, EBUSY, ENOSPC
    <3> QED
      BY <1>4, <3>1 DEF ra_sd_rx_add_stream_ioctl
  <2>2. PICK k \in Index \ Live(streams), start \in Entry :
          streams' = [streams EXCEPT ![k] =
                        [filp |-> f, stream |-> s, trtb_index |-> start]]
    BY <2>1 DEF Add, ra_track_table_alloc, ZeroAreas
  <2>3. last'.filp = f /\ files' = files /\ ra_sd_rx_validate_stream(s)
    BY <2>1 DEF Add, Returns
  <2>4. Client!Carry(f, k, ServiceOf(s))
    BY <2>1, <2>2, <2>3, PutCarries DEF Live
  <2> QED
    BY <2>3, <2>4 DEF Client!Next, Services
<1>5. ASSUME NEW k \in CmdIndex, NEW s \in Input,
             ra_sd_rx_update_stream_ioctl(f, k, s)
      PROVE  Client!Next
  <2>1. (UpdateInPlace(f, k, s) \/ UpdateMoved(f, k, s)) /\ f \in files
    <3>1. ASSUME UpdateRefused(f, k, s) \/ UpdateRolledBack(f, k, s)
                 \/ UpdateWarns(f, k, s)
          PROVE  FALSE
      <4>1. \/ last'.ret \in {-EINVAL, -EFAULT, -ENOENT, -EACCES, -ENOMEM, -ENOSPC}
            \/ last'.ret < 0
        BY <3>1 DEF UpdateRefused, UpdateRolledBack, UpdateWarns, BadCommand, Returns
      <4> QED
        BY <4>1, <1>0 DEF EINVAL, EFAULT, ENOMEM, ENOENT, EACCES, ENOSPC
    <3> QED
      BY <1>5, <3>1 DEF ra_sd_rx_update_stream_ioctl
  <2>2. UpdateAccepted(f, k, s) /\ last'.filp = f /\ files' = files
    BY <2>1 DEF UpdateInPlace, UpdateMoved, Returns
  <2>3. /\ ra_sd_rx_validate_stream(s) /\ k \in Index
        /\ streams[k] # NULL /\ streams[k].filp = f
    BY <2>2 DEF UpdateAccepted, MayAccess, ra_sd_rx_stream_elem_find_by_index
  <2>4. streams[k].trtb_index \in Entry
    BY <2>3, ElemType DEF IInv, TypeOK
  <2>5. PICK start \in Entry : streams' = [streams EXCEPT ![k] =
                                  [filp |-> f, stream |-> s, trtb_index |-> start]]
    BY <2>1, <2>3, <2>4 DEF UpdateInPlace, UpdateMoved, ra_track_table_alloc, ZeroAreas
  <2>6. Client!Carry(f, k, ServiceOf(s))
    BY <2>1, <2>2, <2>3, <2>5, PutCarries
  <2> QED
    BY <2>3, <2>6 DEF Client!Next, Services
<1>6. ASSUME NEW k \in CmdIndex, ra_sd_rx_delete_stream_ioctl(f, k)
      PROVE  Client!Next
  <2>1. Delete(f, k) /\ f \in files
    BY <1>6 DEF ra_sd_rx_delete_stream_ioctl, DeleteRefused, BadCommand, Returns,
                EINVAL, EFAULT, ENOENT, EACCES
  <2>2. k \in Index /\ streams[k] # NULL /\ streams[k].filp = f
    BY <2>1 DEF Delete, MayAccess, ra_sd_rx_stream_elem_find_by_index
  <2>3. ra_sd_rx_free_stream({k}) /\ last'.filp = f /\ files' = files
    BY <2>1 DEF Delete, Returns
  <2>4. Client!Drop({k})
    BY <2>2, <2>3, FreeDrops DEF Client!Drop
  <2>5. Client!Delete(f, k)
    BY <1>2, <2>1, <2>2, <2>3, <2>4 DEF Client!Delete, Client!Answers
  <2> QED
    BY <2>2, <2>5 DEF Client!Next
<1>7. CASE ra_sd_rx_delete_streams(f)
  <2> DEFINE O == [i \in Index |-> IF streams[i] = NULL THEN NULL ELSE streams[i].filp]
             S == {i \in Live(streams) : streams[i].filp = f}
             T == {i \in Index : O[i] = f}
  <2>1. /\ f \in files /\ files' = files \ {f} /\ last'.filp = f
        /\ ra_sd_rx_free_stream(S)
    BY <1>7 DEF ra_sd_rx_delete_streams, Returns
  <2>2. /\ S \in SUBSET Index /\ T \in SUBSET Index /\ S \subseteq T
        /\ \A i \in T \ S : streams[i] = NULL
    BY DEF Live
  <2>3. Client!Drop(T)
    <3> HIDE DEF S, T
    <3> QED
      BY <2>1, <2>2, FreeDrops DEF Client!Drop
  <2>4. Client!Close(f)
    BY <1>2, <2>1, <2>3 DEF Client!Close, Client!Answers
  <2> QED
    BY <2>4 DEF Client!Next
<1> QED
  BY <1>1, <1>3, <1>4, <1>5, <1>6, <1>7

\* A step that fails is Refuse: what it moved or restored cannot be seen.
LEMMA FailureImplements ==
  ASSUME IInv, IInv', Next, last'.ret < 0
  PROVE  Client!Next
<1> DEFINE C == [i \in Index |-> FpgaService(i)]
           O == [i \in Index |-> IF streams[i] = NULL THEN NULL ELSE streams[i].filp]
<1>1. /\ files' = files
      /\ \A i \in Index :
           /\ streams'[i] = NULL <=> streams[i] = NULL
           /\ streams[i] # NULL =>
                /\ streams'[i].filp = streams[i].filp
                /\ streams'[i].stream = streams[i].stream
  BY FailedStep
<1>2. C = Wanted(streams) /\ C' = Wanted(streams')
  BY FpgaCarries, MappedAfter
<1>3. Wanted(streams') = Wanted(streams) /\ O' = O
  BY <1>1 DEF Wanted
<1>4. \E f \in File : f \in files /\ last'.filp = f
  <2>1. PICK f \in File :
          \/ Open(f)
          \/ \E s \in Input : ra_sd_rx_add_stream_ioctl(f, s)
          \/ \E index \in CmdIndex, s \in Input :
               ra_sd_rx_update_stream_ioctl(f, index, s)
          \/ \E index \in CmdIndex : ra_sd_rx_delete_stream_ioctl(f, index)
          \/ ra_sd_rx_delete_streams(f)
    BY DEF Next
  <2>2. ~Open(f)
    BY DEF Open, Returns
  <2>3. f \in files
    BY <2>1, <2>2 DEF ra_sd_rx_add_stream_ioctl, ra_sd_rx_update_stream_ioctl,
                      ra_sd_rx_delete_stream_ioctl, ra_sd_rx_delete_streams
  <2>4. \E v : Returns(f, v)
    <3>1. ASSUME NEW s \in Input, ra_sd_rx_add_stream_ioctl(f, s)
          PROVE  \E v : Returns(f, v)
      BY <3>1 DEF ra_sd_rx_add_stream_ioctl, AddRefused, Add, BadCommand
    <3>2. ASSUME NEW k \in CmdIndex, NEW s \in Input, ra_sd_rx_update_stream_ioctl(f, k, s)
          PROVE  \E v : Returns(f, v)
      BY <3>2 DEF ra_sd_rx_update_stream_ioctl, BadCommand, UpdateRefused, UpdateInPlace,
                  UpdateMoved, UpdateRolledBack, UpdateWarns
    <3>3. ASSUME NEW k \in CmdIndex, ra_sd_rx_delete_stream_ioctl(f, k)
          PROVE  \E v : Returns(f, v)
      BY <3>3 DEF ra_sd_rx_delete_stream_ioctl, BadCommand, DeleteRefused, Delete
    <3>4. ASSUME ra_sd_rx_delete_streams(f) PROVE \E v : Returns(f, v)
      BY <3>4 DEF ra_sd_rx_delete_streams
    <3> QED
      BY <2>1, <2>2, <3>1, <3>2, <3>3, <3>4
  <2> QED
    BY <2>3, <2>4 DEF Returns
<1>5. (last'.ret >= 0) = FALSE
  BY DEF IInv, TypeOK
<1> QED
  BY <1>1, <1>2, <1>3, <1>4, <1>5 DEF Client!Next, Client!Refuse, Client!Answers

\* Every system call is a step of StreamService, or changes nothing there.
LEMMA StepImplements ==
  IInv /\ IInv' /\ [Next]_vars => [Client!Next]_(Client!vars)
<1> SUFFICES ASSUME IInv, IInv', [Next]_vars
             PROVE  [Client!Next]_(Client!vars)
  OBVIOUS
<1>1. CASE Next
  <2>1. last'.ret \in Int
    BY DEF IInv, TypeOK
  <2> QED
    BY <1>1, <2>1, SuccessImplements, FailureImplements
<1>2. CASE UNCHANGED vars
  BY <1>2 DEF vars, Client!vars, FpgaService
<1> QED
  BY <1>1, <1>2

\* For tables of any size, any number of clients and any inputs, the RX half of
\* the driver implements StreamService: the FPGA does under each index what its
\* owner last asked for with success, and a call that fails cannot be seen.
THEOREM RxImplements == Spec => Implements
BY InitImplements, StepImplements, Invariance, PTL DEF Spec, Implements, Client!Spec

=============================================================================
