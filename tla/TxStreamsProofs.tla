--------------------------- MODULE TxStreamsProofs ---------------------------
(***************************************************************************)
(* The invariant of TxStreams, and that TxStreams implements               *)
(* StreamService, for tables of any size and any number of clients.  As in *)
(* RX, every call that succeeds replaces what one slot of the xarray holds *)
(* or frees slots.  There are no tracks to reserve, but the entry of the   *)
(* stream table has the length of a packet, which must fit its 16 bits.    *)
(***************************************************************************)
EXTENDS TxStreams, TrackTableProofs

\* The provers to try, in this order: a leaf gets more attempts than by default,
\* since one attempt can run out of time on a slow machine.
USE SMTT(10), ZenonT(20), Z3T(20), SMTT(30), Z3T(40), SMTT(60), ZenonT(40)

OldArea(k) == IF streams[k] = NULL THEN {} ELSE AreaOf(streams[k])

\* The entry of the stream table for an element of the xarray.
EntryOf(e) ==
  ra_stream_table_tx_set(e.stream, e.trtb_index, ra_sd_tx_stream_ip_length(e.stream))

\* Add, and every way an update can end, put element e into slot k.
Replaces(k, e) ==
  /\ AreaOf(e) \subseteq Entry
  /\ AreaOf(e) \cap (used_entries \ OldArea(k)) = {}
  /\ streams' = [streams EXCEPT ![k] = e]
  /\ used_entries' = (used_entries \ OldArea(k)) \cup AreaOf(e)
  /\ \E tracks \in TracksRead(e.stream) :
       trtb' = ra_track_table_set(ra_track_table_free(trtb, OldArea(k)),
                 e.trtb_index, e.stream.num_channels, tracks)
  /\ sttb' = [sttb EXCEPT ![k] = EntryOf(e)]

-----------------------------------------------------------------------------
(* Facts about single streams.                                             *)

\* The sizes the device tree and the FPGA give are natural numbers.
LEMMA ConstantTypes ==
  /\ SttbEntries \in Nat /\ MaxTracks \in Nat /\ RA_MAX_CHANNELS \in Nat
  /\ TrtbEntries \in Nat /\ RA_TRACK_TABLE_MUTE \notin Int
  /\ U8 \in Nat \ {0} /\ U8 <= RA_MAX_CHANNELS /\ Stray \subseteq Int
BY TxAssumption, TrackTableAssumption

\* A muted entry of the track table and a cleared entry of the stream table are
\* well-typed.
LEMMA ClearedTypes == RA_TRACK_TABLE_MUTE \in Track /\ ra_stream_table_tx_del \in SttbEntry
<1>1. 0 \in 0 .. U8 - 1
  BY ConstantTypes
<1> QED
  BY <1>1 DEF Track, ra_stream_table_tx_del, SttbEntry

\* What is left of a number of channels in the byte of the entry.
LEMMA ChannelByte ==
  ASSUME NEW n \in Nat
  PROVE  /\ n % U8 \in 0 .. U8 - 1
         /\ n % U8 \in Nat /\ n % U8 <= n
         /\ n < U8 => n % U8 = n
         /\ n >= U8 => n % U8 < n
<1>1. U8 \in Nat \ {0}
  BY ConstantTypes
<1>2. n % U8 \in 0 .. U8 - 1
  BY <1>1
<1>3. n < U8 => n % U8 = n
  BY <1>1
<1> QED
  BY <1>1, <1>2, <1>3

\* What validation lets through: the codec is known, and so are its code for the
\* FPGA and its sample length.
LEMMA CodecTypes ==
  ASSUME NEW s \in Stream, Acceptable(s)
  PROVE  /\ ra_sd_codec_fpga_code(s.codec) \in {0, 16, 24, 32, 168}
         /\ ra_sd_codec_sample_length(s.codec) \in Nat \ {0}
         /\ SampleBytes(ra_sd_codec_fpga_code(s.codec)) = ra_sd_codec_sample_length(s.codec)
<1>1. s.codec \in Nat /\ s.codec < RA_STREAM_CODEC_MAX
  BY DEF Stream, Acceptable, ra_sd_tx_validate_stream
<1>2. s.codec \in {0, 1, 2, 3}
  BY <1>1 DEF RA_STREAM_CODEC_MAX
<1> QED
  BY <1>2 DEF ra_sd_codec_fpga_code, ra_sd_codec_sample_length, SampleBytes,
              RA_STREAM_CODEC_AM824,
              RA_STREAM_CODEC_L32, RA_STREAM_CODEC_L24, RA_STREAM_CODEC_L16

\* A packet that fits an Ethernet frame has a length that fits its 16 bits.
LEMMA LengthFits ==
  ASSUME NEW s \in Stream, Acceptable(s)
  PROVE  LET len == ra_sd_tx_stream_ip_length(s) IN
         /\ len \in Nat
         /\ len <= RA_MAX_ETHERNET_PACKET_SIZE
         /\ len % 65536 = len
<1> DEFINE n == s.num_channels
           m == s.num_samples
           b == ra_sd_codec_sample_length(s.codec)
           len == 20 + 8 + 12 + n * m * b
<1>1. n \in Nat /\ m \in Nat /\ b \in Nat
  <2>1. n \in Nat /\ m \in 0 .. 255
    BY DEF Stream
  <2>2. b \in Nat
    BY CodecTypes
  <2> QED
    BY <2>1, <2>2
<1>2. len <= RA_MAX_ETHERNET_PACKET_SIZE /\ ra_sd_tx_stream_ip_length(s) = len
  BY DEF Acceptable, ra_sd_tx_stream_ip_length
<1> HIDE DEF n, m, b
<1>3. n * m \in Nat
  BY <1>1
<1> DEFINE a == n * m
<1>4. a * b \in Nat
  <2> HIDE DEF a
  <2>1. a \in Nat
    BY <1>3 DEF a
  <2> QED
    BY <1>1, <2>1
<1>5. len \in Nat
  <2> DEFINE p == a * b
  <2> HIDE DEF p
  <2>1. p \in Nat /\ len = 20 + 8 + 12 + p
    BY <1>4 DEF p
  <2> HIDE DEF len
  <2> QED
    BY <2>1
<1> HIDE DEF len
<1>6. len <= 1460
  BY <1>2, <1>5, TxAssumption
<1> QED
  BY <1>2, <1>5, <1>6

\* The fields of the entry that is written for a stream.
LEMMA SetFields ==
  ASSUME NEW s \in Stream, Acceptable(s), NEW start
  PROVE  LET entry == ra_stream_table_tx_set(s, start, ra_sd_tx_stream_ip_length(s)) IN
         /\ entry = [trtp_base_addr |-> start, num_channels |-> s.num_channels % U8,
                     num_samples |-> s.num_samples,
                     codec |-> ra_sd_codec_fpga_code(s.codec),
                     ip_total_len |-> ra_sd_tx_stream_ip_length(s),
                     misc_control |-> entry.misc_control]
         /\ "VLD" \in entry.misc_control
         /\ entry.misc_control \subseteq {"VLD", "ACT", "PRI", "SEC"}
<1> DEFINE len == ra_sd_tx_stream_ip_length(s)
           mc == {bit \in {"ACT", "PRI", "SEC"} :
                    \/ bit = "ACT" /\ s.active
                    \/ bit = "PRI" /\ s.use_primary
                    \/ bit = "SEC" /\ s.use_secondary}
           n == s.num_channels % U8
           c == ra_sd_codec_fpga_code(s.codec)
<1>1. len % 65536 = len
  BY LengthFits
<1> HIDE DEF len
<1>2. ra_stream_table_tx_fill(s, start, len) =
        [trtp_base_addr |-> start, num_channels |-> n, num_samples |-> s.num_samples,
         codec |-> c, ip_total_len |-> len % 65536, misc_control |-> mc]
  BY DEF ra_stream_table_tx_fill
<1>3. mc \cup {"VLD"} \subseteq {"VLD", "ACT", "PRI", "SEC"}
  OBVIOUS
<1> HIDE DEF mc, n, c
<1>4. ra_stream_table_tx_set(s, start, len) =
        [trtp_base_addr |-> start, num_channels |-> n, num_samples |-> s.num_samples,
         codec |-> c, ip_total_len |-> len, misc_control |-> mc \cup {"VLD"}]
  BY <1>1, <1>2 DEF ra_stream_table_tx_set
<1>5. ra_stream_table_tx_set(s, start, len).misc_control = mc \cup {"VLD"}
  BY <1>4
<1> QED
  BY <1>3, <1>4, <1>5 DEF len, n, c

\* An element is never the empty slot.
LEMMA ElemNotNull == NULL \notin Elem
<1>1. \A x \in Entry : x \in Nat
  BY TrackTableAssumption DEF Entry
<1>2. Elem \subseteq [filp : File, stream : Stream, trtb_index : Nat]
  <2> SUFFICES ASSUME NEW e \in Elem
               PROVE  e \in [filp : File, stream : Stream, trtb_index : Nat]
    OBVIOUS
  <2>1. /\ e.filp \in File /\ e.stream \in Stream /\ e.trtb_index \in Nat
        /\ e = [filp |-> e.filp, stream |-> e.stream, trtb_index |-> e.trtb_index]
    BY <1>1 DEF Elem
  <2> QED
    BY <2>1
<1> QED
  BY <1>2, TxAssumption

-----------------------------------------------------------------------------
(* Replacing the contents of a slot preserves the invariant.               *)

\* AreaOf is inside the naturals, and channel c of a stream is at x - index.
LEMMA AreaChannels ==
  ASSUME NEW e \in Elem, NEW x \in AreaOf(e)
  PROVE  x - e.trtb_index \in 0 .. e.stream.num_channels - 1
BY TrackTableAssumption DEF Elem, AreaOf, Area, Entry, Stream

\* What a slot of the xarray and its stream hold.
LEMMA ElemType ==
  ASSUME NEW e \in Elem
  PROVE  /\ e.filp \in File
         /\ e.stream \in Stream
         /\ Acceptable(e.stream)
         /\ e.trtb_index \in Entry
         /\ e.trtb_index \in Nat
         /\ e.stream.num_channels \in Nat
         /\ e.stream.tracks \in [0 .. RA_MAX_CHANNELS - 1 -> Int]
<1>1. /\ e.filp \in File /\ e.trtb_index \in Entry
      /\ e.stream \in {s \in Stream : Acceptable(s)}
  BY DEF Elem
<1>2. e.trtb_index \in Nat
  BY <1>1, TrackTableAssumption DEF Entry
<1>3. e.stream \in Stream /\ Acceptable(e.stream)
  BY <1>1
<1>4. /\ e.stream.num_channels \in Nat
      /\ e.stream.tracks \in [0 .. RA_MAX_CHANNELS - 1 -> Int]
  BY <1>3 DEF Stream
<1> QED
  BY <1>1, <1>2, <1>3, <1>4

\* The entry of an element is well-typed.
LEMMA EntryType ==
  ASSUME NEW e \in Elem
  PROVE  EntryOf(e) \in SttbEntry
<1> DEFINE s == e.stream
           n == s.num_channels % U8
           len == ra_sd_tx_stream_ip_length(s)
           c == ra_sd_codec_fpga_code(s.codec)
<1>1. s \in Stream /\ Acceptable(s) /\ e.trtb_index \in Nat /\ s.num_channels \in Nat
  BY ElemType
<1>2. n \in 0 .. U8 - 1
  BY <1>1, ChannelByte
<1>3. len \in Nat /\ c \in {0, 16, 24, 32, 168}
  BY <1>1, LengthFits, CodecTypes
<1>4. s.num_samples \in Nat
  <2>1. s.num_samples \in 0 .. 255
    BY <1>1 DEF Stream
  <2> QED
    BY <2>1
<1> DEFINE mc == EntryOf(e).misc_control
<1>5. /\ EntryOf(e) = [trtp_base_addr |-> e.trtb_index, num_channels |-> n,
                       num_samples |-> s.num_samples, codec |-> c,
                       ip_total_len |-> len, misc_control |-> mc]
      /\ mc \subseteq {"VLD", "ACT", "PRI", "SEC"}
  <2>1. EntryOf(e) = ra_stream_table_tx_set(s, e.trtb_index, len)
    BY DEF EntryOf
  <2> QED
    BY <1>1, <2>1, SetFields, Zenon
<1> HIDE DEF n, len, c, mc
<1> QED
  BY <1>1, <1>2, <1>3, <1>4, <1>5 DEF SttbEntry

\* What ra_track_table_set reads: the tracks of the stream, which validation has
\* bounded, and then whatever follows them.
LEMMA ReadTypes ==
  ASSUME NEW e \in Elem, NEW tracks \in TracksRead(e.stream),
         NEW c \in 0 .. e.stream.num_channels - 1
  PROVE  /\ tracks[c] \in Int
         /\ c < RA_MAX_CHANNELS => tracks[c] = e.stream.tracks[c] /\ tracks[c] < MaxTracks
         /\ ~(c < RA_MAX_CHANNELS) => tracks[c] \in Stray
<1> DEFINE s == e.stream
           n == s.num_channels
<1>1. PICK behind \in [RA_MAX_CHANNELS .. n - 1 -> Stray] :
        tracks = [d \in 0 .. n - 1 |-> IF d < RA_MAX_CHANNELS THEN s.tracks[d] ELSE behind[d]]
  BY DEF TracksRead
<1>2. tracks[c] = IF c < RA_MAX_CHANNELS THEN s.tracks[c] ELSE behind[c]
  BY <1>1
<1>3. n \in Nat /\ s.tracks \in [0 .. RA_MAX_CHANNELS - 1 -> Int]
  BY ElemType
<1>4. \A d \in 0 .. RA_MAX_CHANNELS - 1 : s.tracks[d] < MaxTracks
  BY ElemType DEF Acceptable, ra_sd_tx_validate_stream
<1> HIDE DEF n, s
<1>5. CASE c < RA_MAX_CHANNELS
  <2>1. c \in 0 .. RA_MAX_CHANNELS - 1
    BY <1>3, <1>5, ConstantTypes DEF n, s
  <2> QED
    BY <1>2, <1>3, <1>4, <1>5, <2>1 DEF s
<1>6. CASE ~(c < RA_MAX_CHANNELS)
  <2>1. c \in RA_MAX_CHANNELS .. n - 1
    BY <1>3, <1>6, ConstantTypes DEF n, s
  <2> QED
    BY <1>1, <1>2, <1>6, <2>1, ConstantTypes
<1> QED
  BY <1>5, <1>6

\* The table after ra_track_table_set routes the area and nothing else.
LEMMA TrtbSetRoutes ==
  ASSUME NEW e \in Elem, NEW tracks \in TracksRead(e.stream), NEW old, NEW x \in Entry
  PROVE  LET new == ra_track_table_set(old, e.trtb_index, e.stream.num_channels, tracks)
             c == x - e.trtb_index
             t == e.stream.tracks[c]
         IN  /\ x \in AreaOf(e) /\ c < RA_MAX_CHANNELS =>
                  new[x] = IF t >= 0 THEN t ELSE RA_TRACK_TABLE_MUTE
             /\ x \notin AreaOf(e) => new[x] = old[x]
<1> DEFINE c == x - e.trtb_index
<1>1. x \in AreaOf(e) => c \in 0 .. e.stream.num_channels - 1
  BY AreaChannels
<1>2. x \in AreaOf(e) /\ c < RA_MAX_CHANNELS => tracks[c] = e.stream.tracks[c]
  BY <1>1, ReadTypes
<1> QED
  BY <1>2 DEF ra_track_table_set, AreaOf

\* Writing what was read for a validated stream keeps the track table well-typed.
LEMMA TrtbSetType ==
  ASSUME NEW e \in Elem, NEW tracks \in TracksRead(e.stream), NEW old \in [Entry -> Track]
  PROVE  ra_track_table_set(old, e.trtb_index, e.stream.num_channels, tracks)
           \in [Entry -> Track]
<1> DEFINE n == e.stream.num_channels
<1>1. ASSUME NEW c \in 0 .. n - 1
      PROVE  (IF tracks[c] >= 0 THEN tracks[c] ELSE RA_TRACK_TABLE_MUTE) \in Track
  <2>1. tracks[c] \in Int /\ (tracks[c] < MaxTracks \/ tracks[c] \in Stray)
    BY ReadTypes
  <2> QED
    BY <2>1, ConstantTypes DEF Track
<1>2. ASSUME NEW x \in Entry
      PROVE  (IF x \in Area(e.trtb_index, n)
                THEN IF tracks[x - e.trtb_index] >= 0 THEN tracks[x - e.trtb_index]
                                                      ELSE RA_TRACK_TABLE_MUTE
                ELSE old[x]) \in Track
  <2>1. CASE x \in Area(e.trtb_index, n)
    <3>1. x - e.trtb_index \in 0 .. n - 1
      BY <2>1, AreaChannels DEF AreaOf
    <3> QED
      BY <1>1, <2>1, <3>1
  <2>2. CASE x \notin Area(e.trtb_index, n)
    BY <2>2
  <2> QED
    BY <2>1, <2>2
<1> QED
  BY <1>2 DEF ra_track_table_set

\* What the other streams own, they own outside of what slot k held; and what
\* is left in the bitmap without slot k belongs to one of them.
LEMMA OthersKeepTheirs ==
  ASSUME IInv, NEW k \in Index
  PROVE  /\ \A i \in Live(streams) \ {k} :
              AreaOf(streams[i]) \subseteq used_entries \ OldArea(k)
         /\ \A x \in used_entries \ OldArea(k) :
              \E i \in Live(streams) \ {k} : x \in AreaOf(streams[i])
<1>1. CASE streams[k] = NULL
  <2>1. OldArea(k) = {} /\ k \notin Live(streams)
    BY <1>1 DEF OldArea, Live
  <2> QED
    BY <2>1 DEF IInv, EntriesAccounted
<1>2. CASE streams[k] # NULL
  <2>1. k \in Live(streams) /\ OldArea(k) = AreaOf(streams[k])
    BY <1>2 DEF OldArea, Live
  <2> QED
    BY <2>1 DEF IInv, EntriesAccounted
<1> QED
  BY <1>1, <1>2

\* Replacing the stream of a slot preserves every invariant, whatever the slot
\* held: this is the core of add and of every way an update can end.
LEMMA ReplacePreserves ==
  ASSUME IInv, NEW k \in Index, NEW e \in Elem, Replaces(k, e),
         e.filp \in files, files' = files,
         last' \in [filp : File \cup {NULL}, ret : Int], warned' \in BOOLEAN
  PROVE  IInv'
<1>1. /\ streams'[k] = e
      /\ \A i \in Index : i # k => streams'[i] = streams[i]
      /\ streams' \in [Index -> Elem \cup {NULL}]
  BY DEF IInv, TypeOK, Replaces
<1>2. /\ Live(streams') = Live(streams) \cup {k}
      /\ \A i \in Live(streams') : streams'[i] \in Elem
  BY <1>1, ElemNotNull DEF Live
<1>3. \A i \in Live(streams') : i # k => i \in Live(streams) \ {k}
                                        /\ streams'[i] = streams[i]
  BY <1>1, <1>2 DEF Live
<1> DEFINE freed == ra_track_table_free(trtb, OldArea(k))
<1>4. /\ freed \in [Entry -> Track]
      /\ \A x \in Entry : freed[x] = IF x \in OldArea(k) THEN RA_TRACK_TABLE_MUTE
                                                         ELSE trtb[x]
  BY ClearedTypes DEF IInv, TypeOK, ra_track_table_free
<1>5. PICK tracks \in TracksRead(e.stream) :
        trtb' = ra_track_table_set(freed, e.trtb_index, e.stream.num_channels, tracks)
  BY DEF Replaces
<1> HIDE DEF freed
<1>6. TypeOK'
  <2>1. used_entries' \subseteq Entry
    BY DEF IInv, TypeOK, Replaces
  <2>2. trtb' \in [Entry -> Track]
    BY <1>4, <1>5, TrtbSetType
  <2>3. sttb' \in [Index -> SttbEntry]
    <3>1. EntryOf(e) \in SttbEntry
      BY EntryType
    <3> QED
      BY <3>1 DEF IInv, TypeOK, Replaces
  <2> QED
    BY <1>1, <2>1, <2>2, <2>3 DEF IInv, TypeOK
<1>7. EntriesAccounted'
  <2>1. /\ AreaOf(e) \cap (used_entries \ OldArea(k)) = {}
        /\ used_entries' = (used_entries \ OldArea(k)) \cup AreaOf(e)
    BY DEF Replaces
  <2>2. \A i \in Live(streams') : AreaOf(streams'[i]) \subseteq used_entries'
    BY <1>1, <1>3, <2>1, OthersKeepTheirs
  <2>3. \A x \in used_entries' : \E i \in Live(streams') : x \in AreaOf(streams'[i])
    <3> TAKE x \in used_entries'
    <3>1. CASE x \in AreaOf(e)
      BY <3>1, <1>1, <1>2
    <3>2. CASE x \in used_entries \ OldArea(k)
      BY <3>2, <1>2, <1>3, OthersKeepTheirs
    <3> QED
      BY <2>1, <3>1, <3>2
  <2>4. ASSUME NEW i \in Live(streams'), NEW j \in Live(streams'), i # j
        PROVE  AreaOf(streams'[i]) \cap AreaOf(streams'[j]) = {}
    <3>1. CASE i # k /\ j # k
      BY <3>1, <1>3, <2>4 DEF IInv, EntriesAccounted
    <3>2. CASE i = k \/ j = k
      BY <3>2, <1>1, <1>3, <2>1, <2>4, OthersKeepTheirs
    <3> QED
      BY <3>1, <3>2
  <2> QED
    BY <2>2, <2>3, <2>4 DEF EntriesAccounted
<1>8. TrackTableRoutes'
  <2>1. ASSUME NEW i \in Live(streams'), NEW x \in AreaOf(streams'[i])
        PROVE  LET c == x - streams'[i].trtb_index
                   t == streams'[i].stream.tracks[c]
               IN  c < RA_MAX_CHANNELS =>
                     trtb'[x] = IF t >= 0 THEN t ELSE RA_TRACK_TABLE_MUTE
    <3>1. CASE i = k
      <4>1. x \in AreaOf(e) /\ x \in Entry /\ streams'[i] = e
        BY <3>1, <1>1, <2>1 DEF Replaces
      <4>2. LET c == x - e.trtb_index
                t == e.stream.tracks[c]
            IN  c < RA_MAX_CHANNELS =>
                  trtb'[x] = IF t >= 0 THEN t ELSE RA_TRACK_TABLE_MUTE
        BY <4>1, <1>5, TrtbSetRoutes
      <4> QED
        BY <4>1, <4>2
    <3>2. CASE i # k
      <4>1. i \in Live(streams) \ {k} /\ streams'[i] = streams[i]
        BY <1>3, <3>2
      <4>2. x \in used_entries \ OldArea(k) /\ x \in Entry
        BY <4>1, <2>1, OthersKeepTheirs DEF IInv, TypeOK
      <4>3. x \notin AreaOf(e)
        BY <4>2 DEF Replaces
      <4>4. trtb'[x] = trtb[x]
        BY <4>2, <4>3, <1>4, <1>5, TrtbSetRoutes
      <4> QED
        BY <4>1, <4>4, <2>1 DEF IInv, TrackTableRoutes
    <3> QED
      BY <3>1, <3>2
  <2>2. ASSUME NEW x \in Entry \ used_entries'
        PROVE  trtb'[x] = RA_TRACK_TABLE_MUTE
    <3>1. x \in Entry /\ x \notin AreaOf(e)
          /\ (x \in OldArea(k) \/ x \notin used_entries)
      BY <2>2 DEF Replaces
    <3>2. trtb'[x] = freed[x]
      BY <3>1, <1>5, TrtbSetRoutes
    <3> QED
      BY <3>1, <3>2, <1>4 DEF IInv, TrackTableRoutes
  <2> QED
    BY <2>1, <2>2 DEF TrackTableRoutes
<1>9. StreamTableCurrent'
  <2>1. /\ sttb'[k] = EntryOf(e)
        /\ \A i \in Index : i # k => sttb'[i] = sttb[i]
    BY DEF IInv, TypeOK, Replaces
  <2> QED
    BY <1>1, <2>1, ElemNotNull DEF IInv, StreamTableCurrent, EntryOf
<1>10. OwnersAreOpen'
  BY <1>1, <1>2, <1>3 DEF IInv, OwnersAreOpen
<1> QED
  BY <1>6, <1>7, <1>8, <1>9, <1>10 DEF IInv

-----------------------------------------------------------------------------
(* Freeing streams, and the calls that change nothing.                     *)

\* ra_sd_tx_free_stream preserves the invariant, for one stream or for all the
\* streams of a file, if the owners that remain are open.
LEMMA FreePreserves ==
  ASSUME IInv, NEW S \in SUBSET Live(streams), ra_sd_tx_free_stream(S),
         files' \subseteq files,
         \A i \in Live(streams) \ S : streams[i].filp \in files',
         last' \in [filp : File \cup {NULL}, ret : Int], warned' \in BOOLEAN
  PROVE  IInv'
<1> DEFINE area == UNION {AreaOf(streams[i]) : i \in S}
<1>1. /\ \A i \in Index : streams'[i] = IF i \in S THEN NULL ELSE streams[i]
      /\ streams' \in [Index -> Elem \cup {NULL}]
  BY DEF ra_sd_tx_free_stream, IInv, TypeOK
<1>2. Live(streams') = Live(streams) \ S
  BY <1>1 DEF Live
<1>3. \A i \in Live(streams') : streams'[i] = streams[i]
  BY <1>1, <1>2 DEF Live
<1>4. /\ used_entries' = used_entries \ area
      /\ \A x \in Entry : trtb'[x] = IF x \in area THEN RA_TRACK_TABLE_MUTE
                                                   ELSE trtb[x]
      /\ trtb' \in [Entry -> Track]
  BY ClearedTypes DEF ra_sd_tx_free_stream, ra_track_table_free, IInv, TypeOK
<1>5. /\ \A i \in Live(streams') : AreaOf(streams[i]) \cap area = {}
      /\ \A x \in used_entries \ area :
           \E i \in Live(streams') : x \in AreaOf(streams[i])
  <2>1. \A i \in Live(streams'), j \in S : i \in Live(streams) /\ j \in Live(streams)
                                           /\ i # j
    BY <1>2
  <2> QED
    BY <1>2, <2>1 DEF IInv, EntriesAccounted
<1> HIDE DEF area
<1>6. TypeOK'
  <2>1. sttb' \in [Index -> SttbEntry]
    BY ClearedTypes DEF ra_sd_tx_free_stream, IInv, TypeOK
  <2> QED
    BY <1>1, <1>4, <2>1 DEF IInv, TypeOK
<1>7. EntriesAccounted'
  BY <1>2, <1>3, <1>4, <1>5 DEF IInv, EntriesAccounted
<1>8. TrackTableRoutes'
  <2>1. ASSUME NEW i \in Live(streams'), NEW x \in AreaOf(streams'[i])
        PROVE  LET c == x - streams'[i].trtb_index
                   t == streams'[i].stream.tracks[c]
               IN  c < RA_MAX_CHANNELS =>
                     trtb'[x] = IF t >= 0 THEN t ELSE RA_TRACK_TABLE_MUTE
    <3>1. i \in Live(streams) /\ streams'[i] = streams[i] /\ x \in AreaOf(streams[i])
      BY <1>2, <1>3, <2>1
    <3>2. x \in Entry /\ x \notin area
      BY <1>5, <3>1, <2>1 DEF IInv, TypeOK, EntriesAccounted
    <3> QED
      BY <1>4, <3>1, <3>2 DEF IInv, TrackTableRoutes
  <2>2. ASSUME NEW x \in Entry \ used_entries'
        PROVE  trtb'[x] = RA_TRACK_TABLE_MUTE
    BY <1>4, <2>2 DEF IInv, TrackTableRoutes
  <2> QED
    BY <2>1, <2>2 DEF TrackTableRoutes
<1>9. StreamTableCurrent'
  <2>1. \A i \in Index : sttb'[i] = IF i \in S THEN ra_stream_table_tx_del ELSE sttb[i]
    BY DEF ra_sd_tx_free_stream
  <2> QED
    BY <1>1, <2>1 DEF IInv, StreamTableCurrent
<1>10. OwnersAreOpen'
  BY <1>2, <1>3 DEF OwnersAreOpen
<1> QED
  BY <1>6, <1>7, <1>8, <1>9, <1>10 DEF IInv

\* A refused call preserves the invariant: it changes neither the streams nor
\* what they own.
LEMMA UnchangedPreserves ==
  ASSUME IInv, UNCHANGED <<streams, used_entries, trtb, sttb>>,
         files \subseteq files', files' \subseteq File,
         last' \in [filp : File \cup {NULL}, ret : Int], warned' \in BOOLEAN
  PROVE  IInv'
<1>1. TypeOK'
  BY DEF IInv, TypeOK
<1>2. EntriesAccounted' /\ TrackTableRoutes' /\ StreamTableCurrent'
  BY DEF IInv, EntriesAccounted, TrackTableRoutes, StreamTableCurrent
<1>3. OwnersAreOpen'
  BY DEF IInv, OwnersAreOpen
<1> QED
  BY <1>1, <1>2, <1>3 DEF IInv

-----------------------------------------------------------------------------
(* One lemma per ioctl.                                                    *)

\* Every return value is a number, so the bookkeeping of calls stays typed.
LEMMA ReturnsType ==
  ASSUME NEW f \in File, NEW value \in Int, Returns(f, value)
  PROVE  last' \in [filp : File \cup {NULL}, ret : Int]
BY DEF Returns

\* The element of the xarray that an add or an update leaves in its slot.
StreamElem(f, s, start) == [filp |-> f, stream |-> s, trtb_index |-> start]

\* Putting a stream into slot k, with an area that is free once the old one is,
\* is a replacement.
LEMMA PutReplaces ==
  ASSUME NEW f \in File, NEW k \in Index,
         NEW s \in Stream, Acceptable(s),
         NEW start \in Entry, Area(start, s.num_channels) \subseteq Entry,
         Area(start, s.num_channels) \cap (used_entries \ OldArea(k)) = {},
         Put(f, k, s, start, ra_track_table_free(trtb, OldArea(k))),
         used_entries' = (used_entries \ OldArea(k)) \cup Area(start, s.num_channels)
  PROVE  /\ StreamElem(f, s, start) \in Elem
         /\ StreamElem(f, s, start).filp = f
         /\ AreaOf(StreamElem(f, s, start)) = Area(start, s.num_channels)
         /\ Replaces(k, StreamElem(f, s, start))
<1> DEFINE e == StreamElem(f, s, start)
<1>1. e \in Elem
  BY DEF Elem, StreamElem
<1>2. /\ e.filp = f /\ e.stream = s /\ e.trtb_index = start
      /\ AreaOf(e) = Area(start, s.num_channels)
  BY DEF AreaOf, StreamElem
<1>3. streams' = [streams EXCEPT ![k] = e]
  BY DEF Put, StreamElem
<1> HIDE DEF e
<1>4. Replaces(k, e)
  BY <1>2, <1>3 DEF Replaces, Put, EntryOf
<1> QED
  BY <1>1, <1>2, <1>4 DEF e

\* An add that succeeds fills a free slot, and returns its index.
LEMMA AddReplaces ==
  ASSUME IInv, NEW f \in File, NEW s \in Input, Add(f, s)
  PROVE  \E k \in Index \ Live(streams), e \in Elem :
           Replaces(k, e) /\ e.filp = f /\ OldArea(k) = {} /\ Returns(f, k) /\ k \in Int
<1>1. s \in Stream /\ Acceptable(s) /\ s.num_channels \in Nat
  BY TxAssumption DEF Add, Stream
<1>2. PICK k \in Index \ Live(streams),
           start \in ra_track_table_alloc(used_entries, s.num_channels) :
        /\ Put(f, k, s, start, trtb)
        /\ used_entries' = used_entries \cup Area(start, s.num_channels)
        /\ Returns(f, k)
  BY DEF Add
<1>3. /\ start \in Entry /\ Area(start, s.num_channels) \subseteq Entry
      /\ Area(start, s.num_channels) \cap used_entries = {}
  BY <1>1, AllocSound
<1>4. OldArea(k) = {}
  BY DEF OldArea, Live
<1>5. ra_track_table_free(trtb, {}) = trtb
  BY DEF ra_track_table_free, IInv, TypeOK
<1>6. k \in Int
  BY ConstantTypes DEF Index
<1>7. /\ StreamElem(f, s, start) \in Elem /\ StreamElem(f, s, start).filp = f
      /\ Replaces(k, StreamElem(f, s, start))
  BY <1>1, <1>2, <1>3, <1>4, <1>5, PutReplaces
<1> QED
  BY <1>2, <1>4, <1>6, <1>7

\* RA_SD_ADD_TX_STREAM preserves the invariant.
LEMMA AddPreserves ==
  ASSUME IInv, NEW f \in File, NEW s \in Input, ra_sd_tx_add_stream_ioctl(f, s)
  PROVE  IInv'
<1>1. CASE AddRefused(f, s)
  <2>1. last' \in [filp : File \cup {NULL}, ret : Int]
    BY <1>1, ReturnsType
       DEF AddRefused, BadCommand, EFAULT, EINVAL, ENOMEM, EBUSY, ENOSPC
  <2>2. UNCHANGED <<files, txState>>
    BY <1>1 DEF AddRefused
  <2> QED
    BY <2>1, <2>2, UnchangedPreserves DEF txState, IInv, TypeOK
<1>2. CASE Add(f, s)
  <2>1. PICK k \in Index \ Live(streams), e \in Elem :
          Replaces(k, e) /\ e.filp = f /\ Returns(f, k) /\ k \in Int
    BY <1>2, AddReplaces
  <2>2. f \in files /\ files' = files /\ warned' = warned
    BY <1>2 DEF Add, ra_sd_tx_add_stream_ioctl
  <2>3. last' \in [filp : File \cup {NULL}, ret : Int] /\ warned' \in BOOLEAN
    BY <2>1, <2>2, ReturnsType DEF IInv, TypeOK
  <2> QED
    BY <2>1, <2>2, <2>3, ReplacePreserves
<1> QED
  BY <1>1, <1>2 DEF ra_sd_tx_add_stream_ioctl

\* What an update that passed its checks may rely on.
LEMMA AcceptedFacts ==
  ASSUME IInv, NEW f \in File, NEW k, MayAccess(f, k)
  PROVE  /\ k \in Index
         /\ k \in Live(streams)
         /\ streams[k] \in Elem
         /\ streams[k].filp = f
         /\ OldArea(k) = AreaOf(streams[k])
         /\ OldArea(k) \subseteq used_entries
         /\ OldArea(k) \subseteq Entry
<1>1. k \in Index /\ streams[k] # NULL /\ streams[k].filp = f
  BY DEF MayAccess, ra_sd_tx_stream_elem_find_by_index
<1>2. streams[k] \in Elem /\ k \in Live(streams)
  BY <1>1 DEF IInv, TypeOK, Live
<1>3. OldArea(k) = AreaOf(streams[k])
  BY <1>1 DEF OldArea
<1>4. OldArea(k) \subseteq used_entries /\ OldArea(k) \subseteq Entry
  BY <1>2, <1>3 DEF IInv, TypeOK, EntriesAccounted
<1> QED
  BY <1>1, <1>2, <1>3, <1>4

\* However an update that passed its checks ends, it replaces what its slot held.
LEMMA UpdateReplaces ==
  ASSUME IInv, NEW f \in File, NEW k \in CmdIndex, NEW s \in Input,
         \/ UpdateInPlace(f, k, s)
         \/ UpdateMoved(f, k, s)
         \/ UpdateRolledBack(f, k, s)
  PROVE  /\ MayAccess(f, k) /\ files' = files /\ warned' = warned
         /\ \E new \in Elem : /\ Replaces(k, new) /\ new.filp = f
                              /\ UpdateInPlace(f, k, s) => AreaOf(new) = OldArea(k)
         /\ \E value \in Int : Returns(f, value)
<1> DEFINE e == streams[k]
           n == e.stream.num_channels
<1>1. s \in Stream /\ s.num_channels \in Nat
  BY TxAssumption DEF Stream
<1>2. MayAccess(f, k) /\ files' = files /\ warned' = warned
  BY DEF UpdateInPlace, UpdateMoved, UpdateRolledBack
<1>3. /\ k \in Index /\ e \in Elem /\ e.filp = f /\ OldArea(k) = AreaOf(e)
      /\ e.stream \in Stream /\ Acceptable(e.stream)
      /\ n \in Nat /\ e.trtb_index \in Entry /\ OldArea(k) = Area(e.trtb_index, n)
      /\ OldArea(k) \subseteq used_entries /\ OldArea(k) \subseteq Entry
  BY <1>2, AcceptedFacts, ElemType DEF AreaOf
<1>4. CASE UpdateInPlace(f, k, s)
  <2> DEFINE start == e.trtb_index
  <2>1. /\ Acceptable(s) /\ s.num_channels = n
        /\ Put(e.filp, k, s, start, trtb) /\ Returns(f, 0) /\ 0 \in Int
        /\ used_entries' = used_entries
    BY <1>4 DEF UpdateInPlace
  <2>2. start \in Entry /\ OldArea(k) = Area(start, s.num_channels)
    BY <1>3, <2>1
  <2>3. Put(f, k, s, start, ra_track_table_free(trtb, OldArea(k)))
    <3>1. \A tracks :
            ra_track_table_set(ra_track_table_free(trtb, OldArea(k)), start,
                               s.num_channels, tracks)
            = ra_track_table_set(trtb, start, s.num_channels, tracks)
      BY <2>2 DEF ra_track_table_set, ra_track_table_free
    <3> QED
      BY <1>3, <2>1, <3>1 DEF Put
  <2>4. /\ used_entries' = (used_entries \ OldArea(k)) \cup Area(start, s.num_channels)
        /\ Area(start, s.num_channels) \cap (used_entries \ OldArea(k)) = {}
        /\ Area(start, s.num_channels) \subseteq Entry
    BY <1>3, <2>1, <2>2
  <2> HIDE DEF e, n, start
  <2>5. /\ StreamElem(f, s, start) \in Elem /\ StreamElem(f, s, start).filp = f
        /\ AreaOf(StreamElem(f, s, start)) = OldArea(k)
        /\ Replaces(k, StreamElem(f, s, start))
    BY <1>1, <1>3, <2>1, <2>2, <2>3, <2>4, PutReplaces
  <2> QED
    BY <1>2, <2>1, <2>5
<1>5. CASE UpdateMoved(f, k, s)
  <2>1. Acceptable(s) /\ ~UpdateInPlace(f, k, s)
    BY <1>5 DEF UpdateMoved, UpdateInPlace
  <2>2. PICK start \in ra_track_table_alloc(used_entries \ OldArea(k), s.num_channels) :
          /\ Put(f, k, s, start, ra_track_table_free(trtb, OldArea(k)))
          /\ used_entries' = (used_entries \ OldArea(k)) \cup Area(start, s.num_channels)
          /\ Returns(f, start)
    BY <1>3, <1>5 DEF UpdateMoved
  <2>3. /\ start \in Entry /\ Area(start, s.num_channels) \subseteq Entry
        /\ Area(start, s.num_channels) \cap (used_entries \ OldArea(k)) = {}
    BY <1>1, AllocSound
  <2>4. start \in Int
    BY <2>3, ConstantTypes DEF Entry
  <2> HIDE DEF e, n
  <2>5. /\ StreamElem(f, s, start) \in Elem /\ StreamElem(f, s, start).filp = f
        /\ Replaces(k, StreamElem(f, s, start))
    BY <1>1, <1>3, <2>1, <2>2, <2>3, PutReplaces
  <2> QED
    BY <1>2, <2>1, <2>2, <2>4, <2>5
<1>6. CASE UpdateRolledBack(f, k, s)
  <2>1. Returns(f, -ENOSPC) /\ -ENOSPC \in Int /\ ~UpdateInPlace(f, k, s)
    BY <1>6 DEF UpdateRolledBack, UpdateInPlace, ENOSPC
  <2>2. PICK start \in ra_track_table_alloc(used_entries \ OldArea(k), n) :
          /\ Put(f, k, e.stream, start, ra_track_table_free(trtb, OldArea(k)))
          /\ used_entries' = (used_entries \ OldArea(k)) \cup Area(start, n)
    BY <1>3, <1>6 DEF UpdateRolledBack
  <2>3. /\ start \in Entry /\ Area(start, n) \subseteq Entry
        /\ Area(start, n) \cap (used_entries \ OldArea(k)) = {}
    BY <1>3, AllocSound
  <2> HIDE DEF e
  <2>4. /\ StreamElem(f, e.stream, start) \in Elem
        /\ StreamElem(f, e.stream, start).filp = f
        /\ Replaces(k, StreamElem(f, e.stream, start))
    BY <1>3, <2>2, <2>3, PutReplaces
  <2> QED
    BY <1>2, <2>1, <2>4
<1> QED
  BY <1>4, <1>5, <1>6

\* The WARN_ON is reached with a stream without channels only, and then nothing
\* but the warning changes.
LEMMA WarnChangesNothing ==
  ASSUME IInv, NEW f \in File, NEW k \in CmdIndex, NEW s \in Input, UpdateWarns(f, k, s)
  PROVE  /\ streams[k].stream.num_channels = 0
         /\ UNCHANGED <<files, streams, used_entries, trtb, sttb>>
<1> DEFINE e == streams[k]
           n == e.stream.num_channels
<1>1. MayAccess(f, k)
  BY DEF UpdateWarns
<1>2. /\ AreaOf(e) = Area(e.trtb_index, n) /\ AreaOf(e) \subseteq Entry
      /\ e.trtb_index \in Entry /\ n \in Nat
  BY <1>1, AcceptedFacts, ElemType DEF AreaOf
<1>3. ~(n > 0)
  BY <1>2, FreedAreaIsZero, AllocComplete DEF UpdateWarns
<1>4. n = 0
  <2> HIDE DEF n
  <2> QED
    BY <1>2, <1>3
<1>5. AreaOf(e) = {}
  <2>1. e.trtb_index \in Int
    BY <1>2, ConstantTypes DEF Entry
  <2> QED
    BY <1>2, <1>4, <2>1 DEF Area
<1>6. trtb' = trtb /\ used_entries' = used_entries
  BY <1>5 DEF UpdateWarns, ra_track_table_free, IInv, TypeOK
<1> QED
  BY <1>4, <1>6 DEF UpdateWarns

\* RA_SD_UPDATE_TX_STREAM preserves the invariant, however it ends.
LEMMA UpdatePreserves ==
  ASSUME IInv, NEW f \in File, NEW k \in CmdIndex, NEW s \in Input,
         ra_sd_tx_update_stream_ioctl(f, k, s)
  PROVE  IInv'
<1>1. f \in files
  BY DEF ra_sd_tx_update_stream_ioctl
<1>2. CASE UpdateRefused(f, k, s)
  <2>1. last' \in [filp : File \cup {NULL}, ret : Int]
    BY <1>2, ReturnsType
       DEF UpdateRefused, BadCommand, EFAULT, EINVAL, ENOENT, EACCES
  <2>2. UNCHANGED <<files, txState>>
    BY <1>2 DEF UpdateRefused
  <2> QED
    BY <2>1, <2>2, UnchangedPreserves DEF txState, IInv, TypeOK
<1>3. CASE UpdateInPlace(f, k, s) \/ UpdateMoved(f, k, s) \/ UpdateRolledBack(f, k, s)
  <2>1. /\ MayAccess(f, k) /\ files' = files /\ warned' = warned
        /\ \E e \in Elem : Replaces(k, e) /\ e.filp = f
        /\ \E value \in Int : Returns(f, value)
    BY <1>3, UpdateReplaces
  <2>2. k \in Index
    BY <2>1, AcceptedFacts
  <2>3. last' \in [filp : File \cup {NULL}, ret : Int] /\ warned' \in BOOLEAN
    BY <2>1, ReturnsType DEF IInv, TypeOK
  <2> QED
    BY <1>1, <2>1, <2>2, <2>3, ReplacePreserves
<1>4. CASE UpdateWarns(f, k, s)
  <2>1. UNCHANGED <<files, streams, used_entries, trtb, sttb>>
    BY <1>4, WarnChangesNothing
  <2>2. warned' \in BOOLEAN /\ Returns(f, -ENOSPC) /\ -ENOSPC \in Int
    BY <1>4 DEF UpdateWarns, ENOSPC
  <2>3. last' \in [filp : File \cup {NULL}, ret : Int]
    BY <2>2, ReturnsType
  <2> QED
    BY <2>1, <2>2, <2>3, UnchangedPreserves DEF IInv, TypeOK
<1> QED
  BY <1>1, <1>2, <1>3, <1>4 DEF ra_sd_tx_update_stream_ioctl

\* RA_SD_DELETE_TX_STREAM and release() preserve the invariant.
LEMMA DeletePreserves ==
  ASSUME IInv, NEW f \in File,
         \/ \E k \in CmdIndex : ra_sd_tx_delete_stream_ioctl(f, k)
         \/ ra_sd_tx_delete_streams(f)
  PROVE  IInv'
<1>1. ASSUME NEW k \in CmdIndex, f \in files, DeleteRefused(f, k)
      PROVE  IInv'
  <2>1. last' \in [filp : File \cup {NULL}, ret : Int]
    BY <1>1, ReturnsType DEF DeleteRefused, BadCommand, EFAULT, EINVAL, ENOENT, EACCES
  <2> QED
    BY <1>1, <2>1, UnchangedPreserves DEF DeleteRefused, txState, IInv, TypeOK
<1>2. ASSUME NEW k \in CmdIndex, f \in files, Delete(f, k)
      PROVE  IInv'
  <2>1. {k} \in SUBSET Live(streams)
    BY <1>2 DEF Delete, MayAccess, ra_sd_tx_stream_elem_find_by_index, Live
  <2>2. \A i \in Live(streams) \ {k} : streams[i].filp \in files'
    BY <1>2 DEF Delete, IInv, OwnersAreOpen
  <2>3. last' \in [filp : File \cup {NULL}, ret : Int]
    BY <1>2, ReturnsType DEF Delete
  <2> QED
    BY <1>2, <2>1, <2>2, <2>3, FreePreserves DEF Delete, IInv, TypeOK
<1>3. ASSUME ra_sd_tx_delete_streams(f)
      PROVE  IInv'
  <2> DEFINE S == {i \in Live(streams) : streams[i].filp = f}
  <2>1. ra_sd_tx_free_stream(S) /\ files' = files \ {f} /\ warned' = warned
    BY <1>3 DEF ra_sd_tx_delete_streams
  <2>2. \A i \in Live(streams) \ S : streams[i].filp \in files'
    BY <2>1 DEF IInv, OwnersAreOpen
  <2>3. last' \in [filp : File \cup {NULL}, ret : Int]
    BY <1>3, ReturnsType DEF ra_sd_tx_delete_streams
  <2>4. S \in SUBSET Live(streams)
    OBVIOUS
  <2> HIDE DEF S
  <2> QED
    BY <2>1, <2>2, <2>3, <2>4, FreePreserves DEF IInv, TypeOK
<1> QED
  BY <1>1, <1>2, <1>3 DEF ra_sd_tx_delete_stream_ioctl

-----------------------------------------------------------------------------
(* The invariant.                                                          *)

\* After ra_sd_tx_probe there are no streams, and the tables are reset.
LEMMA InitIInv == Init => IInv
<1> SUFFICES ASSUME Init PROVE IInv
  OBVIOUS
<1>1. Live(streams) = {}
  BY DEF Init, Live
<1>2. TypeOK
  <2>1. ra_stream_table_tx_reset \in [Index -> SttbEntry]
    BY ClearedTypes DEF ra_stream_table_tx_reset
  <2>2. trtb \in [Entry -> Track]
    BY ClearedTypes DEF Init, ra_track_table_reset
  <2>3. last \in [filp : File \cup {NULL}, ret : Int]
    BY DEF Init
  <2>4. warned \in BOOLEAN /\ streams \in [Index -> Elem \cup {NULL}]
    BY DEF Init
  <2> QED
    BY <2>1, <2>2, <2>3, <2>4 DEF Init, TypeOK
<1>3. TrackTableRoutes
  BY <1>1 DEF Init, TrackTableRoutes, ra_track_table_reset
<1>4. StreamTableCurrent
  BY DEF Init, StreamTableCurrent, ra_stream_table_tx_reset
<1>5. EntriesAccounted /\ OwnersAreOpen
  BY <1>1 DEF Init, EntriesAccounted, OwnersAreOpen
<1> QED
  BY <1>2, <1>3, <1>4, <1>5 DEF IInv

\* Every system call preserves the invariant.
LEMMA NextIInv == IInv /\ [Next]_vars => IInv'
<1> SUFFICES ASSUME IInv, [Next]_vars PROVE IInv'
  OBVIOUS
<1>1. ASSUME NEW f \in File, Open(f)
      PROVE  IInv'
  <2>1. last' \in [filp : File \cup {NULL}, ret : Int]
    BY <1>1, ReturnsType DEF Open
  <2> QED
    BY <1>1, <2>1, UnchangedPreserves DEF Open, txState, IInv, TypeOK
<1>2. ASSUME UNCHANGED vars
      PROVE  IInv'
  BY <1>2, UnchangedPreserves DEF vars, IInv, TypeOK
<1> QED
  BY <1>1, <1>2, AddPreserves, UpdatePreserves, DeletePreserves DEF Next

\* For tables of any size and any number of clients, after every system call of
\* the TX half the bitmap marks exactly the areas of the live streams, which are
\* disjoint, both FPGA tables describe exactly those streams, and each of them
\* belongs to an open file.
THEOREM Invariance == Spec => []IInv
BY InitIInv, NextIInv, PTL DEF Spec

\* Fewer channels make a shorter packet, if there are samples at all.
LEMMA FewerAreShorter ==
  ASSUME NEW a \in Nat, NEW n \in Nat, NEW m \in Nat, NEW b \in Nat \ {0}, a < n
  PROVE  a * m * b = n * m * b <=> m = 0
<1>1. CASE m = 0
  <2>1. a * m = 0 /\ n * m = 0
    BY <1>1
  <2> QED
    BY <1>1, <2>1
<1>2. CASE m > 0
  <2>1. a * m < n * m /\ a * m \in Nat /\ n * m \in Nat
    BY <1>2
  <2> DEFINE x == a * m
             y == n * m
  <2> HIDE DEF x, y
  <2>2. x * b < y * b
    BY <2>1 DEF x, y
  <2>3. x * b \in Nat /\ y * b \in Nat
    BY <2>1 DEF x, y
  <2> QED
    BY <1>2, <2>2, <2>3 DEF x, y
<1> QED
  BY <1>1, <1>2

\* The packet length in the entry of an accepted stream is that of the channels,
\* samples and codec of the same entry exactly when the channels fit its byte, or
\* there are no samples.
LEMMA EntryLength ==
  ASSUME NEW e \in Elem
  PROVE  LET entry == EntryOf(e) IN
         /\ entry.ip_total_len <= RA_MAX_ETHERNET_PACKET_SIZE
         /\ entry.ip_total_len
              = 20 + 8 + 12 + entry.num_channels * entry.num_samples
                                * SampleBytes(entry.codec)
            <=> e.stream.num_channels < U8 \/ entry.num_samples = 0
<1> DEFINE s == e.stream
           entry == EntryOf(e)
           n == s.num_channels
           a == n % U8
           m == s.num_samples
           b == ra_sd_codec_sample_length(s.codec)
           len == ra_sd_tx_stream_ip_length(s)
<1>1. s \in Stream /\ Acceptable(s) /\ n \in Nat
  BY ElemType
<1>2. entry = [trtp_base_addr |-> e.trtb_index, num_channels |-> a,
               num_samples |-> m, codec |-> ra_sd_codec_fpga_code(s.codec),
               ip_total_len |-> len, misc_control |-> entry.misc_control]
  BY <1>1, SetFields DEF EntryOf
<1>3. /\ entry.num_channels = a /\ entry.num_samples = m /\ entry.ip_total_len = len
      /\ SampleBytes(entry.codec) = b
  <2>1. SampleBytes(ra_sd_codec_fpga_code(s.codec)) = b
    BY <1>1, CodecTypes
  <2> HIDE DEF a, m, b, len, s
  <2> QED
    BY <1>2, <2>1
<1>4. len <= RA_MAX_ETHERNET_PACKET_SIZE /\ len = 20 + 8 + 12 + n * m * b
  BY <1>1, LengthFits DEF ra_sd_tx_stream_ip_length
<1>5. m \in Nat /\ b \in Nat \ {0}
  <2>1. m \in 0 .. 255
    BY <1>1 DEF Stream
  <2> QED
    BY <1>1, <2>1, CodecTypes
<1>6. /\ a \in Nat
      /\ n < U8 => a = n
      /\ ~(n < U8) => a < n
  <2> HIDE DEF n
  <2> QED
    BY <1>1, ChannelByte, ConstantTypes
<1> HIDE DEF s, entry, n, a, m, b, len
<1>7. n < U8 => n * m * b = a * m * b
  BY <1>6
<1>8. ~(n < U8) => (a * m * b = n * m * b <=> m = 0)
  BY <1>1, <1>5, <1>6, FewerAreShorter
<1>9. m = 0 /\ n < U8 => n * m * b = a * m * b
  BY <1>7
<1> DEFINE p == n * m * b
           q == a * m * b
<1>10. p \in Nat /\ q \in Nat
  <2> DEFINE x == n * m
             y == a * m
  <2>1. x \in Nat /\ y \in Nat
    BY <1>1, <1>5, <1>6
  <2> HIDE DEF x, y
  <2>2. x * b \in Nat /\ y * b \in Nat
    BY <1>5, <2>1
  <2> QED
    BY <2>2 DEF x, y
<1>11. entry.ip_total_len = 20 + 8 + 12 + entry.num_channels * entry.num_samples
                                            * SampleBytes(entry.codec)
       <=> p = q
  <2>1. entry.num_channels * entry.num_samples * SampleBytes(entry.codec) = q
    BY <1>3 DEF q
  <2>2. entry.ip_total_len = 20 + 8 + 12 + p
    BY <1>3, <1>4 DEF p
  <2> HIDE DEF p, q
  <2> QED
    BY <1>10, <2>1, <2>2
<1>12. p = q <=> n < U8 \/ m = 0
  BY <1>7, <1>8 DEF p, q
<1>13. n = e.stream.num_channels /\ entry = EntryOf(e)
  BY DEF n, s, entry
<1> HIDE DEF p, q
<1> QED
  BY <1>3, <1>4, <1>11, <1>12, <1>13

\* The packet length that the FPGA is given is that of the channels, samples and
\* codec beside it, after failed and rolled back updates too, for every stream
\* without samples or with channels that fit their byte, and for no other; and
\* it is never lost in the 16 bits of the register.
THEOREM PacketLengthAlways == Spec => []PacketLengthMatches
<1>1. IInv => PacketLengthMatches
  <2> SUFFICES ASSUME IInv, NEW i \in Live(streams)
               PROVE  /\ sttb[i].ip_total_len <= RA_MAX_ETHERNET_PACKET_SIZE
                      /\ sttb[i].ip_total_len
                           = 20 + 8 + 12 + sttb[i].num_channels * sttb[i].num_samples
                                             * SampleBytes(sttb[i].codec)
                         <=> \/ streams[i].stream.num_channels < U8
                             \/ sttb[i].num_samples = 0
    BY DEF PacketLengthMatches
  <2>1. streams[i] \in Elem /\ sttb[i] = EntryOf(streams[i])
    BY DEF IInv, TypeOK, StreamTableCurrent, Live, EntryOf
  <2> QED
    BY <2>1, EntryLength
<1> QED
  BY <1>1, Invariance, PTL

-----------------------------------------------------------------------------
(* What the FPGA carries can be read from the list of streams.             *)

\* The services of the streams in the xarray.
Wanted(strs) ==
  [i \in Index |-> IF strs[i] = NULL THEN NULL ELSE ServiceOf(strs[i].stream)]

\* Where the area of a stream is makes no difference to the rest of its entry.
LEMMA EntryElsewhere ==
  ASSUME NEW e \in Elem
  PROVE  /\ "VLD" \in EntryOf(e).misc_control
         /\ [EntryOf(e) EXCEPT !.trtp_base_addr = 0]
            = ra_stream_table_tx_set(e.stream, 0, ra_sd_tx_stream_ip_length(e.stream))
         /\ EntryOf(e).trtp_base_addr = e.trtb_index
         /\ EntryOf(e).num_channels = e.stream.num_channels % U8
<1> DEFINE s == e.stream
           len == ra_sd_tx_stream_ip_length(s)
           len16 == len % 65536
           ctl == {bit \in {"ACT", "PRI", "SEC"} :
                     \/ bit = "ACT" /\ s.active
                     \/ bit = "PRI" /\ s.use_primary
                     \/ bit = "SEC" /\ s.use_secondary}
           n == s.num_channels % U8
           c == ra_sd_codec_fpga_code(s.codec)
           Entry0(base) == [trtp_base_addr |-> base, num_channels |-> n,
                            num_samples |-> s.num_samples, codec |-> c,
                            ip_total_len |-> len16, misc_control |-> ctl \cup {"VLD"}]
<1> HIDE DEF len
<1>1. \A base : ra_stream_table_tx_fill(s, base, len) =
                  [trtp_base_addr |-> base, num_channels |-> n,
                   num_samples |-> s.num_samples, codec |-> c,
                   ip_total_len |-> len16, misc_control |-> ctl]
  BY DEF ra_stream_table_tx_fill
<1> HIDE DEF ctl, n, c, len16
<1>2. ASSUME NEW base
      PROVE  ra_stream_table_tx_set(s, base, len) = Entry0(base)
  <2> DEFINE r == [trtp_base_addr |-> base, num_channels |-> n,
                   num_samples |-> s.num_samples, codec |-> c,
                   ip_total_len |-> len16, misc_control |-> ctl]
  <2>1. ra_stream_table_tx_set(s, base, len)
        = [r EXCEPT !.misc_control = r.misc_control \cup {"VLD"}]
    <3>1. ra_stream_table_tx_fill(s, base, len) = r
      BY <1>1
    <3> HIDE DEF r
    <3> QED
      BY <3>1 DEF ra_stream_table_tx_set
  <2> QED
    BY <2>1
<1>3. \A base : [Entry0(base) EXCEPT !.trtp_base_addr = 0] = Entry0(0)
  OBVIOUS
<1>4. \A base : /\ "VLD" \in Entry0(base).misc_control
                /\ Entry0(base).trtp_base_addr = base
                /\ Entry0(base).num_channels = n
  OBVIOUS
<1> HIDE DEF Entry0
<1>5. /\ EntryOf(e) = Entry0(e.trtb_index)
      /\ ra_stream_table_tx_set(e.stream, 0, ra_sd_tx_stream_ip_length(e.stream)) = Entry0(0)
      /\ n = e.stream.num_channels % U8
  BY <1>2 DEF n, len, EntryOf
<1> QED
  BY <1>3, <1>4, <1>5

\* What the tables make the FPGA do is what the streams in the xarray ask for.
LEMMA FpgaCarries == IInv => [i \in Index |-> FpgaService(i)] = Wanted(streams)
<1> SUFFICES ASSUME IInv, NEW i \in Index
             PROVE  FpgaService(i) = IF streams[i] = NULL THEN NULL
                                     ELSE ServiceOf(streams[i].stream)
  BY DEF Wanted
<1>1. CASE streams[i] = NULL
  <2>1. sttb[i].misc_control = {}
    BY <1>1 DEF IInv, StreamTableCurrent, ra_stream_table_tx_del
  <2> QED
    BY <1>1, <2>1 DEF FpgaService
<1>2. CASE streams[i] # NULL
  <2> DEFINE e == streams[i]
             s == e.stream
             n == s.num_channels
             route(c) == IF s.tracks[c] >= 0 THEN s.tracks[c] ELSE RA_TRACK_TABLE_MUTE
  <2>1. e \in Elem /\ sttb[i] = EntryOf(e)
    BY <1>2 DEF IInv, TypeOK, StreamTableCurrent, EntryOf
  <2>2. n \in Nat /\ e.trtb_index \in Nat
    BY <2>1, ElemType
  <2>3. ASSUME NEW c \in 0 .. (n % U8) - 1
        PROVE  trtb[e.trtb_index + c] = route(c)
    <3>1. n % U8 \in Nat /\ n % U8 <= n /\ n % U8 < U8
      <4> HIDE DEF n
      <4> QED
        BY <2>2, ChannelByte, ConstantTypes
    <3>2. c \in 0 .. n - 1 /\ c < RA_MAX_CHANNELS
      <4> DEFINE m == n % U8
      <4> HIDE DEF m
      <4> QED
        BY <2>2, <2>3, <3>1, ConstantTypes DEF m
    <3>3. e.trtb_index + c \in AreaOf(e) /\ (e.trtb_index + c) - e.trtb_index = c
      BY <2>2, <3>2 DEF AreaOf, Area
    <3> QED
      BY <1>2, <3>2, <3>3 DEF IInv, TrackTableRoutes, Live
  <2>4. FpgaService(i) =
          [entry |-> ra_stream_table_tx_set(s, 0, ra_sd_tx_stream_ip_length(s)),
           tracks |-> [c \in 0 .. (n % U8) - 1 |-> trtb[e.trtb_index + c]]]
    <3> DEFINE entry == sttb[i]
    <3>1. /\ "VLD" \in entry.misc_control
          /\ [entry EXCEPT !.trtp_base_addr = 0] =
               ra_stream_table_tx_set(s, 0, ra_sd_tx_stream_ip_length(s))
          /\ entry.trtp_base_addr = e.trtb_index
          /\ entry.num_channels = n % U8
      BY <2>1, EntryElsewhere
    <3>2. FpgaService(i) =
            [entry |-> [entry EXCEPT !.trtp_base_addr = 0],
             tracks |-> [c \in 0 .. entry.num_channels - 1 |->
                           trtb[entry.trtp_base_addr + c]]]
      BY <3>1 DEF FpgaService
    <3> HIDE DEF entry, e, n
    <3> QED
      BY <3>1, <3>2
  <2>5. [c \in 0 .. (n % U8) - 1 |-> trtb[e.trtb_index + c]]
        = [c \in 0 .. (n % U8) - 1 |-> route(c)]
    BY <2>3
  <2> QED
    BY <1>2, <2>4, <2>5 DEF ServiceOf
<1> QED
  BY <1>1, <1>2

\* The mapped variables after a step, read from the xarray.
LEMMA MappedAfter ==
  ASSUME IInv'
  PROVE  [i \in Index |-> FpgaService(i)]' = Wanted(streams')
<1>1. (IInv => [i \in Index |-> FpgaService(i)] = Wanted(streams))'
  BY FpgaCarries, PTL
<1> QED
  BY <1>1 DEF Wanted

-----------------------------------------------------------------------------
(* Every system call is a step of StreamService.                           *)

\* The state after probe is an initial state of StreamService.
LEMMA InitImplements == Init => Client!Init
<1> SUFFICES ASSUME Init PROVE Client!Init
  OBVIOUS
<1>1. [i \in Index |-> FpgaService(i)] = Wanted(streams)
  BY InitIInv, FpgaCarries
<1>2. streams = [i \in Index |-> NULL] /\ files = {} /\ last = [filp |-> NULL, ret |-> 0]
  BY DEF Init
<1>3. Wanted(streams) = [i \in Index |-> NULL]
  BY <1>2 DEF Wanted
<1>4. last.filp = NULL /\ (last.ret >= 0) = TRUE
  BY <1>2
<1>5. [filp |-> last.filp, ok |-> last.ret >= 0] = [filp |-> NULL, ok |-> TRUE]
  BY <1>4
<1>6. [i \in Index |-> IF streams[i] = NULL THEN NULL ELSE streams[i].filp]
      = [i \in Index |-> NULL]
  BY <1>2
<1> QED
  BY <1>1, <1>2, <1>3, <1>5, <1>6 DEF Client!Init

\* A call that puts stream s under index k for client f, which had it or found
\* it free, is Carry.
LEMMA PutCarries ==
  ASSUME IInv, IInv', NEW f \in files, NEW k \in Index, NEW s \in Input,
         Acceptable(s), NEW start \in Entry, NEW table, Put(f, k, s, start, table),
         last'.filp = f, last'.ret >= 0, streams[k] # NULL => streams[k].filp = f,
         files' = files
  PROVE  Client!Carry(f, k, ServiceOf(s))
<1> DEFINE new == [filp |-> f, stream |-> s, trtb_index |-> start]
           C == [i \in Index |-> FpgaService(i)]
           O == [i \in Index |-> IF streams[i] = NULL THEN NULL ELSE streams[i].filp]
<1>1. streams \in [Index -> Elem \cup {NULL}]
  BY DEF IInv, TypeOK
<1>2. /\ streams'[k] = new
      /\ \A j \in Index \ {k} : streams'[j] = streams[j]
  BY <1>1 DEF Put
<1>3. new.filp = f /\ new.stream = s
  OBVIOUS
<1>4. new # NULL
  <2>1. f \in File /\ s \in Stream
    BY TxAssumption DEF IInv, TypeOK
  <2> QED
    BY <2>1, ElemNotNull DEF Elem
<1> HIDE DEF new
<1>5. C = Wanted(streams) /\ C' = Wanted(streams')
  BY FpgaCarries, MappedAfter
<1>6. C' = [C EXCEPT ![k] = ServiceOf(s)]
  <2>1. \A i \in Index : Wanted(streams')[i] =
          IF i = k THEN ServiceOf(s) ELSE Wanted(streams)[i]
    BY <1>2, <1>3, <1>4 DEF Wanted
  <2>2. Wanted(streams') = [i \in Index |-> Wanted(streams')[i]]
    BY DEF Wanted
  <2>3. Wanted(streams) = [i \in Index |-> Wanted(streams)[i]]
    BY DEF Wanted
  <2> HIDE DEF C
  <2> QED
    BY <1>5, <2>1, <2>2, <2>3
<1>7. O' = [O EXCEPT ![k] = f] /\ O[k] \in {NULL, f}
  <2>1. \A i \in Index : O'[i] = IF i = k THEN f ELSE O[i]
    BY <1>2, <1>3, <1>4
  <2>2. O' = [i \in Index |-> O'[i]] /\ O = [i \in Index |-> O[i]]
    OBVIOUS
  <2>3. O[k] \in {NULL, f}
    OBVIOUS
  <2> HIDE DEF O
  <2> QED
    BY <2>1, <2>2, <2>3
<1>8. [filp |-> last'.filp, ok |-> last'.ret >= 0] = [filp |-> f, ok |-> TRUE]
  <2>1. (last'.ret >= 0) = TRUE
    OBVIOUS
  <2> QED
    BY <2>1
<1> QED
  BY <1>6, <1>7, <1>8 DEF Client!Carry, Client!Answers

\* Freeing the streams of S drops their services; free slots among T hold none.
LEMMA FreeDrops ==
  ASSUME IInv, IInv', NEW S \in SUBSET Index, NEW T \in SUBSET Index,
         ra_sd_tx_free_stream(S), S \subseteq T,
         \A i \in T \ S : streams[i] = NULL
  PROVE  Client!Drop(T)
<1> DEFINE C == [i \in Index |-> FpgaService(i)]
           O == [i \in Index |-> IF streams[i] = NULL THEN NULL ELSE streams[i].filp]
<1>1. C = Wanted(streams) /\ C' = Wanted(streams')
  BY FpgaCarries, MappedAfter
<1>2. \A i \in Index : streams'[i] = IF i \in T THEN NULL ELSE streams[i]
  BY DEF ra_sd_tx_free_stream
<1>3. Wanted(streams') = [i \in Index |-> IF i \in T THEN NULL ELSE Wanted(streams)[i]]
  BY <1>2 DEF Wanted
<1>4. O' = [i \in Index |-> IF i \in T THEN NULL ELSE O[i]]
  BY <1>2
<1> HIDE DEF C
<1>5. C' = [i \in Index |-> IF i \in T THEN NULL ELSE C[i]]
  BY <1>1, <1>3
<1> QED
  BY <1>4, <1>5 DEF Client!Drop, C

\* What a step with a negative return value leaves as it was: everything, but
\* for the area of a stream whose update was rolled back.
LEMMA FailedStep ==
  ASSUME IInv, NEW f \in File, last'.ret < 0,
         \/ Open(f)
         \/ \E s \in Input : ra_sd_tx_add_stream_ioctl(f, s)
         \/ \E index \in CmdIndex, s \in Input : ra_sd_tx_update_stream_ioctl(f, index, s)
         \/ \E index \in CmdIndex : ra_sd_tx_delete_stream_ioctl(f, index)
         \/ ra_sd_tx_delete_streams(f)
  PROVE  /\ f \in files
         /\ last'.filp = f
         /\ files' = files
         /\ \A i \in Index :
              /\ streams'[i] = NULL <=> streams[i] = NULL
              /\ streams[i] # NULL =>
                   /\ streams'[i].filp = streams[i].filp
                   /\ streams'[i].stream = streams[i].stream
<1> DEFINE A == /\ f \in files
                /\ last'.filp = f
                /\ files' = files
                /\ \A i \in Index :
                     /\ streams'[i] = NULL <=> streams[i] = NULL
                     /\ streams[i] # NULL =>
                          /\ streams'[i].filp = streams[i].filp
                          /\ streams'[i].stream = streams[i].stream
<1>1. ASSUME NEW s \in Input, ra_sd_tx_add_stream_ioctl(f, s)
      PROVE  A
  <2>1. ~Add(f, s)
    BY ConstantTypes DEF Add, Returns, Index
  <2> QED
    BY <1>1, <2>1 DEF ra_sd_tx_add_stream_ioctl, AddRefused, BadCommand, Returns, txState
<1>2. ASSUME NEW k \in CmdIndex, NEW s \in Input, ra_sd_tx_update_stream_ioctl(f, k, s)
      PROVE  A
  <2>1. ~UpdateInPlace(f, k, s)
    BY DEF UpdateInPlace, Returns
  <2>2. ~UpdateMoved(f, k, s)
    <3>1. UpdateMoved(f, k, s) => \E start \in Entry : last'.ret = start
      BY DEF UpdateMoved, ra_track_table_alloc, ZeroAreas, Returns
    <3> QED
      BY <3>1, ConstantTypes DEF Entry
  <2>3. CASE UpdateRefused(f, k, s) \/ UpdateWarns(f, k, s)
    <3>1. files' = files /\ streams' = streams
      BY <2>3 DEF UpdateRefused, UpdateWarns, txState
    <3>2. last'.filp = f
      BY <2>3 DEF UpdateRefused, UpdateWarns, BadCommand, Returns
    <3>3. f \in files
      BY <1>2 DEF ra_sd_tx_update_stream_ioctl
    <3> QED
      BY <3>1, <3>2, <3>3
  <2>4. CASE UpdateRolledBack(f, k, s)
    <3> DEFINE e == streams[k]
    <3>1. MayAccess(f, k) /\ files' = files /\ last'.filp = f /\ f \in files
      BY <1>2, <2>4 DEF UpdateRolledBack, Returns, ra_sd_tx_update_stream_ioctl
    <3>2. k \in Index /\ e \in Elem /\ e # NULL
      BY <3>1, AcceptedFacts, ElemNotNull
    <3>3. PICK start \in Entry : streams' = [streams EXCEPT ![k] =
               [filp |-> e.filp, stream |-> e.stream, trtb_index |-> start]]
      BY <2>4 DEF UpdateRolledBack, Put, ra_track_table_alloc, ZeroAreas
    <3> DEFINE new == [filp |-> e.filp, stream |-> e.stream, trtb_index |-> start]
    <3>4. new # NULL /\ new.filp = e.filp /\ new.stream = e.stream
      BY <3>2, ElemNotNull DEF Elem
    <3>5. /\ streams'[k] = new
          /\ \A i \in Index : i # k => streams'[i] = streams[i]
      BY <3>2, <3>3 DEF IInv, TypeOK
    <3> HIDE DEF new
    <3> QED
      BY <3>1, <3>2, <3>4, <3>5
  <2> QED
    BY <1>2, <2>1, <2>2, <2>3, <2>4 DEF ra_sd_tx_update_stream_ioctl
<1>3. ASSUME NEW k \in CmdIndex, ra_sd_tx_delete_stream_ioctl(f, k)
      PROVE  A
  <2>1. ~Delete(f, k)
    BY DEF Delete, Returns
  <2> QED
    BY <1>3, <2>1 DEF ra_sd_tx_delete_stream_ioctl, DeleteRefused, BadCommand, Returns,
                      txState
<1>4. ~Open(f) /\ ~ra_sd_tx_delete_streams(f)
  BY DEF Open, ra_sd_tx_delete_streams, Returns
<1> QED
  BY <1>1, <1>2, <1>3, <1>4

\* A step that succeeds is the step of StreamService with its name.
LEMMA SuccessImplements ==
  ASSUME IInv, IInv', Next, last'.ret >= 0
  PROVE  Client!Next
<1>0. last'.ret \in Int
  BY DEF IInv, TypeOK
<1>1. PICK f \in File :
        \/ Open(f)
        \/ \E s \in Input : ra_sd_tx_add_stream_ioctl(f, s)
        \/ \E index \in CmdIndex, s \in Input :
             ra_sd_tx_update_stream_ioctl(f, index, s)
        \/ \E index \in CmdIndex : ra_sd_tx_delete_stream_ioctl(f, index)
        \/ ra_sd_tx_delete_streams(f)
  BY DEF Next
<1>2. last'.filp = f => [filp |-> last'.filp, ok |-> last'.ret >= 0]
                        = [filp |-> f, ok |-> TRUE]
  <2>1. (last'.ret >= 0) = TRUE
    OBVIOUS
  <2> QED
    BY <2>1
<1>3. CASE Open(f)
  <2>1. UNCHANGED <<streams, trtb, sttb>> /\ last'.filp = f
    BY <1>3 DEF Open, txState, Returns
  <2>2. Client!Open(f)
    BY <1>2, <1>3, <2>1 DEF Open, Client!Open, Client!Answers, FpgaService
  <2> QED
    BY <2>2 DEF Client!Next
<1>4. ASSUME NEW s \in Input, ra_sd_tx_add_stream_ioctl(f, s)
      PROVE  Client!Next
  <2>1. Add(f, s) /\ f \in files
    <3>1. ASSUME AddRefused(f, s)
          PROVE  FALSE
      <4>1. last'.ret \in {-EINVAL, -EFAULT, -ENOMEM, -EBUSY, -ENOSPC}
        BY <3>1 DEF AddRefused, BadCommand, Returns
      <4> QED
        BY <4>1, <1>0 DEF EINVAL, EFAULT, ENOMEM, EBUSY, ENOSPC
    <3> QED
      BY <1>4, <3>1 DEF ra_sd_tx_add_stream_ioctl
  <2>2. PICK k \in Index \ Live(streams), start \in Entry : Put(f, k, s, start, trtb)
    BY <2>1 DEF Add, ra_track_table_alloc, ZeroAreas
  <2>3. last'.filp = f /\ files' = files /\ Acceptable(s)
    BY <2>1 DEF Add, Returns
  <2>4. Client!Carry(f, k, ServiceOf(s))
    BY <2>1, <2>2, <2>3, PutCarries DEF Live
  <2> QED
    BY <2>3, <2>4 DEF Client!Next
<1>5. ASSUME NEW k \in CmdIndex, NEW s \in Input,
             ra_sd_tx_update_stream_ioctl(f, k, s)
      PROVE  Client!Next
  <2>1. (UpdateInPlace(f, k, s) \/ UpdateMoved(f, k, s)) /\ f \in files
    <3>1. ASSUME UpdateRefused(f, k, s) \/ UpdateRolledBack(f, k, s)
                 \/ UpdateWarns(f, k, s)
          PROVE  FALSE
      <4>1. last'.ret \in {-EINVAL, -EFAULT, -ENOENT, -EACCES, -ENOSPC}
        BY <3>1 DEF UpdateRefused, UpdateRolledBack, UpdateWarns, BadCommand, Returns
      <4> QED
        BY <4>1, <1>0 DEF EINVAL, EFAULT, ENOENT, EACCES, ENOSPC
    <3> QED
      BY <1>5, <3>1 DEF ra_sd_tx_update_stream_ioctl
  <2>2. MayAccess(f, k) /\ Acceptable(s) /\ last'.filp = f /\ files' = files
    BY <2>1 DEF UpdateInPlace, UpdateMoved, Returns
  <2>3. k \in Index /\ streams[k] # NULL /\ streams[k].filp = f
        /\ streams[k].trtb_index \in Entry
    BY <2>2, AcceptedFacts, ElemType, ElemNotNull
  <2>4. PICK start, table : start \in Entry /\ Put(f, k, s, start, table)
    BY <2>1, <2>3 DEF UpdateInPlace, UpdateMoved, ra_track_table_alloc, ZeroAreas
  <2>5. Client!Carry(f, k, ServiceOf(s))
    BY <2>1, <2>2, <2>3, <2>4, PutCarries
  <2> QED
    BY <2>2, <2>3, <2>5 DEF Client!Next
<1>6. ASSUME NEW k \in CmdIndex, ra_sd_tx_delete_stream_ioctl(f, k)
      PROVE  Client!Next
  <2>1. Delete(f, k) /\ f \in files
    BY <1>6 DEF ra_sd_tx_delete_stream_ioctl, DeleteRefused, BadCommand, Returns,
                EINVAL, EFAULT, ENOENT, EACCES
  <2>2. k \in Index /\ streams[k] # NULL /\ streams[k].filp = f
    BY <2>1 DEF Delete, MayAccess, ra_sd_tx_stream_elem_find_by_index
  <2>3. ra_sd_tx_free_stream({k}) /\ last'.filp = f /\ files' = files
    BY <2>1 DEF Delete, Returns
  <2>4. Client!Drop({k})
    BY <2>2, <2>3, FreeDrops DEF Client!Drop
  <2>5. Client!Delete(f, k)
    BY <1>2, <2>1, <2>2, <2>3, <2>4 DEF Client!Delete, Client!Answers
  <2> QED
    BY <2>2, <2>5 DEF Client!Next
<1>7. CASE ra_sd_tx_delete_streams(f)
  <2> DEFINE O == [i \in Index |-> IF streams[i] = NULL THEN NULL ELSE streams[i].filp]
             S == {i \in Live(streams) : streams[i].filp = f}
             T == {i \in Index : O[i] = f}
  <2>1. /\ f \in files /\ files' = files \ {f} /\ last'.filp = f
        /\ ra_sd_tx_free_stream(S)
    BY <1>7 DEF ra_sd_tx_delete_streams, Returns
  <2>2. /\ S \in SUBSET Index /\ T \in SUBSET Index /\ S \subseteq T
        /\ \A i \in T \ S : streams[i] = NULL
    BY DEF Live
  <2>3. Client!Drop(T)
    <3> HIDE DEF S, T
    <3> QED
      BY <2>1, <2>2, FreeDrops DEF Client!Drop
  <2>4. Client!Close(f)
    BY <1>2, <2>1, <2>3 DEF Client!Close, Client!Answers
  <2> QED
    BY <2>4 DEF Client!Next
<1> QED
  BY <1>1, <1>3, <1>4, <1>5, <1>6, <1>7

\* A step that fails is Refuse: what it moved or restored cannot be seen.
LEMMA FailureImplements ==
  ASSUME IInv, IInv', Next, last'.ret < 0
  PROVE  Client!Next
<1> DEFINE C == [i \in Index |-> FpgaService(i)]
           O == [i \in Index |-> IF streams[i] = NULL THEN NULL ELSE streams[i].filp]
<1>1. PICK f \in File :
        /\ f \in files
        /\ last'.filp = f
        /\ files' = files
        /\ \A i \in Index :
             /\ streams'[i] = NULL <=> streams[i] = NULL
             /\ streams[i] # NULL =>
                  /\ streams'[i].filp = streams[i].filp
                  /\ streams'[i].stream = streams[i].stream
  BY FailedStep DEF Next
<1>2. C = Wanted(streams) /\ C' = Wanted(streams')
  BY FpgaCarries, MappedAfter
<1>3. Wanted(streams') = Wanted(streams) /\ O' = O
  BY <1>1 DEF Wanted
<1>4. (last'.ret >= 0) = FALSE
  BY DEF IInv, TypeOK
<1> QED
  BY <1>1, <1>2, <1>3, <1>4 DEF Client!Next, Client!Refuse, Client!Answers

\* Every system call is a step of StreamService, or changes nothing there.
LEMMA StepImplements ==
  IInv /\ IInv' /\ [Next]_vars => [Client!Next]_(Client!vars)
<1> SUFFICES ASSUME IInv, IInv', [Next]_vars
             PROVE  [Client!Next]_(Client!vars)
  OBVIOUS
<1>1. CASE Next
  <2>1. last'.ret \in Int
    BY DEF IInv, TypeOK
  <2> QED
    BY <1>1, <2>1, SuccessImplements, FailureImplements
<1>2. CASE UNCHANGED vars
  BY <1>2 DEF vars, Client!vars, FpgaService
<1> QED
  BY <1>1, <1>2

\* For tables of any size, any number of clients and any inputs, the TX half of
\* the driver implements StreamService: the FPGA sends under each index what its
\* owner last asked for with success, and a call that fails, even one that moved
\* an area, cannot be seen.
THEOREM TxImplements == Spec => Implements
BY InitImplements, StepImplements, Invariance, PTL DEF Spec, Implements, Client!Spec
==============================================================================
