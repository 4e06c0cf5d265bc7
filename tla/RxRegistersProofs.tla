-------------------------- MODULE RxRegistersProofs --------------------------
(***************************************************************************)
(* RxRegisters, where the FPGA sees the calls of RxStreams one register    *)
(* write at a time.  RegIInv says what the writes that are still to be     *)
(* made will do to the tables in the FPGA.  A write takes the head of the  *)
(* queue and keeps it; an ioctl, or a turn of the loop in                  *)
(* ra_sd_rx_delete_streams, finds the queue empty and fills it.            *)
(***************************************************************************)
EXTENDS RxRegisters, RxStreamsProofs, SequenceTheorems

\* The provers to try, in this order: a leaf gets more attempts than by default,
\* since one attempt can run out of time on a slow machine.
USE SMTT(10), ZenonT(20), Z3T(20), SMTT(30), Z3T(40), SMTT(60), ZenonT(40)

\* An entry of the stream table after one word of it was written.
Over(e, v, at) == [field \in DOMAIN e |-> IF field \in at THEN v[field] ELSE e[field]]

\* The words of an entry, and the fields in them.
LEMMA WordFields ==
  /\ Words[1] = {"primary", "secondary"}
  /\ Words[2] = {"num_channels", "misc_control"}
  /\ Words[3] = {"trtp_base_addr"}
  /\ Len(Words) = 3
BY DEF Words

\* The fields of an entry are all there is to it.
LEMMA SttbFields ==
  ASSUME NEW e \in SttbEntry
  PROVE  /\ e = [primary |-> e.primary, secondary |-> e.secondary,
                 num_channels |-> e.num_channels, trtp_base_addr |-> e.trtp_base_addr,
                 misc_control |-> e.misc_control]
         /\ e.primary \in Interface /\ e.secondary \in Interface
         /\ e.num_channels \in 0 .. 255 /\ e.trtp_base_addr \in Nat
         /\ e.misc_control \in SUBSET {"VLD", "ACT", "EXEC_HASH"}
BY DEF SttbEntry

\* Writing a word replaces its fields and leaves the others alone.
LEMMA WordWritten ==
  ASSUME NEW e \in SttbEntry, NEW v \in SttbEntry, NEW at \in {Words[1], Words[2], Words[3]}
  PROVE  LET after == Over(e, v, at)
             one == IF at = Words[1] THEN v ELSE e
             two == IF at = Words[2] THEN v ELSE e
             three == IF at = Words[3] THEN v ELSE e
         IN /\ after \in SttbEntry
            /\ after.primary = one.primary /\ after.secondary = one.secondary
            /\ after.num_channels = two.num_channels
            /\ after.misc_control = two.misc_control
            /\ after.trtp_base_addr = three.trtp_base_addr
<1>1. DOMAIN e = {"primary", "secondary", "num_channels", "trtp_base_addr", "misc_control"}
  BY DEF SttbEntry
<1>2. /\ Words[1] # Words[2] /\ Words[2] # Words[3] /\ Words[1] # Words[3]
  BY WordFields
<1> DEFINE one == IF at = Words[1] THEN v ELSE e
           two == IF at = Words[2] THEN v ELSE e
           three == IF at = Words[3] THEN v ELSE e
<1>3. Over(e, v, at) = [primary |-> one.primary, secondary |-> one.secondary,
                        num_channels |-> two.num_channels,
                        trtp_base_addr |-> three.trtp_base_addr,
                        misc_control |-> two.misc_control]
  BY <1>1, <1>2, WordFields DEF Over
<1>4. one \in SttbEntry /\ two \in SttbEntry /\ three \in SttbEntry
  OBVIOUS
<1> HIDE DEF one, two, three
<1>5. /\ one.primary \in Interface /\ one.secondary \in Interface
      /\ two.num_channels \in 0 .. 255 /\ three.trtp_base_addr \in Nat
      /\ two.misc_control \in SUBSET {"VLD", "ACT", "EXEC_HASH"}
  BY <1>4, SttbFields
<1>6. Over(e, v, at) \in SttbEntry
  BY <1>3, <1>5 DEF SttbEntry
<1> QED
  BY <1>3, <1>6 DEF one, two, three

\* What the nine writes of ra_stream_table_rx_set do: the p-th of them is to word
\* p % 3 of the entry and belongs to the pass that clears, fills or activates it.
WordAt(p) == IF p \in {1, 4, 7} THEN Words[1] ELSE IF p \in {2, 5, 8} THEN Words[2] ELSE Words[3]

ValueAt(p, fill, new) == IF p <= 3 THEN Zero ELSE IF p <= 6 THEN fill ELSE new

\* The entry can serve a different area only when it has become the new one.
ServesSame(now, after, new) ==
  \/ ~Valid(after)
  \/ /\ Valid(now) /\ after.num_channels = now.num_channels
     /\ after.trtp_base_addr = now.trtp_base_addr
  \/ /\ after.num_channels = new.num_channels
     /\ after.trtp_base_addr = new.trtp_base_addr

\* One of the writes of ra_stream_table_rx_set.
LEMMA RewriteStep ==
  ASSUME NEW now \in SttbEntry, NEW new \in SttbEntry, NEW fill \in SttbEntry,
         fill.primary = new.primary, fill.secondary = new.secondary,
         fill.num_channels = new.num_channels, fill.trtp_base_addr = new.trtp_base_addr,
         ~Valid(fill), NEW p \in 1 .. 9, Rewritten(now, new, 10 - p)
  PROVE  LET after == Over(now, ValueAt(p, fill, new), WordAt(p))
         IN /\ Rewritten(after, new, 9 - p)
            /\ ServesSame(now, after, new)
            /\ p < 8 => ServesSame(now, after, now)
            /\ ~Valid(now) /\ Valid(after) => p = 8 /\ after = new
<1>1. Zero \in SttbEntry /\ ~Valid(Zero)
  BY DEF Zero, SttbEntry, Interface, NoInterface, Valid
<1> DEFINE v == ValueAt(p, fill, new)
           after == Over(now, v, WordAt(p))
<1>2. v \in SttbEntry /\ WordAt(p) \in {Words[1], Words[2], Words[3]}
  BY <1>1 DEF ValueAt, WordAt
<1>3. /\ Words[1] # Words[2] /\ Words[2] # Words[3] /\ Words[1] # Words[3]
  BY WordFields
<1>4. /\ p \in {1, 4, 7} => /\ after.primary = v.primary /\ after.secondary = v.secondary
                            /\ after.num_channels = now.num_channels
                            /\ after.misc_control = now.misc_control
                            /\ after.trtp_base_addr = now.trtp_base_addr
      /\ p \in {2, 5, 8} => /\ after.primary = now.primary /\ after.secondary = now.secondary
                            /\ after.num_channels = v.num_channels
                            /\ after.misc_control = v.misc_control
                            /\ after.trtp_base_addr = now.trtp_base_addr
      /\ p \in {3, 6, 9} => /\ after.primary = now.primary /\ after.secondary = now.secondary
                            /\ after.num_channels = now.num_channels
                            /\ after.misc_control = now.misc_control
                            /\ after.trtp_base_addr = v.trtp_base_addr
      /\ after \in SttbEntry
  BY <1>2, <1>3, WordWritten DEF WordAt
<1>5. /\ p <= 3 => v = Zero
      /\ p \in 4 .. 6 => v = fill
      /\ p >= 7 => v = new
  BY DEF ValueAt
<1> SUFFICES /\ Rewritten(after, new, 9 - p)
             /\ ServesSame(now, after, new)
             /\ p < 8 => ServesSame(now, after, now)
             /\ ~Valid(now) /\ Valid(after) => p = 8 /\ after = new
  OBVIOUS
<1> HIDE DEF v, after
<1>6. CASE p \in {1, 2, 3}
  BY <1>1, <1>4, <1>5, <1>6 DEF Rewritten, ServesSame, Valid
<1>7. CASE p \in {4, 5, 6}
  BY <1>4, <1>5, <1>7 DEF Rewritten, ServesSame, Valid
<1>8. CASE p = 7
  BY <1>4, <1>5, <1>8 DEF Rewritten, ServesSame, Valid
<1>9. CASE p = 8
  BY <1>4, <1>5, <1>9, SttbFields DEF Rewritten, ServesSame, Valid
<1>10. CASE p = 9
  BY <1>4, <1>5, <1>10 DEF Rewritten, ServesSame, Valid
<1>11. p \in {1, 2, 3, 4, 5, 6, 7, 8, 9}
  OBVIOUS
<1> QED
  BY <1>6, <1>7, <1>8, <1>9, <1>10, <1>11

\* One of the three writes of ra_stream_table_rx_del.
LEMMA DeleteStep ==
  ASSUME NEW now \in SttbEntry, NEW new \in SttbEntry, ~Valid(new),
         NEW p \in 1 .. 3, Deleted(now, new, 4 - p)
  PROVE  LET after == Over(now, new, Words[p])
         IN /\ Deleted(after, new, 3 - p)
            /\ ServesSame(now, after, now)
            /\ Valid(after) => Valid(now)
<1> DEFINE after == Over(now, new, Words[p])
<1>1. p \in {1, 2, 3}
  OBVIOUS
<1>2. /\ Words[1] # Words[2] /\ Words[2] # Words[3] /\ Words[1] # Words[3]
  BY WordFields
<1>3. /\ after.primary = new.primary /\ after.secondary = new.secondary
      /\ after.num_channels = new.num_channels
      /\ after.misc_control = IF p = 2 THEN new.misc_control ELSE now.misc_control
      /\ after.trtp_base_addr = new.trtp_base_addr
  BY <1>1, <1>2, WordWritten DEF Deleted
<1> HIDE DEF after
<1>4. Deleted(after, new, 3 - p)
  BY <1>1, <1>3 DEF Deleted
<1>5. ServesSame(now, after, now) /\ (Valid(after) => Valid(now))
  BY <1>1, <1>3 DEF Deleted, ServesSame, Valid
<1> QED
  BY <1>4, <1>5 DEF after

-----------------------------------------------------------------------------
(* The sequences of writes.                                                *)

\* A write of a word of the stream table, and one to the track table.
SttbWrite(i, at, v) == [table |-> "sttb", index |-> i, at |-> at, value |-> v]

\* One pass over an entry is three writes.
LEMMA StreamWrite ==
  ASSUME NEW i, NEW v
  PROVE  /\ Len(stream_write(i, v, Words)) = 3
         /\ \A p \in 1 .. 3 : stream_write(i, v, Words)[p] = SttbWrite(i, Words[p], v)
         /\ i \in Index /\ v \in SttbEntry => stream_write(i, v, Words) \in Seq(RegWrite)
<1> DEFINE s == stream_write(i, v, Words)
<1>1. s = [p \in 1 .. 3 |-> SttbWrite(i, Words[p], v)]
  BY WordFields DEF stream_write, SttbWrite
<1>2. ASSUME i \in Index, v \in SttbEntry
      PROVE  s \in Seq(RegWrite)
  <2>1. ASSUME NEW p \in 1 .. 3
        PROVE  SttbWrite(i, Words[p], v) \in RegWrite
    <3>1. p \in {1, 2, 3}
      OBVIOUS
    <3> QED
      BY <1>2, <3>1 DEF SttbWrite, RegWrite
  <2>2. s \in [1 .. 3 -> RegWrite]
    BY <1>1, <2>1
  <2> HIDE DEF s
  <2> QED
    BY <2>2, SeqDef
<1> HIDE DEF s
<1>3. Len(s) = 3
  BY <1>1
<1>4. \A p \in 1 .. 3 : s[p] = SttbWrite(i, Words[p], v)
  BY <1>1
<1> QED
  BY <1>2, <1>3, <1>4 DEF s

\* The entry of a validated stream before it is activated.
LEMMA FillFacts ==
  ASSUME NEW e \in Elem
  PROVE  LET fill == ra_stream_table_rx_fill(e.stream, e.trtb_index)
             new == ra_stream_table_rx_set(e.stream, e.trtb_index)
         IN /\ fill \in SttbEntry /\ new \in SttbEntry
            /\ fill.primary = new.primary /\ fill.secondary = new.secondary
            /\ fill.num_channels = new.num_channels
            /\ fill.trtp_base_addr = new.trtp_base_addr
            /\ new.num_channels = e.stream.num_channels % 256
            /\ new.trtp_base_addr = e.trtb_index
            /\ ~Valid(fill) /\ Valid(new)
<1> DEFINE s == e.stream
           pri == IF s.primary.destination_ip = 0 THEN s.secondary ELSE s.primary
           sec == IF s.secondary.destination_ip = 0 THEN pri ELSE s.secondary
           n == s.num_channels % 256
           mc == IF s.active THEN {"ACT"} ELSE {}
           start == e.trtb_index
<1>1. n \in 0 .. 255 /\ start \in Nat
  <2>1. s.num_channels \in Nat /\ start \in Nat
    BY ElemType
  <2> QED
    BY <2>1
<1>2. pri \in Interface /\ sec \in Interface
  BY ElemType DEF Stream
<1>3. ra_stream_table_rx_fill(s, start) =
        [primary |-> pri, secondary |-> sec, num_channels |-> n,
         trtp_base_addr |-> start, misc_control |-> mc]
  BY DEF ra_stream_table_rx_fill
<1>4. mc \subseteq {"ACT"}
  OBVIOUS
<1>5. n = e.stream.num_channels % 256 /\ start = e.trtb_index
  OBVIOUS
<1>6. ra_stream_table_rx_set(s, start) \in SttbEntry /\ Valid(ra_stream_table_rx_set(s, start))
  BY ElemType, FillType DEF Valid
<1> HIDE DEF pri, sec, n, mc, start
<1>7. ra_stream_table_rx_set(s, start) =
        [primary |-> pri, secondary |-> sec, num_channels |-> n,
         trtp_base_addr |-> start, misc_control |-> mc \cup {"VLD", "EXEC_HASH"}]
  BY <1>3 DEF ra_stream_table_rx_set
<1>8. ra_stream_table_rx_fill(s, start) \in SttbEntry
  BY <1>1, <1>2, <1>3, <1>4 DEF SttbEntry
<1>9. ~Valid(ra_stream_table_rx_fill(s, start))
  BY <1>3, <1>4 DEF Valid
<1> QED
  BY <1>3, <1>5, <1>6, <1>7, <1>8, <1>9

\* The area of the entry of a stream is inside the area of the stream: the two
\* are the same but for 256 channels, which the entry cannot express.
LEMMA EntryArea ==
  ASSUME NEW e \in Elem
  PROVE  LET new == ra_stream_table_rx_set(e.stream, e.trtb_index)
         IN Area(new.trtp_base_addr, new.num_channels) \subseteq AreaOf(e)
<1>1. e.stream.num_channels \in Nat /\ e.trtb_index \in Nat
  BY ElemType
<1>2. e.stream.num_channels % 256 <= e.stream.num_channels
      /\ e.stream.num_channels % 256 \in Nat
  BY <1>1
<1> QED
  BY <1>1, <1>2, FillFacts DEF AreaOf, Area

\* ra_stream_table_rx_set is nine writes in three passes.
LEMMA SetWrites ==
  ASSUME NEW i \in Index, NEW e \in Elem
  PROVE  LET s == ra_stream_table_rx_set_writes(i, e)
             fill == ra_stream_table_rx_fill(e.stream, e.trtb_index)
             new == ra_stream_table_rx_set(e.stream, e.trtb_index)
         IN /\ s \in Seq(RegWrite)
            /\ Len(s) = 9
            /\ \A p \in 1 .. 9 : s[p] = SttbWrite(i, WordAt(p), ValueAt(p, fill, new))
<1> DEFINE fill == ra_stream_table_rx_fill(e.stream, e.trtb_index)
           new == ra_stream_table_rx_set(e.stream, e.trtb_index)
           a == stream_write(i, Zero, Words)
           b == stream_write(i, fill, Words)
           c == stream_write(i, new, Words)
<1>1. Zero \in SttbEntry
  BY DEF Zero, SttbEntry, Interface, NoInterface
<1>2. fill \in SttbEntry /\ new \in SttbEntry
  BY FillFacts
<1>3. a \in Seq(RegWrite) /\ b \in Seq(RegWrite) /\ c \in Seq(RegWrite)
  BY <1>1, <1>2, StreamWrite
<1>4. Len(a) = 3 /\ Len(b) = 3 /\ Len(c) = 3
  BY StreamWrite
<1>5. \A p \in 1 .. 3 : /\ a[p] = SttbWrite(i, Words[p], Zero)
                        /\ b[p] = SttbWrite(i, Words[p], fill)
                        /\ c[p] = SttbWrite(i, Words[p], new)
  BY StreamWrite
<1>6. ra_stream_table_rx_set_writes(i, e) = (a \o b) \o c
  BY DEF ra_stream_table_rx_set_writes
<1> HIDE DEF fill, new, a, b, c
<1> DEFINE ab == a \o b
           abc == ab \o c
<1>7. /\ ab \in Seq(RegWrite) /\ Len(ab) = Len(a) + Len(b)
      /\ \A p \in 1 .. Len(a) + Len(b) : ab[p] = IF p <= Len(a) THEN a[p] ELSE b[p - Len(a)]
  BY <1>3, ConcatProperties
<1> HIDE DEF ab
<1>12. ab \in Seq(RegWrite) /\ c \in Seq(RegWrite)
  BY <1>3, <1>7
<1>8. /\ abc \in Seq(RegWrite) /\ Len(abc) = Len(ab) + Len(c)
      /\ \A p \in 1 .. Len(ab) + Len(c) : abc[p] = IF p <= Len(ab) THEN ab[p] ELSE c[p - Len(ab)]
  BY <1>12, ConcatProperties
<1> HIDE DEF abc
<1>9. Len(ab) = 6 /\ Len(abc) = 9
  BY <1>4, <1>7, <1>8
<1>10. ASSUME NEW p \in 1 .. 9
       PROVE  abc[p] = SttbWrite(i, WordAt(p), ValueAt(p, fill, new))
  <2>0. abc[p] = IF p <= 6 THEN IF p <= 3 THEN a[p] ELSE b[p - 3] ELSE c[p - 6]
    <3>1. abc[p] = IF p <= 6 THEN ab[p] ELSE c[p - 6]
      BY <1>4, <1>8, <1>9
    <3>2. p <= 6 => ab[p] = IF p <= 3 THEN a[p] ELSE b[p - 3]
      BY <1>4, <1>7
    <3> QED
      BY <3>1, <3>2
  <2>1. CASE p \in {1, 2, 3}
    <3>1. abc[p] = SttbWrite(i, Words[p], Zero)
      BY <2>0, <2>1, <1>5
    <3> QED
      BY <2>1, <3>1 DEF WordAt, ValueAt
  <2>2. CASE p \in {4, 5, 6}
    <3>1. abc[p] = SttbWrite(i, Words[p - 3], fill)
      BY <2>0, <2>2, <1>5
    <3> QED
      BY <2>2, <3>1 DEF WordAt, ValueAt
  <2>3. CASE p \in {7, 8, 9}
    <3>1. abc[p] = SttbWrite(i, Words[p - 6], new)
      BY <2>0, <2>3, <1>5
    <3> QED
      BY <2>3, <3>1 DEF WordAt, ValueAt
  <2>4. p \in {1, 2, 3, 4, 5, 6, 7, 8, 9}
    OBVIOUS
  <2> QED
    BY <2>1, <2>2, <2>3, <2>4
<1>11. ra_stream_table_rx_set_writes(i, e) = abc
  BY <1>6 DEF ab, abc
<1> QED
  BY <1>8, <1>9, <1>10, <1>11 DEF fill, new

\* What the holder of the mutex writes last, in terms of the tables.
LEMMA LastWritesFacts ==
  ASSUME IInv, NEW i \in Index
  PROVE  LET s == LastWrites(i) IN
         /\ s \in Seq(RegWrite)
         /\ streams[i] = NULL =>
              /\ Len(s) = 3
              /\ \A p \in 1 .. 3 : s[p] = SttbWrite(i, Words[p], sttb[i])
         /\ streams[i] # NULL =>
              /\ Len(s) = 9
              /\ \A p \in 1 .. 9 : s[p] = SttbWrite(i, WordAt(p),
                   ValueAt(p, ra_stream_table_rx_fill(streams[i].stream, streams[i].trtb_index),
                              sttb[i]))
<1>1. sttb[i] \in SttbEntry
  BY DEF IInv, TypeOK
<1>2. CASE streams[i] = NULL
  BY <1>1, <1>2, StreamWrite DEF LastWrites
<1>3. CASE streams[i] # NULL
  <2>1. streams[i] \in Elem
    BY <1>3 DEF IInv, TypeOK
  <2>2. sttb[i] = ra_stream_table_rx_set(streams[i].stream, streams[i].trtb_index)
    BY <1>3 DEF IInv, StreamTableCurrent
  <2>3. LastWrites(i) = ra_stream_table_rx_set_writes(i, streams[i])
    BY <1>3 DEF LastWrites
  <2> QED
    BY <1>3, <2>1, <2>2, <2>3, SetWrites
<1> QED
  BY <1>2, <1>3

\* A live stream's entries of the track table are right when no write to the
\* table is left: then the FPGA routes its tracks and no others.
LEMMA LiveAreaWritten ==
  ASSUME RegIInv, NEW i \in Live(streams), \A k \in DOMAIN pending : ~ToTrtb(k)
  PROVE  /\ \A x \in AreaOf(streams[i]) : x \in Entry /\ fpga_trtb[x] = trtb[x]
         /\ \A x \in AreaOf(streams[i]) :
              fpga_trtb[x] # RA_TRACK_TABLE_MUTE
                => fpga_trtb[x] \in ActiveTracks(streams[i].stream)
<1>1. streams[i] \in Elem /\ AreaOf(streams[i]) \subseteq used_entries
  BY DEF RegIInv, IInv, TypeOK, EntriesAccounted, Live
<1>2. ASSUME NEW x \in AreaOf(streams[i])
      PROVE  x \in Entry /\ fpga_trtb[x] = trtb[x]
  <2>1. x \in Entry /\ x \in used_entries
    BY <1>1 DEF RegIInv, IInv, TypeOK
  <2>2. \A j \in Live(closing) : x \notin AreaOf(closing[j])
    BY <2>1 DEF RegIInv, ClosingUntouched
  <2> QED
    BY <2>1, <2>2 DEF RegIInv, TrackTableFollows
<1>3. ASSUME NEW x \in AreaOf(streams[i]), trtb[x] # RA_TRACK_TABLE_MUTE
      PROVE  trtb[x] \in ActiveTracks(streams[i].stream)
  <2> DEFINE c == x - streams[i].trtb_index
  <2>1. c \in 0 .. streams[i].stream.num_channels - 1
    BY <1>1, AreaChannels
  <2>2. trtb[x] = IF streams[i].stream.tracks[c] >= 0 THEN streams[i].stream.tracks[c]
                                                      ELSE RA_TRACK_TABLE_MUTE
    BY DEF RegIInv, IInv, TrackTableRoutes
  <2> HIDE DEF c
  <2> QED
    BY <1>3, <2>1, <2>2 DEF ActiveTracks, ActiveChannels
<1> QED
  BY <1>2, <1>3

-----------------------------------------------------------------------------
(* One register write.                                                     *)

\* The writes that are left after one, and where the one belongs.
LEMMA WriteShift ==
  ASSUME RegIInv, Write
  PROVE  /\ pending[1] \in RegWrite /\ Head(pending) = pending[1]
         /\ Len(pending) \in Nat \ {0} /\ DOMAIN pending = 1 .. Len(pending)
         /\ pending' \in Seq(RegWrite)
         /\ Len(pending') = Len(pending) - 1
         /\ DOMAIN pending' = 1 .. Len(pending) - 1
         /\ \A k \in DOMAIN pending' : k + 1 \in DOMAIN pending /\ pending'[k] = pending[k + 1]
         /\ \A k \in DOMAIN pending : pending[k].index = pending[1].index
         /\ Busy = {pending[1].index}
         /\ Busy' \subseteq Busy
         /\ Len(pending) > 1 => Busy' = Busy
         /\ Len(pending) = 1 => Busy' = {}
<1>1. pending \in Seq(RegWrite) /\ pending # <<>> /\ pending' = Tail(pending)
  BY DEF RegIInv, RegTypeOK, Write
<1>2. Len(pending) \in Nat \ {0} /\ DOMAIN pending = 1 .. Len(pending)
  BY <1>1, EmptySeq, LenProperties
<1>3. 1 \in DOMAIN pending /\ pending[1] \in RegWrite
  BY <1>1, <1>2, ElementOfSeq
<1>4. Head(pending) = pending[1]
  BY <1>1
<1>5. /\ pending' \in Seq(RegWrite) /\ Len(pending') = Len(pending) - 1
      /\ \A k \in 1 .. Len(pending') : pending'[k] = pending[k + 1]
  BY <1>1, HeadTailProperties
<1>6. DOMAIN pending' = 1 .. Len(pending) - 1
  BY <1>5, LenProperties
<1>7. \A k \in DOMAIN pending' : k + 1 \in DOMAIN pending /\ pending'[k] = pending[k + 1]
  BY <1>2, <1>5, <1>6
<1>8. \A k \in DOMAIN pending : pending[k].index = pending[1].index
  BY <1>3 DEF RegIInv, OneStream
<1>9. Busy = {pending[1].index}
  BY <1>3, <1>8 DEF Busy
<1>10. \A k \in DOMAIN pending' : pending'[k].index = pending[1].index
  BY <1>7, <1>8
<1>11. Busy' \subseteq Busy
  BY <1>9, <1>10 DEF Busy
<1>12. Len(pending) > 1 => Busy' = Busy
  <2>1. Len(pending) > 1 => 1 \in DOMAIN pending'
    BY <1>2, <1>6
  <2> QED
    BY <2>1, <1>9, <1>10 DEF Busy
<1>13. Len(pending) = 1 => Busy' = {}
  BY <1>2, <1>6 DEF Busy
<1> QED
  BY <1>2, <1>3, <1>4, <1>5, <1>6, <1>7, <1>8, <1>9, <1>11, <1>12, <1>13

\* The writes that are left are in order.
LEMMA WriteOrder ==
  ASSUME RegIInv, Write
  PROVE  OneStream' /\ WritesInOrder'
<1>1. OneStream'
  BY WriteShift DEF OneStream
<1>2. \A i : LastWrites(i)' = LastWrites(i)
  BY DEF Write, vars, LastWrites, ra_stream_table_rx_set_writes
<1>3. ASSUME NEW k \in DOMAIN pending'
      PROVE  LET i == pending'[k].index
                 n == Len(pending') - Len(LastWrites(i))
             IN IF k <= n THEN pending'[k].table = "trtb" ELSE pending'[k] = LastWrites(i)[k - n]
  <2> DEFINE i == pending[1].index
             m == Len(LastWrites(i))
             n == Len(pending) - m
  <2>1. i \in Index
    BY WriteShift DEF RegWrite
  <2>2. m \in Nat
    BY <2>1, LastWritesFacts DEF RegIInv
  <2>3. /\ k + 1 \in DOMAIN pending /\ pending'[k] = pending[k + 1]
        /\ pending'[k].index = i /\ pending[k + 1].index = i
    BY <1>3, WriteShift
  <2>5. k \in Nat /\ Len(pending) \in Nat /\ Len(pending') = Len(pending) - 1
    <3>1. /\ DOMAIN pending' = 1 .. Len(pending) - 1 /\ Len(pending) \in Nat
          /\ Len(pending') = Len(pending) - 1
      BY WriteShift
    <3> QED
      BY <1>3, <3>1
  <2>4. IF k + 1 <= n THEN pending[k + 1].table = "trtb"
                      ELSE pending[k + 1] = LastWrites(i)[k + 1 - n]
    <3> HIDE DEF i
    <3>1. \A q \in DOMAIN pending : pending[q].index = i =>
            IF q <= Len(pending) - Len(LastWrites(i)) THEN pending[q].table = "trtb"
            ELSE pending[q] = LastWrites(i)[q - (Len(pending) - Len(LastWrites(i)))]
      BY DEF RegIInv, WritesInOrder, ToTrtb
    <3>2. k + 1 \in DOMAIN pending /\ pending[k + 1].index = i
      BY <2>3
    <3> QED
      BY <2>2, <2>5, <3>1, <3>2
  <2>6. /\ k + 1 <= n <=> k <= Len(pending') - m
        /\ k + 1 - n = k - (Len(pending') - m)
    BY <2>2, <2>5
  <2> HIDE DEF m, n, i
  <2>7. IF k <= Len(pending') - m THEN pending'[k].table = "trtb"
                                  ELSE pending'[k] = LastWrites(i)[k - (Len(pending') - m)]
    BY <2>3, <2>4, <2>6
  <2> QED
    BY <2>3, <2>7 DEF m
<1> QED
  BY <1>1, <1>2, <1>3 DEF WritesInOrder, ToTrtb

\* Where the head of the queue belongs: it goes to the track table while more
\* writes are left than LastWrites has, and is one of those otherwise.
LEMMA HeadWrite ==
  ASSUME RegIInv, Write
  PROVE  LET w == pending[1]
             i == w.index
             l == Len(pending)
             m == Len(LastWrites(i))
         IN /\ i \in Index
            /\ l > m => /\ w.table = "trtb" /\ w.at \in Entry /\ w.value \in Track
            /\ l <= m => /\ w = LastWrites(i)[m - l + 1]
                         /\ w.table = "sttb"
                         /\ \A k \in DOMAIN pending : ~ToTrtb(k)
<1> DEFINE w == pending[1]
           i == w.index
           l == Len(pending)
           m == Len(LastWrites(i))
<1>1. w \in RegWrite /\ l \in Nat \ {0} /\ DOMAIN pending = 1 .. l
  BY WriteShift
<1>2. i \in Index
  BY <1>1 DEF RegWrite
<1>3. m \in Nat
  BY <1>2, LastWritesFacts DEF RegIInv
<1>4. \A k \in DOMAIN pending : pending[k].index = i
  BY WriteShift
<1> HIDE DEF i, l
<1>5. ASSUME NEW k \in DOMAIN pending
      PROVE  IF k <= l - m THEN ToTrtb(k) ELSE pending[k] = LastWrites(i)[k - (l - m)]
  <2>1. pending[k].index = i
    BY <1>4
  <2> QED
    BY <2>1 DEF RegIInv, WritesInOrder, l
<1> HIDE DEF m
<1>6. \A k \in DOMAIN pending : k \in Nat /\ 1 <= k /\ k <= l
  BY <1>1
<1>7. 1 \in DOMAIN pending
  BY <1>1
<1>8. ASSUME l > m PROVE w.table = "trtb" /\ w.at \in Entry /\ w.value \in Track
  <2>1. w.table = "trtb"
    BY <1>1, <1>3, <1>5, <1>7, <1>8 DEF ToTrtb
  <2> QED
    BY <2>1, <1>1 DEF RegWrite
<1>9. ASSUME l <= m
      PROVE  /\ w = LastWrites(i)[m - l + 1]
             /\ \A k \in DOMAIN pending : ~ToTrtb(k)
  <2>1. ASSUME NEW k \in DOMAIN pending
        PROVE  /\ pending[k] = LastWrites(i)[k - (l - m)]
               /\ k - (l - m) \in 1 .. m
    BY <1>1, <1>3, <1>5, <1>6, <1>9
  <2>2. \A p \in 1 .. m : LastWrites(i)[p].table = "sttb"
    <3>1. CASE streams[i] = NULL
      <4>1. m = 3
        BY <1>2, <3>1, LastWritesFacts DEF RegIInv, m
      <4>2. \A p \in 1 .. 3 : \E at, v : LastWrites(i)[p] = SttbWrite(i, at, v)
        BY <1>2, <3>1, LastWritesFacts DEF RegIInv
      <4>3. \A at, v : SttbWrite(i, at, v).table = "sttb"
        BY DEF SttbWrite
      <4> QED
        BY <4>1, <4>2, <4>3
    <3>2. CASE streams[i] # NULL
      <4>1. m = 9
        BY <1>2, <3>2, LastWritesFacts DEF RegIInv, m
      <4>2. \A p \in 1 .. 9 : \E at, v : LastWrites(i)[p] = SttbWrite(i, at, v)
        BY <1>2, <3>2, LastWritesFacts DEF RegIInv
      <4>3. \A at, v : SttbWrite(i, at, v).table = "sttb"
        BY DEF SttbWrite
      <4> QED
        BY <4>1, <4>2, <4>3
    <3> QED
      BY <3>1, <3>2
  <2>3. 1 - (l - m) = m - l + 1
    BY <1>1, <1>3
  <2> QED
    BY <1>7, <2>1, <2>2, <2>3 DEF ToTrtb
<1>10. l <= m => w.table = "sttb"
  <2>1. w.table = "trtb" \/ w.table = "sttb"
    BY <1>1 DEF RegWrite
  <2> QED
    BY <1>7, <1>9, <2>1 DEF ToTrtb
<1> QED
  BY <1>2, <1>8, <1>9, <1>10 DEF i, l, m

\* A write to the track table changes what the FPGA serves for the stream it is
\* made for only, and adds at most its value to that.
LEMMA TrtbWriteServes ==
  ASSUME RegIInv, Write, pending[1].table = "trtb"
  PROVE  /\ fpga_sttb' = fpga_sttb
         /\ \A x \in Entry : fpga_trtb'[x] = IF x = pending[1].at THEN pending[1].value
                                                                 ELSE fpga_trtb[x]
         /\ fpga_trtb' \in [Entry -> Track]
         /\ \A j : FpgaArea(j)' = FpgaArea(j)
         /\ \A j \in Index \ {pending[1].index} : FpgaTracks(j)' = FpgaTracks(j)
         /\ \A j \in Index :
              FpgaTracks(j)' \subseteq FpgaTracks(j) \cup ({pending[1].value} \ {RA_TRACK_TABLE_MUTE})
<1> DEFINE w == pending[1]
<1>1. w \in RegWrite /\ Head(pending) = w /\ 1 \in DOMAIN pending
  BY WriteShift
<1>2. w.at \in Entry /\ w.value \in Track /\ w.index \in Index
  BY <1>1 DEF RegWrite
<1>3. fpga_trtb' = [fpga_trtb EXCEPT ![w.at] = w.value] /\ fpga_sttb' = fpga_sttb
  BY <1>1 DEF Write, TrtbAfter, SttbAfter
<1>4. fpga_trtb \in [Entry -> Track]
  BY DEF RegIInv, RegTypeOK
<1>5. \A j \in Index \ {w.index} : w.at \notin FpgaArea(j)
  BY <1>1 DEF RegIInv, WritesApart, ToTrtb
<1> HIDE DEF w
<1>6. /\ \A x \in Entry : fpga_trtb'[x] = IF x = w.at THEN w.value ELSE fpga_trtb[x]
      /\ fpga_trtb' \in [Entry -> Track]
  BY <1>2, <1>3, <1>4
<1>7. \A j : FpgaArea(j)' = FpgaArea(j)
  BY <1>3 DEF FpgaArea
<1>8. \A j \in Index \ {w.index} : FpgaTracks(j)' = FpgaTracks(j)
  BY <1>5, <1>6, <1>7 DEF FpgaTracks
<1>9. \A j \in Index : FpgaTracks(j)' \subseteq FpgaTracks(j) \cup ({w.value} \ {RA_TRACK_TABLE_MUTE})
  BY <1>6, <1>7 DEF FpgaTracks
<1> QED
  BY <1>3, <1>6, <1>7, <1>8, <1>9 DEF w

\* A write to the track table preserves the invariant.
LEMMA TrtbWritePreserves ==
  ASSUME RegIInv, Write, IInv', pending[1].table = "trtb"
  PROVE  RegIInv'
<1> DEFINE w == pending[1]
           i == w.index
<1>1. /\ UNCHANGED <<streams, used_entries, trtb, sttb, closing>>
  BY DEF Write, vars
<1>2. /\ w \in RegWrite /\ Len(pending) \in Nat \ {0} /\ DOMAIN pending = 1 .. Len(pending)
      /\ pending' \in Seq(RegWrite)
      /\ Len(pending') = Len(pending) - 1
      /\ DOMAIN pending' = 1 .. Len(pending) - 1
      /\ \A k \in DOMAIN pending' : k + 1 \in DOMAIN pending /\ pending'[k] = pending[k + 1]
      /\ \A k \in DOMAIN pending : pending[k].index = i
      /\ Busy = {i}
      /\ Busy' \subseteq Busy
      /\ Len(pending) > 1 => Busy' = Busy
  BY WriteShift
<1>3. i \in Index /\ Len(pending) > Len(LastWrites(i)) /\ 1 \in DOMAIN pending
  <2>1. i \in Index /\ ~(Len(pending) <= Len(LastWrites(i)))
    BY HeadWrite
  <2>2. Len(LastWrites(i)) \in Nat
    BY <2>1, LastWritesFacts DEF RegIInv
  <2> QED
    BY <1>2, <2>1, <2>2
<1>4. /\ fpga_sttb' = fpga_sttb
      /\ \A x \in Entry : fpga_trtb'[x] = IF x = w.at THEN w.value ELSE fpga_trtb[x]
      /\ fpga_trtb' \in [Entry -> Track]
      /\ \A j : FpgaArea(j)' = FpgaArea(j)
      /\ \A j \in Index \ {i} : FpgaTracks(j)' = FpgaTracks(j)
      /\ \A j \in Index : FpgaTracks(j)' \subseteq FpgaTracks(j) \cup ({w.value} \ {RA_TRACK_TABLE_MUTE})
  BY TrtbWriteServes
<1>5. ASSUME NEW j \in Index \ {i}
      PROVE  /\ w.at \notin FpgaArea(j) /\ w.value \notin FpgaTracks(j)
             /\ streams[j] # NULL => w.value \notin ActiveTracks(streams[j].stream)
  BY <1>3 DEF RegIInv, WritesApart, ToTrtb
<1> HIDE DEF w, i
<1>6. RegTypeOK'
  BY <1>1, <1>2, <1>4 DEF RegIInv, RegTypeOK
<1>7. StreamTableFollows'
  <2>1. streams[i] = NULL => Len(pending) > 3
    BY <1>2, <1>3, LastWritesFacts DEF RegIInv
  <2>2. streams[i] # NULL => Len(pending) > 9
    BY <1>2, <1>3, LastWritesFacts DEF RegIInv
  <2>3. Busy' = Busy
    BY <1>2, <2>1, <2>2
  <2>4. streams[i] = NULL => Deleted(fpga_sttb[i], sttb[i], Len(pending'))
    <3>1. streams[i] = NULL => Deleted(fpga_sttb[i], sttb[i], Len(pending))
      BY <1>2, <1>3 DEF RegIInv, StreamTableFollows
    <3> QED
      BY <1>2, <2>1, <3>1 DEF Deleted
  <2>5. streams[i] # NULL => Rewritten(fpga_sttb[i], sttb[i], Len(pending'))
    <3>1. streams[i] # NULL => /\ Len(pending') \notin 2 .. 7
                               /\ ~(Len(pending') <= 5) /\ ~(Len(pending') <= 4)
                               /\ ~(Len(pending') <= 3) /\ ~(Len(pending') <= 1)
      <4>1. Len(pending) \in Nat /\ Len(pending') = Len(pending) - 1
        BY <1>2
      <4> QED
        BY <2>2, <4>1
    <3> QED
      BY <3>1 DEF Rewritten
  <2> QED
    BY <1>1, <1>2, <1>4, <2>3, <2>4, <2>5 DEF RegIInv, StreamTableFollows
<1>8. TrackTableFollows'
  <2>1. ASSUME NEW k \in DOMAIN pending', pending'[k].table = "trtb",
               \A m \in DOMAIN pending' :
                 m > k /\ pending'[m].table = "trtb" => pending'[m].at # pending'[k].at
        PROVE  pending'[k].value = trtb[pending'[k].at]
    <3>1. /\ k + 1 \in DOMAIN pending /\ pending'[k] = pending[k + 1] /\ ToTrtb(k + 1)
          /\ k \in Nat /\ k >= 1
      BY <1>2, <2>1 DEF ToTrtb
    <3>2. ASSUME NEW m \in DOMAIN pending, m > k + 1, ToTrtb(m)
          PROVE  pending[m].at # pending[k + 1].at
      <4>1. m - 1 \in DOMAIN pending' /\ m - 1 > k /\ (m - 1) + 1 = m
        BY <1>2, <3>1, <3>2
      <4>2. pending'[m - 1] = pending[m]
        BY <1>2, <4>1
      <4> QED
        BY <2>1, <3>1, <3>2, <4>1, <4>2 DEF ToTrtb
    <3> QED
      BY <3>1, <3>2 DEF RegIInv, TrackTableFollows
  <2>2. ASSUME NEW x \in Entry,
               \A k \in DOMAIN pending' : pending'[k].table = "trtb" => pending'[k].at # x,
               \A j \in Live(closing) : x \notin AreaOf(closing[j])
        PROVE  fpga_trtb'[x] = trtb[x]
    <3>1. ASSUME NEW m \in DOMAIN pending, m > 1, ToTrtb(m)
          PROVE  pending[m].at # x
      <4>1. m - 1 \in DOMAIN pending' /\ (m - 1) + 1 = m
        BY <1>2, <3>1
      <4>2. pending'[m - 1] = pending[m]
        BY <1>2, <4>1
      <4> QED
        BY <2>2, <3>1, <4>1, <4>2 DEF ToTrtb
    <3>2. CASE x = w.at
      <4>1. ToTrtb(1)
        BY DEF ToTrtb
      <4>2. \A m \in DOMAIN pending : m > 1 /\ ToTrtb(m) => pending[m].at # pending[1].at
        BY <3>1, <3>2 DEF w
      <4>3. pending[1].value = trtb[pending[1].at]
        BY <1>3, <4>1, <4>2 DEF RegIInv, TrackTableFollows
      <4> QED
        BY <1>4, <3>2, <4>3 DEF w
    <3>3. CASE x # w.at
      <4>1. \A m \in DOMAIN pending : m = 1 \/ m > 1
        BY <1>2
      <4>2. \A m \in DOMAIN pending : ToTrtb(m) => pending[m].at # x
        BY <3>1, <3>3, <4>1 DEF w
      <4>3. fpga_trtb[x] = trtb[x]
        BY <2>2, <4>2 DEF RegIInv, TrackTableFollows
      <4> QED
        BY <1>4, <3>3, <4>3
    <3> QED
      BY <3>2, <3>3
  <2> QED
    BY <1>1, <2>1, <2>2 DEF TrackTableFollows, ToTrtb
<1>9. ClosingUntouched'
  BY <1>1, <1>2, <1>4 DEF RegIInv, ClosingUntouched
<1>10. WritesApart'
  <2> SUFFICES ASSUME NEW k \in DOMAIN pending', NEW j \in Index \ {pending'[k].index},
                      pending'[k].table = "trtb"
               PROVE  /\ pending'[k].at \notin FpgaArea(j)'
                      /\ pending'[k].value \notin FpgaTracks(j)'
                      /\ streams[j] # NULL =>
                           /\ pending'[k].at \notin AreaOf(streams[j])
                           /\ pending'[k].value \notin ActiveTracks(streams[j].stream)
                      /\ closing[j] # NULL => pending'[k].at \notin AreaOf(closing[j])
    BY <1>1 DEF WritesApart, ToTrtb
  <2>1. /\ k + 1 \in DOMAIN pending /\ pending'[k] = pending[k + 1]
        /\ pending[k + 1].index = i /\ pending[k + 1].table = "trtb"
    BY <1>2
  <2>2. j \in Index \ {pending[k + 1].index} /\ j \in Index \ {i}
    BY <2>1
  <2> QED
    BY <1>4, <2>1, <2>2 DEF RegIInv, WritesApart, ToTrtb
<1>11. TracksApart'
  <2> SUFFICES ASSUME NEW a \in Live(streams), NEW b \in Index, a # b
               PROVE  ActiveTracks(streams[a].stream) \cap FpgaTracks(b)' = {}
    BY <1>1 DEF TracksApart
  <2>1. ActiveTracks(streams[a].stream) \cap FpgaTracks(b) = {}
    BY DEF RegIInv, TracksApart
  <2>2. CASE b # i
    BY <1>4, <2>1, <2>2
  <2>3. CASE b = i
    <3>1. w.value \notin ActiveTracks(streams[a].stream)
      BY <1>5, <2>3 DEF Live
    <3> QED
      BY <1>4, <2>1, <2>3, <3>1
  <2> QED
    BY <2>2, <2>3
<1>12. NeverCrossRouted'
  <2> SUFFICES ASSUME NEW a \in Index, NEW b \in Index, a # b
               PROVE  /\ streams[b] # NULL => FpgaArea(a)' \cap AreaOf(streams[b]) = {}
                      /\ FpgaTracks(a)' \cap FpgaTracks(b)' = {}
    BY <1>1 DEF NeverCrossRouted
  <2>1. /\ streams[b] # NULL => FpgaArea(a) \cap AreaOf(streams[b]) = {}
        /\ FpgaTracks(a) \cap FpgaTracks(b) = {}
    BY DEF RegIInv, NeverCrossRouted
  <2>2. CASE a # i /\ b # i
    BY <1>4, <2>1, <2>2
  <2>3. CASE a = i
    BY <1>4, <1>5, <2>1, <2>3
  <2>4. CASE b = i
    BY <1>4, <1>5, <2>1, <2>4
  <2> QED
    BY <2>2, <2>3, <2>4
<1> QED
  BY <1>6, <1>7, <1>8, <1>9, <1>10, <1>11, <1>12, WriteOrder DEF RegIInv

\* What a write to the stream table makes of the entry it is for.
LEMMA SttbWriteStep ==
  ASSUME RegIInv, Write, pending[1].table = "sttb", NEW i, i = pending[1].index
  PROVE  /\ i \in Index
         /\ fpga_trtb' = fpga_trtb
         /\ fpga_sttb' \in [Index -> SttbEntry]
         /\ \A j \in Index \ {i} : fpga_sttb'[j] = fpga_sttb[j]
         /\ \A k \in DOMAIN pending : ~ToTrtb(k)
         /\ streams[i] = NULL =>
              /\ Deleted(fpga_sttb'[i], sttb[i], Len(pending) - 1)
              /\ ServesSame(fpga_sttb[i], fpga_sttb'[i], fpga_sttb[i])
              /\ Valid(fpga_sttb'[i]) => Valid(fpga_sttb[i])
         /\ streams[i] # NULL =>
              /\ Rewritten(fpga_sttb'[i], sttb[i], Len(pending) - 1)
              /\ ServesSame(fpga_sttb[i], fpga_sttb'[i], sttb[i])
              /\ ~Valid(fpga_sttb[i]) /\ Valid(fpga_sttb'[i]) => fpga_sttb'[i] = sttb[i]
<1> DEFINE w == pending[1]
           l == Len(pending)
           m == Len(LastWrites(i))
<1>1. w \in RegWrite /\ l \in Nat \ {0} /\ Head(pending) = w /\ Busy = {i}
  BY WriteShift
<1>2. i \in Index /\ m \in Nat
  BY HeadWrite, LastWritesFacts DEF RegIInv
<1>3. l <= m
  <2>1. ~(l > m)
    BY HeadWrite
  <2> QED
    BY <1>1, <1>2, <2>1
<1>4. w = LastWrites(i)[m - l + 1] /\ \A k \in DOMAIN pending : ~ToTrtb(k)
  BY <1>3, HeadWrite
<1>5. fpga_sttb \in [Index -> SttbEntry] /\ sttb[i] \in SttbEntry
  BY <1>2 DEF RegIInv, RegTypeOK, IInv, TypeOK
<1>6. /\ w.value \in SttbEntry /\ w.at \in {Words[1], Words[2], Words[3]}
  BY <1>1 DEF RegWrite
<1> DEFINE now == fpga_sttb[i]
           after == Over(now, w.value, w.at)
<1>7. fpga_trtb' = fpga_trtb /\ fpga_sttb' = [fpga_sttb EXCEPT ![i] = after]
  BY <1>1 DEF Write, TrtbAfter, SttbAfter, Over
<1>8. now \in SttbEntry /\ after \in SttbEntry
  BY <1>2, <1>5, <1>6, WordWritten
<1>9. ASSUME streams[i] = NULL
      PROVE  /\ Deleted(after, sttb[i], l - 1)
             /\ ServesSame(now, after, now)
             /\ Valid(after) => Valid(now)
  <2>1. m = 3 /\ \A p \in 1 .. 3 : LastWrites(i)[p] = SttbWrite(i, Words[p], sttb[i])
    BY <1>2, <1>9, LastWritesFacts DEF RegIInv
  <2>2. PICK p \in 1 .. 3 : p = m - l + 1
    BY <1>1, <1>3, <2>1
  <2>3. l = 4 - p /\ l - 1 = 3 - p
    BY <1>1, <2>1, <2>2
  <2>4. w.at = Words[p] /\ w.value = sttb[i]
    <3>1. w = SttbWrite(i, Words[p], sttb[i])
      BY <1>4, <2>1, <2>2
    <3> QED
      BY <3>1 DEF SttbWrite
  <2>5. Deleted(now, sttb[i], l)
    BY <1>1, <1>2, <1>9 DEF RegIInv, StreamTableFollows
  <2>6. ~Valid(sttb[i])
    BY <1>2, <1>9 DEF RegIInv, IInv, StreamTableCurrent, Valid
  <2> HIDE DEF now, l, m, w
  <2> QED
    BY <1>5, <1>8, <2>3, <2>4, <2>5, <2>6, DeleteStep
<1>10. ASSUME streams[i] # NULL
       PROVE  /\ Rewritten(after, sttb[i], l - 1)
              /\ ServesSame(now, after, sttb[i])
              /\ ~Valid(now) /\ Valid(after) => after = sttb[i]
  <2> DEFINE fill == ra_stream_table_rx_fill(streams[i].stream, streams[i].trtb_index)
             new == sttb[i]
  <2>1. m = 9 /\ \A p \in 1 .. 9 : LastWrites(i)[p] = SttbWrite(i, WordAt(p), ValueAt(p, fill, new))
    BY <1>2, <1>10, LastWritesFacts DEF RegIInv
  <2>2. PICK p \in 1 .. 9 : p = m - l + 1
    BY <1>1, <1>3, <2>1
  <2>3. l = 10 - p /\ l - 1 = 9 - p
    BY <1>1, <2>1, <2>2
  <2>4. w.at = WordAt(p) /\ w.value = ValueAt(p, fill, new)
    <3>1. w = SttbWrite(i, WordAt(p), ValueAt(p, fill, new))
      BY <1>4, <2>1, <2>2
    <3> QED
      BY <3>1 DEF SttbWrite
  <2>5. Rewritten(now, new, l)
    BY <1>1, <1>2, <1>10 DEF RegIInv, StreamTableFollows
  <2>6. /\ fill \in SttbEntry /\ ~Valid(fill)
        /\ fill.primary = new.primary /\ fill.secondary = new.secondary
        /\ fill.num_channels = new.num_channels /\ fill.trtp_base_addr = new.trtp_base_addr
    <3>1. streams[i] \in Elem
          /\ new = ra_stream_table_rx_set(streams[i].stream, streams[i].trtb_index)
      BY <1>2, <1>10 DEF RegIInv, IInv, TypeOK, StreamTableCurrent
    <3> QED
      BY <3>1, FillFacts
  <2> HIDE DEF now, l, m, w, fill
  <2> QED
    BY <1>5, <1>8, <2>3, <2>4, <2>5, <2>6, RewriteStep
<1> HIDE DEF now, after
<1>11. /\ fpga_sttb'[i] = after
       /\ \A j \in Index \ {i} : fpga_sttb'[j] = fpga_sttb[j]
       /\ fpga_sttb' \in [Index -> SttbEntry]
  BY <1>2, <1>5, <1>7, <1>8
<1>12. streams[i] = NULL =>
         /\ Deleted(fpga_sttb'[i], sttb[i], Len(pending) - 1)
         /\ ServesSame(fpga_sttb[i], fpga_sttb'[i], fpga_sttb[i])
         /\ Valid(fpga_sttb'[i]) => Valid(fpga_sttb[i])
  BY <1>9, <1>11 DEF now
<1>13. streams[i] # NULL =>
         /\ Rewritten(fpga_sttb'[i], sttb[i], Len(pending) - 1)
         /\ ServesSame(fpga_sttb[i], fpga_sttb'[i], sttb[i])
         /\ ~Valid(fpga_sttb[i]) /\ Valid(fpga_sttb'[i]) => fpga_sttb'[i] = sttb[i]
  BY <1>10, <1>11 DEF now
<1>14. fpga_trtb' = fpga_trtb
  BY <1>7
<1> HIDE DEF m, w, l
<1> QED
  BY <1>2, <1>4, <1>11, <1>12, <1>13, <1>14

\* After it, the FPGA serves for the stream what it served before, or nothing, or
\* what the stream is to have.
LEMMA SttbWriteServes ==
  ASSUME RegIInv, Write, pending[1].table = "sttb", NEW i, i = pending[1].index
  PROVE  /\ \A j \in Index \ {i} : FpgaArea(j)' = FpgaArea(j) /\ FpgaTracks(j)' = FpgaTracks(j)
         /\ \/ FpgaArea(i)' \subseteq FpgaArea(i) /\ FpgaTracks(i)' \subseteq FpgaTracks(i)
            \/ /\ i \in Live(streams)
               /\ FpgaArea(i)' \subseteq AreaOf(streams[i])
               /\ FpgaTracks(i)' \subseteq ActiveTracks(streams[i].stream)
<1>1. /\ i \in Index /\ fpga_trtb' = fpga_trtb
      /\ \A j \in Index \ {i} : fpga_sttb'[j] = fpga_sttb[j]
      /\ \A k \in DOMAIN pending : ~ToTrtb(k)
      /\ streams[i] = NULL => ServesSame(fpga_sttb[i], fpga_sttb'[i], fpga_sttb[i])
                              /\ (Valid(fpga_sttb'[i]) => Valid(fpga_sttb[i]))
      /\ streams[i] # NULL => ServesSame(fpga_sttb[i], fpga_sttb'[i], sttb[i])
  BY SttbWriteStep
<1>2. \A j \in Index \ {i} : FpgaArea(j)' = FpgaArea(j) /\ FpgaTracks(j)' = FpgaTracks(j)
  BY <1>1 DEF FpgaArea, FpgaTracks
<1>3. ASSUME FpgaArea(i)' \subseteq FpgaArea(i)
      PROVE  FpgaTracks(i)' \subseteq FpgaTracks(i)
  BY <1>1, <1>3 DEF FpgaTracks
<1>4. CASE streams[i] = NULL
  <2>1. FpgaArea(i)' \subseteq FpgaArea(i)
    BY <1>1, <1>4 DEF FpgaArea, ServesSame
  <2> QED
    BY <1>2, <1>3, <2>1
<1>5. CASE streams[i] # NULL
  <2>1. /\ i \in Live(streams) /\ streams[i] \in Elem
        /\ sttb[i] = ra_stream_table_rx_set(streams[i].stream, streams[i].trtb_index)
    BY <1>1, <1>5 DEF RegIInv, IInv, TypeOK, StreamTableCurrent, Live
  <2>2. Area(sttb[i].trtp_base_addr, sttb[i].num_channels) \subseteq AreaOf(streams[i])
    BY <2>1, EntryArea
  <2>3. FpgaArea(i)' \subseteq FpgaArea(i) \/ FpgaArea(i)' \subseteq AreaOf(streams[i])
    BY <1>1, <1>5, <2>2 DEF FpgaArea, ServesSame
  <2>4. ASSUME FpgaArea(i)' \subseteq AreaOf(streams[i])
        PROVE  FpgaTracks(i)' \subseteq ActiveTracks(streams[i].stream)
    <3>1. \A x \in AreaOf(streams[i]) :
              fpga_trtb[x] # RA_TRACK_TABLE_MUTE
                => fpga_trtb[x] \in ActiveTracks(streams[i].stream)
      BY <1>1, <2>1, LiveAreaWritten
    <3> QED
      BY <1>1, <2>4, <3>1 DEF FpgaTracks
  <2> QED
    BY <1>2, <1>3, <2>1, <2>3, <2>4
<1> QED
  BY <1>4, <1>5

\* A write to the stream table preserves the invariant.
LEMMA SttbWritePreserves ==
  ASSUME RegIInv, Write, IInv', pending[1].table = "sttb"
  PROVE  RegIInv'
<1>1. /\ UNCHANGED <<streams, used_entries, trtb, sttb, closing>>
  BY DEF Write, vars
<1>2. PICK i : i = pending[1].index
  OBVIOUS
<1>3. /\ Len(pending) \in Nat \ {0}
      /\ pending' \in Seq(RegWrite)
      /\ Len(pending') = Len(pending) - 1
      /\ \A k \in DOMAIN pending' : k + 1 \in DOMAIN pending /\ pending'[k] = pending[k + 1]
      /\ Busy = {i}
      /\ Busy' \subseteq Busy
      /\ Len(pending) > 1 => Busy' = Busy
      /\ Len(pending) = 1 => Busy' = {}
  BY <1>2, WriteShift
<1>4. /\ i \in Index
      /\ fpga_trtb' = fpga_trtb
      /\ fpga_sttb' \in [Index -> SttbEntry]
      /\ \A j \in Index \ {i} : fpga_sttb'[j] = fpga_sttb[j]
      /\ \A k \in DOMAIN pending : ~ToTrtb(k)
      /\ streams[i] = NULL => Deleted(fpga_sttb'[i], sttb[i], Len(pending'))
      /\ streams[i] # NULL => Rewritten(fpga_sttb'[i], sttb[i], Len(pending'))
  BY <1>2, <1>3, SttbWriteStep
<1>5. /\ \A j \in Index \ {i} : FpgaArea(j)' = FpgaArea(j) /\ FpgaTracks(j)' = FpgaTracks(j)
      /\ \/ FpgaArea(i)' \subseteq FpgaArea(i) /\ FpgaTracks(i)' \subseteq FpgaTracks(i)
         \/ /\ i \in Live(streams)
            /\ FpgaArea(i)' \subseteq AreaOf(streams[i])
            /\ FpgaTracks(i)' \subseteq ActiveTracks(streams[i].stream)
  BY <1>2, SttbWriteServes
<1>6. \A k \in DOMAIN pending' : pending'[k].table # "trtb"
  BY <1>3, <1>4 DEF ToTrtb
<1>7. RegTypeOK'
  BY <1>1, <1>3, <1>4 DEF RegIInv, RegTypeOK
<1>8. StreamTableFollows'
  <2>1. ASSUME Len(pending) = 1 PROVE fpga_sttb'[i] = sttb[i]
    <3>1. sttb[i] \in SttbEntry /\ fpga_sttb'[i] \in SttbEntry
      BY <1>4 DEF RegIInv, IInv, TypeOK
    <3>2. Deleted(fpga_sttb'[i], sttb[i], 0) \/ Rewritten(fpga_sttb'[i], sttb[i], 0)
      BY <1>3, <1>4, <2>1
    <3>3. /\ fpga_sttb'[i].primary = sttb[i].primary
          /\ fpga_sttb'[i].secondary = sttb[i].secondary
          /\ fpga_sttb'[i].num_channels = sttb[i].num_channels
          /\ fpga_sttb'[i].trtp_base_addr = sttb[i].trtp_base_addr
          /\ fpga_sttb'[i].misc_control = sttb[i].misc_control
      BY <3>2 DEF Deleted, Rewritten
    <3> QED
      BY <3>1, <3>3, SttbFields
  <2>2. CASE Len(pending) = 1
    BY <1>1, <1>3, <1>4, <2>1, <2>2 DEF RegIInv, StreamTableFollows
  <2>3. CASE Len(pending) > 1
    BY <1>1, <1>3, <1>4, <2>3 DEF RegIInv, StreamTableFollows
  <2> QED
    BY <1>3, <2>2, <2>3
<1>9. TrackTableFollows'
  BY <1>1, <1>4, <1>6 DEF RegIInv, TrackTableFollows, ToTrtb
<1>10. ClosingUntouched'
  <2> SUFFICES ASSUME NEW j \in Live(closing)
               PROVE  /\ streams[j] = NULL /\ j \notin Busy'
                      /\ fpga_sttb'[j] = ra_stream_table_rx_set(closing[j].stream,
                                                               closing[j].trtb_index)
                      /\ sttb[j] = ra_stream_table_rx_del(fpga_sttb'[j])
                      /\ AreaOf(closing[j]) \subseteq Entry \ used_entries
                      /\ \A k \in Live(closing) \ {j} :
                           AreaOf(closing[j]) \cap AreaOf(closing[k]) = {}
    BY <1>1 DEF ClosingUntouched
  <2>1. j \in Index /\ j \notin Busy
    BY DEF RegIInv, ClosingUntouched, Live
  <2>2. fpga_sttb'[j] = fpga_sttb[j]
    BY <1>3, <1>4, <2>1
  <2> QED
    BY <1>3, <2>1, <2>2 DEF RegIInv, ClosingUntouched
<1>11. WritesApart'
  BY <1>6 DEF WritesApart, ToTrtb
<1>12. TracksApart'
  <2> SUFFICES ASSUME NEW a \in Live(streams), NEW b \in Index, a # b
               PROVE  ActiveTracks(streams[a].stream) \cap FpgaTracks(b)' = {}
    BY <1>1 DEF TracksApart
  <2>1. ActiveTracks(streams[a].stream) \cap FpgaTracks(b) = {}
    BY DEF RegIInv, TracksApart
  <2>2. i \in Live(streams) /\ i # a =>
          ActiveTracks(streams[a].stream) \cap ActiveTracks(streams[i].stream) = {}
    BY DEF RegIInv, IInv, TracksExclusive
  <2>3. CASE b # i
    BY <1>5, <2>1, <2>3
  <2>4. CASE b = i
    BY <1>5, <2>1, <2>2, <2>4
  <2> QED
    BY <2>3, <2>4
<1>13. NeverCrossRouted'
  <2> SUFFICES ASSUME NEW a \in Index, NEW b \in Index, a # b
               PROVE  /\ streams[b] # NULL => FpgaArea(a)' \cap AreaOf(streams[b]) = {}
                      /\ FpgaTracks(a)' \cap FpgaTracks(b)' = {}
    BY <1>1 DEF NeverCrossRouted
  <2>1. /\ streams[b] # NULL => FpgaArea(a) \cap AreaOf(streams[b]) = {}
        /\ FpgaTracks(a) \cap FpgaTracks(b) = {}
    BY DEF RegIInv, NeverCrossRouted
  <2>2. CASE a # i /\ b # i
    BY <1>5, <2>1, <2>2
  <2>3. CASE a = i
    <3>1. i \in Live(streams) => ActiveTracks(streams[i].stream) \cap FpgaTracks(b) = {}
      BY <2>3 DEF RegIInv, TracksApart
    <3>2. i \in Live(streams) /\ streams[b] # NULL =>
            AreaOf(streams[i]) \cap AreaOf(streams[b]) = {}
      BY <2>3 DEF RegIInv, IInv, EntriesAccounted, Live
    <3> QED
      BY <1>5, <2>1, <2>3, <3>1, <3>2
  <2>4. CASE b = i
    <3>1. i \in Live(streams) => ActiveTracks(streams[i].stream) \cap FpgaTracks(a) = {}
      BY <2>4 DEF RegIInv, TracksApart
    <3> QED
      BY <1>5, <2>1, <2>4, <3>1
  <2> QED
    BY <2>2, <2>3, <2>4
<1> QED
  BY <1>7, <1>8, <1>9, <1>10, <1>11, <1>12, <1>13, WriteOrder DEF RegIInv

\* Writing a register preserves the invariant.
LEMMA WritePreserves ==
  ASSUME RegIInv, Write
  PROVE  RegIInv'
<1>1. IInv'
  BY NextIInv DEF Write, RegIInv
<1>2. pending[1].table \in {"trtb", "sttb"}
  <2>1. pending[1] \in RegWrite
    BY WriteShift
  <2> QED
    BY <2>1 DEF RegWrite
<1> QED
  BY <1>1, <1>2, TrtbWritePreserves, SttbWritePreserves

-----------------------------------------------------------------------------
(* Between two calls, or two turns of the loop in ra_sd_rx_delete_streams,  *)
(* no write is left; cl are the streams the loop has yet to come to.       *)

Settled(cl) ==
  /\ cl \in [Index -> Elem \cup {NULL}]
  /\ fpga_trtb \in [Entry -> Track] /\ fpga_sttb \in [Index -> SttbEntry]
  /\ \A j \in Index : cl[j] = NULL => fpga_sttb[j] = sttb[j]
  /\ \A x \in Entry : (\A j \in Live(cl) : x \notin AreaOf(cl[j])) => fpga_trtb[x] = trtb[x]
  /\ \A j \in Live(cl) :
       /\ streams[j] = NULL
       /\ fpga_sttb[j] = ra_stream_table_rx_set(cl[j].stream, cl[j].trtb_index)
       /\ sttb[j] = ra_stream_table_rx_del(fpga_sttb[j])
       /\ AreaOf(cl[j]) \subseteq Entry \ used_entries
       /\ \A k \in Live(cl) \ {j} : AreaOf(cl[j]) \cap AreaOf(cl[k]) = {}
  /\ TracksApart /\ NeverCrossRouted

\* The invariant when no write is left.
LEMMA SettledIff ==
  ASSUME pending = <<>>
  PROVE  /\ RegIInv => Settled(closing)
         /\ IInv /\ Settled(closing) => RegIInv
<1>1. Busy = {} /\ DOMAIN pending = {} /\ pending \in Seq(RegWrite)
  BY EmptySeq DEF Busy
<1>2. RegIInv => Settled(closing)
  BY <1>1 DEF RegIInv, RegTypeOK, Settled, StreamTableFollows, TrackTableFollows,
              ClosingUntouched, Live
<1>3. ASSUME IInv, Settled(closing) PROVE RegIInv
  <2>1. RegTypeOK
    BY <1>1, <1>3 DEF Settled, RegTypeOK
  <2>2. StreamTableFollows /\ TrackTableFollows
    BY <1>1, <1>3 DEF Settled, StreamTableFollows, TrackTableFollows
  <2>3. ClosingUntouched
    BY <1>1, <1>3 DEF Settled, ClosingUntouched
  <2>4. OneStream /\ WritesInOrder /\ WritesApart
    BY <1>1 DEF OneStream, WritesInOrder, WritesApart
  <2> QED
    BY <1>3, <2>1, <2>2, <2>3, <2>4 DEF Settled, RegIInv
<1> QED
  BY <1>2, <1>3

\* While nobody holds the mutex the FPGA has the tables the driver aims at, and
\* serves for each stream nothing but its own.
LEMMA FreeServes ==
  ASSUME RegIInv, MutexFree
  PROVE  /\ fpga_trtb = trtb /\ fpga_sttb = sttb
         /\ \A j \in Index : FpgaArea(j) \subseteq OldArea(j) /\ FpgaTracks(j) \subseteq OldTracks(j)
<1>1. Settled(closing) /\ Live(closing) = {} /\ pending = <<>> /\ IInv
  BY SettledIff DEF MutexFree, RegIInv
<1>2. \A j \in Index : closing[j] = NULL
  BY <1>1 DEF Live
<1>3. fpga_trtb = trtb
  <2>1. \A x \in Entry : fpga_trtb[x] = trtb[x]
    BY <1>1 DEF Settled
  <2> QED
    BY <1>1, <2>1 DEF Settled, IInv, TypeOK
<1>4. fpga_sttb = sttb
  <2>1. \A j \in Index : fpga_sttb[j] = sttb[j]
    BY <1>1, <1>2 DEF Settled
  <2> QED
    BY <1>1, <2>1 DEF Settled, IInv, TypeOK
<1>5. ASSUME NEW j \in Index
      PROVE  FpgaArea(j) \subseteq OldArea(j) /\ FpgaTracks(j) \subseteq OldTracks(j)
  <2>1. CASE streams[j] = NULL
    <3>1. FpgaArea(j) = {}
      BY <1>1, <1>4, <2>1 DEF IInv, StreamTableCurrent, FpgaArea, Valid
    <3> QED
      BY <3>1 DEF FpgaTracks
  <2>2. CASE streams[j] # NULL
    <3>1. /\ j \in Live(streams) /\ streams[j] \in Elem
          /\ sttb[j] = ra_stream_table_rx_set(streams[j].stream, streams[j].trtb_index)
      BY <1>1, <2>2 DEF IInv, TypeOK, StreamTableCurrent, Live
    <3>2. Area(sttb[j].trtp_base_addr, sttb[j].num_channels) \subseteq AreaOf(streams[j])
      BY <3>1, EntryArea
    <3>3. FpgaArea(j) \subseteq AreaOf(streams[j])
      BY <1>4, <3>2 DEF FpgaArea
    <3>4. \A k \in DOMAIN pending : ~ToTrtb(k)
      BY <1>1
    <3>5. \A x \in AreaOf(streams[j]) :
              fpga_trtb[x] # RA_TRACK_TABLE_MUTE
                => fpga_trtb[x] \in ActiveTracks(streams[j].stream)
      BY <3>1, <3>4, LiveAreaWritten
    <3>6. FpgaTracks(j) \subseteq ActiveTracks(streams[j].stream)
      BY <3>3, <3>5 DEF FpgaTracks
    <3> QED
      BY <2>2, <3>3, <3>6 DEF OldArea, OldTracks
  <2> QED
    BY <2>1, <2>2
<1> QED
  BY <1>3, <1>4, <1>5

\* ra_sd_rx_free_stream for a set of streams, before any register is written:
\* the loop has yet to come to all of them.
LEMMA FreeSettles ==
  ASSUME RegIInv, MutexFree, IInv', NEW S \in SUBSET Live(streams), ra_sd_rx_free_stream(S),
         UNCHANGED fpga, NEW cl, cl = [i \in Index |-> IF i \in S THEN streams[i] ELSE NULL]
  PROVE  Settled(cl)'
<1>1. fpga_trtb = trtb /\ fpga_sttb = sttb /\ fpga_trtb' = fpga_trtb /\ fpga_sttb' = fpga_sttb
  BY FreeServes DEF fpga
<1>2. /\ \A i \in Live(streams) : i \in Index /\ streams[i] \in Elem /\ streams[i] # NULL
      /\ \A i \in S : cl[i] = streams[i] /\ i \in Live(streams)
      /\ \A i \in Index \ S : cl[i] = NULL
      /\ Live(cl) = S
      /\ cl \in [Index -> Elem \cup {NULL}]
  BY DEF RegIInv, IInv, TypeOK, Live
<1>3. /\ \A i \in S : streams'[i] = NULL
      /\ \A i \in Index \ S : streams'[i] = streams[i]
      /\ Live(streams') = Live(streams) \ S
      /\ \A i \in S : sttb'[i] = ra_stream_table_rx_del(sttb[i])
      /\ \A i \in Index \ S : sttb'[i] = sttb[i]
  BY <1>2 DEF ra_sd_rx_free_stream, Live
<1>4. /\ fpga_trtb' \in [Entry -> Track] /\ fpga_sttb' \in [Index -> SttbEntry]
  BY <1>1 DEF RegIInv, RegTypeOK
<1>5. \A j \in Index : cl[j] = NULL => fpga_sttb'[j] = sttb'[j]
  BY <1>1, <1>2, <1>3
<1>6. \A x \in Entry : (\A j \in Live(cl) : x \notin AreaOf(cl[j])) => fpga_trtb'[x] = trtb'[x]
  BY <1>1, <1>2 DEF ra_sd_rx_free_stream, ra_track_table_free
<1>7. ASSUME NEW j \in Live(cl)
      PROVE  /\ streams'[j] = NULL
             /\ fpga_sttb'[j] = ra_stream_table_rx_set(cl[j].stream, cl[j].trtb_index)
             /\ sttb'[j] = ra_stream_table_rx_del(fpga_sttb'[j])
             /\ AreaOf(cl[j]) \subseteq Entry \ used_entries'
             /\ \A k \in Live(cl) \ {j} : AreaOf(cl[j]) \cap AreaOf(cl[k]) = {}
  <2>1. j \in S /\ cl[j] = streams[j] /\ j \in Live(streams)
    BY <1>2
  <2>2. sttb[j] = ra_stream_table_rx_set(cl[j].stream, cl[j].trtb_index)
    BY <1>2, <2>1 DEF RegIInv, IInv, StreamTableCurrent
  <2>3. AreaOf(cl[j]) \subseteq Entry
    BY <2>1 DEF RegIInv, IInv, TypeOK, EntriesAccounted
  <2>4. AreaOf(cl[j]) \cap used_entries' = {}
    BY <2>1 DEF ra_sd_rx_free_stream
  <2>5. \A k \in Live(cl) \ {j} : AreaOf(cl[j]) \cap AreaOf(cl[k]) = {}
    BY <1>2, <2>1 DEF RegIInv, IInv, EntriesAccounted
  <2> QED
    BY <1>1, <1>3, <2>1, <2>2, <2>3, <2>4, <2>5
<1>8. \A j \in Index : FpgaArea(j)' = FpgaArea(j) /\ FpgaTracks(j)' = FpgaTracks(j)
  BY <1>1 DEF FpgaArea, FpgaTracks
<1>9. TracksApart'
  BY <1>3, <1>8 DEF RegIInv, TracksApart, Live
<1>10. NeverCrossRouted'
  BY <1>3, <1>8 DEF RegIInv, NeverCrossRouted
<1> QED
  BY <1>2, <1>4, <1>5, <1>6, <1>7, <1>9, <1>10 DEF Settled

-----------------------------------------------------------------------------
(* The writes to the track table.                                          *)

\* ra_track_table_free mutes each entry of the area once.
LEMMA FreeWrites ==
  ASSUME NEW i \in Index, NEW e \in Elem, AreaOf(e) \subseteq Entry
  PROVE  LET s == ra_track_table_free_writes(i, e) IN
         /\ s \in Seq(RegWrite) /\ Len(s) \in Nat
         /\ \A k \in 1 .. Len(s) : /\ s[k].table = "trtb" /\ s[k].index = i
                                   /\ s[k].at \in AreaOf(e)
                                   /\ s[k].value = RA_TRACK_TABLE_MUTE
         /\ \A x \in AreaOf(e) : \E k \in 1 .. Len(s) : s[k].at = x
<1> DEFINE n == e.stream.num_channels
           a == e.trtb_index
           s == ra_track_table_free_writes(i, e)
<1>1. n \in Nat /\ a \in Nat /\ AreaOf(e) = a .. a + n - 1
  BY ElemType DEF AreaOf, Area
<1>2. s = [k \in 1 .. n |-> TrtbWrite(i, a + k - 1, RA_TRACK_TABLE_MUTE)]
  BY DEF ra_track_table_free_writes
<1> HIDE DEF n, a, s
<1>3. \A k \in 1 .. n : a + k - 1 \in AreaOf(e)
  BY <1>1
<1>4. \A k \in 1 .. n : TrtbWrite(i, a + k - 1, RA_TRACK_TABLE_MUTE) \in RegWrite
  BY <1>3 DEF TrtbWrite, RegWrite, Track
<1>5. s \in Seq(RegWrite) /\ Len(s) = n
  <2>1. s \in [1 .. n -> RegWrite]
    BY <1>2, <1>4
  <2>2. s \in Seq(RegWrite)
    BY <1>1, <2>1, SeqDef
  <2>3. DOMAIN s = 1 .. n
    BY <1>2
  <2> QED
    BY <1>1, <2>2, <2>3, LenProperties
<1>6. \A k \in 1 .. n : /\ s[k].table = "trtb" /\ s[k].index = i
                        /\ s[k].at = a + k - 1 /\ s[k].value = RA_TRACK_TABLE_MUTE
  BY <1>2 DEF TrtbWrite
<1>7. ASSUME NEW x \in AreaOf(e) PROVE \E k \in 1 .. n : s[k].at = x
  <2>1. x - a + 1 \in 1 .. n /\ a + (x - a + 1) - 1 = x
    BY <1>1
  <2> QED
    BY <1>6, <2>1
<1> QED
  BY <1>1, <1>3, <1>5, <1>6, <1>7 DEF s

\* What the track table is to hold at an entry of a stream's area.
Routed(e, x) ==
  IF e.stream.tracks[x - e.trtb_index] >= 0 THEN e.stream.tracks[x - e.trtb_index]
                                            ELSE RA_TRACK_TABLE_MUTE

\* ra_track_table_set writes each entry of the area once, with what the table
\* is to hold there: a track of the stream or MUTE.
LEMMA SetTrackWrites ==
  ASSUME NEW i \in Index, NEW e \in Elem, AreaOf(e) \subseteq Entry
  PROVE  LET s == ra_track_table_set_writes(i, e) IN
         /\ s \in Seq(RegWrite) /\ Len(s) \in Nat
         /\ \A k \in 1 .. Len(s) : /\ s[k].table = "trtb" /\ s[k].index = i
                                   /\ s[k].at \in AreaOf(e)
                                   /\ s[k].value = Routed(e, s[k].at)
                                   /\ s[k].value \in ActiveTracks(e.stream)
                                                       \cup {RA_TRACK_TABLE_MUTE}
         /\ \A x \in AreaOf(e) : \E k \in 1 .. Len(s) : s[k].at = x
<1> DEFINE n == e.stream.num_channels
           a == e.trtb_index
           tr == e.stream.tracks
           s == ra_track_table_set_writes(i, e)
           val(c) == IF tr[c] >= 0 THEN tr[c] ELSE RA_TRACK_TABLE_MUTE
<1>1. n \in Nat /\ a \in Nat /\ AreaOf(e) = a .. a + n - 1
  BY ElemType DEF AreaOf, Area
<1>2. s = [k \in 1 .. n |-> TrtbWrite(i, a + k - 1, val(k - 1))]
  BY DEF ra_track_table_set_writes
<1>3. \A x \in AreaOf(e) : Routed(e, x) = val(x - a)
  BY DEF Routed
<1>4. ASSUME NEW c \in 0 .. n - 1
      PROVE  val(c) \in ActiveTracks(e.stream) \cup {RA_TRACK_TABLE_MUTE}
  BY DEF ActiveTracks, ActiveChannels
<1>5. ActiveTracks(e.stream) \subseteq 0 .. MaxTracks - 1
  BY ElemType, ActiveTracksType
<1> HIDE DEF n, a, s, val, tr
<1>6. \A k \in 1 .. n : a + k - 1 \in AreaOf(e) /\ k - 1 \in 0 .. n - 1 /\ (a + k - 1) - a = k - 1
  BY <1>1
<1>7. \A k \in 1 .. n : TrtbWrite(i, a + k - 1, val(k - 1)) \in RegWrite
  BY <1>4, <1>5, <1>6 DEF TrtbWrite, RegWrite, Track
<1>8. s \in Seq(RegWrite) /\ Len(s) = n
  <2>1. s \in [1 .. n -> RegWrite]
    BY <1>2, <1>7
  <2>2. s \in Seq(RegWrite)
    BY <1>1, <2>1, SeqDef
  <2>3. DOMAIN s = 1 .. n
    BY <1>2
  <2> QED
    BY <1>1, <2>2, <2>3, LenProperties
<1>9. \A k \in 1 .. n : /\ s[k].table = "trtb" /\ s[k].index = i
                        /\ s[k].at = a + k - 1 /\ s[k].value = val(k - 1)
  BY <1>2 DEF TrtbWrite
<1>10. ASSUME NEW k \in 1 .. n
       PROVE  /\ s[k].table = "trtb" /\ s[k].index = i
              /\ s[k].at \in AreaOf(e)
              /\ s[k].value = Routed(e, s[k].at)
              /\ s[k].value \in ActiveTracks(e.stream) \cup {RA_TRACK_TABLE_MUTE}
  <2>1. s[k].at \in AreaOf(e) /\ s[k].at - a = k - 1
    BY <1>6, <1>9
  <2>2. Routed(e, s[k].at) = val(k - 1)
    BY <1>3, <2>1
  <2> QED
    BY <1>4, <1>6, <1>9, <2>1, <2>2
<1>11. ASSUME NEW x \in AreaOf(e) PROVE \E k \in 1 .. n : s[k].at = x
  <2>1. x - a + 1 \in 1 .. n /\ a + (x - a + 1) - 1 = x
    BY <1>1
  <2> QED
    BY <1>9, <2>1
<1> QED
  BY <1>1, <1>8, <1>10, <1>11 DEF s

\* A queue of track table writes and the writes to the stream table.
LEMMA QueueShape ==
  ASSUME IInv, NEW i \in Index, NEW t \in Seq(RegWrite), Len(t) \in Nat,
         \A k \in 1 .. Len(t) : t[k].table = "trtb" /\ t[k].index = i,
         pending = t \o LastWrites(i)
  PROVE  /\ pending \in Seq(RegWrite)
         /\ Len(pending) = Len(t) + Len(LastWrites(i))
         /\ Busy = {i}
         /\ OneStream /\ WritesInOrder
         /\ DOMAIN pending = 1 .. Len(pending)
         /\ \A k \in 1 .. Len(t) : k \in DOMAIN pending /\ pending[k] = t[k]
         /\ \A k \in DOMAIN pending : /\ pending[k].index = i
                                      /\ ToTrtb(k) => k \in 1 .. Len(t)
<1> DEFINE u == LastWrites(i)
<1>1. /\ u \in Seq(RegWrite) /\ Len(u) \in {3, 9}
      /\ \A p \in 1 .. Len(u) : u[p].table = "sttb" /\ u[p].index = i
  <2>0. \A at, v : SttbWrite(i, at, v).table = "sttb" /\ SttbWrite(i, at, v).index = i
    BY DEF SttbWrite
  <2>1. CASE streams[i] = NULL
    <3>1. u \in Seq(RegWrite) /\ Len(u) = 3
          /\ \A p \in 1 .. 3 : \E at, v : u[p] = SttbWrite(i, at, v)
      BY <2>1, LastWritesFacts
    <3> QED
      BY <2>0, <3>1
  <2>2. CASE streams[i] # NULL
    <3>1. u \in Seq(RegWrite) /\ Len(u) = 9
          /\ \A p \in 1 .. 9 : \E at, v : u[p] = SttbWrite(i, at, v)
      BY <2>2, LastWritesFacts
    <3> QED
      BY <2>0, <3>1
  <2> QED
    BY <2>1, <2>2
<1>2. pending = t \o u
  OBVIOUS
<1> HIDE DEF u
<1>3. /\ pending \in Seq(RegWrite) /\ Len(pending) = Len(t) + Len(u)
      /\ \A k \in 1 .. Len(t) + Len(u) :
           pending[k] = IF k <= Len(t) THEN t[k] ELSE u[k - Len(t)]
  <2>1. u \in Seq(RegWrite) /\ t \in Seq(RegWrite)
    BY <1>1
  <2>2. /\ (t \o u) \in Seq(RegWrite) /\ Len(t \o u) = Len(t) + Len(u)
        /\ \A k \in 1 .. Len(t) + Len(u) :
             (t \o u)[k] = IF k <= Len(t) THEN t[k] ELSE u[k - Len(t)]
    BY <2>1, ConcatProperties
  <2> QED
    BY <1>2, <2>2
<1>4. DOMAIN pending = 1 .. Len(pending)
  BY <1>3, LenProperties
<1>5. ASSUME NEW k \in DOMAIN pending
      PROVE  /\ k \in 1 .. Len(t) => pending[k] = t[k]
             /\ k \notin 1 .. Len(t) => /\ k - Len(t) \in 1 .. Len(u)
                                        /\ pending[k] = u[k - Len(t)]
                                        /\ pending[k].table = "sttb"
             /\ pending[k].index = i
             /\ k <= Len(t) => k \in 1 .. Len(t)
  <2>1. k \in Nat /\ 1 <= k /\ k <= Len(t) + Len(u) /\ Len(u) \in Nat
    BY <1>1, <1>3, <1>4
  <2>2. CASE k <= Len(t)
    BY <1>3, <2>1, <2>2
  <2>3. CASE ~(k <= Len(t))
    <3>1. k - Len(t) \in 1 .. Len(u) /\ pending[k] = u[k - Len(t)] /\ k \notin 1 .. Len(t)
      BY <1>3, <2>1, <2>3
    <3> QED
      BY <1>1, <2>3, <3>1
  <2> QED
    BY <2>2, <2>3
<1>6. \A k \in 1 .. Len(t) : k \in DOMAIN pending /\ pending[k] = t[k]
  <2>1. \A k \in 1 .. Len(t) : k \in DOMAIN pending
    BY <1>1, <1>3, <1>4
  <2> QED
    BY <1>5, <2>1
<1>7. \A k \in DOMAIN pending : ToTrtb(k) => k \in 1 .. Len(t)
  BY <1>5 DEF ToTrtb
<1>8. Busy = {i}
  <2>1. 1 \in DOMAIN pending
    BY <1>1, <1>3, <1>4
  <2> QED
    BY <1>5, <2>1 DEF Busy
<1>9. OneStream
  BY <1>5 DEF OneStream
<1>10. WritesInOrder
  <2> SUFFICES ASSUME NEW k \in DOMAIN pending
               PROVE  LET j == pending[k].index
                          n == Len(pending) - Len(LastWrites(j))
                      IN IF k <= n THEN ToTrtb(k) ELSE pending[k] = LastWrites(j)[k - n]
    BY DEF WritesInOrder
  <2>1. pending[k].index = i /\ LastWrites(i) = u
    BY <1>5 DEF u
  <2>2. Len(pending) - Len(u) = Len(t)
    BY <1>1, <1>3
  <2>3. IF k <= Len(t) THEN ToTrtb(k) ELSE pending[k] = u[k - Len(t)]
    <3>1. k <= Len(t) => k \in 1 .. Len(t) /\ pending[k] = t[k]
      BY <1>5
    <3>2. ~(k <= Len(t)) => k \notin 1 .. Len(t)
      OBVIOUS
    <3> QED
      BY <1>5, <3>1, <3>2 DEF ToTrtb
  <2> QED
    BY <2>1, <2>2, <2>3
<1> QED
  BY <1>3, <1>4, <1>5, <1>6, <1>7, <1>8, <1>9, <1>10 DEF u

-----------------------------------------------------------------------------
(* The start of a free.                                                    *)

FreeBegun ==
  \E cl : \E i \in Live(cl) :
    /\ Settled(cl)
    /\ pending = ra_sd_rx_free_stream_writes(i, cl[i])
    /\ closing = [cl EXCEPT ![i] = NULL]

\* With the writes of ra_sd_rx_free_stream queued for one of the streams that
\* have been freed, the invariant holds.
LEMMA FreeBegins == IInv /\ FreeBegun => RegIInv
<1> SUFFICES ASSUME IInv, FreeBegun PROVE RegIInv
  OBVIOUS
<1>1. PICK cl : \E i \in Live(cl) :
                  /\ Settled(cl)
                  /\ pending = ra_sd_rx_free_stream_writes(i, cl[i])
                  /\ closing = [cl EXCEPT ![i] = NULL]
  BY DEF FreeBegun
<1>2. PICK i \in Live(cl) :
                  /\ Settled(cl)
                  /\ pending = ra_sd_rx_free_stream_writes(i, cl[i])
                  /\ closing = [cl EXCEPT ![i] = NULL]
  BY <1>1
<1> DEFINE t == ra_track_table_free_writes(i, cl[i])
<1>3. /\ i \in Index /\ cl[i] \in Elem /\ streams[i] = NULL
      /\ fpga_sttb[i] = ra_stream_table_rx_set(cl[i].stream, cl[i].trtb_index)
      /\ sttb[i] = ra_stream_table_rx_del(fpga_sttb[i])
      /\ AreaOf(cl[i]) \subseteq Entry \ used_entries
      /\ \A k \in Live(cl) \ {i} : AreaOf(cl[i]) \cap AreaOf(cl[k]) = {}
  BY <1>2 DEF Settled, Live
<1>4. /\ t \in Seq(RegWrite) /\ Len(t) \in Nat
      /\ \A k \in 1 .. Len(t) : /\ t[k].table = "trtb" /\ t[k].index = i
                                /\ t[k].at \in AreaOf(cl[i])
                                /\ t[k].value = RA_TRACK_TABLE_MUTE
      /\ \A x \in AreaOf(cl[i]) : \E k \in 1 .. Len(t) : t[k].at = x
  BY <1>3, FreeWrites
<1>5. pending = t \o LastWrites(i)
  BY <1>2, <1>3 DEF ra_sd_rx_free_stream_writes, LastWrites
<1>6. Len(LastWrites(i)) = 3
  BY <1>3, LastWritesFacts
<1> HIDE DEF t
<1>7. /\ pending \in Seq(RegWrite)
      /\ Len(pending) = Len(t) + Len(LastWrites(i))
      /\ Busy = {i}
      /\ OneStream /\ WritesInOrder
      /\ DOMAIN pending = 1 .. Len(pending)
      /\ \A k \in 1 .. Len(t) : k \in DOMAIN pending /\ pending[k] = t[k]
      /\ \A k \in DOMAIN pending : /\ pending[k].index = i
                                   /\ ToTrtb(k) => k \in 1 .. Len(t)
  BY <1>3, <1>4, <1>5, QueueShape
<1>8. ASSUME NEW k \in DOMAIN pending, ToTrtb(k)
      PROVE  pending[k].at \in AreaOf(cl[i]) /\ pending[k].value = RA_TRACK_TABLE_MUTE
  <2>1. k \in 1 .. Len(t) /\ pending[k] = t[k]
    BY <1>7, <1>8
  <2> QED
    BY <1>4, <2>1
<1>9. /\ closing \in [Index -> Elem \cup {NULL}]
      /\ closing[i] = NULL
      /\ \A j \in Index \ {i} : closing[j] = cl[j]
      /\ Live(closing) = Live(cl) \ {i}
  BY <1>2, <1>3 DEF Settled, Live
<1>10. RegTypeOK
  BY <1>2, <1>7, <1>9 DEF Settled, RegTypeOK
<1>11. StreamTableFollows
  <2>1. Deleted(fpga_sttb[i], sttb[i], Len(pending))
    <3>1. fpga_sttb[i] \in SttbEntry
      BY <1>2, <1>3 DEF Settled
    <3>2. /\ fpga_sttb[i].primary = sttb[i].primary
          /\ fpga_sttb[i].secondary = sttb[i].secondary
          /\ fpga_sttb[i].num_channels = sttb[i].num_channels
          /\ fpga_sttb[i].trtp_base_addr = sttb[i].trtp_base_addr
      BY <1>3, <3>1 DEF ra_stream_table_rx_del, SttbEntry
    <3>3. ~(Len(pending) <= 1)
      BY <1>4, <1>6, <1>7
    <3> QED
      BY <3>2, <3>3 DEF Deleted
  <2>2. ASSUME NEW j \in Index, j # i, closing[j] = NULL
        PROVE  fpga_sttb[j] = sttb[j]
    BY <1>2, <1>9, <2>2 DEF Settled
  <2> QED
    BY <1>3, <1>7, <2>1, <2>2 DEF StreamTableFollows
<1>12. TrackTableFollows
  <2>1. ASSUME NEW k \in DOMAIN pending, ToTrtb(k)
        PROVE  pending[k].value = trtb[pending[k].at]
    <3>1. pending[k].at \in Entry \ used_entries
      BY <1>3, <1>8, <2>1
    <3> QED
      BY <1>8, <2>1, <3>1 DEF IInv, TrackTableRoutes
  <2>2. ASSUME NEW x \in Entry,
               \A k \in DOMAIN pending : ToTrtb(k) => pending[k].at # x,
               \A j \in Live(closing) : x \notin AreaOf(closing[j])
        PROVE  fpga_trtb[x] = trtb[x]
    <3>1. x \notin AreaOf(cl[i])
      <4>1. \A k \in 1 .. Len(t) : /\ k \in DOMAIN pending /\ pending[k] = t[k]
                                   /\ pending[k].table = "trtb"
        BY <1>4, <1>7
      <4>2. \A k \in 1 .. Len(t) : t[k].at # x
        BY <2>2, <4>1 DEF ToTrtb
      <4> QED
        BY <1>4, <4>2
    <3>2. \A j \in Live(cl) \ {i} : x \notin AreaOf(cl[j])
      BY <1>9, <2>2 DEF Live
    <3> QED
      BY <1>2, <3>1, <3>2 DEF Settled
  <2> QED
    BY <2>1, <2>2 DEF TrackTableFollows
<1>13. ClosingUntouched
  <2> SUFFICES ASSUME NEW j \in Live(cl) \ {i}
               PROVE  /\ streams[j] = NULL /\ j \notin Busy
                      /\ fpga_sttb[j] = ra_stream_table_rx_set(closing[j].stream,
                                                               closing[j].trtb_index)
                      /\ sttb[j] = ra_stream_table_rx_del(fpga_sttb[j])
                      /\ AreaOf(closing[j]) \subseteq Entry \ used_entries
                      /\ \A k \in Live(closing) \ {j} :
                           AreaOf(closing[j]) \cap AreaOf(closing[k]) = {}
    BY <1>9 DEF ClosingUntouched
  <2>1. \A k \in Live(cl) \ {i} : closing[k] = cl[k]
    BY <1>9 DEF Live
  <2>2. /\ streams[j] = NULL
        /\ fpga_sttb[j] = ra_stream_table_rx_set(cl[j].stream, cl[j].trtb_index)
        /\ sttb[j] = ra_stream_table_rx_del(fpga_sttb[j])
        /\ AreaOf(cl[j]) \subseteq Entry \ used_entries
        /\ \A k \in Live(cl) \ {j} : AreaOf(cl[j]) \cap AreaOf(cl[k]) = {}
    BY <1>2 DEF Settled
  <2>3. j \notin Busy
    BY <1>7
  <2> QED
    BY <1>9, <2>1, <2>2, <2>3
<1>14. ASSUME NEW j \in Index \ {i}
       PROVE  /\ FpgaArea(j) \cap AreaOf(cl[i]) = {}
              /\ streams[j] # NULL => AreaOf(streams[j]) \cap AreaOf(cl[i]) = {}
  <2>1. streams[j] # NULL => AreaOf(streams[j]) \cap AreaOf(cl[i]) = {}
    BY <1>3 DEF IInv, EntriesAccounted, Live
  <2>2. CASE cl[j] # NULL
    <3>1. j \in Live(cl) \ {i} /\ cl[j] \in Elem
      BY <1>2, <2>2 DEF Live, Settled
    <3>2. fpga_sttb[j] = ra_stream_table_rx_set(cl[j].stream, cl[j].trtb_index)
      BY <1>2, <3>1 DEF Settled
    <3>3. FpgaArea(j) \subseteq AreaOf(cl[j])
      <4>1. Area(fpga_sttb[j].trtp_base_addr, fpga_sttb[j].num_channels) \subseteq AreaOf(cl[j])
        BY <3>1, <3>2, EntryArea
      <4> QED
        BY <4>1 DEF FpgaArea
    <3> QED
      BY <1>3, <2>1, <3>1, <3>3
  <2>3. CASE cl[j] = NULL
    <3>1. fpga_sttb[j] = sttb[j]
      BY <1>2, <2>3 DEF Settled
    <3>2. CASE streams[j] = NULL
      BY <2>1, <3>1, <3>2 DEF IInv, StreamTableCurrent, FpgaArea, Valid
    <3>3. CASE streams[j] # NULL
      <4>1. streams[j] \in Elem
            /\ sttb[j] = ra_stream_table_rx_set(streams[j].stream, streams[j].trtb_index)
        BY <3>3 DEF IInv, TypeOK, StreamTableCurrent
      <4>2. Area(sttb[j].trtp_base_addr, sttb[j].num_channels) \subseteq AreaOf(streams[j])
        BY <4>1, EntryArea
      <4> QED
        BY <2>1, <3>1, <3>3, <4>2 DEF FpgaArea
    <3> QED
      BY <3>2, <3>3
  <2> QED
    BY <2>2, <2>3
<1>15. WritesApart
  <2> SUFFICES ASSUME NEW k \in DOMAIN pending, NEW j \in Index \ {i}, ToTrtb(k)
               PROVE  /\ pending[k].at \notin FpgaArea(j)
                      /\ pending[k].value \notin FpgaTracks(j)
                      /\ streams[j] # NULL =>
                           /\ pending[k].at \notin AreaOf(streams[j])
                           /\ pending[k].value \notin ActiveTracks(streams[j].stream)
                      /\ closing[j] # NULL => pending[k].at \notin AreaOf(closing[j])
    BY <1>7 DEF WritesApart
  <2>1. pending[k].at \in AreaOf(cl[i]) /\ pending[k].value = RA_TRACK_TABLE_MUTE
    BY <1>8
  <2>2. closing[j] # NULL => j \in Live(cl) \ {i} /\ closing[j] = cl[j]
    BY <1>9 DEF Live
  <2>3. RA_TRACK_TABLE_MUTE \notin FpgaTracks(j)
    BY DEF FpgaTracks
  <2>4. streams[j] # NULL => RA_TRACK_TABLE_MUTE \notin ActiveTracks(streams[j].stream)
    <3>1. streams[j] # NULL => ActiveTracks(streams[j].stream) \subseteq 0 .. MaxTracks - 1
      BY DEF IInv, TypeOK, TracksExclusive, Live
    <3> QED
      BY <3>1, ConstantTypes
  <2> QED
    BY <1>3, <1>14, <2>1, <2>2, <2>3, <2>4
<1> QED
  BY <1>2, <1>7, <1>10, <1>11, <1>12, <1>13, <1>15 DEF Settled, RegIInv

-----------------------------------------------------------------------------
(* The start of an add or an update.                                       *)

\* The track table writes t bring the table from what the FPGA has to what
\* stream k is to have.
TracksToWrite(k, t) ==
  /\ t \in Seq(RegWrite) /\ Len(t) \in Nat
  /\ \A m \in 1 .. Len(t) :
       /\ t[m].table = "trtb" /\ t[m].index = k
       /\ t[m].value \in ActiveTracks(streams[k].stream) \cup {RA_TRACK_TABLE_MUTE}
       /\ (\A q \in 1 .. Len(t) : q > m => t[q].at # t[m].at)
            => t[m].value = trtb[t[m].at]
  /\ \A x \in Entry : (\A m \in 1 .. Len(t) : t[m].at # x) => fpga_trtb[x] = trtb[x]

PutBegun ==
  \E k \in Live(streams) : \E t :
    /\ TracksToWrite(k, t)
    /\ pending = t \o LastWrites(k)
    /\ closing = [i \in Index |-> NULL]
    /\ fpga_trtb \in [Entry -> Track] /\ fpga_sttb \in [Index -> SttbEntry]
    /\ \A j \in Index \ {k} :
         /\ fpga_sttb[j] = sttb[j]
         /\ FpgaArea(j) \subseteq OldArea(j) /\ FpgaTracks(j) \subseteq OldTracks(j)
         /\ FpgaArea(k) \cap OldArea(j) = {} /\ FpgaTracks(k) \cap OldTracks(j) = {}
         /\ \A m \in 1 .. Len(t) : t[m].at \notin OldArea(j)

\* With the writes for the stream in slot k queued, the invariant holds.
LEMMA PutBegins == IInv /\ PutBegun => RegIInv
<1> SUFFICES ASSUME IInv, PutBegun PROVE RegIInv
  OBVIOUS
<1>1. PICK k \in Live(streams) : \E t :
    /\ TracksToWrite(k, t)
    /\ pending = t \o LastWrites(k)
    /\ closing = [i \in Index |-> NULL]
    /\ fpga_trtb \in [Entry -> Track] /\ fpga_sttb \in [Index -> SttbEntry]
    /\ \A j \in Index \ {k} :
         /\ fpga_sttb[j] = sttb[j]
         /\ FpgaArea(j) \subseteq OldArea(j) /\ FpgaTracks(j) \subseteq OldTracks(j)
         /\ FpgaArea(k) \cap OldArea(j) = {} /\ FpgaTracks(k) \cap OldTracks(j) = {}
         /\ \A m \in 1 .. Len(t) : t[m].at \notin OldArea(j)
  BY DEF PutBegun
<1>2. PICK t :
    /\ TracksToWrite(k, t)
    /\ pending = t \o LastWrites(k)
    /\ closing = [i \in Index |-> NULL]
    /\ fpga_trtb \in [Entry -> Track] /\ fpga_sttb \in [Index -> SttbEntry]
    /\ \A j \in Index \ {k} :
         /\ fpga_sttb[j] = sttb[j]
         /\ FpgaArea(j) \subseteq OldArea(j) /\ FpgaTracks(j) \subseteq OldTracks(j)
         /\ FpgaArea(k) \cap OldArea(j) = {} /\ FpgaTracks(k) \cap OldTracks(j) = {}
         /\ \A m \in 1 .. Len(t) : t[m].at \notin OldArea(j)
  BY <1>1
<1>3. k \in Index /\ streams[k] # NULL /\ streams[k] \in Elem
  BY DEF Live, IInv, TypeOK
<1>4. Len(LastWrites(k)) = 9
  BY <1>3, LastWritesFacts
<1>5. /\ t \in Seq(RegWrite) /\ Len(t) \in Nat
      /\ \A m \in 1 .. Len(t) : t[m].table = "trtb" /\ t[m].index = k
  BY <1>2 DEF TracksToWrite
<1>6. /\ pending \in Seq(RegWrite)
      /\ Len(pending) = Len(t) + Len(LastWrites(k))
      /\ Busy = {k}
      /\ OneStream /\ WritesInOrder
      /\ DOMAIN pending = 1 .. Len(pending)
      /\ \A m \in 1 .. Len(t) : m \in DOMAIN pending /\ pending[m] = t[m]
      /\ \A m \in DOMAIN pending : /\ pending[m].index = k
                                   /\ ToTrtb(m) => m \in 1 .. Len(t)
  BY <1>2, <1>3, <1>5, QueueShape
<1>7. Live(closing) = {} /\ \A j \in Index : closing[j] = NULL
  BY <1>2 DEF Live
<1>8. RegTypeOK
  BY <1>2, <1>6 DEF RegTypeOK
<1>9. StreamTableFollows
  <2>1. Rewritten(fpga_sttb[k], sttb[k], Len(pending))
    <3>1. /\ Len(pending) \notin 2 .. 7
          /\ ~(Len(pending) <= 5) /\ ~(Len(pending) <= 4)
          /\ ~(Len(pending) <= 3) /\ ~(Len(pending) <= 1)
      BY <1>4, <1>5, <1>6
    <3> QED
      BY <3>1 DEF Rewritten
  <2>2. \A j \in Index \ {k} : fpga_sttb[j] = sttb[j]
    BY <1>2
  <2> QED
    BY <1>3, <1>6, <2>1, <2>2 DEF StreamTableFollows
<1>10. TrackTableFollows
  <2>1. ASSUME NEW m \in DOMAIN pending, ToTrtb(m),
               \A q \in DOMAIN pending : q > m /\ ToTrtb(q) => pending[q].at # pending[m].at
        PROVE  pending[m].value = trtb[pending[m].at]
    <3>1. m \in 1 .. Len(t) /\ pending[m] = t[m]
      BY <1>6, <2>1
    <3>2. \A q \in 1 .. Len(t) : q > m => t[q].at # t[m].at
      BY <1>5, <1>6, <2>1, <3>1 DEF ToTrtb
    <3> QED
      BY <1>2, <3>1, <3>2 DEF TracksToWrite
  <2>2. ASSUME NEW x \in Entry, \A m \in DOMAIN pending : ToTrtb(m) => pending[m].at # x
        PROVE  fpga_trtb[x] = trtb[x]
    <3>1. \A m \in 1 .. Len(t) : t[m].at # x
      BY <1>5, <1>6, <2>2 DEF ToTrtb
    <3> QED
      BY <1>2, <3>1 DEF TracksToWrite
  <2> QED
    BY <2>1, <2>2 DEF TrackTableFollows
<1>11. ClosingUntouched
  BY <1>7 DEF ClosingUntouched
<1>12. \A j \in Index \ {k} :
         /\ FpgaArea(j) \subseteq OldArea(j) /\ FpgaTracks(j) \subseteq OldTracks(j)
         /\ FpgaArea(k) \cap OldArea(j) = {} /\ FpgaTracks(k) \cap OldTracks(j) = {}
         /\ \A m \in 1 .. Len(t) : t[m].at \notin OldArea(j)
  BY <1>2
<1>13. \A i, j \in Index : i # j => OldArea(i) \cap OldArea(j) = {}
                                   /\ OldTracks(i) \cap OldTracks(j) = {}
  BY DEF IInv, EntriesAccounted, TracksExclusive, OldArea, OldTracks, Live
<1>14. \A j \in Live(streams) : /\ OldArea(j) = AreaOf(streams[j])
                                /\ OldTracks(j) = ActiveTracks(streams[j].stream)
                                /\ j \in Index
  BY DEF OldArea, OldTracks, Live
<1>15. WritesApart
  <2> SUFFICES ASSUME NEW m \in DOMAIN pending, NEW j \in Index \ {k}, ToTrtb(m)
               PROVE  /\ pending[m].at \notin FpgaArea(j)
                      /\ pending[m].value \notin FpgaTracks(j)
                      /\ streams[j] # NULL =>
                           /\ pending[m].at \notin AreaOf(streams[j])
                           /\ pending[m].value \notin ActiveTracks(streams[j].stream)
    BY <1>6, <1>7 DEF WritesApart
  <2>1. m \in 1 .. Len(t) /\ pending[m] = t[m]
    BY <1>6
  <2>2. pending[m].value \in OldTracks(k) \cup {RA_TRACK_TABLE_MUTE}
    BY <1>2, <1>14, <2>1 DEF TracksToWrite
  <2>3. pending[m].at \notin OldArea(j)
    BY <1>12, <2>1
  <2>4. RA_TRACK_TABLE_MUTE \notin FpgaTracks(j)
    BY DEF FpgaTracks
  <2>5. RA_TRACK_TABLE_MUTE \notin OldTracks(j)
    <3>1. OldTracks(j) \subseteq 0 .. MaxTracks - 1
      BY DEF IInv, TypeOK, TracksExclusive, Live, OldTracks
    <3> QED
      BY <3>1, ConstantTypes
  <2>6. OldTracks(k) \cap OldTracks(j) = {}
    BY <1>3, <1>13
  <2>7. streams[j] # NULL => j \in Live(streams)
    BY DEF Live
  <2> QED
    BY <1>12, <1>14, <2>2, <2>3, <2>4, <2>5, <2>6, <2>7
<1>16. TracksApart
  <2> SUFFICES ASSUME NEW a \in Live(streams), NEW b \in Index, a # b
               PROVE  ActiveTracks(streams[a].stream) \cap FpgaTracks(b) = {}
    BY DEF TracksApart
  <2>1. a \in Index /\ OldTracks(a) = ActiveTracks(streams[a].stream)
    BY <1>14
  <2>2. OldTracks(a) \cap OldTracks(b) = {}
    BY <1>13, <2>1
  <2>3. CASE b = k
    BY <1>12, <2>1, <2>3
  <2>4. CASE b # k
    BY <1>12, <2>1, <2>2, <2>4
  <2> QED
    BY <2>3, <2>4
<1>17. NeverCrossRouted
  <2> SUFFICES ASSUME NEW a \in Index, NEW b \in Index, a # b
               PROVE  /\ streams[b] # NULL => FpgaArea(a) \cap AreaOf(streams[b]) = {}
                      /\ FpgaTracks(a) \cap FpgaTracks(b) = {}
    BY DEF NeverCrossRouted
  <2>1. streams[b] # NULL => AreaOf(streams[b]) = OldArea(b)
    BY DEF OldArea
  <2>2. OldArea(a) \cap OldArea(b) = {} /\ OldTracks(a) \cap OldTracks(b) = {}
    BY <1>13
  <2>3. CASE a = k
    BY <1>12, <2>1, <2>3
  <2>4. CASE a # k /\ b = k
    BY <1>12, <2>1, <2>2, <2>4
  <2>5. CASE a # k /\ b # k
    BY <1>12, <2>1, <2>2, <2>5
  <2> QED
    BY <2>3, <2>4, <2>5
<1> QED
  BY <1>6, <1>8, <1>9, <1>10, <1>11, <1>15, <1>16, <1>17 DEF RegIInv

\* ra_track_table_set routes the entries of the area.
LEMMA TrtbSetRouted ==
  ASSUME NEW e \in Elem, AreaOf(e) \subseteq Entry, NEW old, NEW x \in AreaOf(e)
  PROVE  ra_track_table_set(old, e.trtb_index, e.stream.num_channels,
                            e.stream.tracks)[x] = Routed(e, x)
<1>1. x \in Entry
  OBVIOUS
<1> QED
  BY <1>1, TrtbSetRoutes DEF Routed

\* The track table writes of a stream that keeps its area or had none.
LEMMA WritesInPlace ==
  ASSUME NEW k \in Index, NEW e \in Elem, AreaOf(e) \subseteq Entry, streams'[k] = e,
         NEW old, NEW before, trtb' = ra_track_table_set(old, e.trtb_index,
                                        e.stream.num_channels, e.stream.tracks),
         \A x \in Entry \ AreaOf(e) : old[x] = before[x], fpga_trtb' = before,
         NEW t, t = ra_track_table_set_writes(k, e)
  PROVE  TracksToWrite(k, t)' /\ \A m \in 1 .. Len(t) : t[m].at \in AreaOf(e)
<1>1. /\ t \in Seq(RegWrite) /\ Len(t) \in Nat
      /\ \A m \in 1 .. Len(t) : /\ t[m].table = "trtb" /\ t[m].index = k
                                /\ t[m].at \in AreaOf(e)
                                /\ t[m].value = trtb'[t[m].at]
                                /\ t[m].value \in ActiveTracks(e.stream)
                                                    \cup {RA_TRACK_TABLE_MUTE}
      /\ \A x \in AreaOf(e) : \E m \in 1 .. Len(t) : t[m].at = x
  <2>1. trtb' = ra_track_table_set(old, e.trtb_index, e.stream.num_channels, e.stream.tracks)
    OBVIOUS
  <2>2. /\ t \in Seq(RegWrite) /\ Len(t) \in Nat
        /\ \A m \in 1 .. Len(t) : /\ t[m].table = "trtb" /\ t[m].index = k
                                  /\ t[m].at \in AreaOf(e)
                                  /\ t[m].value = Routed(e, t[m].at)
                                  /\ t[m].value \in ActiveTracks(e.stream)
                                                      \cup {RA_TRACK_TABLE_MUTE}
        /\ \A x \in AreaOf(e) : \E m \in 1 .. Len(t) : t[m].at = x
    BY SetTrackWrites
  <2>3. \A x \in AreaOf(e) : trtb'[x] = Routed(e, x)
    <3> SUFFICES ASSUME NEW x \in AreaOf(e) PROVE trtb'[x] = Routed(e, x)
      OBVIOUS
    <3>1. ra_track_table_set(old, e.trtb_index, e.stream.num_channels,
                             e.stream.tracks)[x] = Routed(e, x)
      BY TrtbSetRouted
    <3> QED
      BY <2>1, <3>1
  <2> QED
    BY <2>2, <2>3
<1>2. \A x \in Entry \ AreaOf(e) : trtb'[x] = old[x]
  BY TrtbSetRoutes
<1>3. \A x \in Entry : (\A m \in 1 .. Len(t) : t[m].at # x) => fpga_trtb'[x] = trtb'[x]
  BY <1>1, <1>2
<1> QED
  BY <1>1, <1>3 DEF TracksToWrite

\* Those of a stream that moves: its old area is muted first, also where the new
\* one overlaps it.
LEMMA WritesMoved ==
  ASSUME NEW k \in Index, NEW e \in Elem, AreaOf(e) \subseteq Entry, streams'[k] = e,
         NEW o \in Elem, AreaOf(o) \subseteq Entry, NEW before, fpga_trtb' = before,
         trtb' = ra_track_table_set(ra_track_table_free(before, AreaOf(o)), e.trtb_index,
                                    e.stream.num_channels, e.stream.tracks),
         NEW t, t = ra_track_table_free_writes(k, o) \o ra_track_table_set_writes(k, e)
  PROVE  TracksToWrite(k, t)' /\ \A m \in 1 .. Len(t) : t[m].at \in AreaOf(o) \cup AreaOf(e)
<1> DEFINE a == ra_track_table_free_writes(k, o)
           b == ra_track_table_set_writes(k, e)
           freed == ra_track_table_free(before, AreaOf(o))
<1>1. /\ a \in Seq(RegWrite) /\ Len(a) \in Nat
      /\ \A m \in 1 .. Len(a) : /\ a[m].table = "trtb" /\ a[m].index = k
                                /\ a[m].at \in AreaOf(o)
                                /\ a[m].value = RA_TRACK_TABLE_MUTE
      /\ \A x \in AreaOf(o) : \E m \in 1 .. Len(a) : a[m].at = x
  BY FreeWrites
<1>2. /\ b \in Seq(RegWrite) /\ Len(b) \in Nat
      /\ \A m \in 1 .. Len(b) : /\ b[m].table = "trtb" /\ b[m].index = k
                                /\ b[m].at \in AreaOf(e)
                                /\ b[m].value = trtb'[b[m].at]
                                /\ b[m].value \in ActiveTracks(e.stream)
                                                    \cup {RA_TRACK_TABLE_MUTE}
      /\ \A x \in AreaOf(e) : \E m \in 1 .. Len(b) : b[m].at = x
  <2>1. trtb' = ra_track_table_set(freed, e.trtb_index, e.stream.num_channels, e.stream.tracks)
    OBVIOUS
  <2>2. /\ b \in Seq(RegWrite) /\ Len(b) \in Nat
        /\ \A m \in 1 .. Len(b) : /\ b[m].table = "trtb" /\ b[m].index = k
                                  /\ b[m].at \in AreaOf(e)
                                  /\ b[m].value = Routed(e, b[m].at)
                                  /\ b[m].value \in ActiveTracks(e.stream)
                                                      \cup {RA_TRACK_TABLE_MUTE}
        /\ \A x \in AreaOf(e) : \E m \in 1 .. Len(b) : b[m].at = x
    BY SetTrackWrites
  <2> HIDE DEF freed
  <2>3. \A x \in AreaOf(e) : trtb'[x] = Routed(e, x)
    <3> SUFFICES ASSUME NEW x \in AreaOf(e) PROVE trtb'[x] = Routed(e, x)
      OBVIOUS
    <3>1. ra_track_table_set(freed, e.trtb_index, e.stream.num_channels,
                             e.stream.tracks)[x] = Routed(e, x)
      BY TrtbSetRouted
    <3> QED
      BY <2>1, <3>1
  <2> QED
    BY <2>2, <2>3
<1>3. /\ \A x \in Entry \ AreaOf(e) : trtb'[x] = freed[x]
      /\ \A x \in Entry : freed[x] = IF x \in AreaOf(o) THEN RA_TRACK_TABLE_MUTE ELSE before[x]
  <2>1. trtb' = ra_track_table_set(freed, e.trtb_index, e.stream.num_channels, e.stream.tracks)
    OBVIOUS
  <2>2. \A x \in Entry : freed[x] = IF x \in AreaOf(o) THEN RA_TRACK_TABLE_MUTE ELSE before[x]
    BY DEF ra_track_table_free
  <2> HIDE DEF freed
  <2> QED
    BY <2>1, <2>2, TrtbSetRoutes
<1>4. t = a \o b
  OBVIOUS
<1> HIDE DEF a, b, freed
<1>5. /\ t \in Seq(RegWrite) /\ Len(t) = Len(a) + Len(b)
      /\ \A m \in 1 .. Len(a) + Len(b) : t[m] = IF m <= Len(a) THEN a[m] ELSE b[m - Len(a)]
  <2>1. a \in Seq(RegWrite) /\ b \in Seq(RegWrite)
    BY <1>1, <1>2
  <2>2. /\ (a \o b) \in Seq(RegWrite) /\ Len(a \o b) = Len(a) + Len(b)
        /\ \A m \in 1 .. Len(a) + Len(b) :
             (a \o b)[m] = IF m <= Len(a) THEN a[m] ELSE b[m - Len(a)]
    BY <2>1, ConcatProperties
  <2> QED
    BY <1>4, <2>2
<1>6. ASSUME NEW m \in 1 .. Len(t)
      PROVE  \/ m \in 1 .. Len(a) /\ t[m] = a[m]
             \/ m - Len(a) \in 1 .. Len(b) /\ t[m] = b[m - Len(a)]
  <2>1. m \in Nat /\ 1 <= m /\ m <= Len(a) + Len(b)
    BY <1>1, <1>2, <1>5
  <2> QED
    BY <1>1, <1>2, <1>5, <2>1
<1>7. /\ \A m \in 1 .. Len(a) : m \in 1 .. Len(t) /\ t[m] = a[m]
      /\ \A m \in 1 .. Len(b) : /\ m + Len(a) \in 1 .. Len(t) /\ t[m + Len(a)] = b[m]
                                /\ \A q \in 1 .. Len(a) : m + Len(a) > q
  <2>1. ASSUME NEW m \in 1 .. Len(a) PROVE m \in 1 .. Len(t) /\ t[m] = a[m]
    BY <1>1, <1>2, <1>5
  <2>2. ASSUME NEW m \in 1 .. Len(b)
        PROVE  /\ m + Len(a) \in 1 .. Len(t) /\ t[m + Len(a)] = b[m]
               /\ \A q \in 1 .. Len(a) : m + Len(a) > q
    <3>1. /\ m + Len(a) \in 1 .. Len(a) + Len(b) /\ ~(m + Len(a) <= Len(a))
          /\ (m + Len(a)) - Len(a) = m /\ \A q \in 1 .. Len(a) : m + Len(a) > q
      BY <1>1, <1>2
    <3>2. t[m + Len(a)] = b[(m + Len(a)) - Len(a)]
      BY <1>5, <3>1
    <3> QED
      BY <1>5, <3>1, <3>2
  <2> QED
    BY <2>1, <2>2
<1>8. \A x \in AreaOf(o) \cup AreaOf(e) : \E m \in 1 .. Len(t) : t[m].at = x
  <2> TAKE x \in AreaOf(o) \cup AreaOf(e)
  <2>1. CASE x \in AreaOf(o)
    BY <1>1, <1>7, <2>1
  <2>2. CASE x \in AreaOf(e)
    <3>1. PICK m \in 1 .. Len(b) : b[m].at = x
      BY <1>2, <2>2
    <3> QED
      BY <1>7, <3>1
  <2> QED
    BY <2>1, <2>2
<1>9. ASSUME NEW m \in 1 .. Len(t)
      PROVE  /\ t[m].table = "trtb" /\ t[m].index = k
             /\ t[m].at \in AreaOf(o) \cup AreaOf(e)
             /\ t[m].value \in ActiveTracks(e.stream) \cup {RA_TRACK_TABLE_MUTE}
             /\ (\A q \in 1 .. Len(t) : q > m => t[q].at # t[m].at)
                  => t[m].value = trtb'[t[m].at]
  <2>1. CASE m \in 1 .. Len(a) /\ t[m] = a[m]
    <3>1. /\ t[m].table = "trtb" /\ t[m].index = k /\ t[m].at \in AreaOf(o)
          /\ t[m].value = RA_TRACK_TABLE_MUTE
      BY <1>1, <2>1
    <3>2. ASSUME \A q \in 1 .. Len(t) : q > m => t[q].at # t[m].at
          PROVE  t[m].at \notin AreaOf(e)
      <4> SUFFICES ASSUME t[m].at \in AreaOf(e) PROVE FALSE
        OBVIOUS
      <4>1. PICK p \in 1 .. Len(b) : b[p].at = t[m].at
        BY <1>2
      <4>2. p + Len(a) \in 1 .. Len(t) /\ t[p + Len(a)] = b[p] /\ p + Len(a) > m
        BY <1>7, <2>1
      <4> QED
        BY <3>2, <4>1, <4>2
    <3>3. t[m].at \notin AreaOf(e) => trtb'[t[m].at] = RA_TRACK_TABLE_MUTE
      BY <1>3, <3>1
    <3> QED
      BY <3>1, <3>2, <3>3
  <2>2. CASE m - Len(a) \in 1 .. Len(b) /\ t[m] = b[m - Len(a)]
    BY <1>2, <2>2
  <2> QED
    BY <1>6, <2>1, <2>2
<1>10. \A x \in Entry : (\A m \in 1 .. Len(t) : t[m].at # x) => fpga_trtb'[x] = trtb'[x]
  BY <1>3, <1>8
<1>11. Len(t) \in Nat
  BY <1>1, <1>2, <1>5
<1>12. TracksToWrite(k, t)'
  <2>1. streams'[k].stream = e.stream
    OBVIOUS
  <2>2. \A m \in 1 .. Len(t) :
          /\ t[m].table = "trtb" /\ t[m].index = k
          /\ t[m].value \in ActiveTracks(streams'[k].stream) \cup {RA_TRACK_TABLE_MUTE}
          /\ (\A q \in 1 .. Len(t) : q > m => t[q].at # t[m].at)
               => t[m].value = trtb'[t[m].at]
    BY <1>9, <2>1
  <2> QED
    BY <1>5, <1>10, <1>11, <2>2 DEF TracksToWrite
<1> QED
  BY <1>9, <1>12

\* Putting a stream into slot k starts with the invariant intact.
LEMMA ReplaceStarts ==
  ASSUME RegIInv, MutexFree, IInv', NEW k \in Index, NEW e \in Elem, Replaces(k, e),
         UNCHANGED <<fpga, closing>>, NEW t, TracksToWrite(k, t)',
         \A m \in 1 .. Len(t) : t[m].at \in OldArea(k) \cup AreaOf(e),
         pending' = t \o ra_stream_table_rx_set_writes(k, e)
  PROVE  RegIInv'
<1>1. /\ fpga_trtb = trtb /\ fpga_sttb = sttb
      /\ fpga_trtb' = fpga_trtb /\ fpga_sttb' = fpga_sttb /\ closing' = closing
      /\ \A j \in Index : FpgaArea(j) \subseteq OldArea(j) /\ FpgaTracks(j) \subseteq OldTracks(j)
  BY FreeServes DEF fpga
<1>2. /\ streams'[k] = e /\ e # NULL
      /\ \A j \in Index \ {k} : streams'[j] = streams[j]
      /\ k \in Live(streams')
      /\ \A j \in Index \ {k} : sttb'[j] = sttb[j]
  BY ElemNotNull DEF Replaces, RegIInv, IInv, TypeOK, Live
<1>3. LastWrites(k)' = ra_stream_table_rx_set_writes(k, e)
  BY <1>2 DEF LastWrites, ra_stream_table_rx_set_writes
<1>4. closing' = [i \in Index |-> NULL]
  BY <1>1 DEF MutexFree, Live, RegIInv, RegTypeOK
<1>5. fpga_trtb' \in [Entry -> Track] /\ fpga_sttb' \in [Index -> SttbEntry]
  BY <1>1 DEF RegIInv, RegTypeOK
<1>6. \A j \in Index : FpgaArea(j)' = FpgaArea(j) /\ FpgaTracks(j)' = FpgaTracks(j)
  BY <1>1 DEF FpgaArea, FpgaTracks
<1>7. ASSUME NEW j \in Index \ {k}
      PROVE  /\ fpga_sttb'[j] = sttb'[j]
             /\ FpgaArea(j)' \subseteq OldArea(j)' /\ FpgaTracks(j)' \subseteq OldTracks(j)'
             /\ FpgaArea(k)' \cap OldArea(j)' = {} /\ FpgaTracks(k)' \cap OldTracks(j)' = {}
             /\ \A m \in 1 .. Len(t) : t[m].at \notin OldArea(j)'
  <2>1. OldArea(j)' = OldArea(j) /\ OldTracks(j)' = OldTracks(j)
    BY <1>2 DEF OldArea, OldTracks
  <2>2. OldArea(j) \cap OldArea(k) = {} /\ OldTracks(j) \cap OldTracks(k) = {}
    BY DEF RegIInv, IInv, EntriesAccounted, TracksExclusive, OldArea, OldTracks, Live
  <2>3. OldArea(j) \cap AreaOf(e) = {}
    <3>1. OldArea(j) \subseteq used_entries \ OldArea(k)
      BY OthersKeepTheirs DEF RegIInv, OldArea, Live
    <3> QED
      BY <3>1 DEF Replaces
  <2> QED
    BY <1>1, <1>2, <1>6, <2>1, <2>2, <2>3
<1>8. PutBegun'
  BY <1>2, <1>3, <1>4, <1>5, <1>7 DEF PutBegun
<1>9. IInv' /\ PutBegun' => RegIInv'
  BY PutBegins, PTL
<1> QED
  BY <1>8, <1>9

\* Every step of the ioctls and of the register writes is one of RxStreams or
\* leaves its state alone, so its invariant carries over.
LEMMA RegNextIInv == IInv /\ [RegNext]_regVars => IInv'
<1> SUFFICES ASSUME IInv, [RegNext]_regVars PROVE IInv'
  OBVIOUS
<1>1. [Next]_vars
  BY DEF RegNext, regVars, Write, FreeNext, RegOpen, RegAdd, RegUpdate, RegDelete, RegRelease,
         Next, ra_sd_rx_add_stream_ioctl, ra_sd_rx_update_stream_ioctl,
         ra_sd_rx_delete_stream_ioctl
<1> QED
  BY <1>1, NextIInv

\* A step that leaves the streams, the tables and the queue alone preserves the
\* invariant.
LEMMA NothingMoves ==
  ASSUME RegIInv, IInv', UNCHANGED <<streams, used_entries, trtb, sttb>>,
         UNCHANGED <<fpga, pending, closing>>
  PROVE  RegIInv'
<1>1. /\ streams' = streams /\ used_entries' = used_entries /\ trtb' = trtb /\ sttb' = sttb
      /\ fpga_trtb' = fpga_trtb /\ fpga_sttb' = fpga_sttb
      /\ pending' = pending /\ closing' = closing
  BY DEF fpga
<1>2. RegTypeOK' /\ OneStream'
  BY <1>1 DEF RegIInv, RegTypeOK, OneStream
<1>3. WritesInOrder'
  <2>1. \A i : LastWrites(i)' = LastWrites(i)
    BY <1>1 DEF LastWrites, ra_stream_table_rx_set_writes
  <2> QED
    BY <1>1, <2>1 DEF RegIInv, WritesInOrder, ToTrtb
<1>4. StreamTableFollows' /\ TrackTableFollows'
  BY <1>1 DEF RegIInv, StreamTableFollows, TrackTableFollows, Busy, ToTrtb
<1>5. ClosingUntouched'
  <2>1. ClosingUntouched
    BY DEF RegIInv
  <2>2. Busy' = Busy
    BY <1>1 DEF Busy
  <2> QED
    BY <1>1, <2>1, <2>2 DEF ClosingUntouched
<1>6. \A j : FpgaArea(j)' = FpgaArea(j) /\ FpgaTracks(j)' = FpgaTracks(j)
  BY <1>1 DEF FpgaArea, FpgaTracks
<1>7. WritesApart'
  BY <1>1, <1>6 DEF RegIInv, WritesApart, ToTrtb
<1>8. TracksApart' /\ NeverCrossRouted'
  BY <1>1, <1>6 DEF RegIInv, TracksApart, NeverCrossRouted
<1> QED
  BY <1>2, <1>3, <1>4, <1>5, <1>7, <1>8 DEF RegIInv

\* RA_SD_ADD_RX_STREAM.
LEMMA RegAddPreserves ==
  ASSUME RegIInv, IInv', NEW f \in File, NEW s \in Input, RegAdd(f, s)
  PROVE  RegIInv'
<1>1. CASE AddRefused(f, s) /\ Starts(<<>>)
  <2>1. UNCHANGED <<streams, used_entries, trtb, sttb>>
    BY <1>1 DEF AddRefused, rxState
  <2>2. UNCHANGED <<fpga, pending, closing>>
    BY <1>1 DEF Starts, MutexFree
  <2> QED
    BY <2>1, <2>2, NothingMoves
<1>2. CASE Add(f, s) /\ Starts(PutWrites(last'.ret))
  <2>1. PICK k \in Index, e \in Elem :
          /\ Replaces(k, e) /\ e.filp = f /\ OldArea(k) = {} /\ Returns(f, k)
    BY <1>2, AddReplaces DEF RegIInv
  <2>2. last'.ret = k
    BY <2>1 DEF Returns
  <2>3. /\ streams'[k] = e /\ AreaOf(e) \subseteq Entry
        /\ trtb' = ra_track_table_set(ra_track_table_free(trtb, {}), e.trtb_index,
                     e.stream.num_channels, e.stream.tracks)
    BY <2>1 DEF Replaces, RegIInv, IInv, TypeOK
  <2>4. /\ MutexFree /\ UNCHANGED <<fpga, closing>>
        /\ pending' = ra_track_table_set_writes(k, e) \o ra_stream_table_rx_set_writes(k, e)
    BY <1>2, <2>2, <2>3 DEF Starts, PutWrites
  <2>5. PICK before : before = trtb
    OBVIOUS
  <2>6. PICK old : old = ra_track_table_free(trtb, {})
    OBVIOUS
  <2>7. \A x \in Entry \ AreaOf(e) : old[x] = before[x]
    BY <2>5, <2>6 DEF ra_track_table_free
  <2>8. fpga_trtb' = before
    BY <2>4, <2>5, FreeServes DEF fpga
  <2>9. PICK t : t = ra_track_table_set_writes(k, e)
    OBVIOUS
  <2>10. TracksToWrite(k, t)' /\ \A m \in 1 .. Len(t) : t[m].at \in AreaOf(e)
    BY <2>3, <2>6, <2>7, <2>8, <2>9, WritesInPlace
  <2> QED
    BY <2>1, <2>4, <2>9, <2>10, ReplaceStarts
<1> QED
  BY <1>1, <1>2 DEF RegAdd

\* RA_SD_UPDATE_RX_STREAM.
LEMMA RegUpdatePreserves ==
  ASSUME RegIInv, IInv', NEW f \in File, NEW k \in CmdIndex, NEW s \in Input, RegUpdate(f, k, s)
  PROVE  RegIInv'
<1>1. CASE UpdateRefused(f, k, s) /\ Starts(<<>>)
  <2>1. UNCHANGED <<streams, used_entries, trtb, sttb>>
    BY <1>1 DEF UpdateRefused
  <2>2. UNCHANGED <<fpga, pending, closing>>
    BY <1>1 DEF Starts, MutexFree
  <2> QED
    BY <2>1, <2>2, NothingMoves
<1>2. CASE UpdateInPlace(f, k, s) /\ Starts(PutWrites(k))
  <2>1. /\ UpdateAccepted(f, k, s)
        /\ \E e \in Elem : Replaces(k, e) /\ AreaOf(e) = OldArea(k)
    BY <1>2, UpdateReplaces DEF RegIInv
  <2>2. k \in Index
    BY <2>1, AcceptedFacts DEF RegIInv
  <2>3. PICK e \in Elem : Replaces(k, e) /\ AreaOf(e) = OldArea(k)
    BY <2>1
  <2>4. PICK old : old = ra_track_table_free(trtb, OldArea(k))
    OBVIOUS
  <2>5. /\ streams'[k] = e /\ AreaOf(e) \subseteq Entry
        /\ trtb' = ra_track_table_set(old, e.trtb_index, e.stream.num_channels,
                                      e.stream.tracks)
    BY <2>2, <2>3, <2>4 DEF Replaces, RegIInv, IInv, TypeOK
  <2>6. /\ MutexFree /\ UNCHANGED <<fpga, closing>>
        /\ pending' = ra_track_table_set_writes(k, e) \o ra_stream_table_rx_set_writes(k, e)
    BY <1>2, <2>5 DEF Starts, PutWrites
  <2>7. PICK before : before = trtb
    OBVIOUS
  <2>8. \A x \in Entry \ AreaOf(e) : old[x] = before[x]
    BY <2>3, <2>4, <2>7 DEF ra_track_table_free
  <2>9. fpga_trtb' = before
    BY <2>6, <2>7, FreeServes DEF fpga
  <2>10. PICK t : t = ra_track_table_set_writes(k, e)
    OBVIOUS
  <2>11. TracksToWrite(k, t)' /\ \A m \in 1 .. Len(t) : t[m].at \in AreaOf(e)
    BY <2>2, <2>5, <2>8, <2>9, <2>10, WritesInPlace
  <2> QED
    BY <2>2, <2>3, <2>6, <2>10, <2>11, ReplaceStarts
<1>3. CASE /\ UpdateMoved(f, k, s) \/ UpdateRolledBack(f, k, s)
           /\ Starts(ra_track_table_free_writes(k, streams[k]) \o PutWrites(k))
  <2>1. /\ UpdateAccepted(f, k, s)
        /\ \E e \in Elem : Replaces(k, e)
    BY <1>3, UpdateReplaces DEF RegIInv
  <2>2. /\ k \in Index /\ streams[k] \in Elem /\ OldArea(k) = AreaOf(streams[k])
        /\ AreaOf(streams[k]) \subseteq Entry
    BY <2>1, AcceptedFacts DEF RegIInv
  <2>3. PICK e \in Elem : Replaces(k, e)
    BY <2>1
  <2>4. PICK o \in Elem : o = streams[k]
    BY <2>2
  <2>5. PICK before : before = trtb
    OBVIOUS
  <2>6. /\ streams'[k] = e /\ AreaOf(e) \subseteq Entry
        /\ trtb' = ra_track_table_set(ra_track_table_free(before, AreaOf(o)), e.trtb_index,
                                      e.stream.num_channels, e.stream.tracks)
    BY <2>2, <2>3, <2>4, <2>5 DEF Replaces, RegIInv, IInv, TypeOK
  <2>7. /\ MutexFree /\ UNCHANGED <<fpga, closing>>
        /\ pending' = ra_track_table_free_writes(k, o)
                        \o (ra_track_table_set_writes(k, e)
                              \o ra_stream_table_rx_set_writes(k, e))
    BY <1>3, <2>4, <2>6 DEF Starts, PutWrites
  <2>8. fpga_trtb' = before
    BY <2>5, <2>7, FreeServes DEF fpga
  <2>9. PICK t : t = ra_track_table_free_writes(k, o) \o ra_track_table_set_writes(k, e)
    OBVIOUS
  <2>10. /\ ra_track_table_free_writes(k, o) \in Seq(RegWrite)
         /\ ra_track_table_set_writes(k, e) \in Seq(RegWrite)
         /\ ra_stream_table_rx_set_writes(k, e) \in Seq(RegWrite)
    BY <2>2, <2>4, <2>6, FreeWrites, SetTrackWrites, SetWrites
  <2>11. pending' = t \o ra_stream_table_rx_set_writes(k, e)
    <3> DEFINE a == ra_track_table_free_writes(k, o)
               b == ra_track_table_set_writes(k, e)
               c == ra_stream_table_rx_set_writes(k, e)
    <3>1. a \in Seq(RegWrite) /\ b \in Seq(RegWrite) /\ c \in Seq(RegWrite)
      BY <2>10
    <3>2. pending' = a \o (b \o c) /\ t = a \o b
      BY <2>7, <2>9
    <3> HIDE DEF a, b, c
    <3>3. (a \o b) \o c = a \o (b \o c)
      BY <3>1, ConcatAssociative
    <3>4. pending' = t \o c
      BY <3>2, <3>3
    <3> QED
      BY <3>4 DEF c
  <2>12. /\ TracksToWrite(k, t)'
         /\ \A m \in 1 .. Len(t) : t[m].at \in AreaOf(o) \cup AreaOf(e)
    BY <2>2, <2>4, <2>6, <2>8, <2>9, WritesMoved
  <2> QED
    BY <2>2, <2>3, <2>4, <2>7, <2>11, <2>12, ReplaceStarts
<1>4. CASE /\ UpdateWarns(f, k, s)
           /\ Starts(ra_track_table_free_writes(k, streams[k]))
  <2>1. /\ streams[k].stream.num_channels = 0
        /\ UNCHANGED <<streams, used_entries, trtb, sttb>>
    BY <1>4, WarnChangesNothing DEF RegIInv
  <2>2. ra_track_table_free_writes(k, streams[k]) = <<>>
    BY <2>1 DEF ra_track_table_free_writes
  <2>3. UNCHANGED <<fpga, pending, closing>>
    BY <1>4, <2>2 DEF Starts, MutexFree
  <2> QED
    BY <2>1, <2>3, NothingMoves
<1> QED
  BY <1>1, <1>2, <1>3, <1>4 DEF RegUpdate

\* RA_SD_DELETE_RX_STREAM.
LEMMA RegDeletePreserves ==
  ASSUME RegIInv, IInv', NEW f \in File, NEW k \in CmdIndex, RegDelete(f, k)
  PROVE  RegIInv'
<1>1. CASE DeleteRefused(f, k) /\ Starts(<<>>)
  <2>1. UNCHANGED <<streams, used_entries, trtb, sttb>>
    BY <1>1 DEF DeleteRefused, rxState
  <2>2. UNCHANGED <<fpga, pending, closing>>
    BY <1>1 DEF Starts, MutexFree
  <2> QED
    BY <2>1, <2>2, NothingMoves
<1>2. CASE Delete(f, k) /\ Starts(ra_sd_rx_free_stream_writes(k, streams[k]))
  <2>1. /\ k \in Live(streams) /\ k \in Index /\ ra_sd_rx_free_stream({k})
    BY <1>2 DEF Delete, MayAccess, ra_sd_rx_stream_elem_find_by_index, Live
  <2>2. PICK cl : cl = [i \in Index |-> IF i \in {k} THEN streams[i] ELSE NULL]
    OBVIOUS
  <2>3. MutexFree /\ UNCHANGED fpga /\ closing' = closing
    BY <1>2 DEF Starts
  <2>4. Settled(cl)'
    BY <2>1, <2>2, <2>3, FreeSettles
  <2>5. cl[k] = streams[k] /\ k \in Live(cl) /\ [cl EXCEPT ![k] = NULL] = [i \in Index |-> NULL]
    BY <2>1, <2>2 DEF Live
  <2>6. closing' = [cl EXCEPT ![k] = NULL]
    BY <2>3, <2>5 DEF MutexFree, Live, RegIInv, RegTypeOK
  <2>7. pending' = ra_sd_rx_free_stream_writes(k, cl[k])'
    BY <1>2, <2>3, <2>5 DEF Starts, ra_sd_rx_free_stream_writes, fpga
  <2>8. FreeBegun'
    BY <2>4, <2>5, <2>6, <2>7 DEF FreeBegun
  <2>9. IInv' /\ FreeBegun' => RegIInv'
    BY FreeBegins, PTL
  <2> QED
    BY <2>8, <2>9
<1> QED
  BY <1>1, <1>2 DEF RegDelete

\* The invariant between two turns of the loop in release().
LEMMA SettledRegIInv == IInv /\ pending = <<>> /\ Settled(closing) => RegIInv
BY SettledIff

\* release(), and the turns of its loop.
LEMMA RegReleasePreserves ==
  ASSUME RegIInv, IInv', (\E f \in File : RegRelease(f)) \/ FreeNext
  PROVE  RegIInv'
<1>1. ASSUME NEW f \in File, RegRelease(f) PROVE RegIInv'
  <2>1. PICK S : S = {i \in Live(streams) : streams[i].filp = f}
    OBVIOUS
  <2>2. PICK cl : cl = [i \in Index |-> IF i \in S THEN streams[i] ELSE NULL]
    OBVIOUS
  <2>3. /\ MutexFree /\ UNCHANGED fpga /\ pending' = pending
        /\ ra_sd_rx_free_stream(S) /\ closing' = cl
    BY <1>1, <2>1, <2>2 DEF RegRelease, ra_sd_rx_delete_streams
  <2>4. Settled(cl)'
    BY <2>1, <2>2, <2>3, FreeSettles
  <2>5. Settled(closing)'
    BY <2>3, <2>4 DEF Settled
  <2>6. pending' = <<>>
    BY <2>3 DEF MutexFree
  <2>7. (IInv /\ pending = <<>> /\ Settled(closing))' => RegIInv'
    BY SettledRegIInv, PTL
  <2> QED
    BY <2>5, <2>6, <2>7
<1>2. ASSUME FreeNext PROVE RegIInv'
  <2>1. PICK cl : cl = closing
    OBVIOUS
  <2>2. PICK i \in Live(cl) : /\ pending' = ra_sd_rx_free_stream_writes(i, cl[i])
                              /\ closing' = [cl EXCEPT ![i] = NULL]
    BY <1>2, <2>1 DEF FreeNext
  <2>3. /\ pending = <<>> /\ streams' = streams /\ sttb' = sttb /\ trtb' = trtb
        /\ used_entries' = used_entries /\ fpga_trtb' = fpga_trtb /\ fpga_sttb' = fpga_sttb
    BY <1>2 DEF FreeNext, vars, fpga
  <2>4. Settled(cl)
    BY <2>1, <2>3, SettledIff
  <2>5. \A j : FpgaArea(j)' = FpgaArea(j) /\ FpgaTracks(j)' = FpgaTracks(j)
    BY <2>3 DEF FpgaArea, FpgaTracks
  <2>6. TracksApart' /\ NeverCrossRouted'
    BY <2>3, <2>5 DEF RegIInv, TracksApart, NeverCrossRouted
  <2>7. Settled(cl)'
    BY <2>3, <2>4, <2>6 DEF Settled
  <2>8. pending' = ra_sd_rx_free_stream_writes(i, cl[i])'
    BY <2>2, <2>3 DEF ra_sd_rx_free_stream_writes
  <2>9. FreeBegun'
    BY <2>2, <2>7, <2>8 DEF FreeBegun
  <2>10. IInv' /\ FreeBegun' => RegIInv'
    BY FreeBegins, PTL
  <2> QED
    BY <2>9, <2>10
<1> QED
  BY <1>1, <1>2

\* The tables are reset when the driver is probed.
LEMMA RegInitIInv == RegInit => RegIInv
<1> SUFFICES ASSUME RegInit PROVE RegIInv
  OBVIOUS
<1>1. IInv
  BY InitIInv DEF RegInit
<1>2. /\ Live(closing) = {} /\ Live(streams) = {}
      /\ \A j \in Index : ~Valid(sttb[j])
  BY DEF RegInit, Init, Live, Valid, ra_stream_table_rx_reset
<1>3. \A j \in Index : FpgaArea(j) = {} /\ FpgaTracks(j) = {}
  BY <1>2 DEF RegInit, FpgaArea, FpgaTracks
<1>4. TracksApart /\ NeverCrossRouted
  BY <1>2, <1>3 DEF TracksApart, NeverCrossRouted
<1>5. closing \in [Index -> Elem \cup {NULL}]
  BY DEF RegInit
<1>6. Settled(closing)
  BY <1>1, <1>2, <1>4, <1>5 DEF RegInit, Settled, IInv, TypeOK, Track
<1> QED
  BY <1>1, <1>6, SettledIff DEF RegInit

\* Every ioctl and every register write preserves the invariant.
LEMMA RegNextRegIInv == RegIInv /\ [RegNext]_regVars => RegIInv'
<1> SUFFICES ASSUME RegIInv, [RegNext]_regVars PROVE RegIInv'
  OBVIOUS
<1>1. IInv'
  BY RegNextIInv DEF RegIInv
<1>2. ASSUME NEW f \in File, RegOpen(f) PROVE RegIInv'
  <2>1. UNCHANGED <<streams, used_entries, trtb, sttb>> /\ UNCHANGED <<fpga, pending, closing>>
    BY <1>2 DEF RegOpen, Open, rxState
  <2> QED
    BY <1>1, <2>1, NothingMoves
<1>3. ASSUME UNCHANGED regVars PROVE RegIInv'
  <2>1. UNCHANGED <<streams, used_entries, trtb, sttb>> /\ UNCHANGED <<fpga, pending, closing>>
    BY <1>3 DEF regVars, vars
  <2> QED
    BY <1>1, <2>1, NothingMoves
<1> QED
  BY <1>1, <1>2, <1>3, WritePreserves, RegAddPreserves, RegUpdatePreserves, RegDeletePreserves,
     RegReleasePreserves DEF RegNext

\* The tables in the FPGA, and what is left to be written, stay in the relation
\* that RegIInv states.
THEOREM RegInvariance == RegSpec => []RegIInv
BY RegInitIInv, RegNextRegIInv, PTL DEF RegSpec

\* Once a call is through, the FPGA has the tables it aimed at.
THEOREM RegistersCatchUpAlways == RegSpec => []RegistersCatchUp
<1>1. RegIInv => RegistersCatchUp
  BY FreeServes DEF RegistersCatchUp
<1> QED
  BY <1>1, RegInvariance, PTL

\* No register write disturbs a stream that the call is not about.
THEOREM OthersUndisturbedAlways == RegSpec => []OthersUndisturbed
<1>1. RegIInv => OthersUndisturbed
  <2> SUFFICES ASSUME RegIInv, NEW i \in Live(streams) \ Busy
               PROVE  /\ fpga_sttb[i] = sttb[i]
                      /\ \A x \in AreaOf(streams[i]) : fpga_trtb[x] = trtb[x]
    BY DEF OthersUndisturbed
  <2>1. i \in Index /\ streams[i] # NULL /\ AreaOf(streams[i]) \subseteq used_entries
        /\ used_entries \subseteq Entry
    BY DEF RegIInv, IInv, TypeOK, EntriesAccounted, Live
  <2>2. closing[i] = NULL
    BY <2>1 DEF RegIInv, ClosingUntouched, Live
  <2>3. fpga_sttb[i] = sttb[i]
    BY <2>1, <2>2 DEF RegIInv, StreamTableFollows
  <2>4. ASSUME NEW x \in AreaOf(streams[i]) PROVE fpga_trtb[x] = trtb[x]
    <3>1. x \in Entry /\ x \in used_entries
      BY <2>1
    <3>2. \A j \in Live(closing) : x \notin AreaOf(closing[j])
      BY <3>1 DEF RegIInv, ClosingUntouched
    <3>3. \A k \in DOMAIN pending : ToTrtb(k) => pending[k].at # x
      BY <2>1 DEF RegIInv, WritesApart, Busy
    <3> QED
      BY <3>1, <3>2, <3>3 DEF RegIInv, TrackTableFollows
  <2> QED
    BY <2>3, <2>4
<1> QED
  BY <1>1, RegInvariance, PTL

\* Between any two register writes, the FPGA serves no entry of the track table
\* for a stream that is another's, and no track for two.
THEOREM NeverCrossRoutedAlways == RegSpec => []NeverCrossRouted
<1>1. RegIInv => NeverCrossRouted
  BY DEF RegIInv
<1> QED
  BY <1>1, RegInvariance, PTL

\* The write that makes an entry valid is the one that completes it, and comes
\* after all writes to the track table.
THEOREM ActivationIsLastAlways == RegSpec => ActivationIsLast
<1> DEFINE A == \A i \in Index :
                  ~Valid(fpga_sttb[i]) /\ Valid(fpga_sttb'[i]) =>
                    /\ fpga_sttb'[i] = sttb[i]
                    /\ \A x \in AreaOf(streams[i]) : fpga_trtb[x] = trtb[x]
<1>1. ASSUME RegIInv, [RegNext]_regVars PROVE [A]_regVars
  <2>1. CASE UNCHANGED fpga
    <3>1. fpga_sttb' = fpga_sttb
      BY <2>1 DEF fpga
    <3> QED
      BY <3>1
  <2>2. CASE Write
    <3> SUFFICES ASSUME NEW i \in Index, ~Valid(fpga_sttb[i]), Valid(fpga_sttb'[i])
                 PROVE  /\ fpga_sttb'[i] = sttb[i]
                        /\ \A x \in AreaOf(streams[i]) : fpga_trtb[x] = trtb[x]
      OBVIOUS
    <3>1. pending[1].table \in {"trtb", "sttb"}
      <4>1. pending[1] \in RegWrite
        BY <1>1, <2>2, WriteShift
      <4> QED
        BY <4>1 DEF RegWrite
    <3>2. pending[1].table # "trtb"
      BY <1>1, <2>2, TrtbWriteServes
    <3>3. pending[1].table = "sttb"
      BY <3>1, <3>2
    <3>4. PICK j : j = pending[1].index
      OBVIOUS
    <3>5. /\ \A b \in Index \ {j} : fpga_sttb'[b] = fpga_sttb[b]
          /\ \A k \in DOMAIN pending : ~ToTrtb(k)
          /\ streams[j] = NULL => (Valid(fpga_sttb'[j]) => Valid(fpga_sttb[j]))
          /\ streams[j] # NULL =>
              (~Valid(fpga_sttb[j]) /\ Valid(fpga_sttb'[j]) => fpga_sttb'[j] = sttb[j])
      BY <1>1, <2>2, <3>3, <3>4, SttbWriteStep
    <3>6. i = j /\ streams[i] # NULL /\ fpga_sttb'[i] = sttb[i]
      BY <3>5
    <3>7. i \in Live(streams)
      BY <3>6 DEF Live
    <3> QED
      BY <1>1, <3>5, <3>6, <3>7, LiveAreaWritten
  <2>3. Write \/ UNCHANGED fpga
    BY <1>1 DEF RegNext, regVars, FreeNext, RegOpen, RegAdd, RegUpdate, RegDelete, RegRelease,
                Starts
  <2> QED
    BY <2>1, <2>2, <2>3
<1> QED
  BY <1>1, RegInvariance, PTL DEF RegSpec, ActivationIsLast

=============================================================================
