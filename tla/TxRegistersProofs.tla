-------------------------- MODULE TxRegistersProofs --------------------------
(***************************************************************************)
(* TxRegisters, where the FPGA sees the calls of TxStreams one register    *)
(* write at a time.  As in RX, RegIInv says what the writes that are still *)
(* to be made will do to the tables in the FPGA.  A write takes the head   *)
(* of the queue and keeps it; an ioctl, or a turn of the loop in           *)
(* ra_sd_tx_delete_streams, finds the queue empty and fills it.            *)
(***************************************************************************)
EXTENDS TxRegisters, TxStreamsProofs, SequenceTheorems

\* The provers to try, in this order: a leaf gets more attempts than by default,
\* since one attempt can run out of time on a slow machine.
USE SMTT(10), ZenonT(20), Z3T(20), SMTT(30), Z3T(40), SMTT(60), ZenonT(40)

\* An entry of the stream table after one word of it was written.
Over(e, v, at) == [field \in DOMAIN e |-> IF field \in at THEN v[field] ELSE e[field]]

\* The words of an entry, and the fields in them.
LEMMA WordFields ==
  /\ Words[1] = {"trtp_base_addr", "codec", "misc_control"}
  /\ Words[2] = {"num_channels", "num_samples"}
  /\ Words[3] = {"ip_total_len"}
  /\ Len(Words) = 3
BY DEF Words

\* The fields of an entry are all there is to it.
LEMMA SttbFields ==
  ASSUME NEW e \in SttbEntry
  PROVE  /\ e = [trtp_base_addr |-> e.trtp_base_addr, num_channels |-> e.num_channels,
                 num_samples |-> e.num_samples, codec |-> e.codec,
                 ip_total_len |-> e.ip_total_len, misc_control |-> e.misc_control]
         /\ e.trtp_base_addr \in Nat /\ e.num_channels \in 0 .. U8 - 1
         /\ e.num_samples \in Nat /\ e.codec \in {0, 16, 24, 32, 168}
         /\ e.ip_total_len \in Nat
         /\ e.misc_control \in SUBSET {"VLD", "ACT", "PRI", "SEC"}
BY DEF SttbEntry

\* Writing a word replaces its fields and leaves the others alone.
LEMMA WordWritten ==
  ASSUME NEW e \in SttbEntry, NEW v \in SttbEntry, NEW at \in {Words[1], Words[2], Words[3]}
  PROVE  LET after == Over(e, v, at)
             one == IF at = Words[1] THEN v ELSE e
             two == IF at = Words[2] THEN v ELSE e
             three == IF at = Words[3] THEN v ELSE e
         IN /\ after \in SttbEntry
            /\ after.trtp_base_addr = one.trtp_base_addr /\ after.codec = one.codec
            /\ after.misc_control = one.misc_control
            /\ after.num_channels = two.num_channels
            /\ after.num_samples = two.num_samples
            /\ after.ip_total_len = three.ip_total_len
<1>1. DOMAIN e = {"trtp_base_addr", "num_channels", "num_samples", "codec",
                  "ip_total_len", "misc_control"}
  BY DEF SttbEntry
<1>2. /\ Words[1] # Words[2] /\ Words[2] # Words[3] /\ Words[1] # Words[3]
  BY WordFields
<1> DEFINE one == IF at = Words[1] THEN v ELSE e
           two == IF at = Words[2] THEN v ELSE e
           three == IF at = Words[3] THEN v ELSE e
<1>3. Over(e, v, at) = [trtp_base_addr |-> one.trtp_base_addr,
                        num_channels |-> two.num_channels,
                        num_samples |-> two.num_samples, codec |-> one.codec,
                        ip_total_len |-> three.ip_total_len,
                        misc_control |-> one.misc_control]
  BY <1>1, <1>2, WordFields DEF Over
<1>4. one \in SttbEntry /\ two \in SttbEntry /\ three \in SttbEntry
  OBVIOUS
<1> HIDE DEF one, two, three
<1>5. /\ one.trtp_base_addr \in Nat /\ two.num_channels \in 0 .. U8 - 1
      /\ two.num_samples \in Nat /\ one.codec \in {0, 16, 24, 32, 168}
      /\ three.ip_total_len \in Nat
      /\ one.misc_control \in SUBSET {"VLD", "ACT", "PRI", "SEC"}
  BY <1>4, SttbFields
<1>6. Over(e, v, at) \in SttbEntry
  BY <1>3, <1>5 DEF SttbEntry
<1> QED
  BY <1>3, <1>6 DEF one, two, three

\* One of the three writes that end a call: the first brings the control bits,
\* and completes an entry that was filled in before; the last completes any.
LEMMA RewriteStep ==
  ASSUME NEW now \in SttbEntry, NEW new \in SttbEntry, NEW p \in 1 .. 3,
         Rewritten(now, new, 4 - p)
  PROVE  LET after == Over(now, new, Words[p])
         IN /\ Rewritten(after, new, 3 - p)
            /\ p = 3 => after = new
            /\ p = 1 /\ FilledIn(now, new, 3) => after = new
            /\ p = 1 => after.misc_control = new.misc_control
            /\ p # 1 => after.misc_control = now.misc_control
                        /\ now.misc_control = new.misc_control
<1> DEFINE after == Over(now, new, Words[p])
<1>1. p \in {1, 2, 3}
  OBVIOUS
<1>2. /\ Words[1] # Words[2] /\ Words[2] # Words[3] /\ Words[1] # Words[3]
  BY WordFields
<1>3. /\ after \in SttbEntry
      /\ p = 1 => /\ after.trtp_base_addr = new.trtp_base_addr /\ after.codec = new.codec
                  /\ after.misc_control = new.misc_control
      /\ p # 1 => /\ after.trtp_base_addr = now.trtp_base_addr /\ after.codec = now.codec
                  /\ after.misc_control = now.misc_control
      /\ p = 2 => /\ after.num_channels = new.num_channels
                  /\ after.num_samples = new.num_samples
      /\ p # 2 => /\ after.num_channels = now.num_channels
                  /\ after.num_samples = now.num_samples
      /\ p = 3 => after.ip_total_len = new.ip_total_len
      /\ p # 3 => after.ip_total_len = now.ip_total_len
  BY <1>1, <1>2, WordWritten
<1> HIDE DEF after
<1>4. Rewritten(after, new, 3 - p)
  BY <1>1, <1>3 DEF Rewritten
<1>5. ASSUME p = 3 PROVE after = new
  BY <1>3, <1>5, SttbFields DEF Rewritten
<1>6. ASSUME p = 1, FilledIn(now, new, 3) PROVE after = new
  BY <1>3, <1>6, SttbFields DEF FilledIn
<1>7. ASSUME p # 1 PROVE now.misc_control = new.misc_control
  BY <1>1, <1>7 DEF Rewritten
<1> QED
  BY <1>3, <1>4, <1>5, <1>6, <1>7 DEF after

\* One of the three writes that fill in the entry of a new stream.
LEMMA FillStep ==
  ASSUME NEW now \in SttbEntry, NEW new \in SttbEntry, NEW fill \in SttbEntry,
         fill.trtp_base_addr = new.trtp_base_addr, fill.codec = new.codec,
         fill.num_channels = new.num_channels, fill.num_samples = new.num_samples,
         fill.ip_total_len = new.ip_total_len, ~Valid(fill), ~Valid(now),
         NEW p \in 1 .. 3, FilledIn(now, new, 7 - p)
  PROVE  LET after == Over(now, fill, Words[p])
         IN FilledIn(after, new, 6 - p) /\ ~Valid(after)
<1> DEFINE after == Over(now, fill, Words[p])
<1>1. p \in {1, 2, 3}
  OBVIOUS
<1>2. /\ Words[1] # Words[2] /\ Words[2] # Words[3] /\ Words[1] # Words[3]
  BY WordFields
<1>3. /\ p = 1 => /\ after.trtp_base_addr = new.trtp_base_addr /\ after.codec = new.codec
                  /\ after.misc_control = fill.misc_control
      /\ p # 1 => /\ after.trtp_base_addr = now.trtp_base_addr /\ after.codec = now.codec
                  /\ after.misc_control = now.misc_control
      /\ p = 2 => /\ after.num_channels = new.num_channels
                  /\ after.num_samples = new.num_samples
      /\ p # 2 => /\ after.num_channels = now.num_channels
                  /\ after.num_samples = now.num_samples
      /\ p = 3 => after.ip_total_len = new.ip_total_len
  BY <1>1, <1>2, WordWritten
<1> HIDE DEF after
<1>4. FilledIn(after, new, 6 - p)
  BY <1>1, <1>3 DEF FilledIn
<1>5. ~Valid(after)
  BY <1>3 DEF Valid
<1> QED
  BY <1>4, <1>5 DEF after

-----------------------------------------------------------------------------
(* The sequences of writes.                                                *)

\* A write of a word of the stream table.
SttbWrite(i, at, v) == [table |-> "sttb", index |-> i, at |-> at, value |-> v]

\* One pass over an entry is three writes.
LEMMA StreamWrite ==
  ASSUME NEW i, NEW v
  PROVE  /\ Len(stream_write(i, v, Words)) = 3
         /\ \A p \in 1 .. 3 : stream_write(i, v, Words)[p] = SttbWrite(i, Words[p], v)
         /\ i \in Index /\ v \in SttbEntry => stream_write(i, v, Words) \in Seq(RegWrite)
<1> DEFINE s == stream_write(i, v, Words)
<1>1. s = [p \in 1 .. 3 |-> SttbWrite(i, Words[p], v)]
  BY WordFields DEF stream_write, SttbWrite
<1>2. ASSUME i \in Index, v \in SttbEntry
      PROVE  s \in Seq(RegWrite)
  <2>1. ASSUME NEW p \in 1 .. 3
        PROVE  SttbWrite(i, Words[p], v) \in RegWrite
    <3>1. p \in {1, 2, 3}
      OBVIOUS
    <3> QED
      BY <1>2, <3>1 DEF SttbWrite, RegWrite
  <2>2. s \in [1 .. 3 -> RegWrite]
    BY <1>1, <2>1
  <2> HIDE DEF s
  <2> QED
    BY <2>2, SeqDef
<1> HIDE DEF s
<1>3. Len(s) = 3
  BY <1>1
<1>4. \A p \in 1 .. 3 : s[p] = SttbWrite(i, Words[p], v)
  BY <1>1
<1> QED
  BY <1>2, <1>3, <1>4 DEF s

\* The entry of a validated stream before it is activated.
LEMMA FillFacts ==
  ASSUME NEW e \in Elem
  PROVE  LET fill == Filled(e)
             new == EntryOf(e)
         IN /\ fill \in SttbEntry /\ new \in SttbEntry
            /\ fill.trtp_base_addr = new.trtp_base_addr /\ fill.codec = new.codec
            /\ fill.num_channels = new.num_channels
            /\ fill.num_samples = new.num_samples
            /\ fill.ip_total_len = new.ip_total_len
            /\ ~Valid(fill) /\ Valid(new)
<1> DEFINE fill == Filled(e)
           new == EntryOf(e)
           mc == fill.misc_control
<1>1. new \in SttbEntry
  BY EntryType
<1>2. /\ fill = [trtp_base_addr |-> fill.trtp_base_addr, num_channels |-> fill.num_channels,
                 num_samples |-> fill.num_samples, codec |-> fill.codec,
                 ip_total_len |-> fill.ip_total_len, misc_control |-> fill.misc_control]
      /\ fill.misc_control \subseteq {"ACT", "PRI", "SEC"}
  BY DEF Filled, ra_stream_table_tx_fill
<1>3. new = [fill EXCEPT !.misc_control = @ \cup {"VLD"}]
  BY DEF Filled, EntryOf, ra_stream_table_tx_set
<1> HIDE DEF fill, new
<1>4. /\ fill.trtp_base_addr = new.trtp_base_addr /\ fill.codec = new.codec
      /\ fill.num_channels = new.num_channels
      /\ fill.num_samples = new.num_samples
      /\ fill.ip_total_len = new.ip_total_len
      /\ new.misc_control = fill.misc_control \cup {"VLD"}
  BY <1>2, <1>3
<1>5. ~Valid(fill) /\ Valid(new)
  BY <1>2, <1>4 DEF Valid
<1>6. fill \in SttbEntry
  <2>1. /\ new.trtp_base_addr \in Nat /\ new.num_channels \in 0 .. U8 - 1
        /\ new.num_samples \in Nat /\ new.codec \in {0, 16, 24, 32, 168}
        /\ new.ip_total_len \in Nat
    BY <1>1, SttbFields
  <2> QED
    BY <1>2, <1>4, <2>1 DEF SttbEntry
<1> QED
  BY <1>1, <1>4, <1>5, <1>6 DEF fill, new

\* What is to be in the stream table for a slot of the xarray.
LEMMA EntryFacts ==
  ASSUME IInv, NEW i \in Index
  PROVE  /\ sttb[i] \in SttbEntry
         /\ streams[i] = NULL => ~Valid(sttb[i]) /\ sttb[i] = ra_stream_table_tx_del
         /\ streams[i] # NULL => /\ streams[i] \in Elem
                                 /\ sttb[i] = EntryOf(streams[i])
                                 /\ Valid(sttb[i])
<1>1. sttb[i] \in SttbEntry
  BY DEF IInv, TypeOK
<1>2. CASE streams[i] = NULL
  BY <1>1, <1>2 DEF IInv, StreamTableCurrent, Valid, ra_stream_table_tx_del
<1>3. CASE streams[i] # NULL
  <2>1. streams[i] \in Elem /\ sttb[i] = EntryOf(streams[i])
    BY <1>3 DEF IInv, TypeOK, StreamTableCurrent, EntryOf
  <2> QED
    BY <1>1, <1>3, <2>1, FillFacts
<1> QED
  BY <1>2, <1>3

\* A live stream's entries of the track table are right when no write to the
\* table is left.
LEMMA LiveAreaWritten ==
  ASSUME RegIInv, NEW i \in Live(streams), \A k \in DOMAIN pending : ~ToTrtb(k)
  PROVE  \A x \in AreaOf(streams[i]) : x \in Entry /\ fpga_trtb[x] = trtb[x]
<1>1. AreaOf(streams[i]) \subseteq used_entries
  BY DEF RegIInv, IInv, TypeOK, EntriesAccounted, Live
<1> SUFFICES ASSUME NEW x \in AreaOf(streams[i])
             PROVE  x \in Entry /\ fpga_trtb[x] = trtb[x]
  OBVIOUS
<1>2. x \in Entry /\ x \in used_entries
  BY <1>1 DEF RegIInv, IInv, TypeOK
<1>3. \A j \in Live(closing) : x \notin AreaOf(closing[j])
  BY <1>2 DEF RegIInv, ClosingUntouched
<1> QED
  BY <1>2, <1>3 DEF RegIInv, TrackTableFollows

-----------------------------------------------------------------------------
(* One register write.                                                     *)

\* What a write is, by the number of writes that are left with it.
LEMMA WriteAt ==
  ASSUME RegIInv, NEW k \in DOMAIN pending, NEW i, i = pending[k].index
  PROVE  LET left == Len(pending) - k + 1
         IN /\ left <= 3 => pending[k] = SttbWrite(i, Words[4 - left], sttb[i])
            /\ left > 3 /\ left <= 6 /\ Activating(i) =>
                 pending[k] = SttbWrite(i, Words[7 - left], Filled(streams[i]))
            /\ left > 6 => ToTrtb(k)
            /\ left > 3 /\ ~Activating(i) => ToTrtb(k)
<1> DEFINE left == Len(pending) - k + 1
<1>1. Len(pending) \in Nat /\ k \in 1 .. Len(pending)
  BY DEF RegIInv, RegTypeOK
<1>2. left \in Nat /\ left >= 1
  BY <1>1
<1> HIDE DEF left
<1>3. IF left <= 3 THEN pending[k] = stream_write(i, sttb[i], Words)[4 - left]
      ELSE IF left <= 6 /\ Activating(i)
        THEN pending[k] = stream_write(i, Filled(streams[i]), Words)[7 - left]
      ELSE ToTrtb(k)
  BY DEF RegIInv, WritesInOrder, left
<1>4. ASSUME left <= 3 PROVE pending[k] = SttbWrite(i, Words[4 - left], sttb[i])
  <2>1. 4 - left \in 1 .. 3
    BY <1>2, <1>4
  <2> QED
    BY <1>3, <1>4, <2>1, StreamWrite
<1>5. ASSUME left > 3, left <= 6, Activating(i)
      PROVE  pending[k] = SttbWrite(i, Words[7 - left], Filled(streams[i]))
  <2>1. 7 - left \in 1 .. 3 /\ ~(left <= 3)
    BY <1>2, <1>5
  <2> QED
    BY <1>3, <1>5, <2>1, StreamWrite
<1>6. ASSUME left > 6 PROVE ToTrtb(k)
  BY <1>2, <1>3, <1>6
<1>7. ASSUME left > 3, ~Activating(i) PROVE ToTrtb(k)
  BY <1>2, <1>3, <1>7
<1> QED
  BY <1>4, <1>5, <1>6, <1>7 DEF left

\* The writes that are left after one, and where the one belongs.
LEMMA WriteShift ==
  ASSUME RegIInv, Write
  PROVE  /\ pending[1] \in RegWrite /\ Head(pending) = pending[1]
         /\ Len(pending) \in Nat \ {0} /\ DOMAIN pending = 1 .. Len(pending)
         /\ pending' \in Seq(RegWrite)
         /\ Len(pending') = Len(pending) - 1
         /\ DOMAIN pending' = 1 .. Len(pending) - 1
         /\ \A k \in DOMAIN pending' : k + 1 \in DOMAIN pending /\ pending'[k] = pending[k + 1]
         /\ \A k \in DOMAIN pending : pending[k].index = pending[1].index
         /\ Busy = {pending[1].index}
         /\ Busy' \subseteq Busy
         /\ Len(pending) > 1 => Busy' = Busy
         /\ Len(pending) = 1 => Busy' = {}
<1>1. pending \in Seq(RegWrite) /\ pending # <<>> /\ pending' = Tail(pending)
  BY DEF RegIInv, RegTypeOK, Write
<1>2. Len(pending) \in Nat \ {0} /\ DOMAIN pending = 1 .. Len(pending)
  BY <1>1, EmptySeq, LenProperties
<1>3. 1 \in DOMAIN pending /\ pending[1] \in RegWrite
  BY <1>1, <1>2, ElementOfSeq
<1>4. Head(pending) = pending[1]
  BY <1>1
<1>5. /\ pending' \in Seq(RegWrite) /\ Len(pending') = Len(pending) - 1
      /\ \A k \in 1 .. Len(pending') : pending'[k] = pending[k + 1]
  BY <1>1, HeadTailProperties
<1>6. DOMAIN pending' = 1 .. Len(pending) - 1
  BY <1>5, LenProperties
<1>7. \A k \in DOMAIN pending' : k + 1 \in DOMAIN pending /\ pending'[k] = pending[k + 1]
  BY <1>2, <1>5, <1>6
<1>8. \A k \in DOMAIN pending : pending[k].index = pending[1].index
  BY <1>3 DEF RegIInv, OneStream
<1>9. Busy = {pending[1].index}
  BY <1>3, <1>8 DEF Busy
<1>10. \A k \in DOMAIN pending' : pending'[k].index = pending[1].index
  BY <1>7, <1>8
<1>11. Busy' \subseteq Busy
  BY <1>9, <1>10 DEF Busy
<1>12. Len(pending) > 1 => Busy' = Busy
  <2>1. Len(pending) > 1 => 1 \in DOMAIN pending'
    BY <1>2, <1>6
  <2> QED
    BY <2>1, <1>9, <1>10 DEF Busy
<1>13. Len(pending) = 1 => Busy' = {}
  BY <1>2, <1>6 DEF Busy
<1> QED
  BY <1>2, <1>3, <1>4, <1>5, <1>6, <1>7, <1>8, <1>9, <1>11, <1>12, <1>13


\* Where the head of the queue belongs: it goes to the track table until only the
\* writes to the stream table are left.
LEMMA HeadWrite ==
  ASSUME RegIInv, Write, NEW i, i = pending[1].index
  PROVE  LET w == pending[1]
             l == Len(pending)
         IN /\ i \in Index
            /\ l <= 3 => w.table = "sttb" /\ w.at = Words[4 - l] /\ w.value = sttb[i]
            /\ l > 3 /\ l <= 6 /\ Activating(i) =>
                 w.table = "sttb" /\ w.at = Words[7 - l] /\ w.value = Filled(streams[i])
            /\ w.table = "sttb" => /\ l <= 6
                                   /\ l > 3 => Activating(i)
                                   /\ \A k \in DOMAIN pending : ~ToTrtb(k)
            /\ w.table = "trtb" => l > 3 /\ w.at \in Entry /\ w.value \in Track
<1> DEFINE w == pending[1]
           l == Len(pending)
<1>1. /\ w \in RegWrite /\ l \in Nat \ {0} /\ DOMAIN pending = 1 .. l
      /\ \A k \in DOMAIN pending : pending[k].index = i
  BY WriteShift
<1>2. i \in Index
  BY <1>1 DEF RegWrite
<1>3. \A at, v : /\ SttbWrite(i, at, v).table = "sttb"
                 /\ SttbWrite(i, at, v).at = at /\ SttbWrite(i, at, v).value = v
  BY DEF SttbWrite
<1>4. 1 \in DOMAIN pending /\ l - 1 + 1 = l
  BY <1>1
<1>5. /\ l <= 3 => w = SttbWrite(i, Words[4 - l], sttb[i])
      /\ l > 3 /\ l <= 6 /\ Activating(i) => w = SttbWrite(i, Words[7 - l], Filled(streams[i]))
      /\ l > 6 => w.table = "trtb"
      /\ l > 3 /\ ~Activating(i) => w.table = "trtb"
  BY <1>4, WriteAt DEF ToTrtb
<1>6. w.table = "sttb" => l <= 6 /\ (l > 3 => Activating(i))
  BY <1>1, <1>5
<1>7. ASSUME w.table = "sttb", NEW k \in DOMAIN pending
      PROVE  ~ToTrtb(k)
  <2> DEFINE left == l - k + 1
  <2>1. left \in Nat /\ left <= l
    BY <1>1, <1>7
  <2>2. pending[k].index = i
    BY <1>1, <1>7
  <2>3. /\ left <= 3 => pending[k] = SttbWrite(i, Words[4 - left], sttb[i])
        /\ left > 3 /\ left <= 6 /\ Activating(i) =>
             pending[k] = SttbWrite(i, Words[7 - left], Filled(streams[i]))
    BY <1>7, <2>2, WriteAt
  <2> HIDE DEF left, l, w
  <2>4. left <= 3 \/ (left > 3 /\ left <= 6 /\ Activating(i))
    BY <1>1, <1>6, <1>7, <2>1
  <2>5. pending[k].table = "sttb"
    BY <1>3, <2>3, <2>4
  <2> QED
    BY <2>5 DEF ToTrtb
<1>8. ASSUME w.table = "trtb" PROVE l > 3 /\ w.at \in Entry /\ w.value \in Track
  <2>1. ~(l <= 3)
    BY <1>3, <1>5, <1>8
  <2>2. l > 3
    BY <1>1, <2>1
  <2> QED
    BY <1>1, <1>8, <2>2 DEF RegWrite
<1> HIDE DEF l, w
<1>9. /\ l <= 3 => w.table = "sttb" /\ w.at = Words[4 - l] /\ w.value = sttb[i]
      /\ l > 3 /\ l <= 6 /\ Activating(i) =>
           w.table = "sttb" /\ w.at = Words[7 - l] /\ w.value = Filled(streams[i])
  BY <1>3, <1>5
<1> QED
  BY <1>2, <1>6, <1>7, <1>8, <1>9 DEF l, w

\* The writes that are left are in order, if the write in between starts no
\* stream before the last three.
LEMMA WriteOrder ==
  ASSUME RegIInv, Write, NEW i, i = pending[1].index,
         Len(pending) > 3 => Valid(fpga_sttb'[i]) = Valid(fpga_sttb[i])
  PROVE  OneStream' /\ WritesInOrder'
<1>1. OneStream'
  BY WriteShift DEF OneStream
<1>2. streams' = streams /\ sttb' = sttb
  BY DEF Write, vars
<1>3. ASSUME NEW k \in DOMAIN pending'
      PROVE  LET left == Len(pending') - k + 1
             IN /\ pending'[k].index = i
                /\ IF left <= 3 THEN pending'[k] = stream_write(i, sttb[i], Words)[4 - left]
                   ELSE IF left <= 6 /\ streams[i] # NULL /\ ~Valid(fpga_sttb'[i])
                     THEN pending'[k] = stream_write(i, Filled(streams[i]), Words)[7 - left]
                   ELSE pending'[k].table = "trtb"
  <2>1. /\ Len(pending) \in Nat \ {0} /\ Len(pending') = Len(pending) - 1
        /\ k \in 1 .. Len(pending) - 1
        /\ k + 1 \in DOMAIN pending /\ pending'[k] = pending[k + 1]
        /\ pending[k + 1].index = i
    BY WriteShift
  <2> DEFINE left == Len(pending') - k + 1
             before == Len(pending) - (k + 1) + 1
  <2>2. before = left /\ left \in Nat /\ left <= Len(pending)
    BY <2>1
  <2>3. IF before <= 3 THEN pending[k + 1] = stream_write(i, sttb[i], Words)[4 - before]
        ELSE IF before <= 6 /\ Activating(i)
          THEN pending[k + 1] = stream_write(i, Filled(streams[i]), Words)[7 - before]
        ELSE ToTrtb(k + 1)
    BY <2>1 DEF RegIInv, WritesInOrder
  <2> HIDE DEF before, left
  <2>4. ~(left <= 3) => Valid(fpga_sttb'[i]) = Valid(fpga_sttb[i])
    BY <2>1, <2>2
  <2>5. IF left <= 3 THEN pending'[k] = stream_write(i, sttb[i], Words)[4 - left]
        ELSE IF left <= 6 /\ streams[i] # NULL /\ ~Valid(fpga_sttb'[i])
          THEN pending'[k] = stream_write(i, Filled(streams[i]), Words)[7 - left]
        ELSE pending'[k].table = "trtb"
    BY <2>1, <2>2, <2>3, <2>4 DEF ToTrtb, Activating
  <2> QED
    BY <2>1, <2>5 DEF left
<1>4. WritesInOrder'
  BY <1>2, <1>3 DEF WritesInOrder, ToTrtb, Activating
<1> QED
  BY <1>1, <1>4

\* A write to the track table preserves the invariant.
LEMMA TrtbWritePreserves ==
  ASSUME RegIInv, Write, IInv', pending[1].table = "trtb"
  PROVE  RegIInv'
<1> DEFINE w == pending[1]
           i == w.index
<1>1. /\ UNCHANGED <<streams, used_entries, trtb, sttb, closing>>
  BY DEF Write, vars
<1>2. /\ w \in RegWrite /\ Len(pending) \in Nat \ {0} /\ DOMAIN pending = 1 .. Len(pending)
      /\ pending' \in Seq(RegWrite)
      /\ Len(pending') = Len(pending) - 1
      /\ DOMAIN pending' = 1 .. Len(pending) - 1
      /\ \A k \in DOMAIN pending' : k + 1 \in DOMAIN pending /\ pending'[k] = pending[k + 1]
      /\ \A k \in DOMAIN pending : pending[k].index = i
      /\ Head(pending) = w /\ Busy = {i}
      /\ Len(pending) > 1 => Busy' = Busy
  BY WriteShift
<1>3. /\ i \in Index /\ Len(pending) > 3 /\ w.at \in Entry /\ w.value \in Track
      /\ \/ Len(pending) > 6
         \/ ~Activating(i)
  <2>1. /\ i \in Index /\ Len(pending) > 3 /\ w.at \in Entry /\ w.value \in Track
        /\ ~(Len(pending) > 3 /\ Len(pending) <= 6 /\ Activating(i))
    BY HeadWrite
  <2> QED
    BY <1>2, <2>1
<1>4. /\ fpga_sttb' = fpga_sttb
      /\ \A x \in Entry : fpga_trtb'[x] = IF x = w.at THEN w.value ELSE fpga_trtb[x]
      /\ fpga_trtb' \in [Entry -> Track]
  <2>1. fpga_trtb' = [fpga_trtb EXCEPT ![w.at] = w.value] /\ fpga_sttb' = fpga_sttb
    BY <1>2 DEF Write, TrtbAfter, SttbAfter
  <2>2. fpga_trtb \in [Entry -> Track]
    BY DEF RegIInv, RegTypeOK
  <2> HIDE DEF w
  <2> QED
    BY <1>3, <2>1, <2>2
<1>5. OneStream' /\ WritesInOrder'
  BY <1>4, WriteOrder
<1> HIDE DEF w, i
<1>6. RegTypeOK'
  BY <1>1, <1>2, <1>4 DEF RegIInv, RegTypeOK
<1>7. StreamTableFollows'
  <2>1. Busy' = Busy
    BY <1>2, <1>3
  <2>2. Rewritten(fpga_sttb[i], sttb[i], Len(pending'))
    <3>1. ~(Len(pending') <= 2) /\ ~(Len(pending') <= 1)
      BY <1>2, <1>3
    <3> QED
      BY <3>1 DEF Rewritten
  <2>3. Activating(i) => FilledIn(fpga_sttb[i], sttb[i], Len(pending'))
    <3>1. Activating(i) => /\ ~(Len(pending') <= 5) /\ ~(Len(pending') <= 4)
                           /\ ~(Len(pending') <= 3)
      BY <1>2, <1>3
    <3> QED
      BY <3>1 DEF FilledIn
  <2> QED
    BY <1>1, <1>2, <1>4, <2>1, <2>2, <2>3 DEF RegIInv, StreamTableFollows, Activating
<1>8. TrackTableFollows'
  <2>1. ASSUME NEW k \in DOMAIN pending', pending'[k].table = "trtb",
               \A m \in DOMAIN pending' :
                 m > k /\ pending'[m].table = "trtb" => pending'[m].at # pending'[k].at
        PROVE  pending'[k].value = trtb[pending'[k].at]
    <3>1. /\ k + 1 \in DOMAIN pending /\ pending'[k] = pending[k + 1] /\ ToTrtb(k + 1)
          /\ k \in Nat /\ k >= 1
      BY <1>2, <2>1 DEF ToTrtb
    <3>2. ASSUME NEW m \in DOMAIN pending, m > k + 1, ToTrtb(m)
          PROVE  pending[m].at # pending[k + 1].at
      <4>1. m - 1 \in DOMAIN pending' /\ m - 1 > k /\ (m - 1) + 1 = m
        BY <1>2, <3>1, <3>2
      <4>2. pending'[m - 1] = pending[m]
        BY <1>2, <4>1
      <4> QED
        BY <2>1, <3>1, <3>2, <4>1, <4>2 DEF ToTrtb
    <3> QED
      BY <3>1, <3>2 DEF RegIInv, TrackTableFollows
  <2>2. ASSUME NEW x \in Entry,
               \A k \in DOMAIN pending' : pending'[k].table = "trtb" => pending'[k].at # x,
               \A j \in Live(closing) : x \notin AreaOf(closing[j])
        PROVE  fpga_trtb'[x] = trtb[x]
    <3>1. ASSUME NEW m \in DOMAIN pending, m > 1, ToTrtb(m)
          PROVE  pending[m].at # x
      <4>1. m - 1 \in DOMAIN pending' /\ (m - 1) + 1 = m
        BY <1>2, <3>1
      <4>2. pending'[m - 1] = pending[m]
        BY <1>2, <4>1
      <4> QED
        BY <2>2, <3>1, <4>1, <4>2 DEF ToTrtb
    <3>2. CASE x = w.at
      <4>1. ToTrtb(1) /\ 1 \in DOMAIN pending
        BY <1>2 DEF ToTrtb
      <4>2. \A m \in DOMAIN pending : m > 1 /\ ToTrtb(m) => pending[m].at # pending[1].at
        BY <3>1, <3>2 DEF w
      <4>3. pending[1].value = trtb[pending[1].at]
        BY <4>1, <4>2 DEF RegIInv, TrackTableFollows
      <4> QED
        BY <1>4, <3>2, <4>3 DEF w
    <3>3. CASE x # w.at
      <4>1. \A m \in DOMAIN pending : m = 1 \/ m > 1
        BY <1>2
      <4>2. \A m \in DOMAIN pending : ToTrtb(m) => pending[m].at # x
        BY <3>1, <3>3, <4>1 DEF w
      <4>3. fpga_trtb[x] = trtb[x]
        BY <2>2, <4>2 DEF RegIInv, TrackTableFollows
      <4> QED
        BY <1>4, <3>3, <4>3
    <3> QED
      BY <3>2, <3>3
  <2> QED
    BY <1>1, <2>1, <2>2 DEF TrackTableFollows, ToTrtb
<1>9. ClosingUntouched'
  <2>1. Busy' = Busy
    BY <1>2, <1>3
  <2> QED
    BY <1>1, <2>1 DEF RegIInv, ClosingUntouched
<1>10. WritesApart'
  <2> SUFFICES ASSUME NEW k \in DOMAIN pending', NEW j \in Live(streams) \ {pending'[k].index},
                      pending'[k].table = "trtb"
               PROVE  pending'[k].at \notin AreaOf(streams[j])
    BY <1>1 DEF WritesApart, ToTrtb
  <2>1. k + 1 \in DOMAIN pending /\ pending'[k] = pending[k + 1]
    BY <1>2
  <2> QED
    BY <2>1 DEF RegIInv, WritesApart, ToTrtb
<1> QED
  BY <1>5, <1>6, <1>7, <1>8, <1>9, <1>10 DEF RegIInv

\* What a write to the stream table makes of the entry it is for: it completes
\* it when it is the last write and when it makes it valid, and never ends the
\* validity of a live stream's entry.
LEMMA SttbWriteStep ==
  ASSUME RegIInv, Write, pending[1].table = "sttb", NEW i, i = pending[1].index
  PROVE  /\ i \in Index
         /\ fpga_trtb' = fpga_trtb
         /\ fpga_sttb' \in [Index -> SttbEntry]
         /\ \A j \in Index \ {i} : fpga_sttb'[j] = fpga_sttb[j]
         /\ \A k \in DOMAIN pending : ~ToTrtb(k)
         /\ Rewritten(fpga_sttb'[i], sttb[i], Len(pending) - 1)
         /\ streams[i] # NULL /\ ~Valid(fpga_sttb'[i]) =>
              FilledIn(fpga_sttb'[i], sttb[i], Len(pending) - 1)
         /\ Len(pending) = 1 => fpga_sttb'[i] = sttb[i]
         /\ Len(pending) > 3 => Valid(fpga_sttb'[i]) = Valid(fpga_sttb[i])
         /\ ~Valid(fpga_sttb[i]) /\ Valid(fpga_sttb'[i]) =>
              streams[i] # NULL /\ fpga_sttb'[i] = sttb[i]
         /\ streams[i] # NULL /\ Valid(fpga_sttb[i]) => Valid(fpga_sttb'[i])
<1> DEFINE w == pending[1]
           l == Len(pending)
           now == fpga_sttb[i]
           after == Over(now, w.value, w.at)
<1>1. w \in RegWrite /\ l \in Nat \ {0} /\ Head(pending) = w /\ Busy = {i}
  BY WriteShift
<1>2. /\ i \in Index
      /\ l <= 3 => w.at = Words[4 - l] /\ w.value = sttb[i]
      /\ l > 3 /\ l <= 6 /\ Activating(i) => w.at = Words[7 - l] /\ w.value = Filled(streams[i])
      /\ l <= 6 /\ (l > 3 => Activating(i))
      /\ \A k \in DOMAIN pending : ~ToTrtb(k)
  BY HeadWrite
<1>3. fpga_sttb \in [Index -> SttbEntry] /\ sttb[i] \in SttbEntry
  BY <1>2 DEF RegIInv, RegTypeOK, IInv, TypeOK
<1>4. w.value \in SttbEntry /\ w.at \in {Words[1], Words[2], Words[3]}
  BY <1>1 DEF RegWrite
<1>5. fpga_trtb' = fpga_trtb /\ fpga_sttb' = [fpga_sttb EXCEPT ![i] = after]
  BY <1>1 DEF Write, TrtbAfter, SttbAfter, Over
<1>6. now \in SttbEntry /\ after \in SttbEntry
  BY <1>2, <1>3, <1>4, WordWritten
<1>7. /\ Rewritten(now, sttb[i], l)
      /\ Activating(i) => FilledIn(now, sttb[i], l)
  BY <1>1, <1>2 DEF RegIInv, StreamTableFollows
<1>8. /\ streams[i] = NULL => ~Valid(sttb[i])
      /\ streams[i] # NULL => /\ streams[i] \in Elem
                              /\ sttb[i] = EntryOf(streams[i])
                              /\ Valid(sttb[i])
  BY <1>2, EntryFacts DEF RegIInv
<1> DEFINE Goal == /\ Rewritten(after, sttb[i], l - 1)
                   /\ streams[i] # NULL /\ ~Valid(after) => FilledIn(after, sttb[i], l - 1)
                   /\ l = 1 => after = sttb[i]
                   /\ l > 3 => Valid(after) = Valid(now)
                   /\ ~Valid(now) /\ Valid(after) => streams[i] # NULL /\ after = sttb[i]
                   /\ streams[i] # NULL /\ Valid(now) => Valid(after)
<1>9. ASSUME l <= 3 PROVE Goal
  <2>1. PICK p \in 1 .. 3 : p = 4 - l
    BY <1>1, <1>9
  <2>2. /\ l = 4 - p /\ l - 1 = 3 - p /\ ~(l > 3)
        /\ p = 1 => l = 3
        /\ l = 1 => p = 3
    <3>1. l \in Nat
      BY <1>1
    <3> HIDE DEF l
    <3> QED
      BY <3>1, <2>1
  <2>3. w.at = Words[p] /\ w.value = sttb[i]
    BY <1>2, <1>9, <2>1
  <2> DEFINE new == sttb[i]
  <2>4. new \in SttbEntry
    BY <1>3
  <2>5. Rewritten(now, new, 4 - p) /\ (Activating(i) => FilledIn(now, new, l))
    BY <1>7, <2>2
  <2>6. after = Over(now, new, Words[p])
    BY <2>3
  <2> HIDE DEF now, after, new, w, l
  <2>7. /\ Rewritten(after, new, 3 - p)
        /\ p = 3 => after = new
        /\ p = 1 /\ FilledIn(now, new, 3) => after = new
        /\ p = 1 => after.misc_control = new.misc_control
        /\ p # 1 => /\ after.misc_control = now.misc_control
                    /\ now.misc_control = new.misc_control
    BY <1>6, <2>4, <2>5, <2>6, RewriteStep
  <2>8. after.misc_control = new.misc_control
    BY <2>7
  <2>9. Valid(after) <=> Valid(new)
    BY <2>8 DEF Valid
  <2>10. Activating(i) /\ p = 1 => after = new
    BY <2>2, <2>5, <2>7
  <2>11. Activating(i) <=> streams[i] # NULL /\ ~Valid(now)
    BY DEF Activating, now
  <2>12. p # 1 => (Valid(now) <=> Valid(new))
    BY <2>7 DEF Valid
  <2>13. streams[i] = NULL <=> ~Valid(new)
    BY <1>8 DEF new
  <2>14. ~Valid(now) /\ Valid(after) => streams[i] # NULL /\ after = new
    BY <2>9, <2>10, <2>11, <2>12, <2>13
  <2> QED
    BY <2>2, <2>7, <2>9, <2>13, <2>14 DEF new
<1>10. ASSUME l > 3 PROVE Goal
  <2>1. PICK p \in 1 .. 3 : p = 7 - l
    BY <1>1, <1>2, <1>10
  <2>2. l = 7 - p /\ l - 1 = 6 - p /\ l # 1 /\ ~(l - 1 <= 2) /\ ~(l - 1 <= 1)
    <3>1. l \in Nat
      BY <1>1
    <3> HIDE DEF l
    <3> QED
      BY <3>1, <2>1
  <2>3. Activating(i) /\ w.at = Words[p] /\ w.value = Filled(streams[i])
    BY <1>2, <1>10, <2>1
  <2> DEFINE new == sttb[i]
             fill == Filled(streams[i])
  <2>4. streams[i] \in Elem /\ new = EntryOf(streams[i]) /\ ~Valid(now)
    BY <1>8, <2>3 DEF Activating
  <2>5. /\ fill \in SttbEntry /\ new \in SttbEntry
        /\ fill.trtp_base_addr = new.trtp_base_addr /\ fill.codec = new.codec
        /\ fill.num_channels = new.num_channels
        /\ fill.num_samples = new.num_samples
        /\ fill.ip_total_len = new.ip_total_len
        /\ ~Valid(fill)
    BY <2>4, FillFacts
  <2>6. FilledIn(now, new, 7 - p)
    BY <1>7, <2>2, <2>3
  <2>7. after = Over(now, fill, Words[p])
    BY <2>3
  <2> HIDE DEF now, after, new, fill, w, l
  <2>8. FilledIn(after, new, 6 - p) /\ ~Valid(after)
    BY <1>6, <2>4, <2>5, <2>6, <2>7, FillStep
  <2>9. Rewritten(after, new, l - 1)
    BY <2>2 DEF Rewritten
  <2>10. FilledIn(after, new, l - 1) /\ Valid(after) = Valid(now)
    <3>1. FilledIn(after, new, l - 1)
      BY <2>2, <2>8
    <3>2. Valid(after) = Valid(now)
      BY <2>4, <2>8 DEF Valid
    <3> QED
      BY <3>1, <3>2
  <2> QED
    BY <2>2, <2>4, <2>8, <2>9, <2>10 DEF new
<1>11. Goal
  BY <1>1, <1>9, <1>10
<1> HIDE DEF now, after
<1>12. /\ fpga_sttb'[i] = after
       /\ \A j \in Index \ {i} : fpga_sttb'[j] = fpga_sttb[j]
       /\ fpga_sttb' \in [Index -> SttbEntry]
  BY <1>2, <1>3, <1>5, <1>6
<1>13. /\ Rewritten(fpga_sttb'[i], sttb[i], Len(pending) - 1)
       /\ streams[i] # NULL /\ ~Valid(fpga_sttb'[i]) =>
            FilledIn(fpga_sttb'[i], sttb[i], Len(pending) - 1)
       /\ Len(pending) = 1 => fpga_sttb'[i] = sttb[i]
       /\ Len(pending) > 3 => Valid(fpga_sttb'[i]) = Valid(fpga_sttb[i])
       /\ ~Valid(fpga_sttb[i]) /\ Valid(fpga_sttb'[i]) =>
            streams[i] # NULL /\ fpga_sttb'[i] = sttb[i]
       /\ streams[i] # NULL /\ Valid(fpga_sttb[i]) => Valid(fpga_sttb'[i])
  BY <1>11, <1>12 DEF now
<1> HIDE DEF w, l, Goal
<1> QED
  BY <1>2, <1>5, <1>12, <1>13

\* A write to the stream table preserves the invariant.
LEMMA SttbWritePreserves ==
  ASSUME RegIInv, Write, IInv', pending[1].table = "sttb"
  PROVE  RegIInv'
<1>1. /\ UNCHANGED <<streams, used_entries, trtb, sttb, closing>>
  BY DEF Write, vars
<1>2. PICK i : i = pending[1].index
  OBVIOUS
<1>3. /\ Len(pending) \in Nat \ {0}
      /\ pending' \in Seq(RegWrite)
      /\ Len(pending') = Len(pending) - 1
      /\ \A k \in DOMAIN pending' : k + 1 \in DOMAIN pending /\ pending'[k] = pending[k + 1]
      /\ Busy = {i}
      /\ Busy' \subseteq Busy
      /\ Len(pending) > 1 => Busy' = Busy
      /\ Len(pending) = 1 => Busy' = {}
  BY <1>2, WriteShift
<1>4. /\ i \in Index
      /\ fpga_trtb' = fpga_trtb
      /\ fpga_sttb' \in [Index -> SttbEntry]
      /\ \A j \in Index \ {i} : fpga_sttb'[j] = fpga_sttb[j]
      /\ \A k \in DOMAIN pending : ~ToTrtb(k)
      /\ Rewritten(fpga_sttb'[i], sttb[i], Len(pending'))
      /\ streams[i] # NULL /\ ~Valid(fpga_sttb'[i]) =>
           FilledIn(fpga_sttb'[i], sttb[i], Len(pending'))
      /\ Len(pending) = 1 => fpga_sttb'[i] = sttb[i]
      /\ Len(pending) > 3 => Valid(fpga_sttb'[i]) = Valid(fpga_sttb[i])
  BY <1>2, <1>3, SttbWriteStep
<1>5. OneStream' /\ WritesInOrder'
  BY <1>2, <1>4, WriteOrder
<1>6. \A k \in DOMAIN pending' : pending'[k].table # "trtb"
  BY <1>3, <1>4 DEF ToTrtb
<1>7. RegTypeOK'
  BY <1>1, <1>3, <1>4 DEF RegIInv, RegTypeOK
<1>8. StreamTableFollows'
  <2>1. CASE Len(pending) = 1
    BY <1>1, <1>3, <1>4, <2>1 DEF RegIInv, StreamTableFollows
  <2>2. CASE Len(pending) > 1
    BY <1>1, <1>3, <1>4, <2>2 DEF RegIInv, StreamTableFollows, Activating
  <2> QED
    BY <1>3, <2>1, <2>2
<1>9. TrackTableFollows'
  BY <1>1, <1>4, <1>6 DEF RegIInv, TrackTableFollows, ToTrtb
<1>10. ClosingUntouched'
  BY <1>1, <1>3 DEF RegIInv, ClosingUntouched
<1>11. WritesApart'
  BY <1>6 DEF WritesApart, ToTrtb
<1> QED
  BY <1>5, <1>7, <1>8, <1>9, <1>10, <1>11 DEF RegIInv

\* Writing a register preserves the invariant.
LEMMA WritePreserves ==
  ASSUME RegIInv, Write
  PROVE  RegIInv'
<1>1. IInv'
  BY NextIInv DEF Write, RegIInv
<1>2. pending[1].table \in {"trtb", "sttb"}
  <2>1. pending[1] \in RegWrite
    BY WriteShift
  <2> QED
    BY <2>1 DEF RegWrite
<1> QED
  BY <1>1, <1>2, TrtbWritePreserves, SttbWritePreserves

-----------------------------------------------------------------------------
(* Between two calls, or two turns of the loop in ra_sd_tx_delete_streams,  *)
(* no write is left; cl are the streams the loop has yet to come to.       *)

Settled(cl) ==
  /\ cl \in [Index -> Elem \cup {NULL}]
  /\ fpga_trtb \in [Entry -> Track] /\ fpga_sttb \in [Index -> SttbEntry]
  /\ \A j \in Index : cl[j] = NULL => fpga_sttb[j] = sttb[j]
  /\ \A x \in Entry : (\A j \in Live(cl) : x \notin AreaOf(cl[j])) => fpga_trtb[x] = trtb[x]
  /\ \A j \in Live(cl) : streams[j] = NULL /\ AreaOf(cl[j]) \subseteq Entry \ used_entries

\* The invariant when no write is left.
LEMMA SettledIff ==
  ASSUME pending = <<>>
  PROVE  /\ RegIInv => Settled(closing)
         /\ IInv /\ Settled(closing) => RegIInv
<1>1. Busy = {} /\ DOMAIN pending = {} /\ pending \in Seq(RegWrite)
  BY EmptySeq DEF Busy
<1>2. RegIInv => Settled(closing)
  BY <1>1 DEF RegIInv, RegTypeOK, Settled, StreamTableFollows, TrackTableFollows,
              ClosingUntouched, Live
<1>3. ASSUME IInv, Settled(closing) PROVE RegIInv
  <2>1. RegTypeOK
    BY <1>1, <1>3 DEF Settled, RegTypeOK
  <2>2. StreamTableFollows /\ TrackTableFollows
    BY <1>1, <1>3 DEF Settled, StreamTableFollows, TrackTableFollows
  <2>3. ClosingUntouched
    BY <1>1, <1>3 DEF Settled, ClosingUntouched
  <2>4. OneStream /\ WritesInOrder /\ WritesApart
    BY <1>1 DEF OneStream, WritesInOrder, WritesApart
  <2> QED
    BY <1>3, <2>1, <2>2, <2>3, <2>4 DEF RegIInv
<1> QED
  BY <1>2, <1>3

\* While nobody holds the mutex the FPGA has the tables the driver aims at.
LEMMA FreeServes ==
  ASSUME RegIInv, MutexFree
  PROVE  fpga_trtb = trtb /\ fpga_sttb = sttb
<1>1. Settled(closing) /\ Live(closing) = {} /\ pending = <<>> /\ IInv
  BY SettledIff DEF MutexFree, RegIInv
<1>2. \A j \in Index : closing[j] = NULL
  BY <1>1 DEF Live
<1>3. fpga_trtb = trtb
  <2>1. \A x \in Entry : fpga_trtb[x] = trtb[x]
    BY <1>1 DEF Settled
  <2> QED
    BY <1>1, <2>1 DEF Settled, IInv, TypeOK
<1>4. fpga_sttb = sttb
  <2>1. \A j \in Index : fpga_sttb[j] = sttb[j]
    BY <1>1, <1>2 DEF Settled
  <2> QED
    BY <1>1, <2>1 DEF Settled, IInv, TypeOK
<1> QED
  BY <1>3, <1>4

\* ra_sd_tx_free_stream for a set of streams, before any register is written:
\* the loop has yet to come to all of them.
LEMMA FreeSettles ==
  ASSUME RegIInv, MutexFree, IInv', NEW S \in SUBSET Live(streams), ra_sd_tx_free_stream(S),
         UNCHANGED fpga, NEW cl, cl = [i \in Index |-> IF i \in S THEN streams[i] ELSE NULL]
  PROVE  Settled(cl)'
<1>1. fpga_trtb = trtb /\ fpga_sttb = sttb /\ fpga_trtb' = fpga_trtb /\ fpga_sttb' = fpga_sttb
  BY FreeServes DEF fpga
<1>2. /\ \A i \in Live(streams) : i \in Index /\ streams[i] \in Elem /\ streams[i] # NULL
      /\ \A i \in S : cl[i] = streams[i] /\ i \in Live(streams)
      /\ \A i \in Index \ S : cl[i] = NULL
      /\ Live(cl) = S
      /\ cl \in [Index -> Elem \cup {NULL}]
  BY DEF RegIInv, IInv, TypeOK, Live
<1>3. /\ \A i \in S : streams'[i] = NULL
      /\ \A i \in Index \ S : sttb'[i] = sttb[i]
  BY <1>2 DEF ra_sd_tx_free_stream, Live
<1>4. /\ fpga_trtb' \in [Entry -> Track] /\ fpga_sttb' \in [Index -> SttbEntry]
  BY <1>1 DEF RegIInv, RegTypeOK
<1>5. \A j \in Index : cl[j] = NULL => fpga_sttb'[j] = sttb'[j]
  BY <1>1, <1>2, <1>3
<1>6. \A x \in Entry : (\A j \in Live(cl) : x \notin AreaOf(cl[j])) => fpga_trtb'[x] = trtb'[x]
  BY <1>1, <1>2 DEF ra_sd_tx_free_stream, ra_track_table_free
<1>7. ASSUME NEW j \in Live(cl)
      PROVE  streams'[j] = NULL /\ AreaOf(cl[j]) \subseteq Entry \ used_entries'
  <2>1. j \in S /\ cl[j] = streams[j] /\ j \in Live(streams)
    BY <1>2
  <2>2. AreaOf(cl[j]) \subseteq Entry
    BY <2>1 DEF RegIInv, IInv, TypeOK, EntriesAccounted
  <2>3. AreaOf(cl[j]) \cap used_entries' = {}
    BY <2>1 DEF ra_sd_tx_free_stream
  <2> QED
    BY <1>3, <2>1, <2>2, <2>3
<1> QED
  BY <1>2, <1>4, <1>5, <1>6, <1>7 DEF Settled

-----------------------------------------------------------------------------
(* The writes to the track table.                                          *)

\* ra_track_table_free mutes each entry of the area once.
LEMMA FreeWrites ==
  ASSUME NEW i \in Index, NEW e \in Elem, AreaOf(e) \subseteq Entry
  PROVE  LET s == ra_track_table_free_writes(i, e) IN
         /\ s \in Seq(RegWrite) /\ Len(s) \in Nat
         /\ \A k \in 1 .. Len(s) : /\ s[k].table = "trtb" /\ s[k].index = i
                                   /\ s[k].at \in AreaOf(e)
                                   /\ s[k].value = RA_TRACK_TABLE_MUTE
         /\ \A x \in AreaOf(e) : \E k \in 1 .. Len(s) : s[k].at = x
<1> DEFINE n == e.stream.num_channels
           a == e.trtb_index
           s == ra_track_table_free_writes(i, e)
<1>1. n \in Nat /\ a \in Nat /\ AreaOf(e) = a .. a + n - 1
  BY ElemType DEF AreaOf, Area
<1>2. s = [k \in 1 .. n |-> TrtbWrite(i, a + k - 1, RA_TRACK_TABLE_MUTE)]
  BY DEF ra_track_table_free_writes
<1> HIDE DEF n, a, s
<1>3. \A k \in 1 .. n : a + k - 1 \in AreaOf(e)
  BY <1>1
<1>4. \A k \in 1 .. n : TrtbWrite(i, a + k - 1, RA_TRACK_TABLE_MUTE) \in RegWrite
  BY <1>3 DEF TrtbWrite, RegWrite, Track
<1>5. s \in Seq(RegWrite) /\ Len(s) = n
  <2>1. s \in [1 .. n -> RegWrite]
    BY <1>2, <1>4
  <2>2. s \in Seq(RegWrite)
    BY <1>1, <2>1, SeqDef
  <2>3. DOMAIN s = 1 .. n
    BY <1>2
  <2> QED
    BY <1>1, <2>2, <2>3, LenProperties
<1>6. \A k \in 1 .. n : /\ s[k].table = "trtb" /\ s[k].index = i
                        /\ s[k].at = a + k - 1 /\ s[k].value = RA_TRACK_TABLE_MUTE
  BY <1>2 DEF TrtbWrite
<1>7. ASSUME NEW x \in AreaOf(e) PROVE \E k \in 1 .. n : s[k].at = x
  <2>1. x - a + 1 \in 1 .. n /\ a + (x - a + 1) - 1 = x
    BY <1>1
  <2> QED
    BY <1>6, <2>1
<1> QED
  BY <1>1, <1>3, <1>5, <1>6, <1>7 DEF s

\* ra_track_table_set writes each entry of the area once, with what the table
\* holds there afterwards.
LEMMA SetTrackWrites ==
  ASSUME NEW i \in Index, NEW e \in Elem, AreaOf(e) \subseteq Entry,
         trtb' \in [Entry -> Track]
  PROVE  LET s == TrackWrites(i, e) IN
         /\ s \in Seq(RegWrite) /\ Len(s) \in Nat
         /\ \A k \in 1 .. Len(s) : /\ s[k].table = "trtb" /\ s[k].index = i
                                   /\ s[k].at \in AreaOf(e)
                                   /\ s[k].value = trtb'[s[k].at]
         /\ \A x \in AreaOf(e) : \E k \in 1 .. Len(s) : s[k].at = x
<1> DEFINE n == e.stream.num_channels
           a == e.trtb_index
           s == TrackWrites(i, e)
<1>1. n \in Nat /\ a \in Nat /\ AreaOf(e) = a .. a + n - 1
  BY ElemType DEF AreaOf, Area
<1>2. s = [k \in 1 .. n |-> TrtbWrite(i, a + k - 1, trtb'[a + k - 1])]
  BY DEF TrackWrites
<1> HIDE DEF n, a, s
<1>3. \A k \in 1 .. n : a + k - 1 \in AreaOf(e)
  BY <1>1
<1>4. \A k \in 1 .. n : trtb'[a + k - 1] \in Track /\ a + k - 1 \in Entry
  BY <1>3
<1>5. \A k \in 1 .. n : TrtbWrite(i, a + k - 1, trtb'[a + k - 1]) \in RegWrite
  BY <1>4 DEF TrtbWrite, RegWrite
<1>6. s \in Seq(RegWrite) /\ Len(s) = n
  <2>1. s \in [1 .. n -> RegWrite]
    BY <1>2, <1>5
  <2>2. s \in Seq(RegWrite)
    BY <1>1, <2>1, SeqDef
  <2>3. DOMAIN s = 1 .. n
    BY <1>2
  <2> QED
    BY <1>1, <2>2, <2>3, LenProperties
<1>7. \A k \in 1 .. n : /\ s[k].table = "trtb" /\ s[k].index = i
                        /\ s[k].at = a + k - 1 /\ s[k].value = trtb'[a + k - 1]
  BY <1>2 DEF TrtbWrite
<1>8. ASSUME NEW x \in AreaOf(e) PROVE \E k \in 1 .. n : s[k].at = x
  <2>1. x - a + 1 \in 1 .. n /\ a + (x - a + 1) - 1 = x
    BY <1>1
  <2> QED
    BY <1>7, <2>1
<1> QED
  BY <1>1, <1>3, <1>6, <1>7, <1>8 DEF s

-----------------------------------------------------------------------------
(* The queue of a call: the writes to the track table, and then these.     *)

LastWrites(i) ==
  IF Activating(i) THEN stream_write(i, Filled(streams[i]), Words)
                          \o stream_write(i, sttb[i], Words)
                   ELSE stream_write(i, sttb[i], Words)

\* They are two passes over the entry of a new stream, and else one.
LEMMA LastWritesFacts ==
  ASSUME IInv, NEW i \in Index
  PROVE  LET u == LastWrites(i) IN
         /\ u \in Seq(RegWrite)
         /\ Activating(i) => Len(u) = 6
         /\ ~Activating(i) => Len(u) = 3
         /\ \A p \in 1 .. Len(u) :
              LET left == Len(u) - p + 1 IN
              /\ u[p].table = "sttb" /\ u[p].index = i
              /\ left <= 3 => u[p] = stream_write(i, sttb[i], Words)[4 - left]
              /\ ~(left <= 3) => u[p] = stream_write(i, Filled(streams[i]), Words)[7 - left]
<1> DEFINE u == LastWrites(i)
           a == stream_write(i, Filled(streams[i]), Words)
           b == stream_write(i, sttb[i], Words)
<1>1. \A at, v : SttbWrite(i, at, v).table = "sttb" /\ SttbWrite(i, at, v).index = i
  BY DEF SttbWrite
<1>2. /\ b \in Seq(RegWrite) /\ Len(b) = 3
      /\ \A p \in 1 .. 3 : b[p].table = "sttb" /\ b[p].index = i
  BY <1>1, StreamWrite, EntryFacts
<1>3. CASE ~Activating(i)
  <2>1. u = b
    BY <1>3 DEF LastWrites
  <2> HIDE DEF u, b
  <2>2. ASSUME NEW p \in 1 .. Len(u)
        PROVE  LET left == Len(u) - p + 1 IN
               /\ u[p].table = "sttb" /\ u[p].index = i
               /\ left <= 3 => u[p] = b[4 - left]
               /\ left <= 3
    <3>0. Len(u) = 3
      BY <1>2, <2>1
    <3>1. p \in 1 .. 3 /\ Len(u) - p + 1 = 4 - p /\ 4 - (4 - p) = p /\ 4 - p <= 3
      BY <3>0
    <3> QED
      BY <1>2, <2>1, <3>1
  <2> QED
    BY <1>2, <1>3, <2>1, <2>2 DEF u, b
<1>4. CASE Activating(i)
  <2>1. u = a \o b
    BY <1>4 DEF LastWrites
  <2>2. /\ a \in Seq(RegWrite) /\ Len(a) = 3
        /\ \A p \in 1 .. 3 : a[p].table = "sttb" /\ a[p].index = i
    <3>1. Filled(streams[i]) \in SttbEntry
      BY <1>4, EntryFacts, FillFacts DEF Activating
    <3> QED
      BY <1>1, <3>1, StreamWrite
  <2> HIDE DEF u, a, b
  <2>3. /\ u \in Seq(RegWrite) /\ Len(u) = Len(a) + Len(b)
        /\ \A p \in 1 .. Len(a) + Len(b) : u[p] = IF p <= Len(a) THEN a[p] ELSE b[p - Len(a)]
    <3>1. a \in Seq(RegWrite) /\ b \in Seq(RegWrite)
      BY <1>2, <2>2
    <3>2. /\ (a \o b) \in Seq(RegWrite) /\ Len(a \o b) = Len(a) + Len(b)
          /\ \A p \in 1 .. Len(a) + Len(b) :
               (a \o b)[p] = IF p <= Len(a) THEN a[p] ELSE b[p - Len(a)]
      BY <3>1, ConcatProperties
    <3> QED
      BY <2>1, <3>2
  <2>4. /\ Len(u) = 6 /\ Len(a) = 3
        /\ \A p \in 1 .. 6 : u[p] = IF p <= 3 THEN a[p] ELSE b[p - 3]
    BY <1>2, <2>2, <2>3
  <2>5. ASSUME NEW p \in 1 .. Len(u)
        PROVE  LET left == Len(u) - p + 1 IN
               /\ u[p].table = "sttb" /\ u[p].index = i
               /\ left <= 3 => u[p] = b[4 - left]
               /\ ~(left <= 3) => u[p] = a[7 - left]
    <3>1. p \in 1 .. 6 /\ Len(u) - p + 1 = 7 - p /\ 7 - (7 - p) = p /\ 4 - (7 - p) = p - 3
      BY <2>4
    <3>2. CASE p <= 3
      <4>1. p \in 1 .. 3 /\ ~(7 - p <= 3) /\ u[p] = a[p]
        BY <2>4, <3>1, <3>2
      <4> QED
        BY <2>2, <3>1, <4>1
    <3>3. CASE ~(p <= 3)
      <4>1. p - 3 \in 1 .. 3 /\ 7 - p <= 3 /\ u[p] = b[p - 3]
        BY <2>4, <3>1, <3>3
      <4> QED
        BY <1>2, <3>1, <4>1
    <3> QED
      BY <3>2, <3>3
  <2> QED
    BY <1>4, <2>3, <2>4, <2>5 DEF u, a, b
<1> QED
  BY <1>3, <1>4

\* A queue of track table writes and the writes to the stream table.
LEMMA QueueShape ==
  ASSUME IInv, NEW i \in Index, NEW t \in Seq(RegWrite), Len(t) \in Nat,
         \A k \in 1 .. Len(t) : t[k].table = "trtb" /\ t[k].index = i,
         pending = t \o LastWrites(i)
  PROVE  /\ pending \in Seq(RegWrite)
         /\ ~(Len(pending) <= 2)
         /\ Activating(i) => ~(Len(pending) <= 5)
         /\ Busy = {i}
         /\ OneStream /\ WritesInOrder
         /\ \A k \in 1 .. Len(t) : k \in DOMAIN pending /\ pending[k] = t[k]
         /\ \A k \in DOMAIN pending : /\ pending[k].index = i
                                      /\ ToTrtb(k) => k \in 1 .. Len(t)
<1> DEFINE u == LastWrites(i)
           a == stream_write(i, Filled(streams[i]), Words)
           b == stream_write(i, sttb[i], Words)
<1>1. /\ u \in Seq(RegWrite)
      /\ Activating(i) => Len(u) = 6
      /\ ~Activating(i) => Len(u) = 3
      /\ \A p \in 1 .. Len(u) :
           LET left == Len(u) - p + 1 IN
           /\ u[p].table = "sttb" /\ u[p].index = i
           /\ left <= 3 => u[p] = b[4 - left]
           /\ ~(left <= 3) => u[p] = a[7 - left]
  BY LastWritesFacts
<1>2. pending = t \o u
  OBVIOUS
<1> HIDE DEF u, a, b
<1>3. /\ pending \in Seq(RegWrite) /\ Len(pending) = Len(t) + Len(u)
      /\ \A k \in 1 .. Len(t) + Len(u) :
           pending[k] = IF k <= Len(t) THEN t[k] ELSE u[k - Len(t)]
  <2>1. u \in Seq(RegWrite) /\ t \in Seq(RegWrite)
    BY <1>1
  <2>2. /\ (t \o u) \in Seq(RegWrite) /\ Len(t \o u) = Len(t) + Len(u)
        /\ \A k \in 1 .. Len(t) + Len(u) :
             (t \o u)[k] = IF k <= Len(t) THEN t[k] ELSE u[k - Len(t)]
    BY <2>1, ConcatProperties
  <2> QED
    BY <1>2, <2>2
<1>4. DOMAIN pending = 1 .. Len(pending)
  BY <1>3, LenProperties
<1>5. /\ Len(u) \in {3, 6} /\ Len(u) \in Nat /\ Len(u) >= 3
      /\ Activating(i) => Len(u) = 6
  <2>1. Len(u) = 3 \/ Len(u) = 6
    BY <1>1
  <2>2. \A n \in {3, 6} : n \in Nat /\ n >= 3
    OBVIOUS
  <2>3. Len(u) \in {3, 6}
    BY <2>1
  <2>4. Len(u) \in {3, 6} /\ Len(u) \in Nat /\ Len(u) >= 3
    BY <2>2, <2>3
  <2> QED
    BY <1>1, <2>4
<1>6. ASSUME NEW k \in DOMAIN pending
      PROVE  LET left == Len(pending) - k + 1 IN
             /\ pending[k].index = i
             /\ ToTrtb(k) => k \in 1 .. Len(t) /\ pending[k] = t[k]
             /\ IF left <= 3 THEN pending[k] = b[4 - left]
                ELSE IF left <= 6 /\ Activating(i) THEN pending[k] = a[7 - left]
                ELSE ToTrtb(k)
  <2> DEFINE left == Len(pending) - k + 1
  <2>1. k \in Nat /\ 1 <= k /\ k <= Len(t) + Len(u)
    BY <1>3, <1>4, <1>5
  <2>2. CASE k <= Len(t)
    <3>1. k \in 1 .. Len(t) /\ pending[k] = t[k] /\ left > Len(u)
      BY <1>3, <1>5, <2>1, <2>2
    <3>2. ~(left <= 3) /\ (Activating(i) => ~(left <= 6))
      <4>1. left \in Nat
        BY <1>3, <1>5, <2>1
      <4> HIDE DEF left
      <4>2. Len(u) \in Nat /\ Len(u) >= 3
        BY <1>5
      <4>3. ~(left <= 3)
        BY <3>1, <4>1, <4>2
      <4>4. ASSUME Activating(i) PROVE ~(left <= 6)
        <5>1. Len(u) = 6
          BY <1>5, <4>4
        <5> QED
          BY <3>1, <4>1, <5>1
      <4> QED
        BY <4>3, <4>4
    <3> HIDE DEF left
    <3>3. ToTrtb(k) /\ pending[k].index = i
      BY <3>1 DEF ToTrtb
    <3> QED
      BY <3>1, <3>2, <3>3 DEF left
  <2>3. CASE ~(k <= Len(t))
    <3> DEFINE p == k - Len(t)
    <3>1. p \in 1 .. Len(u) /\ pending[k] = u[p] /\ left = Len(u) - p + 1
      BY <1>3, <1>5, <2>1, <2>3
    <3>2. left \in Nat /\ left <= Len(u)
      BY <1>5, <3>1
    <3> HIDE DEF left, p
    <3>3. /\ u[p].table = "sttb" /\ u[p].index = i
          /\ left <= 3 => u[p] = b[4 - left]
          /\ ~(left <= 3) => u[p] = a[7 - left]
      BY <1>1, <3>1
    <3>4. ~(left <= 3) => left <= 6 /\ Activating(i)
      BY <1>1, <1>5, <3>2
    <3>5. ~ToTrtb(k) /\ pending[k].index = i
      BY <3>1, <3>3 DEF ToTrtb
    <3> QED
      BY <3>1, <3>3, <3>4, <3>5 DEF left
  <2> QED
    BY <2>2, <2>3
<1>7. \A k \in 1 .. Len(t) : k \in DOMAIN pending /\ pending[k] = t[k]
  BY <1>3, <1>4, <1>5
<1>8. Busy = {i}
  <2>1. 1 \in DOMAIN pending
    BY <1>3, <1>4, <1>5
  <2> QED
    BY <1>6, <2>1 DEF Busy
<1>9. OneStream
  BY <1>6 DEF OneStream
<1>10. WritesInOrder
  BY <1>6 DEF WritesInOrder, a, b
<1>11. ~(Len(pending) <= 2) /\ (Activating(i) => ~(Len(pending) <= 5))
  <2>1. Len(pending) = Len(t) + Len(u) /\ Len(u) \in Nat /\ Len(u) >= 3
    BY <1>3, <1>5
  <2>2. ~(Len(pending) <= 2)
    BY <2>1
  <2>3. ASSUME Activating(i) PROVE ~(Len(pending) <= 5)
    <3>1. Len(u) = 6
      BY <1>5, <2>3
    <3> QED
      BY <2>1, <3>1
  <2> QED
    BY <2>2, <2>3
<1> QED
  BY <1>3, <1>6, <1>7, <1>8, <1>9, <1>10, <1>11

-----------------------------------------------------------------------------
(* The start of a free.                                                    *)

FreeBegun ==
  \E cl : \E i \in Live(cl) :
    /\ Settled(cl)
    /\ pending = ra_sd_tx_free_stream_writes(i, cl[i])
    /\ closing = [cl EXCEPT ![i] = NULL]

\* With the writes of ra_sd_tx_free_stream queued for one of the streams that
\* have been freed, the invariant holds.
LEMMA FreeBegins == IInv /\ FreeBegun => RegIInv
<1> SUFFICES ASSUME IInv, FreeBegun PROVE RegIInv
  OBVIOUS
<1>1. PICK cl : \E i \in Live(cl) :
                  /\ Settled(cl)
                  /\ pending = ra_sd_tx_free_stream_writes(i, cl[i])
                  /\ closing = [cl EXCEPT ![i] = NULL]
  BY DEF FreeBegun
<1>2. PICK i \in Live(cl) :
                  /\ Settled(cl)
                  /\ pending = ra_sd_tx_free_stream_writes(i, cl[i])
                  /\ closing = [cl EXCEPT ![i] = NULL]
  BY <1>1
<1> DEFINE t == ra_track_table_free_writes(i, cl[i])
<1>3. /\ i \in Index /\ cl[i] \in Elem /\ streams[i] = NULL
      /\ AreaOf(cl[i]) \subseteq Entry \ used_entries
  BY <1>2 DEF Settled, Live
<1>4. /\ t \in Seq(RegWrite) /\ Len(t) \in Nat
      /\ \A k \in 1 .. Len(t) : /\ t[k].table = "trtb" /\ t[k].index = i
                                /\ t[k].at \in AreaOf(cl[i])
                                /\ t[k].value = RA_TRACK_TABLE_MUTE
      /\ \A x \in AreaOf(cl[i]) : \E k \in 1 .. Len(t) : t[k].at = x
  BY <1>3, FreeWrites
<1>5. ~Activating(i)
  BY <1>3 DEF Activating
<1>6. pending = t \o LastWrites(i)
  <2>1. sttb[i] = ra_stream_table_tx_del
    BY <1>3, EntryFacts
  <2> QED
    BY <1>2, <1>5, <2>1 DEF ra_sd_tx_free_stream_writes, LastWrites
<1> HIDE DEF t
<1>7. /\ pending \in Seq(RegWrite)
      /\ ~(Len(pending) <= 2)
      /\ Busy = {i}
      /\ OneStream /\ WritesInOrder
      /\ \A k \in 1 .. Len(t) : k \in DOMAIN pending /\ pending[k] = t[k]
      /\ \A k \in DOMAIN pending : /\ pending[k].index = i
                                   /\ ToTrtb(k) => k \in 1 .. Len(t)
  BY <1>3, <1>4, <1>6, QueueShape
<1>8. ASSUME NEW k \in DOMAIN pending, ToTrtb(k)
      PROVE  pending[k].at \in AreaOf(cl[i]) /\ pending[k].value = RA_TRACK_TABLE_MUTE
  <2>1. k \in 1 .. Len(t) /\ pending[k] = t[k]
    BY <1>7, <1>8
  <2> QED
    BY <1>4, <2>1
<1>9. /\ closing \in [Index -> Elem \cup {NULL}]
      /\ closing[i] = NULL
      /\ \A j \in Index \ {i} : closing[j] = cl[j]
      /\ Live(closing) = Live(cl) \ {i}
  BY <1>2, <1>3 DEF Settled, Live
<1>10. RegTypeOK
  BY <1>2, <1>7, <1>9 DEF Settled, RegTypeOK
<1>11. StreamTableFollows
  <2>1. Rewritten(fpga_sttb[i], sttb[i], Len(pending))
    <3>1. ~(Len(pending) <= 1)
      <4>1. Len(pending) \in Nat
        BY <1>7, LenProperties
      <4> QED
        BY <1>7, <4>1
    <3> QED
      BY <1>7, <3>1 DEF Rewritten
  <2>2. ASSUME NEW j \in Index, j # i, closing[j] = NULL
        PROVE  fpga_sttb[j] = sttb[j]
    BY <1>2, <1>9, <2>2 DEF Settled
  <2> QED
    BY <1>3, <1>5, <1>7, <2>1, <2>2 DEF StreamTableFollows
<1>12. TrackTableFollows
  <2>1. ASSUME NEW k \in DOMAIN pending, ToTrtb(k)
        PROVE  pending[k].value = trtb[pending[k].at]
    <3>1. pending[k].at \in Entry \ used_entries
      BY <1>3, <1>8, <2>1
    <3> QED
      BY <1>8, <2>1, <3>1 DEF IInv, TrackTableRoutes
  <2>2. ASSUME NEW x \in Entry,
               \A k \in DOMAIN pending : ToTrtb(k) => pending[k].at # x,
               \A j \in Live(closing) : x \notin AreaOf(closing[j])
        PROVE  fpga_trtb[x] = trtb[x]
    <3>1. x \notin AreaOf(cl[i])
      <4>1. \A k \in 1 .. Len(t) : /\ k \in DOMAIN pending /\ pending[k] = t[k]
                                   /\ pending[k].table = "trtb"
        BY <1>4, <1>7
      <4>2. \A k \in 1 .. Len(t) : t[k].at # x
        BY <2>2, <4>1 DEF ToTrtb
      <4> QED
        BY <1>4, <4>2
    <3>2. \A j \in Live(cl) \ {i} : x \notin AreaOf(cl[j])
      BY <1>9, <2>2 DEF Live
    <3> QED
      BY <1>2, <3>1, <3>2 DEF Settled
  <2> QED
    BY <2>1, <2>2 DEF TrackTableFollows
<1>13. ClosingUntouched
  <2> SUFFICES ASSUME NEW j \in Live(cl) \ {i}
               PROVE  /\ streams[j] = NULL /\ j \notin Busy
                      /\ AreaOf(closing[j]) \subseteq Entry \ used_entries
    BY <1>9 DEF ClosingUntouched
  <2>1. closing[j] = cl[j]
    BY <1>9 DEF Live
  <2>2. streams[j] = NULL /\ AreaOf(cl[j]) \subseteq Entry \ used_entries
    BY <1>2 DEF Settled
  <2>3. j \notin Busy
    BY <1>7
  <2> QED
    BY <2>1, <2>2, <2>3
<1>14. WritesApart
  <2> SUFFICES ASSUME NEW k \in DOMAIN pending, NEW j \in Live(streams), ToTrtb(k)
               PROVE  pending[k].at \notin AreaOf(streams[j])
    BY DEF WritesApart
  <2>1. pending[k].at \in Entry \ used_entries
    BY <1>3, <1>8
  <2>2. AreaOf(streams[j]) \subseteq used_entries
    BY DEF IInv, EntriesAccounted
  <2> QED
    BY <2>1, <2>2
<1> QED
  BY <1>7, <1>10, <1>11, <1>12, <1>13, <1>14 DEF RegIInv

-----------------------------------------------------------------------------
(* The start of an add or an update.                                       *)

\* The track table writes t bring the table from what the FPGA has to what
\* stream k is to have.
TracksToWrite(k, t) ==
  /\ t \in Seq(RegWrite) /\ Len(t) \in Nat
  /\ \A m \in 1 .. Len(t) :
       /\ t[m].table = "trtb" /\ t[m].index = k
       /\ (\A q \in 1 .. Len(t) : q > m => t[q].at # t[m].at)
            => t[m].value = trtb[t[m].at]
  /\ \A x \in Entry : (\A m \in 1 .. Len(t) : t[m].at # x) => fpga_trtb[x] = trtb[x]

PutBegun ==
  \E k \in Live(streams) : \E t :
    /\ TracksToWrite(k, t)
    /\ pending = t \o LastWrites(k)
    /\ closing = [i \in Index |-> NULL]
    /\ fpga_trtb \in [Entry -> Track] /\ fpga_sttb \in [Index -> SttbEntry]
    /\ \A j \in Index \ {k} : /\ fpga_sttb[j] = sttb[j]
                              /\ \A m \in 1 .. Len(t) : t[m].at \notin OldArea(j)

\* With the writes for the stream in slot k queued, the invariant holds.
LEMMA PutBegins == IInv /\ PutBegun => RegIInv
<1> SUFFICES ASSUME IInv, PutBegun PROVE RegIInv
  OBVIOUS
<1>1. PICK k \in Live(streams) : \E t :
    /\ TracksToWrite(k, t)
    /\ pending = t \o LastWrites(k)
    /\ closing = [i \in Index |-> NULL]
    /\ fpga_trtb \in [Entry -> Track] /\ fpga_sttb \in [Index -> SttbEntry]
    /\ \A j \in Index \ {k} : /\ fpga_sttb[j] = sttb[j]
                              /\ \A m \in 1 .. Len(t) : t[m].at \notin OldArea(j)
  BY DEF PutBegun
<1>2. PICK t :
    /\ TracksToWrite(k, t)
    /\ pending = t \o LastWrites(k)
    /\ closing = [i \in Index |-> NULL]
    /\ fpga_trtb \in [Entry -> Track] /\ fpga_sttb \in [Index -> SttbEntry]
    /\ \A j \in Index \ {k} : /\ fpga_sttb[j] = sttb[j]
                              /\ \A m \in 1 .. Len(t) : t[m].at \notin OldArea(j)
  BY <1>1
<1>3. k \in Index /\ streams[k] # NULL
  BY DEF Live
<1>4. /\ t \in Seq(RegWrite) /\ Len(t) \in Nat
      /\ \A m \in 1 .. Len(t) : t[m].table = "trtb" /\ t[m].index = k
  BY <1>2 DEF TracksToWrite
<1>5. /\ pending \in Seq(RegWrite)
      /\ ~(Len(pending) <= 2)
      /\ Activating(k) => ~(Len(pending) <= 5)
      /\ Busy = {k}
      /\ OneStream /\ WritesInOrder
      /\ \A m \in 1 .. Len(t) : m \in DOMAIN pending /\ pending[m] = t[m]
      /\ \A m \in DOMAIN pending : /\ pending[m].index = k
                                   /\ ToTrtb(m) => m \in 1 .. Len(t)
  BY <1>2, <1>3, <1>4, QueueShape
<1>6. Live(closing) = {} /\ \A j \in Index : closing[j] = NULL
  BY <1>2 DEF Live
<1>7. RegTypeOK
  BY <1>2, <1>5 DEF RegTypeOK
<1>8. StreamTableFollows
  <2>1. Len(pending) \in Nat
    BY <1>5, LenProperties
  <2>2. Rewritten(fpga_sttb[k], sttb[k], Len(pending))
    <3>1. ~(Len(pending) <= 1)
      BY <1>5, <2>1
    <3> QED
      BY <1>5, <3>1 DEF Rewritten
  <2>3. ASSUME Activating(k) PROVE FilledIn(fpga_sttb[k], sttb[k], Len(pending))
    <3>1. ~(Len(pending) <= 5)
      BY <1>5, <2>3
    <3>2. ~(Len(pending) <= 4) /\ ~(Len(pending) <= 3)
      BY <2>1, <3>1
    <3> QED
      BY <3>1, <3>2 DEF FilledIn
  <2>4. \A j \in Index \ {k} : fpga_sttb[j] = sttb[j]
    BY <1>2
  <2> QED
    BY <1>3, <1>5, <2>2, <2>3, <2>4 DEF StreamTableFollows
<1>9. TrackTableFollows
  <2>1. ASSUME NEW m \in DOMAIN pending, ToTrtb(m),
               \A q \in DOMAIN pending : q > m /\ ToTrtb(q) => pending[q].at # pending[m].at
        PROVE  pending[m].value = trtb[pending[m].at]
    <3>1. m \in 1 .. Len(t) /\ pending[m] = t[m]
      BY <1>5, <2>1
    <3>2. \A q \in 1 .. Len(t) : q > m => t[q].at # t[m].at
      BY <1>4, <1>5, <2>1, <3>1 DEF ToTrtb
    <3> QED
      BY <1>2, <3>1, <3>2 DEF TracksToWrite
  <2>2. ASSUME NEW x \in Entry, \A m \in DOMAIN pending : ToTrtb(m) => pending[m].at # x
        PROVE  fpga_trtb[x] = trtb[x]
    <3>1. \A m \in 1 .. Len(t) : t[m].at # x
      BY <1>4, <1>5, <2>2 DEF ToTrtb
    <3> QED
      BY <1>2, <3>1 DEF TracksToWrite
  <2> QED
    BY <2>1, <2>2 DEF TrackTableFollows
<1>10. ClosingUntouched
  BY <1>6 DEF ClosingUntouched
<1>11. WritesApart
  <2> SUFFICES ASSUME NEW m \in DOMAIN pending, NEW j \in Live(streams) \ {k}, ToTrtb(m)
               PROVE  pending[m].at \notin AreaOf(streams[j])
    BY <1>5 DEF WritesApart
  <2>1. m \in 1 .. Len(t) /\ pending[m] = t[m]
    BY <1>5
  <2>2. j \in Index \ {k} /\ OldArea(j) = AreaOf(streams[j])
    BY DEF OldArea, Live
  <2> QED
    BY <1>2, <2>1, <2>2
<1> QED
  BY <1>5, <1>7, <1>8, <1>9, <1>10, <1>11 DEF RegIInv

\* ra_track_table_set leaves what is outside of the area as it was.
LEMMA ReplaceKeepsOthers ==
  ASSUME NEW k, NEW e \in Elem, Replaces(k, e)
  PROVE  \A x \in Entry \ AreaOf(e) :
           trtb'[x] = ra_track_table_free(trtb, OldArea(k))[x]
<1>1. PICK tracks \in TracksRead(e.stream) :
        trtb' = ra_track_table_set(ra_track_table_free(trtb, OldArea(k)),
                  e.trtb_index, e.stream.num_channels, tracks)
  BY DEF Replaces
<1> QED
  BY <1>1, TrtbSetRoutes

\* The track table writes of a stream that keeps its area or had none.
LEMMA WritesInPlace ==
  ASSUME NEW k \in Index, NEW e \in Elem, AreaOf(e) \subseteq Entry,
         trtb' \in [Entry -> Track], NEW before, fpga_trtb' = before,
         \A x \in Entry \ AreaOf(e) : trtb'[x] = before[x],
         NEW t, t = TrackWrites(k, e)
  PROVE  TracksToWrite(k, t)' /\ \A m \in 1 .. Len(t) : t[m].at \in AreaOf(e)
<1>1. /\ t \in Seq(RegWrite) /\ Len(t) \in Nat
      /\ \A m \in 1 .. Len(t) : /\ t[m].table = "trtb" /\ t[m].index = k
                                /\ t[m].at \in AreaOf(e)
                                /\ t[m].value = trtb'[t[m].at]
      /\ \A x \in AreaOf(e) : \E m \in 1 .. Len(t) : t[m].at = x
  BY SetTrackWrites
<1>2. \A x \in Entry \ AreaOf(e) : trtb'[x] = before[x]
  OBVIOUS
<1>3. \A x \in Entry : (\A m \in 1 .. Len(t) : t[m].at # x) => fpga_trtb'[x] = trtb'[x]
  BY <1>1, <1>2
<1> QED
  BY <1>1, <1>3 DEF TracksToWrite

\* Those of a stream that moves: its old area is muted first, also where the new
\* one overlaps it.
LEMMA WritesMoved ==
  ASSUME NEW k \in Index, NEW e \in Elem, AreaOf(e) \subseteq Entry,
         NEW o \in Elem, AreaOf(o) \subseteq Entry, NEW before, fpga_trtb' = before,
         trtb' \in [Entry -> Track],
         \A x \in Entry \ AreaOf(e) : trtb'[x] = ra_track_table_free(before, AreaOf(o))[x],
         NEW t, t = ra_track_table_free_writes(k, o) \o TrackWrites(k, e)
  PROVE  TracksToWrite(k, t)' /\ \A m \in 1 .. Len(t) : t[m].at \in AreaOf(o) \cup AreaOf(e)
<1> DEFINE a == ra_track_table_free_writes(k, o)
           b == TrackWrites(k, e)
           freed == ra_track_table_free(before, AreaOf(o))
<1>1. /\ a \in Seq(RegWrite) /\ Len(a) \in Nat
      /\ \A m \in 1 .. Len(a) : /\ a[m].table = "trtb" /\ a[m].index = k
                                /\ a[m].at \in AreaOf(o)
                                /\ a[m].value = RA_TRACK_TABLE_MUTE
      /\ \A x \in AreaOf(o) : \E m \in 1 .. Len(a) : a[m].at = x
  BY FreeWrites
<1>2. /\ b \in Seq(RegWrite) /\ Len(b) \in Nat
      /\ \A m \in 1 .. Len(b) : /\ b[m].table = "trtb" /\ b[m].index = k
                                /\ b[m].at \in AreaOf(e)
                                /\ b[m].value = trtb'[b[m].at]
      /\ \A x \in AreaOf(e) : \E m \in 1 .. Len(b) : b[m].at = x
  BY SetTrackWrites
<1>3. /\ \A x \in Entry \ AreaOf(e) : trtb'[x] = freed[x]
      /\ \A x \in Entry : freed[x] = IF x \in AreaOf(o) THEN RA_TRACK_TABLE_MUTE ELSE before[x]
  BY DEF ra_track_table_free
<1>4. t = a \o b
  OBVIOUS
<1> HIDE DEF a, b, freed
<1>5. /\ t \in Seq(RegWrite) /\ Len(t) = Len(a) + Len(b)
      /\ \A m \in 1 .. Len(a) + Len(b) : t[m] = IF m <= Len(a) THEN a[m] ELSE b[m - Len(a)]
  <2>1. a \in Seq(RegWrite) /\ b \in Seq(RegWrite)
    BY <1>1, <1>2
  <2>2. /\ (a \o b) \in Seq(RegWrite) /\ Len(a \o b) = Len(a) + Len(b)
        /\ \A m \in 1 .. Len(a) + Len(b) :
             (a \o b)[m] = IF m <= Len(a) THEN a[m] ELSE b[m - Len(a)]
    BY <2>1, ConcatProperties
  <2> QED
    BY <1>4, <2>2
<1>6. ASSUME NEW m \in 1 .. Len(t)
      PROVE  \/ m \in 1 .. Len(a) /\ t[m] = a[m]
             \/ m - Len(a) \in 1 .. Len(b) /\ t[m] = b[m - Len(a)]
  <2>1. m \in Nat /\ 1 <= m /\ m <= Len(a) + Len(b)
    BY <1>1, <1>2, <1>5
  <2> QED
    BY <1>1, <1>2, <1>5, <2>1
<1>7. /\ \A m \in 1 .. Len(a) : m \in 1 .. Len(t) /\ t[m] = a[m]
      /\ \A m \in 1 .. Len(b) : /\ m + Len(a) \in 1 .. Len(t) /\ t[m + Len(a)] = b[m]
                                /\ \A q \in 1 .. Len(a) : m + Len(a) > q
  <2>1. ASSUME NEW m \in 1 .. Len(a) PROVE m \in 1 .. Len(t) /\ t[m] = a[m]
    BY <1>1, <1>2, <1>5
  <2>2. ASSUME NEW m \in 1 .. Len(b)
        PROVE  /\ m + Len(a) \in 1 .. Len(t) /\ t[m + Len(a)] = b[m]
               /\ \A q \in 1 .. Len(a) : m + Len(a) > q
    <3>1. /\ m + Len(a) \in 1 .. Len(a) + Len(b) /\ ~(m + Len(a) <= Len(a))
          /\ (m + Len(a)) - Len(a) = m /\ \A q \in 1 .. Len(a) : m + Len(a) > q
      BY <1>1, <1>2
    <3>2. t[m + Len(a)] = b[(m + Len(a)) - Len(a)]
      BY <1>5, <3>1
    <3> QED
      BY <1>5, <3>1, <3>2
  <2> QED
    BY <2>1, <2>2
<1>8. \A x \in AreaOf(o) \cup AreaOf(e) : \E m \in 1 .. Len(t) : t[m].at = x
  <2> TAKE x \in AreaOf(o) \cup AreaOf(e)
  <2>1. CASE x \in AreaOf(o)
    BY <1>1, <1>7, <2>1
  <2>2. CASE x \in AreaOf(e)
    <3>1. PICK m \in 1 .. Len(b) : b[m].at = x
      BY <1>2, <2>2
    <3> QED
      BY <1>7, <3>1
  <2> QED
    BY <2>1, <2>2
<1>9. ASSUME NEW m \in 1 .. Len(t)
      PROVE  /\ t[m].table = "trtb" /\ t[m].index = k
             /\ t[m].at \in AreaOf(o) \cup AreaOf(e)
             /\ (\A q \in 1 .. Len(t) : q > m => t[q].at # t[m].at)
                  => t[m].value = trtb'[t[m].at]
  <2>1. CASE m \in 1 .. Len(a) /\ t[m] = a[m]
    <3>1. /\ t[m].table = "trtb" /\ t[m].index = k /\ t[m].at \in AreaOf(o)
          /\ t[m].value = RA_TRACK_TABLE_MUTE
      BY <1>1, <2>1
    <3>2. ASSUME \A q \in 1 .. Len(t) : q > m => t[q].at # t[m].at
          PROVE  t[m].at \notin AreaOf(e)
      <4> SUFFICES ASSUME t[m].at \in AreaOf(e) PROVE FALSE
        OBVIOUS
      <4>1. PICK p \in 1 .. Len(b) : b[p].at = t[m].at
        BY <1>2
      <4>2. p + Len(a) \in 1 .. Len(t) /\ t[p + Len(a)] = b[p] /\ p + Len(a) > m
        BY <1>7, <2>1
      <4> QED
        BY <3>2, <4>1, <4>2
    <3>3. t[m].at \notin AreaOf(e) => trtb'[t[m].at] = RA_TRACK_TABLE_MUTE
      BY <1>3, <3>1
    <3> QED
      BY <3>1, <3>2, <3>3
  <2>2. CASE m - Len(a) \in 1 .. Len(b) /\ t[m] = b[m - Len(a)]
    BY <1>2, <2>2
  <2> QED
    BY <1>6, <2>1, <2>2
<1>10. \A x \in Entry : (\A m \in 1 .. Len(t) : t[m].at # x) => fpga_trtb'[x] = trtb'[x]
  BY <1>3, <1>8
<1>11. Len(t) \in Nat
  BY <1>1, <1>2, <1>5
<1>12. TracksToWrite(k, t)'
  <2>2. \A m \in 1 .. Len(t) :
          /\ t[m].table = "trtb" /\ t[m].index = k
          /\ (\A q \in 1 .. Len(t) : q > m => t[q].at # t[m].at)
               => t[m].value = trtb'[t[m].at]
    BY <1>9
  <2> QED
    BY <1>5, <1>10, <1>11, <2>2 DEF TracksToWrite
<1> QED
  BY <1>9, <1>12

\* The writes to the stream table that add and update make for a new content of
\* slot k are the ones that are to come last: two passes if the entry that the
\* FPGA has is not valid.
LEMMA SetWritesLast ==
  ASSUME RegIInv, MutexFree, NEW k \in Index, NEW e \in Elem, Replaces(k, e), UNCHANGED fpga,
         NEW inv \in BOOLEAN, inv <=> k \notin Live(streams)
  PROVE  LastWrites(k)' = ra_stream_table_tx_set_writes(k, e, inv)
<1>1. streams'[k] = e /\ e # NULL /\ sttb'[k] = EntryOf(e)
  BY ElemNotNull DEF Replaces, RegIInv, IInv, TypeOK
<1>2. fpga_sttb'[k] = sttb[k]
  BY FreeServes DEF fpga
<1>3. Valid(sttb[k]) <=> k \in Live(streams)
  BY EntryFacts DEF RegIInv, Live
<1>4. Activating(k)' <=> inv
  BY <1>1, <1>2, <1>3 DEF Activating
<1>5. ra_stream_table_tx_set_writes(k, e, inv)
        = (IF inv THEN stream_write(k, Filled(e), Words) ELSE <<>>)
            \o stream_write(k, EntryOf(e), Words)
  BY DEF ra_stream_table_tx_set_writes, Filled, EntryOf
<1> DEFINE a == stream_write(k, Filled(e), Words)
           b == stream_write(k, EntryOf(e), Words)
<1>6. LastWrites(k)' = IF Activating(k)' THEN a \o b ELSE b
  BY <1>1 DEF LastWrites
<1>7. b \in Seq(RegWrite)
  BY StreamWrite, EntryType
<1>8. <<>> \o b = b
  <2> HIDE DEF b
  <2> QED
    BY <1>7, ConcatEmptySeq
<1> HIDE DEF a, b
<1>9. ra_stream_table_tx_set_writes(k, e, inv) = IF inv THEN a \o b ELSE b
  BY <1>5, <1>8 DEF a, b
<1> QED
  BY <1>4, <1>6, <1>9

\* Putting a stream into slot k starts with the invariant intact.
LEMMA ReplaceStarts ==
  ASSUME RegIInv, MutexFree, IInv', NEW k \in Index, NEW e \in Elem, Replaces(k, e),
         UNCHANGED <<fpga, closing>>, NEW t, TracksToWrite(k, t)',
         \A m \in 1 .. Len(t) : t[m].at \in OldArea(k) \cup AreaOf(e),
         NEW inv \in BOOLEAN, inv <=> k \notin Live(streams),
         pending' = t \o ra_stream_table_tx_set_writes(k, e, inv)
  PROVE  RegIInv'
<1>1. /\ fpga_trtb = trtb /\ fpga_sttb = sttb
      /\ fpga_trtb' = fpga_trtb /\ fpga_sttb' = fpga_sttb /\ closing' = closing
  BY FreeServes DEF fpga
<1>2. /\ streams'[k] = e /\ e # NULL
      /\ \A j \in Index \ {k} : streams'[j] = streams[j]
      /\ k \in Live(streams')
      /\ \A j \in Index \ {k} : sttb'[j] = sttb[j]
  BY ElemNotNull DEF Replaces, RegIInv, IInv, TypeOK, Live
<1>3. LastWrites(k)' = ra_stream_table_tx_set_writes(k, e, inv)
  BY SetWritesLast
<1>4. closing' = [i \in Index |-> NULL]
  BY <1>1 DEF MutexFree, Live, RegIInv, RegTypeOK
<1>5. fpga_trtb' \in [Entry -> Track] /\ fpga_sttb' \in [Index -> SttbEntry]
  BY <1>1 DEF RegIInv, RegTypeOK
<1>6. ASSUME NEW j \in Index \ {k}
      PROVE  /\ fpga_sttb'[j] = sttb'[j]
             /\ \A m \in 1 .. Len(t) : t[m].at \notin OldArea(j)'
  <2>1. OldArea(j)' = OldArea(j)
    BY <1>2 DEF OldArea
  <2>2. OldArea(j) \subseteq used_entries \ OldArea(k)
    BY OthersKeepTheirs DEF RegIInv, OldArea, Live
  <2>3. OldArea(j) \cap AreaOf(e) = {}
    BY <2>2 DEF Replaces
  <2> QED
    BY <1>1, <1>2, <2>1, <2>2, <2>3
<1>7. PutBegun'
  BY <1>2, <1>3, <1>4, <1>5, <1>6 DEF PutBegun
<1>8. IInv' /\ PutBegun' => RegIInv'
  BY PutBegins, PTL
<1> QED
  BY <1>7, <1>8

-----------------------------------------------------------------------------
(* The ioctls.                                                             *)

\* Every step of the ioctls and of the register writes is one of TxStreams or
\* leaves its state alone, so its invariant carries over.
LEMMA RegNextIInv == IInv /\ [RegNext]_regVars => IInv'
<1> SUFFICES ASSUME IInv, [RegNext]_regVars PROVE IInv'
  OBVIOUS
<1>1. [Next]_vars
  BY DEF RegNext, regVars, Write, FreeNext, RegOpen, RegAdd, RegUpdate, RegDelete, RegRelease,
         Next, ra_sd_tx_add_stream_ioctl, ra_sd_tx_update_stream_ioctl,
         ra_sd_tx_delete_stream_ioctl
<1> QED
  BY <1>1, NextIInv

\* A step that leaves the streams, the tables and the queue alone preserves the
\* invariant.
LEMMA NothingMoves ==
  ASSUME RegIInv, IInv', UNCHANGED <<streams, used_entries, trtb, sttb>>,
         UNCHANGED <<fpga, pending, closing>>
  PROVE  RegIInv'
<1>1. /\ streams' = streams /\ used_entries' = used_entries /\ trtb' = trtb /\ sttb' = sttb
      /\ fpga_trtb' = fpga_trtb /\ fpga_sttb' = fpga_sttb
      /\ pending' = pending /\ closing' = closing
  BY DEF fpga
<1>2. RegTypeOK' /\ OneStream'
  BY <1>1 DEF RegIInv, RegTypeOK, OneStream
<1>3. WritesInOrder'
  BY <1>1 DEF RegIInv, WritesInOrder, ToTrtb, Activating
<1>4. StreamTableFollows' /\ TrackTableFollows'
  BY <1>1 DEF RegIInv, StreamTableFollows, TrackTableFollows, Busy, ToTrtb, Activating
<1>5. ClosingUntouched'
  BY <1>1 DEF RegIInv, ClosingUntouched, Busy
<1>6. WritesApart'
  BY <1>1 DEF RegIInv, WritesApart, ToTrtb
<1> QED
  BY <1>2, <1>3, <1>4, <1>5, <1>6 DEF RegIInv

\* RA_SD_ADD_TX_STREAM.
LEMMA RegAddPreserves ==
  ASSUME RegIInv, IInv', NEW f \in File, NEW s \in Input, RegAdd(f, s)
  PROVE  RegIInv'
<1>1. CASE AddRefused(f, s) /\ Starts(<<>>)
  <2>1. UNCHANGED <<streams, used_entries, trtb, sttb>>
    BY <1>1 DEF AddRefused, txState
  <2>2. UNCHANGED <<fpga, pending, closing>>
    BY <1>1 DEF Starts, MutexFree
  <2> QED
    BY <2>1, <2>2, NothingMoves
<1>2. CASE Add(f, s) /\ Starts(PutWrites(last'.ret, TRUE))
  <2>1. PICK k \in Index \ Live(streams), e \in Elem :
          /\ Replaces(k, e) /\ OldArea(k) = {} /\ Returns(f, k)
    BY <1>2, AddReplaces DEF RegIInv
  <2>2. last'.ret = k
    BY <2>1 DEF Returns
  <2>3. streams'[k] = e /\ AreaOf(e) \subseteq Entry /\ trtb' \in [Entry -> Track]
    BY <2>1 DEF Replaces, RegIInv, IInv, TypeOK
  <2>4. /\ MutexFree /\ UNCHANGED <<fpga, closing>>
        /\ pending' = TrackWrites(k, e)
                        \o ra_stream_table_tx_set_writes(k, e, TRUE)
    BY <1>2, <2>2, <2>3 DEF Starts, PutWrites
  <2>5. PICK before : before = trtb
    OBVIOUS
  <2>6. \A x \in Entry \ AreaOf(e) : trtb'[x] = ra_track_table_free(trtb, {})[x]
    BY <2>1, ReplaceKeepsOthers
  <2>7. \A x \in Entry \ AreaOf(e) : trtb'[x] = before[x]
    BY <2>5, <2>6 DEF ra_track_table_free
  <2>8. fpga_trtb' = before
    BY <2>4, <2>5, FreeServes DEF fpga
  <2>9. PICK t : t = TrackWrites(k, e)
    OBVIOUS
  <2>10. TracksToWrite(k, t)' /\ \A m \in 1 .. Len(t) : t[m].at \in AreaOf(e)
    BY <2>3, <2>7, <2>8, <2>9, WritesInPlace
  <2>11. \A m \in 1 .. Len(t) : t[m].at \in OldArea(k) \cup AreaOf(e)
    BY <2>10
  <2> QED
    BY <2>1, <2>4, <2>9, <2>10, <2>11, ReplaceStarts
<1> QED
  BY <1>1, <1>2 DEF RegAdd

\* RA_SD_UPDATE_TX_STREAM.
LEMMA RegUpdatePreserves ==
  ASSUME RegIInv, IInv', NEW f \in File, NEW k \in CmdIndex, NEW s \in Input, RegUpdate(f, k, s)
  PROVE  RegIInv'
<1>1. CASE UpdateRefused(f, k, s) /\ Starts(<<>>)
  <2>1. UNCHANGED <<streams, used_entries, trtb, sttb>>
    BY <1>1 DEF UpdateRefused, txState
  <2>2. UNCHANGED <<fpga, pending, closing>>
    BY <1>1 DEF Starts, MutexFree
  <2> QED
    BY <2>1, <2>2, NothingMoves
<1>2. CASE UpdateInPlace(f, k, s) /\ Starts(PutWrites(k, FALSE))
  <2>1. /\ MayAccess(f, k)
        /\ \E e \in Elem : Replaces(k, e) /\ AreaOf(e) = OldArea(k)
    BY <1>2, UpdateReplaces DEF RegIInv
  <2>2. k \in Index /\ k \in Live(streams)
    BY <2>1, AcceptedFacts DEF RegIInv
  <2>3. PICK e \in Elem : Replaces(k, e) /\ AreaOf(e) = OldArea(k)
    BY <2>1
  <2>4. \A x \in Entry \ AreaOf(e) : trtb'[x] = ra_track_table_free(trtb, OldArea(k))[x]
    BY <2>3, ReplaceKeepsOthers
  <2>5. streams'[k] = e /\ AreaOf(e) \subseteq Entry /\ trtb' \in [Entry -> Track]
    BY <2>2, <2>3 DEF Replaces, RegIInv, IInv, TypeOK
  <2>6. /\ MutexFree /\ UNCHANGED <<fpga, closing>>
        /\ pending' = TrackWrites(k, e)
                        \o ra_stream_table_tx_set_writes(k, e, FALSE)
    BY <1>2, <2>5 DEF Starts, PutWrites
  <2>7. PICK before : before = trtb
    OBVIOUS
  <2>8. \A x \in Entry \ AreaOf(e) : trtb'[x] = before[x]
    BY <2>3, <2>4, <2>7 DEF ra_track_table_free
  <2>9. fpga_trtb' = before
    BY <2>6, <2>7, FreeServes DEF fpga
  <2>10. PICK t : t = TrackWrites(k, e)
    OBVIOUS
  <2>11. TracksToWrite(k, t)' /\ \A m \in 1 .. Len(t) : t[m].at \in AreaOf(e)
    BY <2>2, <2>5, <2>8, <2>9, <2>10, WritesInPlace
  <2>12. \A m \in 1 .. Len(t) : t[m].at \in OldArea(k) \cup AreaOf(e)
    BY <2>11
  <2> QED
    BY <2>2, <2>3, <2>6, <2>10, <2>11, <2>12, ReplaceStarts
<1>3. CASE /\ UpdateMoved(f, k, s) \/ UpdateRolledBack(f, k, s)
           /\ Starts(ra_track_table_free_writes(k, streams[k]) \o PutWrites(k, FALSE))
  <2>1. /\ MayAccess(f, k)
        /\ \E e \in Elem : Replaces(k, e)
    BY <1>3, UpdateReplaces DEF RegIInv
  <2>2. /\ k \in Index /\ k \in Live(streams) /\ streams[k] \in Elem
        /\ OldArea(k) = AreaOf(streams[k]) /\ AreaOf(streams[k]) \subseteq Entry
    BY <2>1, AcceptedFacts DEF RegIInv
  <2>3. PICK e \in Elem : Replaces(k, e)
    BY <2>1
  <2>4. PICK o \in Elem : o = streams[k]
    BY <2>2
  <2>5. PICK before : before = trtb
    OBVIOUS
  <2>6. /\ streams'[k] = e /\ AreaOf(e) \subseteq Entry /\ trtb' \in [Entry -> Track]
        /\ \A x \in Entry \ AreaOf(e) : trtb'[x] = ra_track_table_free(before, AreaOf(o))[x]
    <3>1. \A x \in Entry \ AreaOf(e) : trtb'[x] = ra_track_table_free(trtb, OldArea(k))[x]
      BY <2>3, ReplaceKeepsOthers
    <3>2. streams'[k] = e /\ AreaOf(e) \subseteq Entry /\ trtb' \in [Entry -> Track]
      BY <2>2, <2>3 DEF Replaces, RegIInv, IInv, TypeOK
    <3> QED
      BY <2>2, <2>4, <2>5, <3>1, <3>2
  <2>7. /\ MutexFree /\ UNCHANGED <<fpga, closing>>
        /\ pending' = ra_track_table_free_writes(k, o)
                        \o (TrackWrites(k, e)
                              \o ra_stream_table_tx_set_writes(k, e, FALSE))
    BY <1>3, <2>4, <2>6 DEF Starts, PutWrites
  <2>8. fpga_trtb' = before
    BY <2>5, <2>7, FreeServes DEF fpga
  <2>9. PICK t : t = ra_track_table_free_writes(k, o) \o TrackWrites(k, e)
    OBVIOUS
  <2>10. pending' = t \o ra_stream_table_tx_set_writes(k, e, FALSE)
    <3> DEFINE a == ra_track_table_free_writes(k, o)
               b == TrackWrites(k, e)
               w == stream_write(k, EntryOf(e), Words)
               c == ra_stream_table_tx_set_writes(k, e, FALSE)
    <3>1. a \in Seq(RegWrite) /\ b \in Seq(RegWrite) /\ w \in Seq(RegWrite)
      BY <2>2, <2>4, <2>6, FreeWrites, SetTrackWrites, StreamWrite, EntryType
    <3>2. c = <<>> \o w
      BY DEF ra_stream_table_tx_set_writes, EntryOf
    <3>3. pending' = a \o (b \o c) /\ t = a \o b
      BY <2>7, <2>9
    <3> HIDE DEF a, b, c, w
    <3>4. c \in Seq(RegWrite)
      BY <3>1, <3>2, ConcatEmptySeq
    <3>5. (a \o b) \o c = a \o (b \o c)
      BY <3>1, <3>4, ConcatAssociative
    <3>6. pending' = t \o c
      BY <3>3, <3>5
    <3> QED
      BY <3>6 DEF c
  <2>11. /\ TracksToWrite(k, t)'
         /\ \A m \in 1 .. Len(t) : t[m].at \in AreaOf(o) \cup AreaOf(e)
    <3>1. AreaOf(e) \subseteq Entry /\ AreaOf(o) \subseteq Entry /\ k \in Index
      BY <2>2, <2>4, <2>6
    <3>2. /\ trtb' \in [Entry -> Track]
          /\ \A x \in Entry \ AreaOf(e) : trtb'[x] = ra_track_table_free(before, AreaOf(o))[x]
      BY <2>6
    <3> QED
      BY <2>8, <2>9, <3>1, <3>2, WritesMoved
  <2> QED
    BY <2>2, <2>3, <2>4, <2>7, <2>10, <2>11, ReplaceStarts
<1>4. CASE /\ UpdateWarns(f, k, s)
           /\ Starts(ra_track_table_free_writes(k, streams[k]))
  <2>1. /\ streams[k].stream.num_channels = 0
        /\ UNCHANGED <<streams, used_entries, trtb, sttb>>
    BY <1>4, WarnChangesNothing DEF RegIInv
  <2>2. ra_track_table_free_writes(k, streams[k]) = <<>>
    BY <2>1 DEF ra_track_table_free_writes
  <2>3. UNCHANGED <<fpga, pending, closing>>
    BY <1>4, <2>2 DEF Starts, MutexFree
  <2> QED
    BY <2>1, <2>3, NothingMoves
<1> QED
  BY <1>1, <1>2, <1>3, <1>4 DEF RegUpdate

\* RA_SD_DELETE_TX_STREAM.
LEMMA RegDeletePreserves ==
  ASSUME RegIInv, IInv', NEW f \in File, NEW k \in CmdIndex, RegDelete(f, k)
  PROVE  RegIInv'
<1>1. CASE DeleteRefused(f, k) /\ Starts(<<>>)
  <2>1. UNCHANGED <<streams, used_entries, trtb, sttb>>
    BY <1>1 DEF DeleteRefused, txState
  <2>2. UNCHANGED <<fpga, pending, closing>>
    BY <1>1 DEF Starts, MutexFree
  <2> QED
    BY <2>1, <2>2, NothingMoves
<1>2. CASE Delete(f, k) /\ Starts(ra_sd_tx_free_stream_writes(k, streams[k]))
  <2>1. /\ k \in Live(streams) /\ k \in Index /\ ra_sd_tx_free_stream({k})
    BY <1>2 DEF Delete, MayAccess, ra_sd_tx_stream_elem_find_by_index, Live
  <2>2. PICK cl : cl = [i \in Index |-> IF i \in {k} THEN streams[i] ELSE NULL]
    OBVIOUS
  <2>3. MutexFree /\ UNCHANGED fpga /\ closing' = closing
    BY <1>2 DEF Starts
  <2>4. Settled(cl)'
    BY <2>1, <2>2, <2>3, FreeSettles
  <2>5. cl[k] = streams[k] /\ k \in Live(cl) /\ [cl EXCEPT ![k] = NULL] = [i \in Index |-> NULL]
    BY <2>1, <2>2 DEF Live
  <2>6. closing' = [cl EXCEPT ![k] = NULL]
    BY <2>3, <2>5 DEF MutexFree, Live, RegIInv, RegTypeOK
  <2>7. pending' = ra_sd_tx_free_stream_writes(k, cl[k])
    BY <1>2, <2>3, <2>5 DEF Starts
  <2>8. FreeBegun'
    BY <2>4, <2>5, <2>6, <2>7 DEF FreeBegun
  <2>9. IInv' /\ FreeBegun' => RegIInv'
    BY FreeBegins, PTL
  <2> QED
    BY <2>8, <2>9
<1> QED
  BY <1>1, <1>2 DEF RegDelete

\* The invariant between two turns of the loop in release().
LEMMA SettledRegIInv == IInv /\ pending = <<>> /\ Settled(closing) => RegIInv
BY SettledIff

\* release(), and the turns of its loop.
LEMMA RegReleasePreserves ==
  ASSUME RegIInv, IInv', (\E f \in File : RegRelease(f)) \/ FreeNext
  PROVE  RegIInv'
<1>1. ASSUME NEW f \in File, RegRelease(f) PROVE RegIInv'
  <2>1. PICK S : S = {i \in Live(streams) : streams[i].filp = f}
    OBVIOUS
  <2>2. PICK cl : cl = [i \in Index |-> IF i \in S THEN streams[i] ELSE NULL]
    OBVIOUS
  <2>3. /\ MutexFree /\ UNCHANGED fpga /\ pending' = pending
        /\ ra_sd_tx_free_stream(S) /\ closing' = cl
    BY <1>1, <2>1, <2>2 DEF RegRelease, ra_sd_tx_delete_streams
  <2>4. Settled(cl)'
    BY <2>1, <2>2, <2>3, FreeSettles
  <2>5. Settled(closing)'
    BY <2>3, <2>4 DEF Settled
  <2>6. pending' = <<>>
    BY <2>3 DEF MutexFree
  <2>7. (IInv /\ pending = <<>> /\ Settled(closing))' => RegIInv'
    BY SettledRegIInv, PTL
  <2> QED
    BY <2>5, <2>6, <2>7
<1>2. ASSUME FreeNext PROVE RegIInv'
  <2>1. PICK cl : cl = closing
    OBVIOUS
  <2>2. PICK i \in Live(cl) : /\ pending' = ra_sd_tx_free_stream_writes(i, cl[i])
                              /\ closing' = [cl EXCEPT ![i] = NULL]
    BY <1>2, <2>1 DEF FreeNext
  <2>3. /\ pending = <<>> /\ streams' = streams /\ sttb' = sttb /\ trtb' = trtb
        /\ used_entries' = used_entries /\ fpga_trtb' = fpga_trtb /\ fpga_sttb' = fpga_sttb
    BY <1>2 DEF FreeNext, vars, fpga
  <2>4. Settled(cl)
    BY <2>1, <2>3, SettledIff
  <2>5. Settled(cl)'
    BY <2>3, <2>4 DEF Settled
  <2>6. FreeBegun'
    BY <2>2, <2>5 DEF FreeBegun
  <2>7. IInv' /\ FreeBegun' => RegIInv'
    BY FreeBegins, PTL
  <2> QED
    BY <2>6, <2>7
<1> QED
  BY <1>1, <1>2

\* The tables are reset when the driver is probed.
LEMMA RegInitIInv == RegInit => RegIInv
<1> SUFFICES ASSUME RegInit PROVE RegIInv
  OBVIOUS
<1>1. IInv
  BY InitIInv DEF RegInit
<1>2. closing \in [Index -> Elem \cup {NULL}] /\ Live(closing) = {}
  BY DEF RegInit, Live
<1>3. Settled(closing)
  BY <1>1, <1>2 DEF RegInit, Settled, IInv, TypeOK, Track
<1> QED
  BY <1>1, <1>3, SettledIff DEF RegInit

\* Every ioctl and every register write preserves the invariant.
LEMMA RegNextRegIInv == RegIInv /\ [RegNext]_regVars => RegIInv'
<1> SUFFICES ASSUME RegIInv, [RegNext]_regVars PROVE RegIInv'
  OBVIOUS
<1>1. IInv'
  BY RegNextIInv DEF RegIInv
<1>2. ASSUME NEW f \in File, RegOpen(f) PROVE RegIInv'
  <2>1. UNCHANGED <<streams, used_entries, trtb, sttb>> /\ UNCHANGED <<fpga, pending, closing>>
    BY <1>2 DEF RegOpen, Open, txState
  <2> QED
    BY <1>1, <2>1, NothingMoves
<1>3. ASSUME UNCHANGED regVars PROVE RegIInv'
  <2>1. UNCHANGED <<streams, used_entries, trtb, sttb>> /\ UNCHANGED <<fpga, pending, closing>>
    BY <1>3 DEF regVars, vars, txState
  <2> QED
    BY <1>1, <2>1, NothingMoves
<1> QED
  BY <1>1, <1>2, <1>3, WritePreserves, RegAddPreserves, RegUpdatePreserves, RegDeletePreserves,
     RegReleasePreserves DEF RegNext

\* The tables in the FPGA, and what is left to be written, stay in the relation
\* that RegIInv states.
THEOREM RegInvariance == RegSpec => []RegIInv
BY RegInitIInv, RegNextRegIInv, PTL DEF RegSpec

\* Once a call is through, the FPGA has the tables it aimed at.
THEOREM RegistersCatchUpAlways == RegSpec => []RegistersCatchUp
<1>1. RegIInv => RegistersCatchUp
  BY FreeServes DEF RegistersCatchUp
<1> QED
  BY <1>1, RegInvariance, PTL

\* No register write disturbs a stream that the call is not about.
THEOREM OthersUndisturbedAlways == RegSpec => []OthersUndisturbed
<1>1. RegIInv => OthersUndisturbed
  <2> SUFFICES ASSUME RegIInv, NEW i \in Live(streams) \ Busy
               PROVE  /\ fpga_sttb[i] = sttb[i]
                      /\ \A x \in AreaOf(streams[i]) : fpga_trtb[x] = trtb[x]
    BY DEF OthersUndisturbed
  <2>1. i \in Index /\ streams[i] # NULL /\ AreaOf(streams[i]) \subseteq used_entries
        /\ used_entries \subseteq Entry
    BY DEF RegIInv, IInv, TypeOK, EntriesAccounted, Live
  <2>2. closing[i] = NULL
    BY <2>1 DEF RegIInv, ClosingUntouched, Live
  <2>3. fpga_sttb[i] = sttb[i]
    BY <2>1, <2>2 DEF RegIInv, StreamTableFollows
  <2>4. ASSUME NEW x \in AreaOf(streams[i]) PROVE fpga_trtb[x] = trtb[x]
    <3>1. x \in Entry /\ x \in used_entries
      BY <2>1
    <3>2. \A j \in Live(closing) : x \notin AreaOf(closing[j])
      BY <3>1 DEF RegIInv, ClosingUntouched
    <3>3. \A k \in DOMAIN pending : ToTrtb(k) => pending[k].at # x
      BY <2>1 DEF RegIInv, WritesApart, Busy
    <3> QED
      BY <3>1, <3>2, <3>3 DEF RegIInv, TrackTableFollows
  <2> QED
    BY <2>3, <2>4
<1> QED
  BY <1>1, RegInvariance, PTL

\* Which steps change the validity of an entry in the FPGA: none but a write to
\* the stream table, after all writes to the track table.
LEMMA ValidityStep ==
  ASSUME RegIInv, [RegNext]_regVars, NEW i \in Index, fpga_sttb'[i] # fpga_sttb[i]
  PROVE  /\ \A k \in DOMAIN pending : ~ToTrtb(k)
         /\ ~Valid(fpga_sttb[i]) /\ Valid(fpga_sttb'[i]) =>
              i \in Live(streams) /\ fpga_sttb'[i] = sttb[i]
         /\ streams[i] # NULL /\ Valid(fpga_sttb[i]) => Valid(fpga_sttb'[i])
<1>1. Write
  <2>1. Write \/ UNCHANGED fpga
    BY DEF RegNext, regVars, FreeNext, RegOpen, RegAdd, RegUpdate, RegDelete, RegRelease, Starts
  <2> QED
    BY <2>1 DEF fpga
<1>2. pending[1].table \in {"trtb", "sttb"} /\ Head(pending) = pending[1]
  <2>1. pending[1] \in RegWrite /\ Head(pending) = pending[1]
    BY <1>1, WriteShift
  <2> QED
    BY <2>1 DEF RegWrite
<1>3. pending[1].table = "sttb"
  BY <1>1, <1>2 DEF Write, SttbAfter
<1>4. PICK j : j = pending[1].index
  OBVIOUS
<1>5. /\ \A b \in Index \ {j} : fpga_sttb'[b] = fpga_sttb[b]
      /\ \A k \in DOMAIN pending : ~ToTrtb(k)
      /\ ~Valid(fpga_sttb[j]) /\ Valid(fpga_sttb'[j]) =>
           streams[j] # NULL /\ fpga_sttb'[j] = sttb[j]
      /\ streams[j] # NULL /\ Valid(fpga_sttb[j]) => Valid(fpga_sttb'[j])
  BY <1>1, <1>3, <1>4, SttbWriteStep
<1>6. i = j
  BY <1>5
<1> QED
  BY <1>5, <1>6 DEF Live

\* The write that makes an entry valid completes it, and comes after all writes
\* to the track table.
THEOREM ActivationIsLastAlways == RegSpec => ActivationIsLast
<1> DEFINE A == \A i \in Index :
                  ~Valid(fpga_sttb[i]) /\ Valid(fpga_sttb'[i]) =>
                    /\ fpga_sttb'[i] = sttb[i]
                    /\ \A x \in AreaOf(streams[i]) : fpga_trtb[x] = trtb[x]
<1>1. ASSUME RegIInv, [RegNext]_regVars PROVE [A]_regVars
  <2> SUFFICES ASSUME NEW i \in Index, ~Valid(fpga_sttb[i]), Valid(fpga_sttb'[i])
               PROVE  /\ fpga_sttb'[i] = sttb[i]
                      /\ \A x \in AreaOf(streams[i]) : fpga_trtb[x] = trtb[x]
    OBVIOUS
  <2>1. fpga_sttb'[i] # fpga_sttb[i]
    OBVIOUS
  <2>2. /\ \A k \in DOMAIN pending : ~ToTrtb(k)
        /\ i \in Live(streams) /\ fpga_sttb'[i] = sttb[i]
    BY <1>1, <2>1, ValidityStep
  <2> QED
    BY <1>1, <2>2, LiveAreaWritten
<1> QED
  BY <1>1, RegInvariance, PTL DEF RegSpec, ActivationIsLast

\* No write of an update invalidates the entry of the stream.
THEOREM KeepsSendingAlways == RegSpec => KeepsSending
<1> DEFINE A == \A i \in Index : Valid(fpga_sttb[i]) /\ streams[i] # NULL =>
                                   Valid(fpga_sttb'[i])
<1>1. ASSUME RegIInv, [RegNext]_regVars PROVE [A]_regVars
  <2> SUFFICES ASSUME NEW i \in Index, Valid(fpga_sttb[i]), streams[i] # NULL
               PROVE  Valid(fpga_sttb'[i])
    OBVIOUS
  <2>1. CASE fpga_sttb'[i] = fpga_sttb[i]
    BY <2>1
  <2>2. CASE fpga_sttb'[i] # fpga_sttb[i]
    BY <1>1, <2>2, ValidityStep
  <2> QED
    BY <2>1, <2>2
<1> QED
  BY <1>1, RegInvariance, PTL DEF RegSpec, KeepsSending

=============================================================================
