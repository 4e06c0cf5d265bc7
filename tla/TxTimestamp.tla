---------------------------- MODULE TxTimestamp ----------------------------
(***************************************************************************)
(* Timestamps of transmitted packets (modules/net/timestamp.c).  A packet  *)
(* that asks for a timestamp is put into a ring of skbs before it is sent. *)
(* The FPGA puts its timestamp into a FIFO and interrupts, the interrupt   *)
(* handler moves the timestamp into a second ring, and a work item matches *)
(* the heads of the two rings by the PTP sequence id.                      *)
(*                                                                         *)
(* A packet and its timestamp are the number of the packet.  tx_ts.lock is *)
(* held in every action on the rings; the work item keeps it from step to  *)
(* step except while it delivers a timestamp.                              *)
(***************************************************************************)
EXTENDS Integers, Sequences, FiniteSets

CONSTANTS
  Packets,                  \* packets that are sent (bound)
  Seq_id,                   \* the PTP sequence id of each
  Short,                    \* ... of a packet too short to have one; its
                            \* timestamp has an id below all others (external)
  RA_NET_TX_SKB_LIST_SIZE,
  RA_NET_TX_TS_LIST_SIZE,
  MaxResets,                \* resets of the interface (bound)
  NULL

Packet == 1 .. Packets

ASSUME TxTimestampAssumption ==
  /\ Packets \in Nat
  /\ Short \in Int \ Nat
  /\ Seq_id \in [Packet -> Nat \cup {Short}]
  /\ RA_NET_TX_SKB_LIST_SIZE \in Nat \ {0, 1}
  /\ RA_NET_TX_TS_LIST_SIZE \in Nat \ {0, 1}
  /\ MaxResets \in Nat
  /\ NULL \notin Packet

SkbSlot == 0 .. RA_NET_TX_SKB_LIST_SIZE - 1
TsSlot == 0 .. RA_NET_TX_TS_LIST_SIZE - 1

VARIABLES
  enable, rx_ts_enable,                \* what the hwtstamp ioctl has configured
  config,                              \* its rx_filter, while it is half done
  armed,                               \* the timestamp interrupt is enabled
  skb_ptr, skb_rd_idx, skb_wr_idx,     \* tx_ts: the ring of packets
  fpga_ts, ts_rd_idx, ts_wr_idx,       \* tx_ts: the ring of timestamps
  ts_lost,
  work, pending,                       \* the work item: its place; it is queued
  ts_skb, ts,                             \* its locals while it delivers
  ts_irq,                                 \* the handler has seen the interrupt
  ts_reset, resets,                       \* the place in ra_net_reset; how many
  wire, ts_fifo,                          \* FPGA: packets being sent; timestamps
  lost,                                \* a timestamp was lost
  sent,                                \* packets sent so far
  freed,                               \* how often each packet was freed
  stamp                                \* the timestamp each packet was given

rings == <<skb_ptr, skb_rd_idx, skb_wr_idx, fpga_ts, ts_rd_idx, ts_wr_idx, ts_lost>>
skbs == <<skb_ptr, skb_rd_idx, skb_wr_idx>>
tss == <<fpga_ts, ts_rd_idx, ts_wr_idx>>
settings == <<enable, rx_ts_enable, config>>
worker == <<work, ts_skb, ts>>
fpga == <<wire, ts_fifo, lost>>
fate == <<freed, stamp>>
tsVars == <<settings, armed, rings, worker, pending, ts_irq, ts_reset, resets, fpga,
            sent, fate>>

Bad == 0   \* words of the FIFO without a start of timestamp

TsInit ==
  /\ enable = FALSE /\ rx_ts_enable = FALSE /\ config = NULL
  /\ armed = FALSE
  /\ skb_ptr = [i \in SkbSlot |-> NULL] /\ skb_rd_idx = 0 /\ skb_wr_idx = 0
  /\ fpga_ts = [i \in TsSlot |-> NULL] /\ ts_rd_idx = 0 /\ ts_wr_idx = 0
  /\ ts_lost = 0
  /\ work = "idle" /\ pending = FALSE
  /\ ts_skb = NULL /\ ts = NULL
  /\ ts_irq = FALSE
  /\ ts_reset = "idle" /\ resets = 0
  /\ wire = << >> /\ ts_fifo = << >> /\ lost = FALSE
  /\ sent = 0
  /\ freed = [n \in Packet |-> 0]
  /\ stamp = [n \in Packet |-> NULL]

NextSkb(i) == (i + 1) % RA_NET_TX_SKB_LIST_SIZE
NextTs(i) == (i + 1) % RA_NET_TX_TS_LIST_SIZE

\* tx_ts.lock is free: the work item is the only holder seen between steps.
Unlocked == work \in {"idle", "deliver"}

Free(n) == freed' = [freed EXCEPT ![n] = @ + 1]

-----------------------------------------------------------------------------
(* ra_net_hwtstamp_ioctl: first tx_type, then rx_filter, each followed by  *)
(* ra_net_tx_ts_config.                                                    *)

ConfigTx(tx, rx) ==
  /\ config = NULL
  /\ enable' = tx
  /\ armed' = (tx \/ rx_ts_enable)
  /\ config' = <<rx>>
  /\ UNCHANGED <<rx_ts_enable, rings, worker, pending, ts_irq, ts_reset, resets, fpga,
                 sent, fate>>

ConfigRx ==
  /\ config # NULL
  /\ rx_ts_enable' = config[1]
  /\ armed' = (enable \/ config[1])
  /\ config' = NULL
  /\ UNCHANGED <<enable, rings, worker, pending, ts_irq, ts_reset, resets, fpga, sent,
                 fate>>

-----------------------------------------------------------------------------
(* ra_net_hw_xmit_skb: ra_net_tx_ts_queue and the start of transmission.   *)

\* Mutant: a full ring drops its oldest packet without freeing it.
QueueLeaks(n) ==
  LET full == NextSkb(skb_wr_idx) = skb_rd_idx IN
  /\ skb_ptr' = [[skb_ptr EXCEPT ![skb_rd_idx] = IF full THEN NULL ELSE @]
                   EXCEPT ![skb_wr_idx] = n]
  /\ skb_rd_idx' = IF full THEN NextSkb(skb_rd_idx) ELSE skb_rd_idx
  /\ skb_wr_idx' = NextSkb(skb_wr_idx)
  /\ UNCHANGED freed

ra_net_tx_ts_queue(n) ==
  LET full == NextSkb(skb_wr_idx) = skb_rd_idx IN
  /\ skb_ptr' = [[skb_ptr EXCEPT ![skb_rd_idx] = IF full THEN NULL ELSE @]
                   EXCEPT ![skb_wr_idx] = n]
  /\ skb_rd_idx' = IF full THEN NextSkb(skb_rd_idx) ELSE skb_rd_idx
  /\ skb_wr_idx' = NextSkb(skb_wr_idx)
  /\ IF full THEN Free(skb_ptr[skb_rd_idx]) ELSE UNCHANGED freed

\* A packet that asks for a timestamp.
TsXmit ==
  /\ ts_reset = "idle"
  /\ enable
  /\ Unlocked
  /\ sent < Packets
  /\ sent' = sent + 1
  /\ ra_net_tx_ts_queue(sent + 1)
  /\ wire' = Append(wire, sent + 1)
  /\ UNCHANGED <<settings, armed, tss, ts_lost, worker, pending, ts_irq, ts_reset,
                 resets, ts_fifo, lost, stamp>>

\* The FPGA (external) has sent a packet and puts its timestamp into the FIFO,
\* possibly without its start.
Timestamped ==
  /\ wire # << >>
  /\ \/ ts_fifo' = Append(ts_fifo, Head(wire)) /\ UNCHANGED lost
     \/ ts_fifo' = Append(ts_fifo, Bad) /\ lost' = TRUE
  /\ wire' = Tail(wire)
  /\ UNCHANGED <<settings, armed, rings, worker, pending, ts_irq, ts_reset, resets,
                 sent, fate>>

-----------------------------------------------------------------------------
(* The interrupt.                                                          *)

\* ra_net_irqhandler reads and masks the status.
IrqSeen ==
  /\ ~ts_irq
  /\ armed
  /\ ts_fifo # << >>
  /\ ts_irq' = TRUE
  /\ UNCHANGED <<settings, armed, rings, worker, pending, ts_reset, resets, fpga, sent,
                 fate>>

\* A full ring loses its oldest timestamp.
MakeRoom ==
  LET full == NextTs(ts_wr_idx) = ts_rd_idx IN
  /\ ts_rd_idx' = IF full THEN NextTs(ts_rd_idx) ELSE ts_rd_idx
  /\ lost' = (lost \/ full)

\* Mutant: schedules the work only for the first timestamp in the ring.
IrqSchedulesFirst ==
  /\ ts_irq
  /\ Unlocked
  /\ MakeRoom
  /\ IF ts_fifo = << >> \/ ts_fifo[1] = Bad
     THEN /\ ts_lost' = ts_lost + 1
          /\ UNCHANGED <<fpga_ts, ts_wr_idx>>
     ELSE /\ fpga_ts' = [fpga_ts EXCEPT ![ts_wr_idx] = ts_fifo[1]]
          /\ ts_wr_idx' = NextTs(ts_wr_idx)
          /\ UNCHANGED ts_lost
  /\ ts_fifo' = IF ts_fifo = << >> THEN ts_fifo ELSE Tail(ts_fifo)
  /\ ts_irq' = FALSE
  /\ pending' = (pending \/ ts_rd_idx = ts_wr_idx)
  /\ UNCHANGED <<settings, armed, skbs, worker, ts_reset, resets, wire, sent, fate>>

\* A FIFO that was flushed after IrqSeen has no start of timestamp either.
ra_net_tx_ts_irq ==
  /\ ts_irq
  /\ Unlocked
  /\ MakeRoom
  /\ IF ts_fifo = << >> \/ ts_fifo[1] = Bad
     THEN /\ ts_lost' = ts_lost + 1
          /\ UNCHANGED <<fpga_ts, ts_wr_idx>>
     ELSE /\ fpga_ts' = [fpga_ts EXCEPT ![ts_wr_idx] = ts_fifo[1]]
          /\ ts_wr_idx' = NextTs(ts_wr_idx)
          /\ UNCHANGED ts_lost
  /\ ts_fifo' = IF ts_fifo = << >> THEN ts_fifo ELSE Tail(ts_fifo)
  /\ ts_irq' = FALSE
  /\ pending' = TRUE
  /\ UNCHANGED <<settings, armed, skbs, worker, ts_reset, resets, wire, sent, fate>>

-----------------------------------------------------------------------------
(* ra_net_tx_ts_work, started by the workqueue (external).                 *)

WorkStarts ==
  /\ work = "idle"
  /\ pending
  /\ pending' = FALSE
  /\ work' = "drain"
  /\ UNCHANGED <<settings, armed, rings, ts_skb, ts, ts_irq, ts_reset, resets, fpga,
                 sent, fate>>

HaveSkb == skb_wr_idx # skb_rd_idx
HaveTs == ts_wr_idx # ts_rd_idx

ConsumeSkb ==
  /\ skb_ptr' = [skb_ptr EXCEPT ![skb_rd_idx] = NULL]
  /\ skb_rd_idx' = NextSkb(skb_rd_idx)

\* The first loop: a packet for each timestamp that was lost.
WorkDrain ==
  /\ work = "drain"
  /\ IF ts_lost > 0 /\ HaveSkb
     THEN /\ Free(skb_ptr[skb_rd_idx])
          /\ ConsumeSkb
          /\ ts_lost' = ts_lost - 1
          /\ UNCHANGED work
     ELSE /\ work' = "match"
          /\ UNCHANGED <<skb_ptr, skb_rd_idx, ts_lost, freed>>
  /\ UNCHANGED <<settings, armed, skb_wr_idx, tss, ts_skb, ts, pending, ts_irq,
                 ts_reset, resets,
                 fpga, sent, stamp>>

\* Mutant: compares the sequence ids the wrong way round.
StampReversed(n, t) ==
  LET own == Seq_id[n] = Seq_id[t] IN
  [ts_consumed  |-> Seq_id[n] = Short \/ own \/ Seq_id[t] > Seq_id[n],
   skb_consumed |-> Seq_id[n] = Short \/ own \/ ~(Seq_id[t] > Seq_id[n]),
   do_stamp     |-> Seq_id[n] # Short /\ own]

\* Mutant: gives a packet the first timestamp, whatever its sequence id.
StampFirst(n, t) ==
  [ts_consumed |-> TRUE, skb_consumed |-> TRUE, do_stamp |-> Seq_id[n] # Short]

\* What becomes of packet n and timestamp t at the heads of the rings.
ra_net_stamp_tx_skb(n, t) ==
  LET own == Seq_id[n] = Seq_id[t] IN
  [ts_consumed  |-> Seq_id[n] = Short \/ own \/ Seq_id[t] < Seq_id[n],
   skb_consumed |-> Seq_id[n] = Short \/ own \/ ~(Seq_id[t] < Seq_id[n]),
   do_stamp     |-> Seq_id[n] # Short /\ own]

\* One round of the second loop, or its end.
WorkMatch ==
  /\ work = "match"
  /\ IF HaveSkb /\ HaveTs
     THEN LET n == skb_ptr[skb_rd_idx]
              t == fpga_ts[ts_rd_idx]
              r == ra_net_stamp_tx_skb(n, t)
          IN /\ IF r.skb_consumed THEN ConsumeSkb ELSE UNCHANGED <<skb_ptr, skb_rd_idx>>
             /\ ts_rd_idx' = IF r.ts_consumed THEN NextTs(ts_rd_idx) ELSE ts_rd_idx
             /\ IF r.do_stamp
                THEN work' = "deliver" /\ ts_skb' = n /\ ts' = t /\ UNCHANGED freed
                ELSE /\ IF r.skb_consumed THEN Free(n) ELSE UNCHANGED freed
                     /\ UNCHANGED worker
     ELSE /\ work' = "idle"
          /\ UNCHANGED <<skb_ptr, skb_rd_idx, ts_rd_idx, ts_skb, ts, freed>>
  /\ UNCHANGED <<settings, armed, skb_wr_idx, fpga_ts, ts_wr_idx, ts_lost, pending,
                 ts_irq,
                 ts_reset, resets, fpga, sent, stamp>>

\* skb_tstamp_tx and dev_kfree_skb_any, without the lock.
WorkDelivers ==
  /\ work = "deliver"
  /\ stamp' = [stamp EXCEPT ![ts_skb] = ts]
  /\ Free(ts_skb)
  /\ work' = "match"
  /\ ts_skb' = NULL /\ ts' = NULL
  /\ UNCHANGED <<settings, armed, rings, pending, ts_irq, ts_reset, resets, fpga, sent>>

Work == WorkStarts \/ WorkDrain \/ WorkMatch \/ WorkDelivers

-----------------------------------------------------------------------------
(* ra_net_reset, called to open or stop the interface or after a timeout;  *)
(* nothing is transmitted meanwhile.                                       *)

ResetDisarms ==
  /\ ts_reset = "idle"
  /\ resets < MaxResets
  /\ resets' = resets + 1
  /\ armed' = FALSE
  /\ ts_reset' = "cancel"
  /\ UNCHANGED <<settings, rings, worker, pending, ts_irq, fpga, sent, fate>>

\* cancel_work_sync waits for a work item that runs and forgets a queued one.
ResetCancels ==
  /\ ts_reset = "cancel"
  /\ work = "idle"
  /\ pending' = FALSE
  /\ ts_reset' = "flush"
  /\ UNCHANGED <<settings, armed, rings, worker, ts_irq, resets, fpga, sent, fate>>

ra_net_flush_tx_ts ==
  /\ ts_reset = "flush"
  /\ Unlocked
  /\ ts_fifo' = << >>
  /\ freed' = [n \in Packet |->
                 freed[n] + Cardinality({i \in SkbSlot : skb_ptr[i] = n})]
  /\ skb_ptr' = [i \in SkbSlot |-> NULL] /\ skb_rd_idx' = 0 /\ skb_wr_idx' = 0
  /\ ts_rd_idx' = 0 /\ ts_wr_idx' = 0 /\ ts_lost' = 0
  /\ ts_reset' = "idle"
  /\ UNCHANGED <<settings, armed, fpga_ts, worker, pending, ts_irq, resets, wire, lost,
                 sent, stamp>>

TsIrq == IrqSeen \/ ra_net_tx_ts_irq

TsNext ==
  \/ \E tx, rx \in BOOLEAN : ConfigTx(tx, rx)
  \/ ConfigRx
  \/ TsXmit
  \/ Timestamped
  \/ TsIrq
  \/ Work
  \/ ResetDisarms \/ ResetCancels \/ ra_net_flush_tx_ts

\* Interrupts are served, work runs, a reset ends, and the FPGA sends.
TsFairness ==
  WF_tsVars(Timestamped) /\ WF_tsVars(TsIrq) /\ WF_tsVars(Work) /\ SF_tsVars(ResetCancels)
  /\ WF_tsVars(ra_net_flush_tx_ts)

TsSpec == TsInit /\ [][TsNext]_tsVars /\ TsFairness

-----------------------------------------------------------------------------
\* Slots in use: from the read index up to the write index.
Used(rd, wr, size) == {(rd + k) % size : k \in 0 .. ((wr - rd) % size) - 1}
Queued == {skb_ptr[i] : i \in Used(skb_rd_idx, skb_wr_idx, RA_NET_TX_SKB_LIST_SIZE)}
Stored == {fpga_ts[i] : i \in Used(ts_rd_idx, ts_wr_idx, RA_NET_TX_TS_LIST_SIZE)}

\* Every packet handed to ra_net_tx_ts_queue is in exactly one place: in one slot
\* of the ring, with the work item, or freed, once.  None is leaked and none is
\* freed twice, whoever of the transmit path, the work item and a reset takes it
\* out; and the slots not in use hold no packet.
SkbsAccounted ==
  /\ \A n \in Packet :
       freed[n] + Cardinality({i \in SkbSlot : skb_ptr[i] = n}) + (IF ts_skb = n THEN 1 ELSE 0)
         = IF n <= sent THEN 1 ELSE 0
  /\ {skb_ptr[i] : i \in SkbSlot} \ {NULL} = Queued

\* "sequence ID is unique and sufficient to associate timestamp and packet":
\* a packet is only given the timestamp that the FPGA took for it.
StampIsOwn == \A n \in Packet : stamp[n] \in {NULL, n}

\* Ids grow from packet to packet up to n; they start again from 0 after 65535.
Growing(n) == \A m \in 1 .. n - 1 : Seq_id[m] < Seq_id[n]

\* A packet that ra_net_stamp_tx_skb gives up for a timestamp that is newer has
\* no timestamp to come: its own is neither stored nor in the FIFO nor yet to be
\* taken.  An id that has wrapped is an exception: it seems to be older than all
\* the timestamps still there.
GivesUpOnlyUnstamped ==
  [][work = "match" /\ HaveSkb /\ HaveTs /\ work' = "match" /\ skb_rd_idx' # skb_rd_idx =>
       LET n == skb_ptr[skb_rd_idx] IN
       Growing(n) /\ Seq_id[n] # Short =>
         /\ \A i \in 1 .. Len(ts_fifo \o wire) : (ts_fifo \o wire)[i] # n
         /\ n \notin Stored]_tsVars

\* "Discard those skbs now so the two lists stay synchronised": the packets that
\* the work item discards for lost timestamps are packets without a timestamp.
DrainsOnlyLost ==
  [][work = "drain" /\ skb_rd_idx' # skb_rd_idx => skb_ptr[skb_rd_idx] \notin Stored]_tsVars

\* A packet does not stay in the ring forever while the interrupt is enabled, if
\* no timestamp is lost: its timestamp, or that of a later packet, takes it out.
EverySkbLeaves ==
  \A n \in Packet : (n \in Queued) ~> (n \notin Queued \/ ~armed \/ lost)

-----------------------------------------------------------------------------
(* The inductive invariant                                                 *)

TsTypeOK ==
  /\ sent \in 0 .. Packets
  /\ skb_ptr \in [SkbSlot -> Packet \cup {NULL}] /\ skb_rd_idx \in SkbSlot /\ skb_wr_idx \in SkbSlot
  /\ fpga_ts \in [TsSlot -> Packet \cup {NULL}] /\ ts_rd_idx \in TsSlot /\ ts_wr_idx \in TsSlot
  /\ work \in {"idle", "drain", "match", "deliver"}
  /\ ts_skb \in Packet \cup {NULL} /\ ts \in Packet \cup {NULL}
  /\ wire \in Seq(Packet) /\ ts_fifo \in Seq(Packet \cup {Bad})
  /\ freed \in [Packet -> 0 .. 1]
  /\ stamp \in [Packet -> Packet \cup {NULL}]

\* Slot i is in use, and how far it is from the read index, without a modulus.
InUse(i, rd, wr) == IF rd <= wr THEN rd <= i /\ i < wr ELSE rd <= i \/ i < wr
Place(i, rd, size) == IF rd <= i THEN i - rd ELSE i - rd + size

\* The slots in use hold packets, each its own, and the others none.
SkbRing(ptr, rd, wr) ==
  /\ \A i \in SkbSlot : ptr[i] # NULL <=> InUse(i, rd, wr)
  /\ \A i, j \in SkbSlot : ptr[i] = ptr[j] /\ ptr[i] # NULL => i = j

Holds(ptr, n) == \E i \in SkbSlot : ptr[i] = n

\* A packet that was sent is in the ring, with the work item, or freed.
InOnePlace ==
  \A n \in Packet :
    /\ n > sent => freed[n] = 0 /\ ~Holds(skb_ptr, n) /\ ts_skb # n
    /\ n <= sent => \/ freed[n] = 1 /\ ~Holds(skb_ptr, n) /\ ts_skb # n
                    \/ freed[n] = 0 /\ Holds(skb_ptr, n) /\ ts_skb # n
                    \/ freed[n] = 0 /\ ~Holds(skb_ptr, n) /\ ts_skb = n

\* The timestamps in a sequence are of packets that were sent, in their order.
Increasing(q, n) ==
  /\ \A k \in 1 .. Len(q) : q[k] <= n
  /\ \A k, l \in 1 .. Len(q) : k < l /\ q[k] # Bad /\ q[l] # Bad => q[k] < q[l]

\* So are those in the ring, from the read index on, and the ones in the FIFO (q)
\* are of later packets, and those still to be taken (w) of later ones yet.
TsRing(ring, rd, wr, q, w, n) ==
  /\ \A i \in TsSlot : InUse(i, rd, wr) => ring[i] \in 1 .. n
  /\ \A i, j \in TsSlot :
       InUse(i, rd, wr) /\ InUse(j, rd, wr)
       /\ Place(i, rd, RA_NET_TX_TS_LIST_SIZE) < Place(j, rd, RA_NET_TX_TS_LIST_SIZE)
         => ring[i] < ring[j]
  /\ \A i \in TsSlot, k \in 1 .. Len(q) : InUse(i, rd, wr) /\ q[k] # Bad => ring[i] < q[k]
  /\ \A i \in TsSlot, k \in 1 .. Len(w) : InUse(i, rd, wr) => ring[i] < w[k]
  /\ \A k \in 1 .. Len(q), l \in 1 .. Len(w) : q[k] # Bad => q[k] < w[l]
  /\ Increasing(q, n) /\ Increasing(w, n)

\* What the work item delivers, or has delivered, has the id of the packet.
StampById ==
  /\ ts_skb # NULL <=> work = "deliver"
  /\ work = "deliver" => ts # NULL /\ Seq_id[ts_skb] = Seq_id[ts] /\ Seq_id[ts_skb] # Short
  /\ \A n \in Packet :
       stamp[n] # NULL => Seq_id[stamp[n]] = Seq_id[n] /\ Seq_id[n] # Short

TsIInv ==
  /\ TsTypeOK
  /\ SkbRing(skb_ptr, skb_rd_idx, skb_wr_idx)
  /\ InOnePlace
  /\ TsRing(fpga_ts, ts_rd_idx, ts_wr_idx, ts_fifo, wire, sent)
  /\ StampById

\* No two packets have the same id.
UniqueIds ==
  \A m, n \in Packet : Seq_id[m] = Seq_id[n] /\ Seq_id[m] # Short => m = n

=============================================================================
