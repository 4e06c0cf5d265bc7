------------------------------ MODULE NetProofs ------------------------------
(***************************************************************************)
(* Proofs about the receive and the transmit side of ra_net.  NetRx: for   *)
(* any size of the FIFO, any NAPI budget and any number of DMA             *)
(* descriptors.  NetTx: for a FIFO, a threshold and a qdisc of any size,   *)
(* in no order of the steps of start_xmit, the interrupt handler, the      *)
(* watchdog, the receive path and the ioctl is a wake-up of the transmit   *)
(* queue lost, but for the one netif_start_queue that does not schedule.   *)
(* TxTimestamp: for any number of packets, any sequence ids and rings of   *)
(* any size.                                                               *)
(***************************************************************************)
EXTENDS NetRx, NetTx, TxTimestamp, FiniteSetTheorems, TLAPS

\* The provers to try, in this order: a leaf gets more attempts than by default,
\* since one attempt can run out of time on a slow machine.
USE SMTT(10), ZenonT(20), Z3T(20), SMTT(30), Z3T(40), SMTT(60), ZenonT(40)

\* The sizes are positive.
LEMMA Sizes ==
  /\ RxFifoSize \in Nat /\ Budget \in Nat
  /\ 0 \in 0 .. RxFifoSize /\ 0 \in 0 .. Budget
<1>1. RxFifoSize \in Nat /\ Budget \in Nat
  BY NetRxAssumption
<1> QED
  BY <1>1

\* Counting up to a bound.
LEMMA OneMore == ASSUME NEW m \in Nat, NEW n \in 0 .. m, n < m PROVE n + 1 \in 0 .. m
OBVIOUS

\* The channel may be idle.
LEMMA NoTransfer == <<>> \in Seq(BOOLEAN)
OBVIOUS

\* Another transfer.
LEMMA Appended ==
  ASSUME NEW S, NEW s \in Seq(S), NEW x \in S
  PROVE  /\ Append(s, x) \in Seq(S) /\ Append(s, x) # <<>>
         /\ s = <<>> => Len(Append(s, x)) = 1 /\ Head(Append(s, x)) = x
OBVIOUS

\* The device is closed at probe.
LEMMA InitIInv == Init => IInv
<1> SUFFICES ASSUME Init PROVE IInv
  OBVIOUS
<1>1. transfers \in Seq(BOOLEAN) /\ fresh \in SUBSET {"irq", "callback", "poll"}
  BY DEF Init
<1>2. reset \in [{"netdev", "watchdog"} -> {"idle", "mask", "fifo", "dma"}]
  BY DEF Init
<1>3. napi \in [state : {"off", "idle", "sched"}, missed : BOOLEAN]
  BY DEF Init
<1>4. poll \in [at : {"idle", "status", "fifo", "enable"}, count : 0 .. Budget]
  BY Sizes DEF Init
<1>5. TypeOK
  BY <1>1, <1>2, <1>3, <1>4, Sizes DEF Init, TypeOK
<1>6. ModesApart /\ StopsInOrder
  BY DEF Init, ModesApart, Up, StopsInOrder, Shut
<1>7. OneToken
  BY DEF Init, OneToken
<1>8. StatusHolds /\ DeliveredIntact
  BY DEF Init, StatusHolds, DeliveredIntact
<1> QED
  BY <1>5, <1>6, <1>7, <1>8 DEF IInv

\* The transfers that a reader leaves behind.
LEMMA OutdatedType ==
  ASSUME transfers \in Seq(BOOLEAN)
  PROVE  /\ Outdated \in Seq(BOOLEAN)
         /\ Len(Outdated) = Len(transfers)
         /\ transfers = <<>> => Outdated = <<>>
         /\ transfers # <<>> => Tail(Outdated) \in Seq(BOOLEAN)
         /\ transfers # <<>> /\ Len(transfers) \in {0, 1} => Tail(Outdated) = <<>>
<1>1. /\ Len(transfers) \in Nat
      /\ DOMAIN transfers = 1 .. Len(transfers)
      /\ transfers # <<>> => Len(transfers) > 0
  OBVIOUS
<1>2. Outdated = [i \in 1 .. Len(transfers) |-> FALSE]
  BY <1>1 DEF Outdated
<1>3. Outdated \in Seq(BOOLEAN) /\ Len(Outdated) = Len(transfers)
  BY <1>1, <1>2
<1>4. transfers = <<>> => Outdated = <<>>
  BY <1>3
<1> HIDE DEF Outdated
<1>5. ASSUME transfers # <<>>
      PROVE  Tail(Outdated) \in Seq(BOOLEAN) /\ Len(Tail(Outdated)) = Len(transfers) - 1
  BY <1>1, <1>3, <1>5
<1>6. ASSUME transfers # <<>>, Len(transfers) \in {0, 1}
      PROVE  Tail(Outdated) = <<>>
  BY <1>1, <1>5, <1>6
<1> QED
  BY <1>3, <1>4, <1>5, <1>6

\* What a reader leaves in the FIFO, and of the statuses.
LEMMA ReadType ==
  ASSUME NEW holds, ReadPacket(holds), rx \in 0 .. RxFifoSize, garbled \in BOOLEAN
  PROVE  rx' \in 0 .. RxFifoSize /\ garbled' \in BOOLEAN /\ fresh' = {}
<1>1. rx' \in 0 .. RxFifoSize
  BY Sizes DEF ReadPacket
<1>2. garbled' \in BOOLEAN /\ fresh' = {}
  BY DEF ReadPacket
<1> QED
  BY <1>1, <1>2

\* A poll that is complete leaves NAPI on.
LEMMA Completed ==
  ASSUME napi_complete_done
  PROVE  /\ napi' \in [state : {"off", "idle", "sched"}, missed : BOOLEAN]
         /\ napi'.state # "off"
BY DEF napi_complete_done

\* The steps of FIFO mode.
LEMMA PollIInv == ASSUME IInv, Poll \/ IrqSchedule PROVE IInv'
<1> USE DEF IInv, ModesApart, OneToken, StopsInOrder, Shut, StatusHolds,
        DeliveredIntact, At, Up, netif_running, ctl, data
<1>0. ~dma_rx_chan
  BY DEF TypeOK, Poll, PollBegin, PollStatus, PollFifo, PollEnds, PollEnable, IrqSchedule
<1>1. CASE PollBegin
  <2>1. TypeOK'
    BY <1>1, Sizes DEF PollBegin, TypeOK
  <2> QED
    BY <1>0, <1>1, <2>1 DEF PollBegin
<1>2. CASE PollStatus
  BY <1>0, <1>2 DEF PollStatus, TypeOK
<1>3. CASE PollFifo
  <2>1. rx' \in 0 .. RxFifoSize /\ garbled' \in BOOLEAN /\ fresh' = {}
    BY <1>3, ReadType DEF PollFifo, TypeOK
  <2>2. poll' \in [at : {"idle", "status", "fifo", "enable"}, count : 0 .. Budget]
    <3>1. poll.count \in 0 .. Budget /\ poll.count < Budget
      BY <1>3 DEF PollFifo, TypeOK
    <3>2. poll.count + 1 \in 0 .. Budget
      BY <3>1, Sizes, OneMore
    <3> QED
      BY <1>3, <3>2 DEF PollFifo
  <2>3. transfers' = <<>>
    BY <1>0, <1>3, OutdatedType DEF PollFifo, TypeOK
  <2>4. TypeOK'
    BY <1>3, <2>1, <2>2, <2>3 DEF PollFifo, TypeOK
  <2>5. DeliveredIntact'
    BY <1>0, <1>3 DEF PollFifo, ReadPacket
  <2> QED
    BY <1>0, <1>3, <2>1, <2>3, <2>4, <2>5 DEF PollFifo
<1>4. CASE PollEnds
  <2>1. /\ napi' \in [state : {"off", "idle", "sched"}, missed : BOOLEAN]
        /\ napi'.state # "off"
    <3>1. napi.state = "sched" /\ (napi_complete_done \/ UNCHANGED napi)
      BY <1>4 DEF PollEnds
    <3> QED
      BY <3>1, Completed DEF TypeOK
  <2>2. /\ poll' \in [at : {"idle", "status", "fifo", "enable"}, count : 0 .. Budget]
        /\ poll'.at = "enable"
    BY <1>4 DEF PollEnds, TypeOK
  <2>3. TypeOK'
    BY <1>4, <2>1, <2>2 DEF PollEnds, TypeOK
  <2>4. napi.state = "sched" /\ netdev \notin {"stopped", "closed", "opening"}
    BY <1>4 DEF PollEnds
  <2> QED
    BY <1>0, <1>4, <2>1, <2>2, <2>3, <2>4 DEF PollEnds
<1>5. CASE PollEnable
  <2>1. (netdev = "disabling" /\ napi_complete_done) \/ UNCHANGED napi
    BY <1>5 DEF PollEnable
  <2>2. /\ napi' \in [state : {"off", "idle", "sched"}, missed : BOOLEAN]
        /\ napi'.state = "off" <=> napi.state = "off"
    BY <2>1, Completed DEF TypeOK
  <2>3. poll' \in [at : {"idle", "status", "fifo", "enable"}, count : 0 .. Budget]
        /\ poll'.at = "idle"
    BY <1>5, Sizes DEF PollEnable
  <2>4. TypeOK'
    BY <1>5, <2>2, <2>3 DEF PollEnable, TypeOK
  <2> QED
    BY <1>0, <1>5, <2>2, <2>3, <2>4 DEF PollEnable
<1>6. CASE IrqSchedule
  <2>1. /\ napi' \in [state : {"off", "idle", "sched"}, missed : BOOLEAN]
        /\ napi'.state = "off" <=> napi.state = "off"
        /\ napi.state = "sched" => napi'.state = "sched"
    <3>1. CASE netdev = "disabling"
      BY <1>6, <3>1 DEF IrqSchedule, napi_schedule, TypeOK
    <3>2. CASE netdev # "disabling"
      BY <1>6, <3>2 DEF IrqSchedule, napi_schedule, TypeOK
    <3> QED
      BY <3>1, <3>2
  <2>2. TypeOK'
    BY <1>6, <2>1 DEF IrqSchedule, TypeOK
  <2> QED
    BY <1>0, <1>6, <2>1, <2>2 DEF IrqSchedule
<1> QED
  BY <1>1, <1>2, <1>3, <1>4, <1>5, <1>6 DEF Poll

\* The interrupt handler takes the token, and may lose it to the next handler
\* only after it has masked the interrupt.
LEMMA IrqIInv == ASSUME IInv, IrqBegin \/ IrqDisable PROVE IInv'
<1> USE DEF IInv, TypeOK, ModesApart, OneToken, StopsInOrder, Shut, StatusHolds,
        DeliveredIntact, At, Up, ctl, data
<1>1. CASE IrqBegin
  BY <1>1 DEF IrqBegin
<1>2. CASE IrqDisable
  BY <1>2 DEF IrqDisable
<1> QED
  BY <1>1, <1>2

\* A packet comes in.
LEMMA ReceiveIInv == ASSUME IInv, Receive PROVE IInv'
<1> USE DEF IInv, ModesApart, OneToken, StopsInOrder, Shut, StatusHolds,
        DeliveredIntact, At, Up, ctl
<1>1. rx' \in 0 .. RxFifoSize
  BY Sizes, OneMore DEF Receive, TypeOK
<1>2. UNCHANGED <<ctl, transfers, fresh, late, outlived, garbled, enabled, irq, napi, poll,
                callback>>
  BY DEF Receive
<1>3. TypeOK'
  <2>1. /\ (dma_rx_chan \in BOOLEAN /\ watchdog \in BOOLEAN /\ timedout \in BOOLEAN)'
        /\ (enabled \in BOOLEAN /\ late \in BOOLEAN /\ outlived \in BOOLEAN)'
        /\ (garbled \in BOOLEAN)'
    BY <1>2 DEF TypeOK
  <2>2. (poll.at = "fifo" => poll.count < Budget)'
    BY <1>2 DEF TypeOK
  <2> QED
    BY <1>1, <1>2, <2>1, <2>2 DEF TypeOK
<1> QED
  BY <1>2, <1>3

\* The handler or the callback, with the token, starts a transfer or enables the
\* interrupt.
LEMMA DmaIInv == ASSUME IInv, NEW r \in {"irq", "callback"}, ra_net_dma_rx(r) PROVE IInv'
<1> USE DEF IInv, ModesApart, OneToken, StopsInOrder, Shut, StatusHolds,
        DeliveredIntact, At, Goto, Up, ctl, data
<1>0. dma_rx_chan
  BY DEF TypeOK, ra_net_dma_rx, DmaStatus, DmaStart, DmaStartFails, DmaEnable
<1>1. CASE DmaStatus(r)
  <2>1. TypeOK'
    BY <1>1 DEF DmaStatus, TypeOK
  <2> QED
    BY <1>0, <1>1, <2>1 DEF DmaStatus
<1>2. CASE DmaStart(r)
  <2>1. /\ transfers' \in Seq(BOOLEAN) /\ transfers' # <<>>
        /\ transfers = <<>> => Len(transfers') = 1 /\ (Head(transfers') <=> r \in fresh)
    <3> DEFINE v == r \in fresh /\ transfers = <<>>
    <3>1. transfers' = Append(transfers, v) /\ transfers \in Seq(BOOLEAN) /\ v \in BOOLEAN
      BY <1>2 DEF DmaStart, TypeOK
    <3>2. transfers = <<>> => (v <=> r \in fresh)
      OBVIOUS
    <3> HIDE DEF v
    <3> QED
      BY <3>1, <3>2, Appended
  <2>2. TypeOK'
    BY <1>2, <2>1 DEF DmaStart, TypeOK
  <2>3. ~late => transfers = <<>>
    BY <1>0, <1>2 DEF DmaStart
  <2>4. ModesApart' /\ StopsInOrder'
    BY <1>0, <1>2, <2>1 DEF DmaStart, TypeOK
  <2>5. OneToken'
    <3>1. ASSUME ~late
          PROVE  ~enabled' /\ irq' = "idle" /\ callback' = "idle" /\ Len(transfers') = 1
      BY <1>0, <1>2, <2>1, <2>3, <3>1 DEF DmaStart
    <3> SUFFICES ASSUME ~late
                 PROVE  /\ ~enabled' /\ irq' = "idle" /\ callback' = "idle"
                        /\ Len(transfers') \in {0, 1}
      BY <1>2 DEF DmaStart
    <3> QED
      BY <3>1
  <2>6. StatusHolds'
    BY <1>0, <1>2, <2>1, <2>3 DEF DmaStart, TypeOK
  <2> QED
    BY <1>2, <2>2, <2>4, <2>5, <2>6 DEF DmaStart
<1>3. CASE DmaStartFails(r)
  <2>1. TypeOK'
    BY <1>3 DEF DmaStartFails, TypeOK
  <2> QED
    BY <1>0, <1>3, <2>1 DEF DmaStartFails
<1>4. CASE DmaEnable(r)
  <2>1. TypeOK'
    BY <1>4 DEF DmaEnable, TypeOK
  <2> QED
    BY <1>0, <1>4, <2>1 DEF DmaEnable
<1> QED
  BY <1>1, <1>2, <1>3, <1>4 DEF ra_net_dma_rx

\* The token goes from the transfer to its callback, and the packet that was
\* read is the one its status announced.
LEMMA CompleteIInv == ASSUME IInv, DmaComplete PROVE IInv'
<1> USE DEF IInv, ModesApart, OneToken, StopsInOrder, Shut, StatusHolds,
        DeliveredIntact, At, Up, ctl
<1>0. dma_rx_chan
  BY DEF DmaComplete
<1>1. rx' \in 0 .. RxFifoSize /\ garbled' \in BOOLEAN /\ fresh' = {}
  BY ReadType DEF DmaComplete, TypeOK
<1>2. transfers' \in Seq(BOOLEAN) /\ (~late => transfers' = <<>>)
  BY <1>0, OutdatedType DEF DmaComplete, TypeOK
<1>3. TypeOK'
  BY <1>1, <1>2 DEF DmaComplete, TypeOK
<1>4. DeliveredIntact'
  <2>1. ASSUME netif_running, ~late, ~timedout
        PROVE  Head(transfers)
    BY <1>0, <2>1 DEF DmaComplete, netif_running
  <2> QED
    BY <2>1 DEF DmaComplete, ReadPacket
<1>5. ~late => irq = "idle" /\ ~enabled
  BY <1>0 DEF DmaComplete
<1>6. ModesApart' /\ StopsInOrder'
  BY <1>0, <1>2 DEF DmaComplete
<1>7. OneToken'
  <2>1. ~late' => ~enabled' /\ irq' = "idle" /\ transfers' = <<>>
    BY <1>2, <1>5 DEF DmaComplete
  <2> SUFFICES ASSUME ~late'
               PROVE  /\ ~enabled' /\ irq' = "idle" /\ transfers' = <<>>
                      /\ Len(transfers') \in {0, 1}
    OBVIOUS
  <2>2. ~enabled' /\ irq' = "idle"
    BY <2>1
  <2>3. transfers' = <<>>
    BY <2>1
  <2>4. Len(transfers') \in {0, 1}
    BY <2>3
  <2> QED
    BY <2>2, <2>3, <2>4
<1>8. StatusHolds'
  BY <1>0, <1>2, <1>5 DEF DmaComplete
<1> QED
  BY <1>3, <1>4, <1>6, <1>7, <1>8

\* ra_net_reset takes the token away, unless somebody else than the register or
\* a transfer has it.
LEMMA ResetIInv == ASSUME IInv, NEW a \in {"netdev", "watchdog"}, ra_net_reset(a) PROVE IInv'
<1> USE DEF IInv, ModesApart, OneToken, StopsInOrder, Shut, StatusHolds,
        DeliveredIntact, At, Up, data
<1>1. CASE ResetMask(a)
  <2>1. TypeOK'
    <3>1. reset' \in [{"netdev", "watchdog"} -> {"idle", "mask", "fifo", "dma"}]
      BY <1>1 DEF ResetMask, TypeOK
    <3>2. (poll.at = "fifo" => poll.count < Budget)'
      BY <1>1 DEF ResetMask, TypeOK
    <3> QED
      BY <1>1, <3>1, <3>2 DEF ResetMask, TypeOK
  <2>2. ModesApart' /\ OneToken'
    BY <1>1 DEF ResetMask, TypeOK
  <2>3. StopsInOrder' /\ StatusHolds' /\ DeliveredIntact'
    BY <1>1 DEF ResetMask, TypeOK
  <2> QED
    BY <2>1, <2>2, <2>3
<1>2. CASE ra_net_flush_rx_fifo(a)
  <2>1. /\ transfers' \in Seq(BOOLEAN) /\ Len(transfers') = Len(transfers)
        /\ transfers = <<>> => transfers' = <<>>
        /\ fresh' \in SUBSET {"irq", "callback", "poll"}
    BY <1>2, OutdatedType DEF ra_net_flush_rx_fifo, TypeOK
  <2>2. TypeOK'
    <3>1. reset' \in [{"netdev", "watchdog"} -> {"idle", "mask", "fifo", "dma"}]
      BY <1>2 DEF ra_net_flush_rx_fifo, TypeOK
    <3>2. (poll.at = "fifo" => poll.count < Budget)'
      BY <1>2 DEF ra_net_flush_rx_fifo, TypeOK
    <3>3. rx' \in 0 .. RxFifoSize
      BY <1>2, Sizes DEF ra_net_flush_rx_fifo
    <3>4. UNCHANGED <<dma_rx_chan, netdev, watchdog, timedout, late, outlived, garbled,
                      enabled, irq, napi, poll, callback>>
      BY <1>2 DEF ra_net_flush_rx_fifo
    <3>5. /\ (dma_rx_chan \in BOOLEAN /\ watchdog \in BOOLEAN /\ timedout \in BOOLEAN)'
          /\ (enabled \in BOOLEAN /\ late \in BOOLEAN /\ outlived \in BOOLEAN)'
        /\ (garbled \in BOOLEAN)'
      BY <2>1, <3>4 DEF TypeOK
    <3> QED
      BY <2>1, <3>1, <3>2, <3>3, <3>4, <3>5 DEF TypeOK
  <2>3. ModesApart' /\ OneToken'
    BY <1>2, <2>1 DEF ra_net_flush_rx_fifo, TypeOK
  <2>4. StopsInOrder' /\ DeliveredIntact'
    BY <1>2, <2>1 DEF ra_net_flush_rx_fifo, TypeOK
  <2>5. StatusHolds'
    BY <1>2 DEF ra_net_flush_rx_fifo, TypeOK
  <2> QED
    BY <2>2, <2>3, <2>4, <2>5
<1>3. CASE ra_net_dma_flush(a)
  <2>1. late' \in BOOLEAN /\ (late => late') /\ transfers' = <<>>
    BY <1>3 DEF ra_net_dma_flush, TypeOK
  <2>2. a = "netdev" /\ ~late' => ~ReceivePathRuns
    BY <1>3 DEF ra_net_dma_flush, TypeOK
  <2>3. late' /\ ~late => dma_rx_chan
    BY <1>3 DEF ra_net_dma_flush, ReceivePathRuns, TypeOK
  <2>4. TypeOK'
    <3>1. reset' \in [{"netdev", "watchdog"} -> {"idle", "mask", "fifo", "dma"}]
      BY <1>3 DEF ra_net_dma_flush, TypeOK
    <3>2. (poll.at = "fifo" => poll.count < Budget)'
      BY <1>3 DEF ra_net_dma_flush, TypeOK
    <3>3. transfers' \in Seq(BOOLEAN)
      BY <2>1, NoTransfer
    <3>4. UNCHANGED <<dma_rx_chan, netdev, watchdog, timedout, rx, fresh, outlived, garbled,
                      enabled, irq, napi, poll, callback>>
      BY <1>3 DEF ra_net_dma_flush
    <3>5. /\ (dma_rx_chan \in BOOLEAN /\ watchdog \in BOOLEAN /\ timedout \in BOOLEAN)'
          /\ (enabled \in BOOLEAN /\ late \in BOOLEAN /\ outlived \in BOOLEAN)'
        /\ (garbled \in BOOLEAN)'
      BY <2>1, <3>4 DEF TypeOK
    <3> QED
      BY <2>1, <3>1, <3>2, <3>3, <3>4, <3>5 DEF TypeOK
  <2>5. ModesApart'
    BY <1>3, <2>1, <2>3 DEF ra_net_dma_flush, TypeOK
  <2>6. OneToken' /\ StatusHolds' /\ DeliveredIntact'
    BY <1>3, <2>1 DEF ra_net_dma_flush, TypeOK
  <2>7. StopsInOrder'
    BY <1>3, <2>1, <2>2 DEF ra_net_dma_flush, ReceivePathRuns, TypeOK
  <2> QED
    BY <2>4, <2>5, <2>6, <2>7
<1> QED
  BY <1>1, <1>2, <1>3 DEF ra_net_reset

\* The steps of the watchdog, of ra_net_open and of ra_net_stop around the reset.
LEMMA RtnlIInv ==
  ASSUME IInv,
         TimeoutBegin \/ TimeoutEnd \/ OpenBegin \/ OpenEnd \/ StopBegin \/ StopDisables
         \/ StopNapi \/ StopEnd
  PROVE  IInv'
<1> USE DEF IInv, TypeOK, ModesApart, OneToken, StopsInOrder, Shut, StatusHolds,
        DeliveredIntact, At, Up, data
<1>1. CASE TimeoutBegin
  BY <1>1 DEF TimeoutBegin
<1>2. CASE TimeoutEnd
  BY <1>2 DEF TimeoutEnd
<1>3. CASE OpenBegin
  BY <1>3 DEF OpenBegin
<1>4. CASE OpenEnd
  BY <1>4 DEF OpenEnd
<1>5. CASE StopBegin
  <2>1. TypeOK'
    BY <1>5 DEF StopBegin
  <2> QED
    BY <1>5, <2>1 DEF StopBegin
<1>6. CASE StopNapi
  BY <1>6 DEF StopNapi
<1>7. CASE StopEnd
  BY <1>7 DEF StopEnd
<1>8. CASE StopDisables
  BY <1>8 DEF StopDisables
<1> QED
  BY <1>1, <1>2, <1>3, <1>4, <1>5, <1>6, <1>7, <1>8

\* Every step preserves the invariant.
LEMMA NextIInv == IInv /\ [Next]_vars => IInv'
<1> SUFFICES ASSUME IInv, [Next]_vars PROVE IInv'
  OBVIOUS
<1>1. CASE Next
  BY <1>1, ReceiveIInv, PollIInv, IrqIInv, DmaIInv, CompleteIInv, ResetIInv, RtnlIInv
     DEF Next, Poll, Irq, Callback, Timeout, Open, Stop
<1>2. CASE UNCHANGED vars
  <2>1. TypeOK'
    BY <1>2 DEF IInv, TypeOK, vars, ctl, data
  <2>2. ModesApart' /\ OneToken' /\ StopsInOrder'
    BY <1>2 DEF IInv, ModesApart, Up, OneToken, StopsInOrder, Shut, vars, ctl, data
  <2>3. StatusHolds' /\ DeliveredIntact'
    BY <1>2 DEF IInv, StatusHolds, DeliveredIntact, At, vars, ctl, data
  <2> QED
    BY <2>1, <2>2, <2>3 DEF IInv
<1> QED
  BY <1>1, <1>2

\* The inductive invariant holds of ra_net's receive half at all times: the
\* modes stay apart, there is one token, ra_net_stop leaves the device quiet and
\* whoever reads the FIFO has a status that holds.
THEOREM Invariance == Spec => []IInv
<1>1. Init => IInv
  BY InitIInv
<1>2. IInv /\ [Next]_vars => IInv'
  BY NextIInv
<1> QED
  BY <1>1, <1>2, PTL DEF Spec

\* No packet goes up the stack with foreign contents, except after a reset by
\* the watchdog or one that ended before the receive path did.
THEOREM Intact == Spec => []DeliveredIntact
<1>1. IInv => DeliveredIntact
  BY DEF IInv
<1> QED
  BY <1>1, Invariance, PTL

\* ra_net_open finds a device that ra_net_stop has left quiet, but for a handler, a
\* callback or a poll that ra_net_stop has not waited for.
THEOREM QuietWhenStopped == Spec => []StoppedIsQuiet
<1>1. IInv => StoppedIsQuiet
  BY DEF IInv, TypeOK, ModesApart, StopsInOrder, Shut, StoppedIsQuiet
<1> QED
  BY <1>1, Invariance, PTL

\* The handler and the callback are not both reading.
LEMMA OneDmaReader ==
  ASSUME IInv, ~late
  PROVE  LET R == {r \in {"irq", "callback"} : At(r, "status") \/ At(r, "start")}
         IN  /\ Cardinality(R) \in {0, 1}
             /\ transfers # <<>> \/ ~dma_rx_chan => Cardinality(R) = 0
<1> DEFINE R == {r \in {"irq", "callback"} : At(r, "status") \/ At(r, "start")}
<1>1. R = {} \/ R = {"irq"} \/ R = {"callback"}
  BY DEF IInv, TypeOK, ModesApart, OneToken, At
<1>2. transfers # <<>> \/ ~dma_rx_chan => R = {}
  BY DEF IInv, TypeOK, ModesApart, OneToken, At
<1> HIDE DEF R
<1>3. Cardinality({}) = 0 /\ Cardinality({"irq"}) = 1 /\ Cardinality({"callback"}) = 1
  BY FS_EmptySet, FS_Singleton
<1>4. Cardinality(R) \in {0, 1} /\ (transfers # <<>> \/ ~dma_rx_chan => Cardinality(R) = 0)
  BY <1>1, <1>2, <1>3
<1> QED
  BY <1>4 DEF R

\* Without a lock, one reader of the FIFO at a time: the handler, a transfer, its
\* callback and the poll take turns.
THEOREM OneReaderAlways == Spec => []OneReader
<1>1. IInv => OneReader
  <2> SUFFICES ASSUME IInv, ~late PROVE ~(Readers > 1)
    BY DEF OneReader
  <2> DEFINE n == Cardinality({r \in {"irq", "callback"} : At(r, "status") \/ At(r, "start")})
  <2>1. n \in {0, 1} /\ (transfers # <<>> \/ ~dma_rx_chan => n = 0)
    BY OneDmaReader
  <2>2. Readers = Len(transfers) + n + (IF poll.at = "fifo" THEN 1 ELSE 0)
    BY DEF Readers
  <2> HIDE DEF n
  <2>3. Len(transfers) \in {0, 1} /\ (transfers = <<>> => Len(transfers) = 0)
    BY DEF IInv, TypeOK, ModesApart, OneToken
  <2>4. CASE dma_rx_chan
    <3>1. poll.at # "fifo"
      BY <2>4 DEF IInv, ModesApart
    <3>2. CASE transfers = <<>>
      BY <2>1, <2>2, <2>3, <3>1, <3>2
    <3>3. CASE transfers # <<>>
      BY <2>1, <2>2, <2>3, <3>1, <3>3
    <3> QED
      BY <3>2, <3>3
  <2>5. CASE ~dma_rx_chan
    <3>1. transfers = <<>>
      BY <2>5 DEF IInv, ModesApart
    <3> QED
      BY <2>1, <2>2, <2>3, <2>5, <3>1
  <2> QED
    BY <2>4, <2>5
<1> QED
  BY <1>1, Invariance, PTL

-----------------------------------------------------------------------------
(* The transmit side                                                       *)

\* The device is closed, the FIFO empty and nothing armed at probe.
LEMMA TxInitIInv == TxInit => TxIInv
<1> SUFFICES ASSUME TxInit PROVE TxIInv
  OBVIOUS
<1>1. 0 \in 0 .. MaxBacklog + 1 /\ TxFifoSize \in 0 .. TxFifoSize
  BY NetTxAssumption
<1>2. TxTypeOK
  BY <1>1 DEF TxInit, TxTypeOK
<1> QED
  BY <1>2 DEF TxInit, TxIInv, SkbFits, XmitAlone, ThrottleIsWatched,
              StopIsWatched

\* The steps of the stack and of start_xmit.
LEMMA XmitIInv ==
  ASSUME TxIInv, Enqueue \/ Qdisc \/ Xmit \/ Transmit
  PROVE  TxIInv'
<1> USE NetTxAssumption DEF TxIInv, TxTypeOK, SkbFits, XmitAlone, ThrottleIsWatched,
            StopIsWatched, TxUp, queue, fifo, netif_stop_queue, NoSkb,
            AlignedLen
<1>1. CASE Enqueue
  BY <1>1 DEF Enqueue
<1>2. CASE QdiscRests
  BY <1>2 DEF QdiscRests
<1>3. CASE XmitBegin
  BY <1>3 DEF XmitBegin
<1>4. CASE XmitThrottle
  BY <1>4 DEF XmitThrottle
<1>5. CASE XmitStop
  BY <1>5 DEF XmitStop
<1>6. CASE XmitIrq
  BY <1>6 DEF XmitIrq
<1>7. CASE XmitWrite
  BY <1>7 DEF XmitWrite
<1>8. CASE XmitEmpty
  BY <1>8 DEF XmitEmpty
<1>9. CASE XmitEnd
  BY <1>9 DEF XmitEnd
<1>10. CASE Transmit
  BY <1>10 DEF Transmit
<1> QED
  BY <1>1, <1>2, <1>3, <1>4, <1>5, <1>6, <1>7, <1>8, <1>9, <1>10 DEF Qdisc, Xmit

\* The steps of the interrupt handler and of the receive path.
LEMMA TxIrqIInv ==
  ASSUME TxIInv, TxIrq \/ ReceiveWakes
  PROVE  TxIInv'
<1> USE NetTxAssumption DEF TxIInv, TxTypeOK, SkbFits, XmitAlone, ThrottleIsWatched,
            StopIsWatched, TxUp, queue, fifo, netif_wake_queue
<1>1. CASE TxIrqBegin
  BY <1>1 DEF TxIrqBegin
<1>2. CASE TxIrqDisable
  BY <1>2 DEF TxIrqDisable
<1>3. CASE TxIrqThrottle
  BY <1>3 DEF TxIrqThrottle
<1>4. CASE TxIrqWake
  BY <1>4 DEF TxIrqWake
<1>5. CASE ReceiveWakes
  BY <1>5 DEF ReceiveWakes
<1> QED
  BY <1>1, <1>2, <1>3, <1>4, <1>5 DEF TxIrq

\* The steps of the watchdog, and those under the rtnl lock.
LEMMA TxRtnlIInv ==
  ASSUME TxIInv, TxTimeoutBegin \/ TxTimeout \/ Rtnl
  PROVE  TxIInv'
<1> USE NetTxAssumption DEF TxIInv, TxTypeOK, SkbFits, XmitAlone, ThrottleIsWatched,
            StopIsWatched, TxUp, queue, fifo, netif_stop_queue,
            netif_start_queue
<1>1. CASE TxTimeoutBegin
  BY <1>1 DEF TxTimeoutBegin
<1>2. CASE TxTimeoutMask
  BY <1>2 DEF TxTimeoutMask
<1>3. CASE TxTimeoutThrottle
  BY <1>3 DEF TxTimeoutThrottle
<1>4. CASE TxTimeoutWake
  BY <1>4 DEF TxTimeoutWake
<1>5. CASE TxOpen
  BY <1>5 DEF TxOpen
<1>6. CASE TxStop
  <2>1. 0 \in 0 .. MaxBacklog + 1
    OBVIOUS
  <2>2. TxTypeOK'
    BY <1>6, <2>1 DEF TxStop
  <2>3. (SkbFits /\ XmitAlone /\ ThrottleIsWatched /\ StopIsWatched)'
    BY <1>6 DEF TxStop
  <2> QED
    BY <2>2, <2>3
<1>7. CASE ConfigStop
  BY <1>7 DEF ConfigStop
<1>8. CASE ConfigStart
  BY <1>8 DEF ConfigStart
<1> QED
  BY <1>1, <1>2, <1>3, <1>4, <1>5, <1>6, <1>7, <1>8 DEF TxTimeout, Rtnl

\* Every step preserves the invariant.
LEMMA TxNextIInv == TxIInv /\ [TxNext]_txVars => TxIInv'
<1> SUFFICES ASSUME TxIInv, [TxNext]_txVars
             PROVE  TxIInv'
  OBVIOUS
<1>1. CASE TxNext
  BY <1>1, XmitIInv, TxIrqIInv, TxRtnlIInv DEF TxNext
<1>2. CASE UNCHANGED txVars
  BY <1>2 DEF txVars, queue, fifo, TxIInv, TxTypeOK, SkbFits, XmitAlone,
              ThrottleIsWatched, StopIsWatched, TxUp
<1> QED
  BY <1>1, <1>2

\* Whatever the order of the steps, the FIFO of the FPGA is never overrun, the
\* qdisc has room for a packet that is given back, and whoever throttles leaves
\* somebody behind who undoes it.
THEOREM TxInvariance == TxSpec => []TxIInv
BY TxInitIInv, TxNextIInv, PTL DEF TxSpec

\* A transmit queue that stays stopped has the interrupt armed, or somebody on
\* the way to wake it: no wake-up is lost between ra_net_hw_xmit_skb and
\* ra_net_irqhandler.
THEOREM WatchedAlways == TxSpec => []StoppedIsWatched
<1>1. TxIInv => StoppedIsWatched
  BY DEF TxIInv, TxTypeOK, ThrottleIsWatched, StopIsWatched, StoppedIsWatched,
         TxUp
<1> QED
  BY <1>1, TxInvariance, PTL

-----------------------------------------------------------------------------
(* Which steps leave packets behind in a running queue.                    *)

\* A step that leaves packets behind is the end of the hwtstamp ioctl.
LEMMA StepStrands ==
  ASSUME TxIInv, TxNext, ~Stranded, Stranded'
  PROVE  rtnl = "config" /\ rtnl' = "up"
<1> USE DEF TxIInv, TxTypeOK, XmitAlone, Stranded, TxUp, queue, fifo
<1>1. CASE Enqueue \/ Qdisc \/ Transmit
  BY <1>1 DEF Enqueue, Qdisc, QdiscRests, XmitBegin, Transmit
<1>2. CASE Xmit
  BY <1>2 DEF Xmit, XmitThrottle, XmitStop, XmitIrq, XmitWrite,
              XmitEmpty, XmitEnd, netif_stop_queue
<1>3. CASE TxIrq \/ ReceiveWakes
  BY <1>3 DEF TxIrq, TxIrqBegin, TxIrqDisable, TxIrqThrottle, TxIrqWake,
              ReceiveWakes, netif_wake_queue
<1>4. CASE TxTimeoutBegin \/ TxTimeout
  BY <1>4 DEF TxTimeoutBegin, TxTimeout, TxTimeoutMask, TxTimeoutThrottle,
              TxTimeoutWake
<1>5. CASE TxOpen \/ TxStop \/ ConfigStop
  BY <1>5 DEF TxOpen, TxStop, ConfigStop, netif_start_queue, netif_stop_queue
<1>6. CASE ConfigStart
  BY <1>6 DEF ConfigStart
<1> QED
  BY <1>1, <1>2, <1>3, <1>4, <1>5, <1>6 DEF TxNext, Rtnl

\* For every size of the FIFO and of the qdisc, the only step that leaves
\* packets behind in a running queue is the netif_start_queue of
\* ra_net_tx_ts_config.
THEOREM ConfigAloneStrands == TxSpec => OnlyConfigStrands
<1>1. TxIInv /\ [TxNext]_txVars =>
        [~Stranded /\ Stranded' => rtnl = "config" /\ rtnl' = "up"]_txVars
  BY StepStrands
<1> QED
  BY <1>1, TxInvariance, PTL DEF TxSpec, OnlyConfigStrands

-----------------------------------------------------------------------------
(* The timestamps of transmitted packets                                   *)

-----------------------------------------------------------------------------
(* Indices of a ring                                                       *)

\* The assumptions, one by one.
LEMMA TsSizes ==
  /\ Packets \in Nat
  /\ RA_NET_TX_SKB_LIST_SIZE \in Nat /\ RA_NET_TX_SKB_LIST_SIZE >= 2
  /\ RA_NET_TX_TS_LIST_SIZE \in Nat /\ RA_NET_TX_TS_LIST_SIZE >= 2
  /\ NULL \notin Packet
<1>1. Packets \in Nat /\ NULL \notin Packet
  BY TxTimestampAssumption
<1>2. RA_NET_TX_SKB_LIST_SIZE \in Nat \ {0, 1} /\ RA_NET_TX_TS_LIST_SIZE \in Nat \ {0, 1}
  BY TxTimestampAssumption
<1> QED
  BY <1>1, <1>2

\* The index after another.
LEMMA NextIndex ==
  ASSUME NEW s \in Nat, s >= 2, NEW i \in 0 .. s - 1
  PROVE  /\ (i + 1) % s \in 0 .. s - 1
         /\ (i + 1) % s = IF i = s - 1 THEN 0 ELSE i + 1
<1>1. CASE i = s - 1
  <2>1. s % s = 0
    OBVIOUS
  <2> QED
    BY <1>1, <2>1
<1>2. CASE i # s - 1
  BY <1>2
<1> QED
  BY <1>1, <1>2

\* The slots in use, with and without a modulus.
LEMMA UsedSlots ==
  ASSUME NEW s \in Nat, s >= 2, NEW rd \in 0 .. s - 1, NEW wr \in 0 .. s - 1
  PROVE  Used(rd, wr, s) = {i \in 0 .. s - 1 : InUse(i, rd, wr)}
<1> DEFINE d == IF rd <= wr THEN wr - rd ELSE wr - rd + s
<1>1. (wr - rd) % s = d /\ d \in 0 .. s - 1
  OBVIOUS
<1>2. \A k \in 0 .. s - 1 : (rd + k) % s = IF rd + k < s THEN rd + k ELSE rd + k - s
  OBVIOUS
<1>3. ASSUME NEW i \in Used(rd, wr, s)
      PROVE  i \in 0 .. s - 1 /\ InUse(i, rd, wr)
  <2>1. PICK k \in 0 .. d - 1 : i = (rd + k) % s
    BY <1>1, <1>3 DEF Used
  <2>2. k \in 0 .. s - 1
    BY <1>1, <2>1
  <2>3. i = IF rd + k < s THEN rd + k ELSE rd + k - s
    BY <1>2, <2>1, <2>2
  <2> QED
    BY <2>1, <2>2, <2>3 DEF InUse
<1>4. ASSUME NEW i \in 0 .. s - 1, InUse(i, rd, wr)
      PROVE  i \in Used(rd, wr, s)
  <2> DEFINE k == Place(i, rd, s)
  <2>1. k \in 0 .. d - 1 /\ k \in 0 .. s - 1
    BY <1>4 DEF InUse, Place
  <2>2. (rd + k) % s = i
    BY <1>2, <2>1 DEF Place
  <2> HIDE DEF k, d
  <2> QED
    BY <1>1, <2>1, <2>2 DEF Used
<1> QED
  BY <1>3, <1>4

\* Taking out the slot at the read index.
LEMMA Pop ==
  ASSUME NEW s \in Nat, s >= 2, NEW rd \in 0 .. s - 1, NEW wr \in 0 .. s - 1, rd # wr,
         NEW i \in 0 .. s - 1, NEW j \in 0 .. s - 1
  PROVE  /\ InUse(rd, rd, wr)
         /\ InUse(i, (rd + 1) % s, wr) <=> InUse(i, rd, wr) /\ i # rd
         /\ i # rd /\ j # rd =>
              (Place(i, (rd + 1) % s, s) < Place(j, (rd + 1) % s, s)
                 <=> Place(i, rd, s) < Place(j, rd, s))
<1> DEFINE r == (rd + 1) % s
<1>1. r = IF rd = s - 1 THEN 0 ELSE rd + 1
  BY NextIndex
<1> HIDE DEF r
<1>2. InUse(rd, rd, wr)
  BY DEF InUse
<1>3. InUse(i, r, wr) <=> InUse(i, rd, wr) /\ i # rd
  BY <1>1 DEF InUse
<1>4. i # rd /\ j # rd => (Place(i, r, s) < Place(j, r, s) <=> Place(i, rd, s) < Place(j, rd, s))
  BY <1>1 DEF Place
<1> QED
  BY <1>2, <1>3, <1>4 DEF r

\* Putting in the slot at the write index.
LEMMA Push ==
  ASSUME NEW s \in Nat, s >= 2, NEW rd \in 0 .. s - 1, NEW wr \in 0 .. s - 1,
         (wr + 1) % s # rd, NEW i \in 0 .. s - 1
  PROVE  /\ ~InUse(wr, rd, wr)
         /\ InUse(i, rd, (wr + 1) % s) <=> InUse(i, rd, wr) \/ i = wr
         /\ InUse(i, rd, wr) => Place(i, rd, s) < Place(wr, rd, s)
<1> DEFINE w == (wr + 1) % s
<1>1. w = (IF wr = s - 1 THEN 0 ELSE wr + 1) /\ w # rd
  BY NextIndex
<1> HIDE DEF w
<1>2. ~InUse(wr, rd, wr)
  BY DEF InUse
<1>3. InUse(i, rd, w) <=> InUse(i, rd, wr) \/ i = wr
  BY <1>1 DEF InUse
<1>4. InUse(i, rd, wr) => Place(i, rd, s) < Place(wr, rd, s)
  BY DEF InUse, Place
<1> QED
  BY <1>2, <1>3, <1>4 DEF w

\* A full ring has a slot to take out, and then one to put in.
LEMMA Full ==
  ASSUME NEW s \in Nat, s >= 2, NEW rd \in 0 .. s - 1, NEW wr \in 0 .. s - 1,
         (wr + 1) % s = rd
  PROVE  rd # wr /\ (wr + 1) % s # (rd + 1) % s
BY NextIndex

-----------------------------------------------------------------------------
(* The ring of packets                                                     *)

\* Consuming the packet at the read index.
LEMMA SkbPop ==
  ASSUME NEW ptr \in [SkbSlot -> Packet \cup {NULL}], NEW rd \in SkbSlot, NEW wr \in SkbSlot,
         SkbRing(ptr, rd, wr), rd # wr
  PROVE  /\ ptr[rd] \in Packet /\ Holds(ptr, ptr[rd])
         /\ [ptr EXCEPT ![rd] = NULL] \in [SkbSlot -> Packet \cup {NULL}]
         /\ NextSkb(rd) \in SkbSlot
         /\ SkbRing([ptr EXCEPT ![rd] = NULL], NextSkb(rd), wr)
         /\ \A m \in Packet : Holds([ptr EXCEPT ![rd] = NULL], m) <=> Holds(ptr, m) /\ m # ptr[rd]
<1> DEFINE p == [ptr EXCEPT ![rd] = NULL]
           r == NextSkb(rd)
<1>1. /\ InUse(rd, rd, wr)
      /\ \A i \in SkbSlot : InUse(i, r, wr) <=> InUse(i, rd, wr) /\ i # rd
  BY TsSizes, Pop DEF SkbSlot, NextSkb
<1>2. r \in SkbSlot
  BY TsSizes, NextIndex DEF SkbSlot, NextSkb
<1>3. /\ p \in [SkbSlot -> Packet \cup {NULL}]
      /\ p[rd] = NULL
      /\ \A i \in SkbSlot : i # rd => p[i] = ptr[i]
  OBVIOUS
<1>4. ptr[rd] \in Packet /\ Holds(ptr, ptr[rd])
  BY <1>1 DEF SkbRing, Holds
<1> HIDE DEF p, r
<1>5. SkbRing(p, r, wr)
  BY <1>1, <1>3 DEF SkbRing
<1>6. ASSUME NEW m \in Packet
      PROVE  Holds(p, m) <=> Holds(ptr, m) /\ m # ptr[rd]
  <2>1. m # NULL
    BY TsSizes
  <2>2. ASSUME Holds(p, m)
        PROVE  Holds(ptr, m) /\ m # ptr[rd]
    <3>1. PICK i \in SkbSlot : p[i] = m
      BY <2>2 DEF Holds
    <3>2. i # rd /\ ptr[i] = m
      BY <1>3, <2>1, <3>1
    <3> QED
      BY <2>1, <3>2 DEF Holds, SkbRing
  <2>3. ASSUME Holds(ptr, m), m # ptr[rd]
        PROVE  Holds(p, m)
    BY <1>3, <2>3 DEF Holds
  <2> QED
    BY <2>2, <2>3
<1> QED
  BY <1>2, <1>3, <1>4, <1>5, <1>6 DEF p, r

\* Queueing a packet that is not in the ring.
LEMMA SkbPush ==
  ASSUME NEW ptr \in [SkbSlot -> Packet \cup {NULL}], NEW rd \in SkbSlot, NEW wr \in SkbSlot,
         SkbRing(ptr, rd, wr), NextSkb(wr) # rd, NEW n \in Packet, ~Holds(ptr, n)
  PROVE  /\ [ptr EXCEPT ![wr] = n] \in [SkbSlot -> Packet \cup {NULL}]
         /\ NextSkb(wr) \in SkbSlot
         /\ SkbRing([ptr EXCEPT ![wr] = n], rd, NextSkb(wr))
         /\ \A m \in Packet : Holds([ptr EXCEPT ![wr] = n], m) <=> Holds(ptr, m) \/ m = n
<1> DEFINE p == [ptr EXCEPT ![wr] = n]
           w == NextSkb(wr)
<1>1. /\ ~InUse(wr, rd, wr)
      /\ \A i \in SkbSlot : InUse(i, rd, w) <=> InUse(i, rd, wr) \/ i = wr
  BY TsSizes, Push DEF SkbSlot, NextSkb
<1>2. w \in SkbSlot
  BY TsSizes, NextIndex DEF SkbSlot, NextSkb
<1>3. /\ p \in [SkbSlot -> Packet \cup {NULL}]
      /\ p[wr] = n
      /\ \A i \in SkbSlot : i # wr => p[i] = ptr[i]
  OBVIOUS
<1>4. n # NULL /\ ptr[wr] = NULL
  BY <1>1, TsSizes DEF SkbRing
<1> HIDE DEF p, w
<1>5. SkbRing(p, rd, w)
  BY <1>1, <1>3, <1>4 DEF SkbRing, Holds
<1>6. ASSUME NEW m \in Packet
      PROVE  Holds(p, m) <=> Holds(ptr, m) \/ m = n
  <2>1. m # NULL
    BY TsSizes
  <2> QED
    BY <1>3, <1>4, <2>1 DEF Holds
<1> QED
  BY <1>2, <1>3, <1>5, <1>6 DEF p, w

\* How many slots hold a packet.
LEMMA SkbCount ==
  ASSUME NEW ptr \in [SkbSlot -> Packet \cup {NULL}], NEW rd \in SkbSlot, NEW wr \in SkbSlot,
         SkbRing(ptr, rd, wr), NEW n \in Packet
  PROVE  Cardinality({i \in SkbSlot : ptr[i] = n}) = IF Holds(ptr, n) THEN 1 ELSE 0
<1>0. n # NULL
  BY TsSizes
<1>1. CASE Holds(ptr, n)
  <2>1. PICK i \in SkbSlot : ptr[i] = n
    BY <1>1 DEF Holds
  <2>2. {j \in SkbSlot : ptr[j] = n} = {i}
    BY <1>0, <2>1 DEF SkbRing
  <2> QED
    BY <1>1, <2>2, FS_Singleton
<1>2. CASE ~Holds(ptr, n)
  <2>1. {j \in SkbSlot : ptr[j] = n} = {}
    BY <1>2 DEF Holds
  <2> QED
    BY <1>2, <2>1, FS_EmptySet
<1> QED
  BY <1>1, <1>2

-----------------------------------------------------------------------------
(* The ring of timestamps                                                  *)

\* Leaving out the timestamp at the read index.
LEMMA TsPop ==
  ASSUME NEW ring, NEW rd \in TsSlot, NEW wr \in TsSlot, NEW q, NEW w, NEW n,
         TsRing(ring, rd, wr, q, w, n), rd # wr
  PROVE  NextTs(rd) \in TsSlot /\ TsRing(ring, NextTs(rd), wr, q, w, n)
<1> DEFINE r == NextTs(rd)
<1>1. r \in TsSlot
  BY TsSizes, NextIndex DEF TsSlot, NextTs
<1>2. \A i \in TsSlot : InUse(i, r, wr) => InUse(i, rd, wr) /\ i # rd
  BY TsSizes, Pop DEF TsSlot, NextTs
<1>3. \A i, j \in TsSlot : i # rd /\ j # rd =>
        (Place(i, r, RA_NET_TX_TS_LIST_SIZE) < Place(j, r, RA_NET_TX_TS_LIST_SIZE)
           <=> Place(i, rd, RA_NET_TX_TS_LIST_SIZE) < Place(j, rd, RA_NET_TX_TS_LIST_SIZE))
  BY TsSizes, Pop DEF TsSlot, NextTs
<1> HIDE DEF r
<1>4. TsRing(ring, r, wr, q, w, n)
  BY <1>2, <1>3 DEF TsRing
<1> QED
  BY <1>1, <1>4 DEF r

\* Leaving out the timestamp at the head of the FIFO.
LEMMA TsSkip ==
  ASSUME NEW ring, NEW rd \in TsSlot, NEW wr \in TsSlot,
         NEW q \in Seq(Packet \cup {Bad}), NEW w, NEW n,
         TsRing(ring, rd, wr, q, w, n), q # <<>>
  PROVE  Tail(q) \in Seq(Packet \cup {Bad}) /\ TsRing(ring, rd, wr, Tail(q), w, n)
<1> DEFINE u == Tail(q)
<1>1. /\ u \in Seq(Packet \cup {Bad}) /\ Len(q) \in Nat /\ Len(u) = Len(q) - 1
      /\ \A k \in 1 .. Len(u) : k + 1 \in 1 .. Len(q) /\ u[k] = q[k + 1]
  OBVIOUS
<1> HIDE DEF u
<1>2. \A k \in 1 .. Len(u) : \E m \in 1 .. Len(q) : m = k + 1 /\ u[k] = q[m]
  BY <1>1
<1>3. Increasing(u, n)
  BY <1>1 DEF TsRing, Increasing
<1>4. TsRing(ring, rd, wr, u, w, n)
  BY <1>2, <1>3 DEF TsRing
<1> QED
  BY <1>1, <1>4 DEF u

\* Moving the timestamp at the head of the FIFO into the ring.
LEMMA TsPush ==
  ASSUME NEW ring \in [TsSlot -> Packet \cup {NULL}], NEW rd \in TsSlot, NEW wr \in TsSlot,
         NEW q \in Seq(Packet \cup {Bad}), NEW w, NEW n \in Nat,
         TsRing(ring, rd, wr, q, w, n), q # <<>>, q[1] # Bad, NextTs(wr) # rd
  PROVE  /\ NextTs(wr) \in TsSlot
         /\ [ring EXCEPT ![wr] = q[1]] \in [TsSlot -> Packet \cup {NULL}]
         /\ TsRing([ring EXCEPT ![wr] = q[1]], rd, NextTs(wr), Tail(q), w, n)
<1> DEFINE s == NextTs(wr)
           v == [ring EXCEPT ![wr] = q[1]]
           u == Tail(q)
           h == q[1]
           P(i) == Place(i, rd, RA_NET_TX_TS_LIST_SIZE)
<1>1. s \in TsSlot
  BY TsSizes, NextIndex DEF TsSlot, NextTs
<1>2. /\ \A i \in TsSlot : InUse(i, rd, s) <=> InUse(i, rd, wr) \/ i = wr
      /\ \A i \in TsSlot : InUse(i, rd, wr) => P(i) < P(wr)
      /\ ~InUse(wr, rd, wr)
  BY TsSizes, Push DEF TsSlot, NextTs
<1>3. /\ Len(q) \in Nat /\ 1 \in 1 .. Len(q) /\ Len(u) = Len(q) - 1
      /\ \A k \in 1 .. Len(u) : k + 1 \in 1 .. Len(q) /\ 1 < k + 1 /\ u[k] = q[k + 1]
  OBVIOUS
<1>4. h \in Packet /\ h \in 1 .. n
  BY <1>3 DEF TsRing, Increasing, Packet, Bad
<1>5. /\ v \in [TsSlot -> Packet \cup {NULL}] /\ v[wr] = h
      /\ \A i \in TsSlot : i # wr => v[i] = ring[i]
  BY <1>4
<1>6. TsRing(ring, rd, wr, u, w, n)
  BY TsSkip
<1>7. \A i \in TsSlot : InUse(i, rd, wr) => ring[i] < h
  BY <1>3 DEF TsRing
<1>8. \A k \in 1 .. Len(u) : u[k] # Bad => h < u[k]
  BY <1>3 DEF TsRing, Increasing
<1>9. \A k \in 1 .. Len(w) : h < w[k]
  BY <1>3 DEF TsRing
<1>10. \A i, j \in TsSlot : P(i) < P(j) => ~(P(j) < P(i)) /\ i # j
  BY TsSizes DEF Place, TsSlot
<1> HIDE DEF s, v, u, h, P
<1>11. \A i \in TsSlot : InUse(i, rd, s) => v[i] \in 1 .. n
  BY <1>2, <1>4, <1>5, <1>6 DEF TsRing
<1>12. \A i, j \in TsSlot : InUse(i, rd, s) /\ InUse(j, rd, s) /\ P(i) < P(j) => v[i] < v[j]
  <2> SUFFICES ASSUME NEW i \in TsSlot, NEW j \in TsSlot,
                      InUse(i, rd, s), InUse(j, rd, s), P(i) < P(j)
               PROVE  v[i] < v[j]
    OBVIOUS
  <2>1. i # wr
    BY <1>2, <1>10
  <2>2. CASE j = wr
    BY <1>2, <1>5, <1>7, <2>1, <2>2
  <2>3. CASE j # wr
    BY <1>2, <1>5, <2>1, <2>3 DEF TsRing, P
  <2> QED
    BY <2>2, <2>3
<1>13. \A i \in TsSlot, k \in 1 .. Len(u) : InUse(i, rd, s) /\ u[k] # Bad => v[i] < u[k]
  BY <1>2, <1>5, <1>6, <1>8 DEF TsRing
<1>14. \A i \in TsSlot, k \in 1 .. Len(w) : InUse(i, rd, s) => v[i] < w[k]
  BY <1>2, <1>5, <1>6, <1>9 DEF TsRing
<1>15. TsRing(v, rd, s, u, w, n)
  BY <1>6, <1>11, <1>12, <1>13, <1>14 DEF TsRing, P
<1> QED
  BY <1>1, <1>5, <1>15 DEF s, v, u, h

\* The FPGA takes the next timestamp, or fails to.
LEMMA TsTaken ==
  ASSUME NEW ring, NEW rd, NEW wr, NEW q \in Seq(Packet \cup {Bad}), NEW w \in Seq(Packet),
         NEW n \in Nat, TsRing(ring, rd, wr, q, w, n), w # <<>>, NEW x \in {Head(w),
                                                             Bad}
  PROVE  /\ Append(q, x) \in Seq(Packet \cup {Bad}) /\ Tail(w) \in Seq(Packet)
         /\ TsRing(ring, rd, wr, Append(q, x), Tail(w), n)
<1> DEFINE a == Append(q, x)
           u == Tail(w)
<1>1. /\ Len(w) \in Nat /\ 1 \in 1 .. Len(w) /\ Len(u) = Len(w) - 1 /\ u \in Seq(Packet)
      /\ \A k \in 1 .. Len(u) : k + 1 \in 1 .. Len(w) /\ 1 < k + 1 /\ u[k] = w[k + 1]
      /\ Head(w) = w[1] /\ w[1] \in Packet
  OBVIOUS
<1>2. x \in Packet \cup {Bad}
  BY <1>1
<1>3. /\ Len(q) \in Nat /\ a \in Seq(Packet \cup {Bad}) /\ Len(a) = Len(q) + 1
      /\ a[Len(q) + 1] = x
      /\ \A k \in 1 .. Len(q) : a[k] = q[k]
      /\ \A k \in 1 .. Len(a) : k \in 1 .. Len(q) \/ k = Len(q) + 1
  BY <1>2
<1>4. \A k \in 1 .. Len(w) : w[k] # Bad
  <2>1. \A k \in 1 .. Len(w) : w[k] \in Packet
    OBVIOUS
  <2> QED
    BY <2>1, TsSizes DEF Packet, Bad
<1> HIDE DEF a, u
<1>5. Increasing(u, n)
  <2>1. \A k \in 1 .. Len(u) : u[k] <= n
    BY <1>1 DEF TsRing, Increasing
  <2>2. \A k, l \in 1 .. Len(u) : k < l => k + 1 < l + 1
    OBVIOUS
  <2>3. \A k, l \in 1 .. Len(u) : k < l /\ u[k] # Bad /\ u[l] # Bad => u[k] < u[l]
    BY <1>1, <2>2 DEF TsRing, Increasing
  <2> QED
    BY <2>1, <2>3 DEF Increasing
<1>6. Increasing(a, n)
  <2>1. x <= n
    BY <1>1 DEF TsRing, Increasing, Bad
  <2>2. \A k \in 1 .. Len(a) : a[k] <= n
    BY <1>3, <2>1 DEF TsRing, Increasing
  <2>3. \A k \in 1 .. Len(q) : q[k] # Bad /\ x # Bad => q[k] < x
    BY <1>1 DEF TsRing
  <2>4. \A k, l \in 1 .. Len(a) : k < l /\ a[k] # Bad /\ a[l] # Bad => a[k] < a[l]
    <3> SUFFICES ASSUME NEW k \in 1 .. Len(a), NEW l \in 1 .. Len(a), k < l,
                        a[k] # Bad, a[l] # Bad
                 PROVE  a[k] < a[l]
      OBVIOUS
    <3>1. k \in 1 .. Len(q)
      BY <1>3
    <3>2. CASE l = Len(q) + 1
      BY <1>3, <2>3, <3>1, <3>2
    <3>3. CASE l \in 1 .. Len(q)
      BY <1>3, <3>1, <3>3 DEF TsRing, Increasing
    <3> QED
      BY <1>3, <3>2, <3>3
  <2> QED
    BY <2>2, <2>4 DEF Increasing
<1>7. \A i \in TsSlot, k \in 1 .. Len(a) : InUse(i, rd, wr) /\ a[k] # Bad => ring[i] < a[k]
  BY <1>1, <1>3 DEF TsRing
<1>8. \A i \in TsSlot, k \in 1 .. Len(u) : InUse(i, rd, wr) => ring[i] < u[k]
  BY <1>1 DEF TsRing
<1>9. \A k \in 1 .. Len(a), l \in 1 .. Len(u) : a[k] # Bad => a[k] < u[l]
  <2>1. \A l \in 1 .. Len(u) : x # Bad => x < u[l]
    BY <1>1, <1>4 DEF TsRing, Increasing
  <2>2. \A k \in 1 .. Len(q), l \in 1 .. Len(u) : q[k] # Bad => q[k] < u[l]
    BY <1>1 DEF TsRing
  <2> QED
    BY <1>3, <2>1, <2>2
<1>10. TsRing(ring, rd, wr, a, u, n)
  BY <1>5, <1>6, <1>7, <1>8, <1>9 DEF TsRing
<1> QED
  BY <1>1, <1>3, <1>10 DEF a, u

\* Another packet is sent.
LEMMA TsSend ==
  ASSUME NEW ring, NEW rd, NEW wr, NEW q \in Seq(Packet \cup {Bad}), NEW w \in Seq(Packet),
         NEW n \in Nat, TsRing(ring, rd, wr, q, w, n), n + 1 \in Packet
  PROVE  /\ Append(w, n + 1) \in Seq(Packet)
         /\ TsRing(ring, rd, wr, q, Append(w, n + 1), n + 1)
<1> DEFINE a == Append(w, n + 1)
<1>1. /\ Len(w) \in Nat /\ a \in Seq(Packet) /\ Len(a) = Len(w) + 1
      /\ a[Len(w) + 1] = n + 1
      /\ \A k \in 1 .. Len(w) : a[k] = w[k] /\ w[k] \in Int
      /\ \A k \in 1 .. Len(a) : k \in 1 .. Len(w) \/ k = Len(w) + 1
  <2>1. /\ Len(w) \in Nat /\ a \in Seq(Packet) /\ Len(a) = Len(w) + 1
        /\ a[Len(w) + 1] = n + 1
        /\ \A k \in 1 .. Len(w) : a[k] = w[k] /\ w[k] \in Packet
    OBVIOUS
  <2>2. \A k \in Packet : k \in Int
    BY TsSizes DEF Packet
  <2> HIDE DEF a
  <2> QED
    BY <2>1, <2>2
<1>2. \A k \in 1 .. Len(q) : q[k] \in Int
  BY TsSizes DEF Packet, Bad
<1> HIDE DEF a
<1>3. \A i \in TsSlot : InUse(i, rd, wr) => ring[i] \in 1 .. n + 1 /\ ring[i] < n + 1
  BY DEF TsRing
<1>4. \A k \in 1 .. Len(q) : q[k] <= n + 1 /\ q[k] < n + 1
  BY <1>2 DEF TsRing, Increasing
<1>5. \A k \in 1 .. Len(w) : w[k] <= n + 1 /\ w[k] < n + 1
  BY <1>1 DEF TsRing, Increasing
<1>6. Increasing(q, n + 1)
  BY <1>4 DEF TsRing, Increasing
<1>7. Increasing(a, n + 1)
  <2>1. \A k \in 1 .. Len(a) : a[k] <= n + 1
    BY <1>1, <1>5
  <2>2. \A k, l \in 1 .. Len(a) : k < l /\ a[k] # Bad /\ a[l] # Bad => a[k] < a[l]
    <3> SUFFICES ASSUME NEW k \in 1 .. Len(a), NEW l \in 1 .. Len(a), k < l,
                        a[k] # Bad, a[l] # Bad
                 PROVE  a[k] < a[l]
      OBVIOUS
    <3>1. k \in 1 .. Len(w)
      BY <1>1
    <3>2. CASE l = Len(w) + 1
      BY <1>1, <1>5, <3>1, <3>2
    <3>3. CASE l \in 1 .. Len(w)
      BY <1>1, <3>1, <3>3 DEF TsRing, Increasing
    <3> QED
      BY <1>1, <3>2, <3>3
  <2> QED
    BY <2>1, <2>2 DEF Increasing
<1>8. \A i \in TsSlot, k \in 1 .. Len(a) : InUse(i, rd, wr) => ring[i] < a[k]
  BY <1>1, <1>3 DEF TsRing
<1>9. \A k \in 1 .. Len(q), l \in 1 .. Len(a) : q[k] # Bad => q[k] < a[l]
  BY <1>1, <1>4 DEF TsRing
<1>10. TsRing(ring, rd, wr, q, a, n + 1)
  BY <1>3, <1>6, <1>7, <1>8, <1>9 DEF TsRing
<1> QED
  BY <1>1, <1>10 DEF a

\* Ring and FIFO are empty.
LEMMA TsEmpty ==
  ASSUME NEW ring, NEW w, NEW n, Increasing(w, n)
  PROVE  TsRing(ring, 0, 0, <<>>, w, n)
<1>1. \A i \in TsSlot : ~InUse(i, 0, 0)
  BY DEF InUse, TsSlot
<1>2. 1 .. Len(<<>>) = {}
  OBVIOUS
<1> QED
  BY <1>1, <1>2 DEF TsRing, Increasing

-----------------------------------------------------------------------------
(* The invariant                                                           *)

\* Abbreviations of the three parts of the invariant after the types.
SkbsOK == SkbRing(skb_ptr, skb_rd_idx, skb_wr_idx) /\ InOnePlace
TssOK == TsRing(fpga_ts, ts_rd_idx, ts_wr_idx, ts_fifo, wire, sent)

\* Both rings are empty after probe.
LEMMA TsInitIInv == TsInit => TsIInv
<1> SUFFICES ASSUME TsInit PROVE TsIInv
  OBVIOUS
<1>1. 0 \in SkbSlot /\ 0 \in TsSlot /\ 0 \in 0 .. Packets
  BY TsSizes DEF SkbSlot, TsSlot
<1>2. TsTypeOK
  BY <1>1 DEF TsInit, TsTypeOK
<1>3. \A i \in SkbSlot : ~InUse(i, 0, 0)
  BY DEF InUse, SkbSlot
<1>4. SkbRing(skb_ptr, skb_rd_idx, skb_wr_idx)
  BY <1>3 DEF TsInit, SkbRing
<1>5. InOnePlace
  <2>1. \A n \in Packet : n > 0 /\ ~(n <= 0) /\ n # NULL
    BY TsSizes DEF Packet
  <2> QED
    BY <2>1 DEF TsInit, InOnePlace, Holds
<1>6. TsRing(fpga_ts, ts_rd_idx, ts_wr_idx, ts_fifo, wire, sent)
  <2>1. Increasing(<<>>, 0)
    BY DEF Increasing
  <2> QED
    BY <2>1, TsEmpty DEF TsInit
<1>7. StampById
  BY DEF TsInit, StampById
<1> QED
  BY <1>2, <1>4, <1>5, <1>6, <1>7 DEF TsIInv

\* Steps that leave the rings and the packets alone.
LEMMA SameIInv ==
  ASSUME TsIInv, UNCHANGED <<rings, ts_skb, ts, fpga, sent, fate>>,
         work' \in {"idle", "drain", "match"}, work # "deliver"
  PROVE  TsIInv'
BY DEF TsIInv, TsTypeOK, InOnePlace, StampById, rings, fpga, fate

\* The hwtstamp ioctl, the status of the interrupt, and a reset before it flushes.
LEMMA OtherIInv ==
  ASSUME TsIInv,
         UNCHANGED <<rings, worker, fpga, sent, fate>>
  PROVE  TsIInv'
BY DEF TsIInv, TsTypeOK, InOnePlace, StampById, rings, worker, fpga, fate

\* A packet is put into the ring; when that is full, the oldest is freed.
LEMMA TsXmitIInv == ASSUME TsIInv, TsXmit PROVE TsIInv'
<1> DEFINE n == sent + 1
           rd == skb_rd_idx
           wr == skb_wr_idx
           full == NextSkb(wr) = rd
           p == IF full THEN [skb_ptr EXCEPT ![rd] = NULL] ELSE skb_ptr
           r == IF full THEN NextSkb(rd) ELSE rd
<1>1. /\ sent \in 0 .. Packets /\ sent \in Nat /\ n \in Packet /\ n # NULL
  BY TsSizes DEF TsIInv, TsTypeOK, TsXmit, Packet
<1>2. /\ skb_ptr \in [SkbSlot -> Packet \cup {NULL}] /\ rd \in SkbSlot /\ wr \in SkbSlot
      /\ SkbRing(skb_ptr, rd, wr)
      /\ freed \in [Packet -> 0 .. 1]
  BY DEF TsIInv, TsTypeOK
<1>3. full => rd # wr /\ NextSkb(wr) # NextSkb(rd)
  BY <1>2, TsSizes, Full DEF NextSkb, SkbSlot
<1>4. /\ p \in [SkbSlot -> Packet \cup {NULL}] /\ r \in SkbSlot
      /\ SkbRing(p, r, wr) /\ NextSkb(wr) # r
      /\ \A m \in Packet : Holds(p, m) <=> Holds(skb_ptr, m) /\ ~(full /\ m = skb_ptr[rd])
      /\ full => skb_ptr[rd] \in Packet /\ Holds(skb_ptr, skb_ptr[rd])
  <2>1. CASE full
    BY <1>2, <1>3, <2>1, SkbPop
  <2>2. CASE ~full
    BY <1>2, <2>2
  <2> QED
    BY <2>1, <2>2
<1>5. /\ skb_ptr' = [p EXCEPT ![wr] = n] /\ skb_rd_idx' = r /\ skb_wr_idx' = NextSkb(wr)
      /\ IF full THEN Free(skb_ptr[rd]) ELSE freed' = freed
      /\ sent' = n /\ wire' = Append(wire, n)
      /\ UNCHANGED <<tss, worker, ts_fifo, stamp>>
  <2>1. [skb_ptr EXCEPT ![rd] = IF full THEN NULL ELSE @] = p
    BY <1>2
  <2> QED
    BY <2>1 DEF TsXmit, ra_net_tx_ts_queue
<1>6. ~Holds(skb_ptr, n) /\ ts_skb # n /\ freed[n] = 0
  BY <1>1 DEF TsIInv, InOnePlace
<1>7. ~Holds(p, n)
  BY <1>1, <1>4, <1>6
<1> HIDE DEF n, rd, wr, full, p, r
<1>8. /\ skb_ptr' \in [SkbSlot -> Packet \cup {NULL}]
      /\ skb_rd_idx' \in SkbSlot /\ skb_wr_idx' \in SkbSlot
      /\ SkbRing(skb_ptr', skb_rd_idx', skb_wr_idx')
      /\ \A m \in Packet : Holds(skb_ptr', m) <=> Holds(p, m) \/ m = n
  BY <1>1, <1>2, <1>4, <1>5, <1>7, SkbPush
<1>9. /\ freed' \in [Packet -> 0 .. 1]
      /\ \A m \in Packet : freed'[m] = IF full /\ m = skb_ptr[rd] THEN 1 ELSE freed[m]
  <2>1. CASE full
    <3>1. skb_ptr[rd] \in Packet /\ Holds(skb_ptr, skb_ptr[rd])
      BY <1>4, <2>1
    <3>2. freed[skb_ptr[rd]] = 0
      BY <3>1 DEF TsIInv, TsTypeOK, InOnePlace, Packet
    <3> QED
      BY <1>2, <1>5, <2>1, <3>1, <3>2 DEF Free
  <2>2. CASE ~full
    BY <1>2, <1>5, <2>2
  <2> QED
    BY <2>1, <2>2
<1>10. InOnePlace'
  <2> SUFFICES ASSUME NEW m \in Packet
               PROVE  /\ m > sent' => freed'[m] = 0 /\ ~Holds(skb_ptr', m) /\ ts_skb' # m
                      /\ m <= sent' =>
                           \/ freed'[m] = 1 /\ ~Holds(skb_ptr', m) /\ ts_skb' # m
                           \/ freed'[m] = 0 /\ Holds(skb_ptr', m) /\ ts_skb' # m
                           \/ freed'[m] = 0 /\ ~Holds(skb_ptr', m) /\ ts_skb' = m
    BY DEF InOnePlace
  <2>1. /\ ts_skb' = ts_skb /\ sent' = n /\ n = sent + 1 /\ m \in Int /\ sent \in Int
        /\ Holds(skb_ptr', m) <=> (Holds(skb_ptr, m) /\ ~(full /\ m = skb_ptr[rd])) \/ m = n
        /\ freed'[m] = IF full /\ m = skb_ptr[rd] THEN 1 ELSE freed[m]
    <3>1. ts_skb' = ts_skb /\ sent' = n /\ n = sent + 1
      BY <1>5 DEF n, worker
    <3>2. m \in Int /\ sent \in Int
      BY <1>1, TsSizes DEF Packet
    <3>3. Holds(skb_ptr', m) <=> (Holds(skb_ptr, m) /\ ~(full /\ m = skb_ptr[rd])) \/ m = n
      BY <1>4, <1>8
    <3> QED
      BY <1>9, <3>1, <3>2, <3>3
  <2>2. CASE m = n
    <3>1. ~(full /\ m = skb_ptr[rd])
      BY <1>4, <1>6, <2>2
    <3> QED
      BY <1>6, <2>1, <2>2, <3>1
  <2>3. CASE m # n /\ full /\ m = skb_ptr[rd]
    <3>1. Holds(skb_ptr, m)
      BY <1>4, <2>3
    <3>2. m <= sent /\ ts_skb # m
      BY <2>1, <3>1 DEF TsIInv, InOnePlace
    <3> QED
      BY <2>1, <2>3, <3>2
  <2>4. CASE m # n /\ ~(full /\ m = skb_ptr[rd])
    <3>1. (Holds(skb_ptr', m) <=> Holds(skb_ptr, m)) /\ freed'[m] = freed[m] /\ ts_skb' = ts_skb
      BY <2>1, <2>4
    <3>2. (m > sent' <=> m > sent) /\ (m <= sent' <=> m <= sent)
      BY <2>1, <2>4
    <3> QED
      BY <3>1, <3>2 DEF TsIInv, InOnePlace
  <2> QED
    BY <2>2, <2>3, <2>4
<1>11. wire' \in Seq(Packet) /\ TssOK'
  BY <1>1, <1>5, TsSend DEF TsIInv, TsTypeOK, TssOK, tss, n
<1>12. TsTypeOK'
  BY <1>1, <1>5, <1>8, <1>9, <1>11 DEF TsIInv, TsTypeOK, tss, worker, Packet
<1>13. StampById'
  BY <1>5 DEF TsIInv, StampById, worker
<1> QED
  BY <1>8, <1>10, <1>11, <1>12, <1>13 DEF TsIInv, TssOK

\* The FPGA takes a timestamp.
LEMMA TimestampedIInv == ASSUME TsIInv, Timestamped PROVE TsIInv'
<1>1. PICK x \in {Head(wire), Bad} : ts_fifo' = Append(ts_fifo, x)
  BY DEF Timestamped
<1>2. /\ wire # <<>> /\ wire' = Tail(wire)
      /\ UNCHANGED <<rings, worker, sent, fate>>
  BY DEF Timestamped
<1>3. /\ ts_fifo \in Seq(Packet \cup {Bad}) /\ wire \in Seq(Packet) /\ sent \in Nat
      /\ TsRing(fpga_ts, ts_rd_idx, ts_wr_idx, ts_fifo, wire, sent)
  BY TsSizes DEF TsIInv, TsTypeOK
<1>4. /\ ts_fifo' \in Seq(Packet \cup {Bad}) /\ wire' \in Seq(Packet)
      /\ TsRing(fpga_ts, ts_rd_idx, ts_wr_idx, ts_fifo', wire', sent)
  BY <1>1, <1>2, <1>3, TsTaken
<1>5. TsTypeOK'
  BY <1>2, <1>4 DEF TsIInv, TsTypeOK, rings, worker, fate
<1>6. InOnePlace' /\ StampById'
  BY <1>2 DEF TsIInv, InOnePlace, StampById, rings, worker, fate
<1> QED
  BY <1>2, <1>4, <1>5, <1>6 DEF TsIInv, rings

\* The interrupt handler moves a timestamp into the ring; when that is full, the
\* oldest is dropped.
LEMMA TsIrqIInv == ASSUME TsIInv, ra_net_tx_ts_irq PROVE TsIInv'
<1> DEFINE rd == ts_rd_idx
           wr == ts_wr_idx
           full == NextTs(wr) = rd
           r == IF full THEN NextTs(rd) ELSE rd
<1>1. /\ fpga_ts \in [TsSlot -> Packet \cup {NULL}] /\ rd \in TsSlot /\ wr \in TsSlot
      /\ ts_fifo \in Seq(Packet \cup {Bad}) /\ sent \in Nat
      /\ TsRing(fpga_ts, rd, wr, ts_fifo, wire, sent)
  BY TsSizes DEF TsIInv, TsTypeOK
<1>2. full => rd # wr /\ NextTs(wr) # NextTs(rd)
  BY <1>1, TsSizes, Full DEF NextTs, TsSlot
<1>3. r \in TsSlot /\ TsRing(fpga_ts, r, wr, ts_fifo, wire, sent) /\ NextTs(wr) # r
  <2>1. CASE full
    BY <1>1, <1>2, <2>1, TsPop
  <2>2. CASE ~full
    BY <1>1, <2>2
  <2> QED
    BY <2>1, <2>2
<1>4. ts_rd_idx' = r /\ UNCHANGED <<skbs, worker, wire, sent, fate>>
  BY DEF ra_net_tx_ts_irq, MakeRoom
<1> HIDE DEF full, r
<1>5. /\ fpga_ts' \in [TsSlot -> Packet \cup {NULL}] /\ ts_wr_idx' \in TsSlot
      /\ ts_fifo' \in Seq(Packet \cup {Bad})
      /\ TsRing(fpga_ts', r, ts_wr_idx', ts_fifo', wire, sent)
  <2>1. CASE ts_fifo = <<>>
    BY <1>1, <1>3, <2>1 DEF ra_net_tx_ts_irq
  <2>2. CASE ts_fifo # <<>> /\ ts_fifo[1] = Bad
    <3>1. fpga_ts' = fpga_ts /\ ts_wr_idx' = wr /\ ts_fifo' = Tail(ts_fifo)
      BY <2>2 DEF ra_net_tx_ts_irq
    <3> QED
      BY <1>1, <1>3, <2>2, <3>1, TsSkip
  <2>3. CASE ts_fifo # <<>> /\ ts_fifo[1] # Bad
    <3>1. /\ fpga_ts' = [fpga_ts EXCEPT ![wr] = ts_fifo[1]] /\ ts_wr_idx' = NextTs(wr)
          /\ ts_fifo' = Tail(ts_fifo)
      BY <2>3 DEF ra_net_tx_ts_irq
    <3>2. Tail(ts_fifo) \in Seq(Packet \cup {Bad})
      BY <1>1, <2>3
    <3> QED
      BY <1>1, <1>3, <2>3, <3>1, <3>2, TsPush
  <2> QED
    BY <2>1, <2>2, <2>3
<1>6. TsTypeOK'
  BY <1>3, <1>4, <1>5 DEF TsIInv, TsTypeOK, skbs, worker, fate
<1>7. SkbsOK' /\ StampById'
  BY <1>4 DEF TsIInv, SkbsOK, InOnePlace, StampById, skbs, worker, fate
<1> QED
  BY <1>4, <1>5, <1>6, <1>7 DEF TsIInv, SkbsOK

\* The work item takes a packet out of the ring.
LEMMA ConsumeSkbs ==
  ASSUME TsIInv, HaveSkb, ConsumeSkb, skb_wr_idx' = skb_wr_idx
  PROVE  LET n == skb_ptr[skb_rd_idx] IN
         /\ n \in Packet /\ n <= sent /\ freed[n] = 0 /\ ts_skb # n
         /\ skb_ptr' \in [SkbSlot -> Packet \cup {NULL}] /\ skb_rd_idx' \in SkbSlot
         /\ SkbRing(skb_ptr', skb_rd_idx', skb_wr_idx')
         /\ \A m \in Packet : Holds(skb_ptr', m) <=> Holds(skb_ptr, m) /\ m # n
<1> DEFINE n == skb_ptr[skb_rd_idx]
<1>1. /\ skb_ptr \in [SkbSlot -> Packet \cup {NULL}] /\ skb_rd_idx \in SkbSlot
      /\ skb_wr_idx \in SkbSlot /\ SkbRing(skb_ptr, skb_rd_idx, skb_wr_idx)
      /\ skb_rd_idx # skb_wr_idx
  BY DEF TsIInv, TsTypeOK, HaveSkb
<1>2. n \in Packet /\ Holds(skb_ptr, n)
  BY <1>1, SkbPop
<1>3. n <= sent /\ freed[n] = 0 /\ ts_skb # n
  BY <1>2, TsSizes DEF TsIInv, TsTypeOK, InOnePlace, Packet
<1>4. /\ skb_ptr' \in [SkbSlot -> Packet \cup {NULL}] /\ skb_rd_idx' \in SkbSlot
      /\ SkbRing(skb_ptr', skb_rd_idx', skb_wr_idx')
      /\ \A m \in Packet : Holds(skb_ptr', m) <=> Holds(skb_ptr, m) /\ m # n
  BY <1>1, SkbPop DEF ConsumeSkb
<1> QED
  BY <1>2, <1>3, <1>4

\* ... and frees it.
LEMMA FreeSkbs ==
  ASSUME TsIInv, HaveSkb, ConsumeSkb, Free(skb_ptr[skb_rd_idx]),
         UNCHANGED <<skb_wr_idx, ts_skb, sent>>
  PROVE  /\ skb_ptr' \in [SkbSlot -> Packet \cup {NULL}] /\ skb_rd_idx' \in SkbSlot
         /\ freed' \in [Packet -> 0 .. 1]
         /\ SkbsOK'
<1> DEFINE n == skb_ptr[skb_rd_idx]
<1>1. /\ n \in Packet /\ n <= sent /\ freed[n] = 0 /\ ts_skb # n
      /\ skb_ptr' \in [SkbSlot -> Packet \cup {NULL}] /\ skb_rd_idx' \in SkbSlot
      /\ SkbRing(skb_ptr', skb_rd_idx', skb_wr_idx')
      /\ \A m \in Packet : Holds(skb_ptr', m) <=> Holds(skb_ptr, m) /\ m # n
  BY ConsumeSkbs
<1>2. freed' = [freed EXCEPT ![n] = @ + 1]
  BY DEF Free
<1> HIDE DEF n
<1>3. /\ freed' \in [Packet -> 0 .. 1] /\ freed'[n] = 1
      /\ \A m \in Packet : m # n => freed'[m] = freed[m]
  BY <1>1, <1>2 DEF TsIInv, TsTypeOK
<1>4. n \in Int /\ sent \in Int
  BY <1>1, TsSizes DEF TsIInv, TsTypeOK, Packet
<1>5. InOnePlace'
  BY <1>1, <1>3, <1>4 DEF TsIInv, InOnePlace
<1> QED
  BY <1>1, <1>3, <1>5 DEF SkbsOK

\* The loops of the work item.
LEMMA DrainIInv == ASSUME TsIInv, WorkDrain PROVE TsIInv'
<1>1. /\ UNCHANGED <<skb_wr_idx, tss, ts_skb, ts, fpga, sent, stamp>>
      /\ work = "drain" /\ work' \in {"drain", "match"}
  BY DEF WorkDrain
<1>2. /\ skb_ptr' \in [SkbSlot -> Packet \cup {NULL}] /\ skb_rd_idx' \in SkbSlot
      /\ freed' \in [Packet -> 0 .. 1]
      /\ SkbsOK'
  <2>1. CASE ts_lost > 0 /\ HaveSkb
    BY <1>1, <2>1, FreeSkbs DEF WorkDrain
  <2>2. CASE ~(ts_lost > 0 /\ HaveSkb)
    BY <1>1, <2>2 DEF WorkDrain, TsIInv, TsTypeOK, SkbsOK, InOnePlace
  <2> QED
    BY <2>1, <2>2
<1>3. TsTypeOK' /\ TssOK' /\ StampById'
  BY <1>1, <1>2 DEF TsIInv, TsTypeOK, TssOK, StampById, tss, fpga
<1> QED
  BY <1>2, <1>3 DEF TsIInv, SkbsOK, TssOK

\* A round of the second loop.
LEMMA MatchIInv == ASSUME TsIInv, WorkMatch PROVE TsIInv'
<1>1. UNCHANGED <<skb_wr_idx, fpga_ts, ts_wr_idx, fpga, sent, stamp>> /\ work = "match"
  BY DEF WorkMatch
<1>2. ts_skb = NULL
  BY <1>1 DEF TsIInv, StampById
<1>3. CASE ~(HaveSkb /\ HaveTs)
  <2>1. work' = "idle" /\ UNCHANGED <<skb_ptr, skb_rd_idx, ts_rd_idx, ts_skb, ts,
                                      freed>>
    BY <1>3 DEF WorkMatch
  <2> QED
    BY <1>1, <2>1 DEF TsIInv, TsTypeOK, InOnePlace, StampById, fpga
<1>4. CASE HaveSkb /\ HaveTs
  <2> DEFINE n == skb_ptr[skb_rd_idx]
             t == fpga_ts[ts_rd_idx]
             own == Seq_id[n] = Seq_id[t]
             consumed == Seq_id[n] = Short \/ own \/ ~(Seq_id[t] < Seq_id[n])
             stamped == Seq_id[n] # Short /\ own
  <2>1. /\ IF consumed THEN ConsumeSkb ELSE UNCHANGED <<skb_ptr, skb_rd_idx>>
        /\ ts_rd_idx' \in {ts_rd_idx, NextTs(ts_rd_idx)}
        /\ IF stamped THEN work' = "deliver" /\ ts_skb' = n /\ ts' = t /\ UNCHANGED freed
                      ELSE /\ IF consumed THEN Free(n) ELSE UNCHANGED freed
                           /\ UNCHANGED worker
    BY <1>4 DEF WorkMatch, ra_net_stamp_tx_skb
  <2>2. stamped => consumed
    OBVIOUS
  <2>3. t \in Packet
    <3>1. ts_rd_idx \in TsSlot /\ ts_wr_idx \in TsSlot /\ ts_rd_idx # ts_wr_idx
      BY <1>4 DEF TsIInv, TsTypeOK, HaveTs
    <3>2. InUse(ts_rd_idx, ts_rd_idx, ts_wr_idx)
      BY <3>1, TsSizes, Pop DEF TsSlot
    <3>3. t \in 1 .. sent /\ sent \in 0 .. Packets
      BY <3>1, <3>2 DEF TsIInv, TsTypeOK, TsRing
    <3> QED
      BY <3>3, TsSizes DEF Packet
  <2>4. ts_rd_idx' \in TsSlot /\ TssOK'
    <3>1. /\ NextTs(ts_rd_idx) \in TsSlot
          /\ TsRing(fpga_ts, NextTs(ts_rd_idx), ts_wr_idx, ts_fifo, wire, sent)
      BY <1>4, TsPop DEF TsIInv, TsTypeOK, HaveTs
    <3> QED
      BY <1>1, <2>1, <3>1 DEF TsIInv, TsTypeOK, TssOK, fpga
  <2> HIDE DEF own, consumed, stamped
  <2>5. CASE stamped
    <3>1. /\ ConsumeSkb /\ work' = "deliver" /\ ts_skb' = n /\ ts' = t /\ UNCHANGED freed
      BY <2>1, <2>2, <2>5
    <3>2. /\ n \in Packet /\ n <= sent /\ freed[n] = 0
          /\ skb_ptr' \in [SkbSlot -> Packet \cup {NULL}] /\ skb_rd_idx' \in SkbSlot
          /\ SkbRing(skb_ptr', skb_rd_idx', skb_wr_idx')
          /\ \A m \in Packet : Holds(skb_ptr', m) <=> Holds(skb_ptr, m) /\ m # n
      BY <1>1, <1>4, <3>1, ConsumeSkbs
    <3>3. n # NULL /\ t # NULL /\ n \in Int /\ sent \in Int
      BY <2>3, <3>2, TsSizes DEF TsIInv, TsTypeOK, Packet
    <3>4. StampById'
      BY <1>1, <2>5, <3>1, <3>3 DEF TsIInv, StampById, stamped, own
    <3> HIDE DEF n, t
    <3>5. InOnePlace'
      <4>1. \A m \in Packet : m # NULL
        BY TsSizes
      <4> QED
        BY <1>1, <1>2, <3>1, <3>2, <3>3, <4>1 DEF TsIInv, InOnePlace
    <3>6. TsTypeOK'
      BY <1>1, <2>3, <2>4, <3>1, <3>2 DEF TsIInv, TsTypeOK, fpga
    <3> QED
      BY <2>4, <3>2, <3>4, <3>5, <3>6 DEF TsIInv, TssOK
  <2>6. CASE ~stamped
    <3>1. UNCHANGED worker /\ (IF consumed THEN Free(n) ELSE UNCHANGED freed)
      BY <2>1, <2>6
    <3>2. /\ skb_ptr' \in [SkbSlot -> Packet \cup {NULL}] /\ skb_rd_idx' \in SkbSlot
          /\ freed' \in [Packet -> 0 .. 1]
          /\ SkbsOK'
      <4>1. CASE consumed
        BY <1>1, <1>4, <2>1, <3>1, <4>1, FreeSkbs DEF worker
      <4>2. CASE ~consumed
        BY <1>1, <2>1, <3>1, <4>2 DEF worker, TsIInv, TsTypeOK, SkbsOK, InOnePlace
      <4> QED
        BY <4>1, <4>2
    <3>3. TsTypeOK' /\ StampById'
      BY <1>1, <2>4, <3>1, <3>2 DEF TsIInv, TsTypeOK, StampById, worker, fpga
    <3> QED
      BY <2>4, <3>2, <3>3 DEF TsIInv, SkbsOK, TssOK
  <2> QED
    BY <2>5, <2>6
<1> QED
  BY <1>3, <1>4

\* A timestamp is delivered, and the packet freed.
LEMMA DeliverIInv == ASSUME TsIInv, WorkDelivers PROVE TsIInv'
<1>1. /\ work = "deliver" /\ work' = "match" /\ ts_skb' = NULL /\ ts' = NULL
      /\ stamp' = [stamp EXCEPT ![ts_skb] = ts] /\ freed' = [freed EXCEPT ![ts_skb] = @ + 1]
      /\ UNCHANGED <<rings, fpga, sent>>
  BY DEF WorkDelivers, Free
<1>2. ts_skb \in Packet /\ ts \in Packet /\ ts_skb # NULL /\ ts # NULL
  BY <1>1 DEF TsIInv, TsTypeOK, StampById
<1>3. freed[ts_skb] = 0 /\ ~Holds(skb_ptr, ts_skb) /\ ts_skb <= sent /\ ts_skb \in Int /\ sent \in Int
  BY <1>2, TsSizes DEF TsIInv, TsTypeOK, InOnePlace, Packet
<1>4. /\ freed' \in [Packet -> 0 .. 1] /\ freed'[ts_skb] = 1
      /\ \A m \in Packet : m # ts_skb => freed'[m] = freed[m]
  BY <1>1, <1>2, <1>3 DEF TsIInv, TsTypeOK
<1>5. /\ stamp' \in [Packet -> Packet \cup {NULL}] /\ stamp'[ts_skb] = ts
      /\ \A m \in Packet : m # ts_skb => stamp'[m] = stamp[m]
  BY <1>1, <1>2 DEF TsIInv, TsTypeOK
<1>6. TsTypeOK' /\ TssOK'
  BY <1>1, <1>4, <1>5 DEF TsIInv, TsTypeOK, TssOK, rings, fpga
<1>7. InOnePlace'
  <2>1. \A m \in Packet : m # NULL
    BY TsSizes
  <2> QED
    BY <1>1, <1>2, <1>3, <1>4, <2>1 DEF TsIInv, InOnePlace, rings
<1>8. StampById'
  BY <1>1, <1>2, <1>5 DEF TsIInv, StampById
<1>9. SkbRing(skb_ptr, skb_rd_idx, skb_wr_idx)'
  BY <1>1 DEF TsIInv, rings
<1> QED
  BY <1>6, <1>7, <1>8, <1>9 DEF TsIInv, TssOK

\* A reset frees what is in the ring.
LEMMA FlushIInv == ASSUME TsIInv, ra_net_flush_tx_ts PROVE TsIInv'
<1>1. /\ ts_fifo' = <<>> /\ skb_ptr' = [i \in SkbSlot |-> NULL]
      /\ skb_rd_idx' = 0 /\ skb_wr_idx' = 0 /\ ts_rd_idx' = 0 /\ ts_wr_idx' = 0
      /\ UNCHANGED <<fpga_ts, worker, wire, sent, stamp>>
  BY DEF ra_net_flush_tx_ts
<1>2. freed' = [n \in Packet |-> freed[n] + IF Holds(skb_ptr, n) THEN 1 ELSE 0]
  <2>1. \A n \in Packet : Cardinality({i \in SkbSlot : skb_ptr[i] = n})
                              = IF Holds(skb_ptr, n) THEN 1 ELSE 0
    BY SkbCount DEF TsIInv, TsTypeOK
  <2> QED
    BY <2>1 DEF ra_net_flush_tx_ts
<1>3. 0 \in SkbSlot /\ 0 \in TsSlot
  BY TsSizes DEF SkbSlot, TsSlot
<1>4. \A n \in Packet : n # NULL /\ n \in Int
  BY TsSizes DEF Packet
<1>5. \A n \in Packet : ~Holds(skb_ptr', n)
  BY <1>1, <1>4 DEF Holds
<1>6. /\ freed' \in [Packet -> 0 .. 1]
      /\ \A n \in Packet : freed'[n] = IF Holds(skb_ptr, n) THEN 1 ELSE freed[n]
  <2>1. InOnePlace /\ sent \in Int /\ freed \in [Packet -> 0 .. 1]
    BY TsSizes DEF TsIInv, TsTypeOK
  <2>2. \A n \in Packet : Holds(skb_ptr, n) => freed[n] = 0
    BY <1>4, <2>1 DEF InOnePlace
  <2> QED
    BY <1>2, <2>1, <2>2
<1>7. InOnePlace'
  BY <1>1, <1>4, <1>5, <1>6 DEF TsIInv, InOnePlace, worker
<1>8. SkbRing(skb_ptr', skb_rd_idx', skb_wr_idx')
  <2>1. \A i \in SkbSlot : ~InUse(i, 0, 0)
    BY DEF InUse, SkbSlot
  <2> QED
    BY <1>1, <2>1 DEF SkbRing
<1>9. TssOK'
  BY <1>1, TsEmpty DEF TsIInv, TsRing, TssOK
<1>10. TsTypeOK'
  BY <1>1, <1>3, <1>6 DEF TsIInv, TsTypeOK, worker
<1>11. StampById'
  BY <1>1 DEF TsIInv, StampById, worker
<1> QED
  BY <1>7, <1>8, <1>9, <1>10, <1>11 DEF TsIInv, TssOK

\* Every step preserves the invariant.
LEMMA TsNextIInv == TsIInv /\ [TsNext]_tsVars => TsIInv'
<1> SUFFICES ASSUME TsIInv, [TsNext]_tsVars PROVE TsIInv'
  OBVIOUS
<1>1. CASE \/ ConfigRx \/ IrqSeen \/ ResetDisarms \/ ResetCancels \/ UNCHANGED tsVars
           \/ \E t, r \in BOOLEAN : ConfigTx(t, r)
  <2>1. UNCHANGED <<rings, worker, fpga, sent, fate>>
    BY <1>1 DEF ConfigTx, ConfigRx, IrqSeen, ResetDisarms, ResetCancels, tsVars
  <2> QED
    BY <2>1, OtherIInv
<1>2. CASE WorkStarts
  BY <1>2, SameIInv DEF WorkStarts
<1> QED
  BY <1>1, <1>2, TsXmitIInv, TimestampedIInv, TsIrqIInv, DrainIInv, MatchIInv, DeliverIInv, FlushIInv
     DEF TsNext, TsIrq, Work

\* The inductive invariant of the rings and of the work item.
THEOREM TsInvariance == TsSpec => []TsIInv
<1>1. TsInit => TsIInv
  BY TsInitIInv
<1>2. TsIInv /\ [TsNext]_tsVars => TsIInv'
  BY TsNextIInv
<1> QED
  BY <1>1, <1>2, PTL DEF TsSpec

\* Every packet that was queued is in one slot, with the work item, or freed
\* once, and no slot outside the indices holds one.
THEOREM Accounted == TsSpec => []SkbsAccounted
<1>1. TsIInv => SkbsAccounted
  <2> SUFFICES ASSUME TsIInv PROVE SkbsAccounted
    OBVIOUS
  <2>1. ASSUME NEW n \in Packet
        PROVE  freed[n] + Cardinality({i \in SkbSlot : skb_ptr[i] = n})
                 + (IF ts_skb = n THEN 1 ELSE 0) = IF n <= sent THEN 1 ELSE 0
    <3>1. Cardinality({i \in SkbSlot : skb_ptr[i] = n}) = IF Holds(skb_ptr, n) THEN 1 ELSE 0
      BY SkbCount DEF TsIInv, TsTypeOK
    <3>2. n \in Int /\ sent \in Int
      BY TsSizes DEF TsIInv, TsTypeOK, Packet
    <3>3. CASE n <= sent
      BY <3>1, <3>3 DEF TsIInv, InOnePlace
    <3>4. CASE n > sent
      BY <3>1, <3>2, <3>4 DEF TsIInv, InOnePlace
    <3> QED
      BY <3>2, <3>3, <3>4
  <2>2. {skb_ptr[i] : i \in SkbSlot} \ {NULL} = Queued
    <3>1. Used(skb_rd_idx, skb_wr_idx, RA_NET_TX_SKB_LIST_SIZE)
            = {i \in SkbSlot : InUse(i, skb_rd_idx, skb_wr_idx)}
      BY UsedSlots, TsSizes DEF TsIInv, TsTypeOK, SkbSlot
    <3>2. \A i \in SkbSlot : skb_ptr[i] # NULL <=> InUse(i, skb_rd_idx, skb_wr_idx)
      BY DEF TsIInv, SkbRing
    <3> QED
      BY <3>1, <3>2 DEF Queued
  <2> QED
    BY <2>1, <2>2 DEF SkbsAccounted
<1> QED
  BY <1>1, TsInvariance, PTL

\* If ids are unique, a packet is only given the timestamp that was taken for it:
\* ra_net_stamp_tx_skb compares nothing but the ids.
THEOREM OwnStamp == ASSUME UniqueIds PROVE TsSpec => []StampIsOwn
<1>1. TsIInv => StampIsOwn
  BY UniqueIds DEF TsIInv, TsTypeOK, StampById, StampIsOwn, UniqueIds
<1> QED
  BY <1>1, TsInvariance, PTL

\* A packet that is given up for a newer timestamp has none to come: the rings and
\* the FIFO keep the order of the packets, so an older timestamp is not behind it.
LEMMA GiveUpStep ==
  ASSUME TsIInv, WorkMatch, HaveSkb, HaveTs, work' = "match", skb_rd_idx' # skb_rd_idx,
         Growing(skb_ptr[skb_rd_idx]), Seq_id[skb_ptr[skb_rd_idx]] # Short
  PROVE  /\ \A i \in 1 .. Len(ts_fifo \o wire) : (ts_fifo \o wire)[i] # skb_ptr[skb_rd_idx]
         /\ skb_ptr[skb_rd_idx] \notin Stored
<1> DEFINE n == skb_ptr[skb_rd_idx]
           t == fpga_ts[ts_rd_idx]
           own == Seq_id[n] = Seq_id[t]
<1>1. ~own /\ ~(Seq_id[t] < Seq_id[n])
  BY DEF WorkMatch, ra_net_stamp_tx_skb, ConsumeSkb
<1>2. n \in Packet
  BY SkbPop DEF TsIInv, TsTypeOK, HaveSkb
<1>3. /\ ts_rd_idx \in TsSlot /\ ts_wr_idx \in TsSlot /\ ts_rd_idx # ts_wr_idx
      /\ InUse(ts_rd_idx, ts_rd_idx, ts_wr_idx)
  <2>1. ts_rd_idx \in TsSlot /\ ts_wr_idx \in TsSlot /\ ts_rd_idx # ts_wr_idx
    BY DEF TsIInv, TsTypeOK, HaveTs
  <2> QED
    BY <2>1, TsSizes, Pop DEF TsSlot
<1>4. t \in 1 .. sent
  BY <1>3 DEF TsIInv, TsRing
<1>5. ~(t < n) /\ t # n
  <2>1. t \in Nat /\ n \in Nat /\ t >= 1
    BY <1>2, <1>4, TsSizes DEF TsIInv, TsTypeOK, Packet
  <2>2. t < n => t \in 1 .. n - 1
    BY <2>1
  <2> QED
    BY <1>1, <2>2 DEF Growing
<1>6. n # Bad
  BY <1>2, TsSizes DEF Packet, Bad
<1> HIDE DEF n, t, own
<1>7. /\ \A k \in 1 .. Len(ts_fifo) : ts_fifo[k] # n
      /\ \A k \in 1 .. Len(wire) : wire[k] # n
  <2>1. \A k \in 1 .. Len(ts_fifo) : ts_fifo[k] # Bad => t < ts_fifo[k]
    BY <1>3 DEF TsIInv, TsRing, t
  <2>2. \A k \in 1 .. Len(wire) : t < wire[k]
    BY <1>3 DEF TsIInv, TsRing, t
  <2> QED
    BY <1>5, <1>6, <2>1, <2>2
<1>8. \A i \in 1 .. Len(ts_fifo \o wire) : (ts_fifo \o wire)[i] # n
  <2>1. ts_fifo \in Seq(Packet \cup {Bad}) /\ wire \in Seq(Packet)
    BY DEF TsIInv, TsTypeOK
  <2> SUFFICES ASSUME NEW i \in 1 .. Len(ts_fifo \o wire) PROVE (ts_fifo \o wire)[i] # n
    OBVIOUS
  <2>2. CASE i \in 1 .. Len(ts_fifo)
    BY <1>7, <2>1, <2>2
  <2>3. CASE i - Len(ts_fifo) \in 1 .. Len(wire)
    <3>1. (ts_fifo \o wire)[i] = wire[i - Len(ts_fifo)]
      BY <2>1, <2>3
    <3> QED
      BY <1>7, <2>3, <3>1
  <2> QED
    BY <2>1, <2>2, <2>3
<1>9. n \notin Stored
  <2> SUFFICES ASSUME NEW i \in TsSlot, InUse(i, ts_rd_idx, ts_wr_idx)
               PROVE  fpga_ts[i] # n
    <3>1. Used(ts_rd_idx, ts_wr_idx, RA_NET_TX_TS_LIST_SIZE)
            = {i \in TsSlot : InUse(i, ts_rd_idx, ts_wr_idx)}
      BY <1>3, UsedSlots, TsSizes DEF TsSlot
    <3> QED
      BY <3>1 DEF Stored
  <2>1. CASE i = ts_rd_idx
    BY <1>5, <2>1 DEF t
  <2>2. CASE i # ts_rd_idx
    <3>1. Place(ts_rd_idx, ts_rd_idx, RA_NET_TX_TS_LIST_SIZE)
            < Place(i, ts_rd_idx, RA_NET_TX_TS_LIST_SIZE)
      BY <1>3, <2>2, TsSizes DEF Place, TsSlot
    <3>2. t < fpga_ts[i]
      BY <1>3, <3>1 DEF TsIInv, TsRing, t
    <3> QED
      BY <1>5, <3>2
  <2> QED
    BY <2>1, <2>2
<1> QED
  BY <1>8, <1>9 DEF n

\* The work item gives up no packet whose timestamp is stored, in the FIFO or yet
\* to be taken, as long as ids have not wrapped.
THEOREM GivesUpRightly == TsSpec => GivesUpOnlyUnstamped
<1>1. TsIInv /\ [TsNext]_tsVars =>
        [work = "match" /\ HaveSkb /\ HaveTs /\ work' = "match" /\ skb_rd_idx' # skb_rd_idx =>
           LET n == skb_ptr[skb_rd_idx] IN
           Growing(n) /\ Seq_id[n] # Short =>
             /\ \A i \in 1 .. Len(ts_fifo \o wire) : (ts_fifo \o wire)[i] # n
             /\ n \notin Stored]_tsVars
  <2> SUFFICES ASSUME TsIInv, TsNext, work = "match", HaveSkb, HaveTs, work' = "match",
                      skb_rd_idx' # skb_rd_idx,
                      Growing(skb_ptr[skb_rd_idx]), Seq_id[skb_ptr[skb_rd_idx]] # Short
               PROVE  /\ \A i \in 1 .. Len(ts_fifo \o wire) :
                             (ts_fifo \o wire)[i] # skb_ptr[skb_rd_idx]
                      /\ skb_ptr[skb_rd_idx] \notin Stored
    OBVIOUS
  <2>1. WorkMatch
    BY DEF TsNext, TsIrq, Work, ConfigTx, ConfigRx, TsXmit, Unlocked, Timestamped, IrqSeen,
           ra_net_tx_ts_irq, WorkStarts, WorkDrain, WorkDelivers, ResetDisarms, ResetCancels,
           ra_net_flush_tx_ts, rings, skbs
  <2> QED
    BY <2>1, GiveUpStep
<1> QED
  BY <1>1, TsInvariance, PTL DEF TsSpec, GivesUpOnlyUnstamped

=============================================================================
