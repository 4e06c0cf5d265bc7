-------------------------------- MODULE NetRx --------------------------------
(***************************************************************************)
(* Reception in the Ethernet driver (modules/net/main.c and dma.c).  In    *)
(* FIFO mode the interrupt schedules a NAPI poll, in DMA mode it starts a  *)
(* transfer, whose callback starts the next.  Open, stop and the transmit  *)
(* watchdog reset the device under them.  NetTx.tla has the transmit half  *)
(* of the same handlers.                                                   *)
(*                                                                         *)
(* From the kernel come NAPI and the dmaengine.  NAPI runs on the CPU that *)
(* takes the interrupt, one poll after the other.  napi_disable waits for  *)
(* NAPI_STATE_SCHED, not for the end of the poll that has cleared it.      *)
(***************************************************************************)
EXTENDS Integers, Sequences, FiniteSets

CONSTANTS
  RxFifoSize,    \* packets the receive FIFO holds
  Budget,        \* of a NAPI poll
  MaxTransfers   \* descriptors the DMA channel takes

ASSUME NetRxAssumption ==
  {RxFifoSize, Budget, MaxTransfers} \subseteq Nat \ {0}

VARIABLES
  dma_rx_chan,  \* there is a DMA channel: DMA mode, otherwise FIFO mode
  netdev,       \* where ra_net_open and ra_net_stop are
  watchdog,     \* ra_net_tx_timeout is running
  reset,        \* where ra_net_reset is, for each of its two callers
  enabled,      \* RA_NET_IRQ_RX_PACKET_AVAILABLE is not masked
  irq,          \* where ra_net_irqhandler is
  rx,           \* packets in the FIFO
  napi,         \* "off", "idle" or "sched", and NAPIF_STATE_MISSED
  poll,         \* where ra_net_napi_poll is, and its count
  transfers,    \* DMA transfers: does the status they were made for still hold?
  callback,     \* where ra_net_dma_rx_callback is
  fresh,        \* readers whose RA_NET_RX_STATE describes the head of the FIFO
  timedout,     \* the watchdog has reset the device since it was opened
  late,         \* a reset by open or stop ended before the receive path did
  outlived,     \* the last napi_disable returned before the poll did
  garbled       \* a packet with foreign contents went up the stack

ctl == <<dma_rx_chan, netdev, watchdog, reset, timedout>>
data == <<rx, transfers, fresh, late, outlived, garbled>>
vars == <<ctl, data, enabled, irq, napi, poll, callback>>

Up == netdev = "up"

netif_running == netdev \in {"opening", "up"}

-----------------------------------------------------------------------------
(* The FIFO.  RA_NET_RX_STATE has the length of the packet at its head;    *)
(* when that packet is read, the status that others have read is stale.    *)

Receive ==
  /\ rx < RxFifoSize
  /\ rx' = rx + 1
  /\ UNCHANGED <<ctl, transfers, fresh, late, outlived, garbled, enabled, irq, napi, poll, callback>>

\* Words are read for a status that holds, or for one that does not: then they
\* are anybody's, and so is what they leave in the FIFO.
ReadPacket(holds) ==
  /\ rx' \in {n \in {rx - 1, rx} : n >= 0 /\ (holds => n = rx - 1)}
  /\ garbled' = (garbled \/ (netif_running /\ ~holds))
  /\ fresh' = {}

\* The transfers in flight are for a packet that is gone.
Outdated == [i \in DOMAIN transfers |-> FALSE]

-----------------------------------------------------------------------------
(* ra_net_dma_rx, called by r: ra_net_dma_rx_one reads the status, then    *)
(* starts a transfer.  If it fails, the interrupt is enabled again.        *)

At(r, place) == (r = "irq" /\ irq = place) \/ (r = "callback" /\ callback = place)

Goto(r, place) ==
  /\ irq' = IF r = "irq" THEN place ELSE irq
  /\ callback' = IF r = "callback" THEN place ELSE callback

DmaStatus(r) ==
  /\ At(r, "status")
  /\ IF rx = 0 THEN Goto(r, "enable") /\ UNCHANGED fresh
               ELSE Goto(r, "start") /\ fresh' = fresh \cup {r}
  /\ UNCHANGED <<ctl, rx, transfers, late, outlived, garbled, enabled, napi, poll>>

\* With a transfer in flight the status is that of the packet it is reading.
DmaStart(r) ==
  /\ At(r, "start")
  /\ Len(transfers) < MaxTransfers
  /\ transfers' = Append(transfers, r \in fresh /\ transfers = <<>>)
  /\ fresh' = fresh \ {r}
  /\ Goto(r, "idle")
  /\ UNCHANGED <<ctl, rx, late, outlived, garbled, enabled, napi, poll>>

\* No skb, mapping, context or descriptor; what was allocated is freed.
DmaStartFails(r) ==
  /\ At(r, "start")
  /\ fresh' = fresh \ {r}
  /\ Goto(r, "enable")
  /\ UNCHANGED <<ctl, rx, transfers, late, outlived, garbled, enabled, napi, poll>>

\* Mutant: an error leaves the interrupt masked.
DmaNoEnable(r) ==
  /\ At(r, "enable")
  /\ Goto(r, "idle")
  /\ UNCHANGED <<ctl, data, enabled, napi, poll>>

DmaEnable(r) ==
  /\ At(r, "enable")
  /\ enabled' = TRUE
  /\ Goto(r, "idle")
  /\ UNCHANGED <<ctl, data, napi, poll>>

ra_net_dma_rx(r) == DmaStatus(r) \/ DmaStart(r) \/ DmaStartFails(r) \/ DmaEnable(r)

\* A transfer is done and ra_net_dma_rx_callback hands over its packet, which
\* netif_rx drops when the device is down.
DmaComplete ==
  /\ transfers # <<>> /\ callback = "idle"
  /\ ReadPacket(Head(transfers))
  /\ transfers' = Tail(Outdated)
  /\ callback' = "status"
  /\ UNCHANGED <<ctl, late, outlived, enabled, irq, napi, poll>>

-----------------------------------------------------------------------------
(* ra_net_napi_poll                                                        *)

\* Without effect while napi_disable waits, and only noted once it has returned.
napi_schedule ==
  napi' = IF netdev = "disabling" THEN napi
          ELSE [state |-> IF napi.state = "idle" THEN "sched" ELSE napi.state,
                missed |-> napi.missed \/ napi.state # "idle"]

napi_complete_done ==
  napi' = [state |-> IF napi.missed THEN "sched" ELSE "idle", missed |-> FALSE]

PollBegin ==
  /\ napi.state = "sched" /\ poll.at = "idle"
  /\ poll' = [at |-> "status", count |-> 0]
  /\ UNCHANGED <<ctl, data, enabled, irq, napi, callback>>

\* There is a packet, and an skb for it.
PollStatus ==
  /\ poll.at = "status" /\ poll.count < Budget /\ rx > 0
  /\ poll' = [poll EXCEPT !.at = "fifo"]
  /\ fresh' = fresh \cup {"poll"}
  /\ UNCHANGED <<ctl, rx, transfers, late, outlived, garbled, enabled, irq, napi, callback>>

PollFifo ==
  /\ poll.at = "fifo"
  /\ ReadPacket("poll" \in fresh)
  /\ transfers' = Outdated
  /\ poll' = [at |-> "status", count |-> poll.count + 1]
  /\ UNCHANGED <<ctl, late, outlived, enabled, irq, napi, callback>>

\* The budget is used up, the FIFO is empty, or there was no skb.
PollEnds ==
  /\ poll.at = "status"
  /\ IF poll.count < Budget THEN napi_complete_done ELSE UNCHANGED napi
  /\ poll' = [poll EXCEPT !.at = "enable"]
  /\ UNCHANGED <<ctl, data, enabled, irq, callback>>

\* Also after a full budget, when the next poll is already due, unless
\* napi_disable is waiting for it.
PollEnable ==
  /\ poll.at = "enable"
  /\ enabled' = TRUE
  /\ IF poll.count = Budget /\ netdev = "disabling" THEN napi_complete_done ELSE UNCHANGED napi
  /\ poll' = [at |-> "idle", count |-> 0]
  /\ UNCHANGED <<ctl, data, irq, callback>>

-----------------------------------------------------------------------------
(* ra_net_irqhandler, as far as it is about reception                      *)

IrqBegin ==
  /\ irq = "idle"
  /\ enabled /\ rx > 0
  /\ irq' = "disable"
  /\ UNCHANGED <<ctl, data, enabled, napi, poll, callback>>

\* Mutant: starts on a packet with the interrupt still enabled.
IrqNoDisable ==
  /\ irq = "disable"
  /\ irq' = IF dma_rx_chan THEN "status" ELSE "schedule"
  /\ UNCHANGED <<ctl, data, enabled, napi, poll, callback>>

IrqDisable ==
  /\ irq = "disable"
  /\ enabled' = FALSE
  /\ irq' = IF dma_rx_chan THEN "status" ELSE "schedule"
  /\ UNCHANGED <<ctl, data, napi, poll, callback>>

IrqSchedule ==
  /\ irq = "schedule"
  /\ napi_schedule
  /\ irq' = "idle"
  /\ UNCHANGED <<ctl, data, enabled, poll, callback>>

-----------------------------------------------------------------------------
(* ra_net_reset, called by a: open and stop ("netdev") or "watchdog".  It  *)
(* waits neither for the interrupt handler nor for a DMA callback.         *)

ResetMask(a) ==
  /\ reset[a] = "mask"
  /\ enabled' = FALSE
  /\ reset' = [reset EXCEPT ![a] = "fifo"]
  /\ UNCHANGED <<dma_rx_chan, netdev, watchdog, timedout, data, irq, napi,
                 poll, callback>>

ra_net_flush_rx_fifo(a) ==
  /\ reset[a] = "fifo"
  /\ rx' = 0
  /\ IF rx = 0 THEN UNCHANGED <<fresh, transfers>>
               ELSE fresh' = {} /\ transfers' = Outdated
  /\ reset' = [reset EXCEPT ![a] = "dma"]
  /\ UNCHANGED <<dma_rx_chan, netdev, watchdog, timedout, late, outlived, garbled, enabled,
                 irq, napi, poll, callback>>

\* The handler or a callback is on its way, or has enabled the interrupt again
\* after it was masked.
ReceivePathRuns == dma_rx_chan /\ (irq # "idle" \/ callback # "idle" \/ enabled)

\* dmaengine_terminate_all drops the transfers, their skbs and contexts with
\* them, and lets a callback that has begun run on.
ra_net_dma_flush(a) ==
  /\ reset[a] = "dma"
  /\ transfers' = <<>>
  /\ late' = (late \/ (a = "netdev" /\ ReceivePathRuns))
  /\ reset' = [reset EXCEPT ![a] = "idle"]
  /\ UNCHANGED <<dma_rx_chan, netdev, watchdog, timedout, rx, fresh, outlived, garbled,
                 enabled, irq, napi, poll, callback>>

ra_net_reset(a) == ResetMask(a) \/ ra_net_flush_rx_fifo(a) \/ ra_net_dma_flush(a)

TimeoutBegin ==
  /\ Up /\ ~watchdog
  /\ watchdog' = TRUE
  /\ timedout' = TRUE
  /\ reset' = [reset EXCEPT !["watchdog"] = "mask"]
  /\ UNCHANGED <<dma_rx_chan, netdev, data, enabled, irq, napi, poll, callback>>

TimeoutEnd ==
  /\ watchdog /\ reset["watchdog"] = "idle"
  /\ watchdog' = FALSE
  /\ UNCHANGED <<dma_rx_chan, netdev, reset, timedout, data, enabled, irq,
                 napi, poll, callback>>

OpenBegin ==
  /\ netdev = "closed"
  /\ netdev' = "opening"
  /\ reset' = [reset EXCEPT !["netdev"] = "mask"]
  /\ UNCHANGED <<dma_rx_chan, watchdog, timedout, data, enabled, irq, napi,
                 poll, callback>>

OpenEnd ==
  /\ netdev = "opening" /\ reset["netdev"] = "idle"
  /\ napi' = [napi EXCEPT !.state = "idle"]
  /\ enabled' = TRUE
  /\ netdev' = "up"
  /\ timedout' = FALSE
  /\ garbled' = FALSE
  /\ UNCHANGED <<dma_rx_chan, watchdog, reset, late, outlived, rx, transfers, fresh, irq, poll,
                 callback>>

\* The core has waited for the watchdog.
StopBegin ==
  /\ Up /\ ~watchdog
  /\ netdev' = "stopping"
  /\ UNCHANGED <<dma_rx_chan, watchdog, reset, timedout, data, enabled, irq,
                 napi, poll, callback>>

StopDisables ==
  /\ netdev = "stopping"
  /\ netdev' = "disabling"
  /\ UNCHANGED <<dma_rx_chan, watchdog, reset, timedout, data, enabled, irq,
                 napi, poll, callback>>

\* Mutant: resets while a poll may still be running.
StopUnderPoll ==
  /\ netdev = "disabling"
  /\ napi' = [napi EXCEPT !.state = "off"]
  /\ outlived' = (poll.at = "enable")
  /\ netdev' = "stopped"
  /\ reset' = [reset EXCEPT !["netdev"] = "mask"]
  /\ UNCHANGED <<dma_rx_chan, watchdog, timedout, rx, transfers, fresh, late, garbled,
                 enabled, irq, poll, callback>>

\* napi_disable has waited until no poll is scheduled.
StopNapi ==
  /\ netdev = "disabling" /\ napi.state = "idle"
  /\ napi' = [napi EXCEPT !.state = "off"]
  /\ outlived' = (poll.at = "enable")
  /\ netdev' = "stopped"
  /\ reset' = [reset EXCEPT !["netdev"] = "mask"]
  /\ UNCHANGED <<dma_rx_chan, watchdog, timedout, rx, transfers, fresh, late, garbled,
                 enabled, irq, poll, callback>>

StopEnd ==
  /\ netdev = "stopped" /\ reset["netdev"] = "idle"
  /\ netdev' = "closed"
  /\ UNCHANGED <<dma_rx_chan, watchdog, reset, timedout, data, enabled, irq,
                 napi, poll, callback>>

-----------------------------------------------------------------------------
Init ==
  /\ dma_rx_chan \in BOOLEAN
  /\ netdev = "closed" /\ watchdog = FALSE /\ timedout = FALSE
  /\ late = FALSE /\ outlived = FALSE
  /\ reset = [a \in {"netdev", "watchdog"} |-> "idle"]
  /\ enabled = FALSE /\ irq = "idle"
  /\ napi = [state |-> "off", missed |-> FALSE]
  /\ poll = [at |-> "idle", count |-> 0]
  /\ callback = "idle"
  /\ rx = 0 /\ transfers = <<>> /\ fresh = {} /\ garbled = FALSE

Poll == PollBegin \/ PollStatus \/ PollFifo \/ PollEnds \/ PollEnable
Irq == IrqBegin \/ IrqDisable \/ IrqSchedule \/ ra_net_dma_rx("irq")
Callback == DmaComplete \/ ra_net_dma_rx("callback")
Timeout == ra_net_reset("watchdog") \/ TimeoutEnd
Open == ra_net_reset("netdev") \/ OpenEnd
Stop == StopDisables \/ StopNapi \/ StopEnd

Next ==
  \/ Receive \/ Poll \/ Irq \/ Callback
  \/ TimeoutBegin \/ Timeout \/ OpenBegin \/ Open \/ StopBegin \/ Stop

\* What runs goes on, a pending interrupt is taken, a transfer completes, and
\* memory is not short for ever.
Fairness ==
  /\ WF_vars(Poll) /\ WF_vars(Irq) /\ WF_vars(Callback) /\ WF_vars(DmaComplete)
  /\ SF_vars(PollStatus)
  /\ SF_vars(DmaStart("irq") \/ DmaStart("callback"))
  /\ WF_vars(Timeout) /\ WF_vars(Open) /\ WF_vars(Stop)

Spec == Init /\ [][Next]_vars /\ Fairness

-----------------------------------------------------------------------------
(* Properties                                                              *)

TypeOK ==
  /\ dma_rx_chan \in BOOLEAN /\ watchdog \in BOOLEAN /\ timedout \in BOOLEAN
  /\ enabled \in BOOLEAN /\ late \in BOOLEAN /\ outlived \in BOOLEAN /\ garbled \in BOOLEAN
  /\ netdev \in {"closed", "opening", "up", "stopping", "disabling", "stopped"}
  /\ reset \in [{"netdev", "watchdog"} -> {"idle", "mask", "fifo", "dma"}]
  /\ irq \in {"idle", "disable", "schedule", "status", "start", "enable"}
  /\ callback \in {"idle", "status", "start", "enable"}
  /\ rx \in 0 .. RxFifoSize
  /\ napi \in [state : {"off", "idle", "sched"}, missed : BOOLEAN]
  /\ poll \in [at : {"idle", "status", "fifo", "enable"}, count : 0 .. Budget]
  /\ poll.at = "fifo" => poll.count < Budget
  /\ transfers \in Seq(BOOLEAN)
  /\ fresh \in SUBSET {"irq", "callback", "poll"}

\* The handler, the callback, the poll and the transfers that are reading a packet.
Readers ==
  Len(transfers)
  + Cardinality({r \in {"irq", "callback"} : At(r, "status") \/ At(r, "start")})
  + (IF poll.at = "fifo" THEN 1 ELSE 0)

\* A packet goes up the stack with its own contents and length: nothing empties
\* the FIFO between the reading of RA_NET_RX_STATE and the reading of the words
\* it announces.  Two resets that wait for nobody are excepted: that of the
\* watchdog, and in DMA mode that of ra_net_stop.
DeliveredIntact == garbled => timedout \/ late

\* At most one of handler, callback, poll and transfer is reading the FIFO.
\* There is no lock; the masked interrupt is passed on like a token from the
\* handler to the transfer, to its callback, and to the next transfer.
OneReader == Readers > 1 => late

\* A closed device is quiet: NAPI is off and no poll reads the FIFO, the interrupt,
\* which poll, handler and callback enable as they end, is masked, and no transfer
\* writes to memory.  There are two exceptions.  In DMA mode the handler or a
\* callback may end after the reset; in FIFO mode a poll that napi_disable no
\* longer waits for may enable the interrupt after it.
StoppedIsQuiet ==
  netdev = "closed" =>
    /\ napi.state = "off" /\ poll.at \in {"idle", "enable"}
    /\ ~late /\ ~outlived => ~enabled /\ transfers = <<>> /\ poll.at = "idle"

\* The rtnl lock and the transmit lock around ra_net_reset, and what each mode
\* leaves alone.
ModesApart ==
  /\ reset["netdev"] # "idle" => netdev \in {"opening", "stopped"}
  /\ reset["watchdog"] # "idle" => watchdog
  /\ watchdog => Up /\ timedout
  /\ dma_rx_chan => poll.at = "idle" /\ napi.state # "sched" /\ irq # "schedule"
  /\ ~dma_rx_chan =>
       ~late /\ transfers = <<>> /\ callback = "idle" /\ irq \in {"idle", "disable", "schedule"}
  /\ outlived => ~dma_rx_chan

\* In DMA mode the enabled interrupt is a token.  It is with the register or
\* with the handler that is about to mask it, or with the rest of the handler, or
\* with a transfer, or with its callback, and with one of them only.
OneToken ==
  dma_rx_chan /\ ~late =>
    /\ enabled => irq \in {"idle", "disable"} /\ callback = "idle" /\ transfers = <<>>
    /\ irq # "idle" => callback = "idle" /\ transfers = <<>>
    /\ callback # "idle" => transfers = <<>>
    /\ Len(transfers) \in {0, 1}

\* ra_net_stop has reset the device, and ra_net_open has not enabled it yet.
Shut == netdev \in {"closed", "opening"} \/ (netdev = "stopped" /\ reset["netdev"] = "idle")

\* From napi_disable to the end of ra_net_open no poll reads the FIFO, and once
\* the interrupt is masked it stays so, but for a poll that napi_disable has not
\* waited for.
StopsInOrder ==
  /\ napi.state = "off" <=> netdev \in {"stopped", "closed", "opening"}
  /\ poll.at \in {"status", "fifo"} => napi.state = "sched"
  /\ napi.state = "off" /\ ~outlived => poll.at = "idle"
  /\ ~dma_rx_chan /\ ~outlived /\ (Shut \/ (netdev = "stopped" /\ reset["netdev"] # "mask")) =>
       ~enabled
  /\ dma_rx_chan /\ ~late /\ Shut =>
       ~enabled /\ irq = "idle" /\ callback = "idle" /\ transfers = <<>>

\* Whoever is about to read a packet has a status that holds.
StatusHolds ==
  netdev \in {"up", "stopping", "disabling"} =>
    \/ timedout \/ late
    \/ /\ \A r \in {"irq", "callback"} : At(r, "start") => r \in fresh
       /\ poll.at = "fifo" => "poll" \in fresh
       /\ transfers # <<>> => Head(transfers)

\* The inductive invariant.
IInv == TypeOK /\ ModesApart /\ OneToken /\ StopsInOrder /\ StatusHolds /\ DeliveredIntact

\* A packet in the FIFO is read, in either mode, however allocation failures,
\* used up budgets and interrupts fall.  ra_net_tx_timeout is the exception: it
\* masks the receive interrupt, and only ra_net_open enables it again.
FifoMoves ==
  (Up /\ rx > 0) ~>
     (rx = 0 \/ poll.at = "fifo" \/ callback = "status" \/ ~Up \/ timedout)

=============================================================================
