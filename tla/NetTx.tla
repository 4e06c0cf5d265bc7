-------------------------------- MODULE NetTx --------------------------------
(***************************************************************************)
(* Transmission in the Ethernet driver (modules/net/main.c): start_xmit    *)
(* stops the queue when the FIFO of the FPGA runs low, and the interrupt   *)
(* handler, the receive path, the watchdog and the hwtstamp ioctl start it *)
(* again.  An actor makes one step for each register or flag that another  *)
(* actor may look at in between.                                           *)
(*                                                                         *)
(* From the kernel come the queueing discipline with its stop bit, the     *)
(* rtnl lock (open, stop and the ioctl exclude each other) and the         *)
(* transmit lock (the watchdog excludes start_xmit).                       *)
(***************************************************************************)
EXTENDS Integers

CONSTANTS
  TxFifoSize,                          \* FPGA transmit FIFO
  RA_NET_TX_FIFO_MIN_SPACE_AVAILABLE,  \* throttle below this
  MaxBacklog                           \* packets the stack queues

\* What the driver adds to and rounds up from a packet: see aligned_len.  A
\* packet fits whenever the interrupt says so, since aligned_len is at most
\* 1520 with RA_NET_MAX_MTU and the interrupt waits for 1536.
AlignedLen == 1 .. RA_NET_TX_FIFO_MIN_SPACE_AVAILABLE

ASSUME NetTxAssumption ==
  /\ RA_NET_TX_FIFO_MIN_SPACE_AVAILABLE \in Nat \ {0}
  /\ TxFifoSize \in Nat
  /\ TxFifoSize >= RA_NET_TX_FIFO_MIN_SPACE_AVAILABLE
  /\ MaxBacklog \in Nat \ {0}

VARIABLES
  rtnl,          \* "closed", "up", or "config" within the hwtstamp ioctl
  tx_watchdog,   \* where ra_net_tx_timeout is
  xoff,          \* the transmit queue is stopped
  backlog,       \* packets in the qdisc
  sched,         \* the qdisc is scheduled to run
  xmit,          \* where ra_net_hw_xmit_skb is
  skb,           \* its packet: aligned_len, and the free space it saw
  tx_throttle,   \* priv->tx_throttle
  space,         \* free space of the FIFO
  tx_enabled,    \* RA_NET_IRQ_TX_SPACE_AVAILABLE is not masked
  tx_irq         \* where ra_net_irqhandler is

queue == <<xoff, sched>>
fifo == <<space, tx_enabled>>
txVars == <<rtnl, tx_watchdog, backlog, xmit, skb, tx_throttle, tx_irq, queue, fifo>>

NoSkb == [len |-> 0, free |-> 0]

TxUp == rtnl \in {"up", "config"}

-----------------------------------------------------------------------------
(* The transmit queue (kernel).  start_queue does not schedule the qdisc.  *)

netif_stop_queue == xoff' = TRUE /\ UNCHANGED sched
netif_start_queue == xoff' = FALSE /\ UNCHANGED sched
netif_wake_queue == xoff' = FALSE /\ sched' = (sched \/ xoff)

\* The stack sends a packet: it is queued and the qdisc is run.
Enqueue ==
  /\ TxUp /\ backlog < MaxBacklog
  /\ backlog' = backlog + 1
  /\ sched' = TRUE
  /\ UNCHANGED <<rtnl, tx_watchdog, xmit, skb, tx_throttle, tx_irq, xoff, fifo>>

\* The qdisc finds nothing to send, or the queue stopped.
QdiscRests ==
  /\ sched /\ xmit = "idle" /\ tx_watchdog = "idle"
  /\ backlog = 0 \/ xoff
  /\ sched' = FALSE
  /\ UNCHANGED <<rtnl, tx_watchdog, backlog, xmit, skb, tx_throttle, tx_irq, xoff,
                 fifo>>

-----------------------------------------------------------------------------
(* ra_net_start_xmit and ra_net_hw_xmit_skb                                *)

\* Fails early, with an empty skb or without memory for tmp_buf, or reads the
\* free space of the FIFO.
XmitBegin ==
  /\ TxUp /\ sched /\ xmit = "idle" /\ tx_watchdog = "idle"
  /\ backlog > 0 /\ ~xoff
  /\ backlog' = backlog - 1
  /\ \/ xmit' \in {"empty", "sent"} /\ UNCHANGED skb
     \/ \E len \in AlignedLen :
          /\ skb' = [len |-> len, free |-> space]
          /\ xmit' = IF space < RA_NET_TX_FIFO_MIN_SPACE_AVAILABLE
                       THEN "throttle" ELSE "write"
  /\ UNCHANGED <<rtnl, tx_watchdog, tx_throttle, tx_irq, queue, fifo>>

XmitThrottle ==
  /\ xmit = "throttle"
  /\ tx_throttle' = TRUE
  /\ xmit' = "stop"
  /\ UNCHANGED <<rtnl, tx_watchdog, backlog, skb, tx_irq, queue, fifo>>

XmitStop ==
  /\ xmit = "stop"
  /\ netif_stop_queue
  /\ xmit' = "irq"
  /\ UNCHANGED <<rtnl, tx_watchdog, backlog, skb, tx_throttle, tx_irq, fifo>>

\* Mutant: a throttled queue waits for the watchdog.
XmitNoIrq ==
  /\ xmit = "irq"
  /\ xmit' = "write"
  /\ UNCHANGED <<rtnl, tx_watchdog, backlog, skb, tx_throttle, tx_irq, queue, fifo>>

\* "Make sure the queue is stopped before the IRQ is enabled."
XmitIrq ==
  /\ xmit = "irq"
  /\ tx_enabled' = TRUE
  /\ xmit' = "write"
  /\ UNCHANGED <<rtnl, tx_watchdog, backlog, skb, tx_throttle, tx_irq, queue, space>>

\* Mutant: does not look at the space again after throttling.
XmitWriteAlways ==
  /\ xmit = "write"
  /\ xmit' = "sent"
  /\ space' = space - skb.len
  /\ UNCHANGED <<rtnl, tx_watchdog, backlog, skb, tx_throttle, tx_irq, queue,
                 tx_enabled>>

\* -ENOSPC, or the packet goes to the FIFO and transmission starts.
XmitWrite ==
  /\ xmit = "write"
  /\ IF skb.free < skb.len
       THEN xmit' = "busy" /\ UNCHANGED space
       ELSE xmit' = "sent" /\ space' = space - skb.len
  /\ UNCHANGED <<rtnl, tx_watchdog, backlog, skb, tx_throttle, tx_irq, queue,
                 tx_enabled>>

\* The early return for an empty skb, which has been freed.
XmitEmpty ==
  /\ xmit = "empty"
  /\ xmit' = "idle"
  /\ UNCHANGED <<rtnl, tx_watchdog, backlog, skb, tx_throttle, tx_irq, queue, fifo>>

\* The unlocked look at tx_throttle.  A packet that was refused with
\* NETDEV_TX_BUSY is requeued by the stack, which schedules the qdisc.
XmitEnd ==
  /\ xmit \in {"sent", "busy"}
  /\ xoff' = (xoff /\ tx_throttle)
  /\ sched' = (sched \/ xmit = "busy" \/ (xoff /\ ~tx_throttle))
  /\ backlog' = IF xmit = "busy" THEN backlog + 1 ELSE backlog
  /\ xmit' = "idle"
  /\ skb' = NoSkb
  /\ UNCHANGED <<rtnl, tx_watchdog, tx_throttle, tx_irq, fifo>>

\* The FPGA sends.
Transmit ==
  /\ space < TxFifoSize
  /\ space' = space + 1
  /\ UNCHANGED <<rtnl, tx_watchdog, backlog, xmit, skb, tx_throttle, tx_irq, queue,
                 tx_enabled>>

-----------------------------------------------------------------------------
(* ra_net_irqhandler, as far as it is about transmission                   *)

TxIrqBegin ==
  /\ tx_irq = "idle"
  /\ tx_enabled /\ space >= RA_NET_TX_FIFO_MIN_SPACE_AVAILABLE
  /\ tx_irq' = "disable"
  /\ UNCHANGED <<rtnl, tx_watchdog, backlog, xmit, skb, tx_throttle, queue, fifo>>

TxIrqDisable ==
  /\ tx_irq = "disable"
  /\ tx_enabled' = FALSE
  /\ tx_irq' = "throttle"
  /\ UNCHANGED <<rtnl, tx_watchdog, backlog, xmit, skb, tx_throttle, queue, space>>

TxIrqThrottle ==
  /\ tx_irq = "throttle"
  /\ tx_throttle' = FALSE
  /\ tx_irq' = "wake"
  /\ UNCHANGED <<rtnl, tx_watchdog, backlog, xmit, skb, queue, fifo>>

\* Mutant: leaves the queue to the end of start_xmit.
TxIrqNoWake ==
  /\ tx_irq = "wake"
  /\ tx_irq' = "idle"
  /\ UNCHANGED <<rtnl, tx_watchdog, backlog, xmit, skb, tx_throttle, queue, fifo>>

TxIrqWake ==
  /\ tx_irq = "wake"
  /\ netif_wake_queue
  /\ tx_irq' = "idle"
  /\ UNCHANGED <<rtnl, tx_watchdog, backlog, xmit, skb, tx_throttle, fifo>>

\* Mutant: starts the queue instead of waking it.
ReceiveStarts ==
  /\ xoff
  /\ netif_start_queue
  /\ UNCHANGED <<rtnl, tx_watchdog, backlog, xmit, skb, tx_throttle, tx_irq, fifo>>

\* ra_net_napi_poll and ra_net_dma_rx_callback wake a stopped queue, at any
\* time and whatever it was stopped for.
ReceiveWakes ==
  /\ xoff
  /\ netif_wake_queue
  /\ UNCHANGED <<rtnl, tx_watchdog, backlog, xmit, skb, tx_throttle, tx_irq, fifo>>

-----------------------------------------------------------------------------
(* ra_net_tx_timeout: the queue was stopped for too long.                  *)

TxTimeoutBegin ==
  /\ TxUp /\ xoff /\ xmit = "idle" /\ tx_watchdog = "idle"
  /\ tx_watchdog' = "mask"
  /\ UNCHANGED <<rtnl, backlog, xmit, skb, tx_throttle, tx_irq, queue, fifo>>

\* The two effects that ra_net_reset has on transmission.
TxTimeoutMask ==
  /\ tx_watchdog = "mask"
  /\ tx_enabled' = FALSE
  /\ tx_watchdog' = "throttle"
  /\ UNCHANGED <<rtnl, backlog, xmit, skb, tx_throttle, tx_irq, queue, space>>

TxTimeoutThrottle ==
  /\ tx_watchdog = "throttle"
  /\ tx_throttle' = FALSE
  /\ tx_watchdog' = "wake"
  /\ UNCHANGED <<rtnl, backlog, xmit, skb, tx_irq, queue, fifo>>

\* The core then unfreezes the queues, which schedules the qdisc.
TxTimeoutWake ==
  /\ tx_watchdog = "wake"
  /\ xoff' = FALSE
  /\ sched' = TRUE
  /\ tx_watchdog' = "idle"
  /\ UNCHANGED <<rtnl, backlog, xmit, skb, tx_throttle, tx_irq, fifo>>

-----------------------------------------------------------------------------
(* Under the rtnl lock                                                     *)

\* ra_net_open resets before the core attaches the qdisc.
TxOpen ==
  /\ rtnl = "closed"
  /\ rtnl' = "up"
  /\ tx_enabled' = FALSE
  /\ tx_throttle' = FALSE
  /\ netif_start_queue
  /\ UNCHANGED <<tx_watchdog, backlog, xmit, skb, tx_irq, space>>

\* The core has taken the qdisc away and waited for transmit and watchdog.
TxStop ==
  /\ rtnl = "up" /\ xmit = "idle" /\ tx_watchdog = "idle"
  /\ rtnl' = "closed"
  /\ xoff' = TRUE /\ sched' = FALSE /\ backlog' = 0
  /\ tx_enabled' = FALSE
  /\ tx_throttle' = FALSE
  /\ UNCHANGED <<tx_watchdog, xmit, skb, tx_irq, space>>

\* ra_net_tx_ts_config, called for both halves of the hwtstamp ioctl.
ConfigStop ==
  /\ rtnl = "up"
  /\ netif_stop_queue
  /\ rtnl' = "config"
  /\ UNCHANGED <<tx_watchdog, backlog, xmit, skb, tx_throttle, tx_irq, fifo>>

ConfigStart ==
  /\ rtnl = "config"
  /\ netif_start_queue
  /\ rtnl' = "up"
  /\ UNCHANGED <<tx_watchdog, backlog, xmit, skb, tx_throttle, tx_irq, fifo>>

-----------------------------------------------------------------------------
TxInit ==
  /\ rtnl = "closed" /\ tx_watchdog = "idle"
  /\ xoff = TRUE /\ backlog = 0 /\ sched = FALSE
  /\ xmit = "idle" /\ skb = NoSkb
  /\ tx_throttle = FALSE /\ space = TxFifoSize
  /\ tx_enabled = FALSE /\ tx_irq = "idle"

Qdisc == QdiscRests \/ XmitBegin
Xmit == XmitThrottle \/ XmitStop \/ XmitIrq \/ XmitWrite \/ XmitEmpty \/ XmitEnd
TxIrq == TxIrqBegin \/ TxIrqDisable \/ TxIrqThrottle \/ TxIrqWake
TxTimeout == TxTimeoutMask \/ TxTimeoutThrottle \/ TxTimeoutWake
Rtnl == TxOpen \/ TxStop \/ ConfigStop \/ ConfigStart

TxNext ==
  \/ Enqueue \/ Qdisc \/ Xmit \/ Transmit \/ TxIrq \/ ReceiveWakes
  \/ TxTimeoutBegin \/ TxTimeout \/ Rtnl

\* What runs goes on, the FPGA sends, a pending interrupt is taken, and a
\* scheduled qdisc gets to run between two timeouts of the watchdog.  Nothing
\* makes packets arrive or the watchdog fire.
TxFairness ==
  /\ SF_txVars(Qdisc) /\ WF_txVars(Xmit) /\ WF_txVars(Transmit) /\ WF_txVars(TxIrq)
  /\ WF_txVars(TxTimeout) /\ WF_txVars(ConfigStart)

TxSpec == TxInit /\ [][TxNext]_txVars /\ TxFairness

-----------------------------------------------------------------------------
(* Properties                                                              *)

TxTypeOK ==
  /\ rtnl \in {"closed", "up", "config"}
  /\ tx_watchdog \in {"idle", "mask", "throttle", "wake"}
  /\ xmit \in {"idle", "throttle", "stop", "irq", "write", "empty", "sent", "busy"}
  /\ tx_irq \in {"idle", "disable", "throttle", "wake"}
  /\ skb \in [len : AlignedLen, free : 0 .. TxFifoSize] \cup {NoSkb}
  /\ backlog \in 0 .. MaxBacklog + 1
  /\ space \in 0 .. TxFifoSize
  /\ {xoff, sched, tx_throttle, tx_enabled} \subseteq BOOLEAN

\* The packet start_xmit is at fits in the space it saw, and nobody else takes
\* space away in the meantime.
SkbFits ==
  xmit \in {"throttle", "stop", "irq", "write"} =>
    /\ skb \in [len : AlignedLen, free : 0 .. TxFifoSize]
    /\ skb.free <= space

\* start_xmit runs on an open device and excludes the watchdog; the qdisc that
\* called it stays scheduled and has room to take the packet back.
XmitAlone ==
  /\ xmit # "idle" => TxUp /\ tx_watchdog = "idle" /\ sched /\ backlog <= MaxBacklog
  /\ tx_watchdog # "idle" => TxUp
  /\ rtnl = "closed" => backlog = 0

\* Who is going to undo what start_xmit did when it set tx_throttle, and who is
\* going to start the queue of an open device.
ThrottleIsWatched ==
  tx_throttle =>
    tx_enabled \/ tx_irq = "throttle" \/ xmit \in {"stop", "irq"} \/ tx_watchdog = "throttle"

StopIsWatched ==
  xoff /\ rtnl = "up" =>
    tx_throttle \/ tx_irq = "wake" \/ xmit \notin {"idle", "empty"} \/ tx_watchdog # "idle"

\* The inductive invariant.  It holds between any two steps of start_xmit, the
\* interrupt handler, the watchdog and the ioctl, so no order of them overruns
\* the FIFO of the FPGA or the qdisc, or leaves the throttle behind with the
\* interrupt masked.
TxIInv == TxTypeOK /\ SkbFits /\ XmitAlone /\ ThrottleIsWatched /\ StopIsWatched

\* Packets wait although the queue runs, and nothing will make the qdisc look.
Stranded == TxUp /\ backlog > 0 /\ ~xoff /\ ~sched /\ xmit = "idle"

\* No wake-up is lost between start_xmit, which throttles and stops the queue in
\* several steps, and the interrupt handler, which undoes it in several others:
\* a queue that stays stopped has the interrupt armed, or somebody on the way
\* to wake it.
StoppedIsWatched ==
  (TxUp /\ xoff) =>
    \/ tx_enabled
    \/ tx_irq # "idle"
    \/ xmit # "idle"
    \/ tx_watchdog # "idle"
    \/ rtnl = "config"

\* The only step that leaves packets behind in a running queue is the
\* netif_start_queue at the end of ra_net_tx_ts_config.  A later interrupt does
\* not help, since netif_wake_queue schedules only a queue that was stopped.
OnlyConfigStrands ==
  [][~Stranded /\ Stranded' => rtnl = "config" /\ rtnl' = "up"]_txVars

\* A queued packet is sent or dropped, unless the hwtstamp ioctl stranded it or
\* is called over and over: throttling, NETDEV_TX_BUSY and the reset of the
\* watchdog only delay it.
BacklogMoves ==
  <>[](rtnl # "config") =>
  ((TxUp /\ backlog > 0) ~> (backlog = 0 \/ xmit \in {"sent", "empty"} \/ Stranded))

=============================================================================
