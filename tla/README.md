# TLA+ models of the Ravenna FPGA drivers

Models, model checking runs and proofs for the kernel drivers in this
repository. `PROJECT.json` maps every definition to the lines it models and
lists runs, mutants, findings, hazards and theorems.

## The system

| Part | Code | State | Who acts on it | Model |
|---|---|---|---|---|
| RX streams | `stream-device/rx.c` | xarray of streams, `used_tracks`, track and stream table | clients (ioctl, close) under `rx->mutex` | `RxStreams`, `RxRegisters` |
| TX streams | `stream-device/tx.c` | the same without `used_tracks` | clients under `tx->mutex` | `TxStreams`, `TxRegisters` |
| Track table | `track-table.c` | FPGA memory and bitmap | RX and TX ioctls | `TrackTable`, `TableWrites` |
| Stream tables | `stream-table-{rx,tx}.c` | FPGA memory, read by the FPGA at any time | RX and TX ioctls | `RxRegisters`, `TxRegisters` |
| RTCP statistics | `rtcp.c` | flag, copy of the data, page select | clients, interrupt handler, FPGA | `Rtcp` |
| Device life cycle | `stream-device/main.c` | resources, open files | driver core, clients | `StreamDevice` |
| TX timestamps | `net/timestamp.c` | ring of packets, ring of timestamps | transmit path, interrupt, work item, reset, hwtstamp ioctl | `TxTimestamp` |
| Ethernet TX | `net/main.c` | transmit FIFO, `tx_throttle`, queue | network core, interrupt, receive path, watchdog, hwtstamp ioctl | `NetTx` |
| Ethernet RX, DMA | `net/main.c`, `net/dma.c` | receive FIFO, NAPI, transfers | interrupt, NAPI, DMA engine, open, stop, watchdog | `NetRx` |
| PTP clock | `ptp/main.c` | clock, event FIFO, interrupt mask | ptp core, interrupt | `PtpClock` |
| IRQ multiplexer | `irq/main.c` | mask register | chained handler, drivers | `IrqMux` |
| RTP offset syncer | `go/rtp-syncer` | last offset and difference | one goroutine, PTP driver, FPGA | `RtpSyncer` |
| debugfs, MDIO, phylink, ethtool, sysfs, codec sync, Go bindings, tools | | | | not modelled, see below |

What makes it hard: the FPGA works while its tables are changed one register at
a time; an update that fails must restore what it has already undone; clients
may die at any moment; answers of the FPGA may come late or never; devices are
unbound under open files; timestamps get lost and rings overflow; the Ethernet
driver passes its queue and its FIFOs between interrupt, poll, watchdog and
ioctl with flags and masked interrupts instead of locks.

## Modules

`StreamTypes` has error numbers, codecs and checks shared by both directions.
`TrackTable` has the track table as operators: the bitmap is a set of entries,
`ra_track_table_alloc` returns the singleton of the first fit or `{}`.

`RxStreams` and `TxStreams` have one action per outcome of an ioctl (the mutex
makes the call atomic with respect to other clients), `Open`, and release.
`trtb` and `sttb` are the contents of the FPGA tables after the call, `last` the
caller and the return value. Record fields that no property tells apart (offsets,
MAC addresses, TTL) are left out. `num_channels` and `ip_total_len` keep the
width of the table entry. Nothing in `tx.c` bounds `num_channels` but the length of
the packet: what the loop of `ra_track_table_set` reads behind `tracks[]` is any of
the values in `Stray` (`TracksRead`), and the entry has the number modulo `U8`.

`StreamService` is what a client may expect, without tables or tracks: every
file owns streams (`owner`), and each is carried by the FPGA (`carried`) exactly
as its owner has last asked for. A call succeeds as a whole or leaves everything as
it was; only an owner touches a stream; services that conflict (RX: that share a
track) are never carried together; closing a file drops what it owns. `RxStreams`
and `TxStreams` implement it (`Implements`): `FpgaService` reads the service off
the tables, following `trtp_base_addr` and the track table, so it is what the FPGA
does that is compared and not what the driver remembers.

`RxRegisters` and `TxRegisters` open up the calls: an ioctl computes its
effect and the sequence of 32 bit writes it makes (`TableWrites`), and `Write`
performs them one by one on the FPGA's copy of the tables. The mutex is held
until the last one. Closing a file frees its streams one after the other, in
ascending order of their indices as `xa_for_each` has it (`FreeNext`, from the
streams in `closing`), each with its own writes.

`Rtcp` has the ioctl step by step, with its mutex, flag and timeout in jiffies,
against the interrupt handler and the FPGA. An answer is two words, so a mix of
two answers can be seen. RX and TX have the same code on separate state; the
module is either.

`StreamDevice` has the order in which probe acquires resources, a failure at
any step, unwinding in reverse, and clients that open and use the device as soon
as the node exists. Streams are reduced to direction, owner and hash entry.

`TxTimestamp` has both rings with their indices, the interrupt in two steps
(deciding, then reading the FIFO), the work item, which drops the lock while it
delivers, the hwtstamp ioctl and the reset in its three steps.

`NetTx` has the transmit queue (stop bit and scheduled qdisc, from the kernel)
and one step for each access of `ra_net_hw_xmit_skb`, the interrupt handler,
`ra_net_tx_timeout` and `ra_net_tx_ts_config` that another may see. `NetRx` has
the receive half of the same handlers, for both modes: packets are counted, and
`fresh` and `transfers` say whether the status a reader goes by is still that of
the packet at the head of the FIFO. `napi_disable` waits until no poll is scheduled;
a poll that has called `napi_complete_done` is not, and may enable the interrupt
later (`outlived`). The two share no state but the queue, which
the receive path wakes at any time (`ReceiveWakes`).

`PtpClock` has a call as one step if it holds the lock throughout; large
`adjtime`, `enable` and the interrupt handler are several, and so is
`ra_ptp_set_per_out`, since the output runs on between its register writes. `int`
and `unsigned int` are modulo `U32`; `asked` has the period and the drift as the
caller gave them. The event FIFO is a sequence of words, of which an overflow keeps
a part. `IrqMux` has the read-modify-write of the mask register as two steps, under
the locks that the code and the irq core take. `RtpSyncer` keeps the conversions of
the Go code between `uint64`, `int64`, `uint32` and `big.Int`, modulo smaller powers
of two, beside the same value in unlimited integers.

`MCNet`, `MCPtp` and `MCDevice` each check two components that share no state in
one run: the one takes its steps while the other is in its initial state, so the
states are those of the two and not their product.

## Runs

| Run | Shows |
|---|---|
| `rx`, `tx` | bitmaps, stream list and FPGA tables agree after every call (`IInv`); clients see the service they were promised (`Implements`); between any two register writes other streams are undisturbed, entries become valid complete, RX never cross-routes and TX keeps sending; the packet length in a TX entry agrees with the rest of the entry as long as the channels fit it |
| `rtcp` | no lost answer, every call returns, answers match unless a call was abandoned, elapsed times are right for whole jiffies |
| `device` | clients find both halves set up, nothing but streams of open files is left to be destroyed; the mask register is what the kernel believes, a line with a handler is masked only while it is served, every line is served |
| `tx_timestamp` | packets are freed exactly once, get no timestamp but their own, are given up only without one, and do not stay for ever |
| `net` | RX: one reader at a time, packets intact, quiet when closed, the FIFO is emptied; TX: the FIFO does not overflow and the flags agree with where every handler is (`TxIInv`), no wake-up is lost, packets move on |
| `ptp` | event timestamps recover from an overflow, adjtime adds delta, the output runs only with the period granted, every pulse is noticed; the offset is within half a sample of the difference, up to the changes passed over, across all wraps |
| `tx_foreign`, `tx_drain`, `rtcp_elapsed`, `device_destroy`, `syncer_offset` | expected violations; each is a finding in `PROJECT.json` with the comment, assertion or document it contradicts |

The violations, in short. A TX update in place shows the FPGA the new base address
with the old number of channels (`NeverForeignArea`). The packet discarded for a
lost timestamp may be one whose timestamp is stored (`DrainsOnlyLost`). The elapsed
time of an RTCP call wraps to almost 2^32 if the timeout is 0 or not a whole number
of jiffies (`ReportsElapsed`; `ElapsedWithinTimeout` has the others).
`BUG_ON(!xa_empty(xa))` is reached when the device is unbound, or probe fails late,
while a client has streams (`DestroyFindsNone`; `DestroyFindsOnlyHeld` says that this
is the only way). The syncer compares with the last difference, not with the last it
has acted upon, so that changes of one subsample at a time never reach the threshold
and the error grows (`OffsetIsNearest`; `OffsetWithinCreep` bounds it by `crept`).

Observations made with the models and not kept as runs. Properties name the
exact condition where one is given.

- The `WARN_ON` in the rollback of an update (`rx.c:247`, `tx.c:220`), which
  "Can't really happen", is reached by a stream without channels when the table is
  full. `RollbackHasRoom` has the case that cannot happen.
- After a call for RTCP statistics has timed out or was interrupted, its late
  answer is taken for that of the next (`AnswerMatchesUnlessAbandoned`).
- A TX stream may have more channels than `tracks[]` or than the byte of the table
  entry. The loop then reads behind `tracks[]`, into entries of the track table that
  no channel of the stream uses, and the FPGA is told a packet length that its entry
  does not add up to (`PacketLengthMatches`). Other streams are not affected.
- "Set the VLD bit to 0 before touching other fields" (`stream-table-rx.c:139`)
  describes a write of the whole entry in ascending order, so when a stream is
  updated in place the zeroes reach the fields below `misc_control` while the
  entry is still valid. `NeverCrossRouted` holds all the same.
- A stream added between the registration of the node and the end of probe is
  lost from the hash table (`OnlyEarlyStreamsUnhashed`).
- If two packets in flight have the same sequence id and the first timestamp is
  lost, the first packet gets the second's. `StampIsOwn` is about ids that differ.
  When ids wrap, packets are given up whose timestamps still come
  (`GivesUpOnlyUnstamped`).
- `ra_net_tx_ts_config` ends with `netif_start_queue`, so packets that were queued
  meanwhile wait for the next one to be sent (`OnlyConfigStrands`).
- `ra_net_tx_timeout` masks the receive interrupt and the timestamp interrupt, and
  only a re-open or a hwtstamp ioctl enables them again (`timedout` in `FifoMoves`).
  It also empties the receive FIFO under a running poll (`DeliveredIntact`).
- In DMA mode `ra_net_stop` waits neither for the handler nor for a callback;
  either may start a transfer or enable the interrupt on a closed device (`late`).
  In FIFO mode the end of a poll may enable it after the reset (`outlived`); nobody
  reads the FIFO of a closed device all the same (`StoppedIsQuiet`).
- `adjtime` with a large offset loses what passes between its two holds of the
  lock, does not carry nanoseconds of a second or more, and cuts the seconds to an
  int (`AdjtimeAddsDelta`). A PEROUT period of 2^31 ns or more can wrap and be
  granted (`SettingsInForce`). `adjfine(0)` leaves the last drift in place.
- A pulse per second whose handler cannot read the clock is acknowledged and not
  reported (`"lost"` in `PulseIsNoticed`).
- A new syncer that finds a difference of 0 or 1 subsamples does not write it.

### Bounds

- Two clients, two slots of the stream table: every conflict of one stream with
  another, of the same or of another owner.
- Track tables of 4 entries and streams of 0 to 4 channels: full and fragmented
  tables, overlap of old and new area, rollback of a stream with channels to
  another place (3 entries are too few for that).
- Inputs are a handful of good streams and one for each kind of refusal. `tx` has
  `tracks[]` of 3 and a byte that wraps at 3, both 256 in the code, so streams of 3
  and 4 channels are past the one or both; behind `tracks[]` is a track number
  that does not exist or a negative one.
- `rtcp`: two threads, two pages, timeouts of 10, 5 and 0 ms in jiffies of 10 ms.
  TLC's integers have 32 bits, so the modulus `U32` is a smaller constant; only
  the wrap matters. Timeouts are below `U32 \div 2`: one that is negative as an int
  makes `msecs_to_jiffies` return `MAX_JIFFY_OFFSET`, which is not modelled.
- `device`: two files, two streams in each direction; three lines, two drivers.
  Deadlock is not checked there, since the kernel stops at `BUG_ON`.
- `tx_timestamp`: rings of 3 slots (2 usable), four packets, so both overflow;
  one of them has no sequence id and one an id that has wrapped; one reset.
- `net`: a transmit FIFO of 3 units with a threshold of 2, so a packet can be
  refused, throttle and fit, or fit; two packets queued. Two packets in the receive
  FIFO, budget 2, two transfers: a second reader shows as soon as there can be one.
- `ptp`: a second of 3 ns, deltas on both sides of every sign and carry and one
  whose seconds do not fit an int (2^32 is 16), periods that are granted, refused,
  negative and wrapped, three events in a FIFO of one timestamp and a half, two
  calls by two callers. Deadlock is not checked, since clock and calls are bounded.
  For the syncer 32 and 64 bits become 2 and 8; five events, differences of up to
  2.5 samples in either direction.

### Fairness

- `Rtcp`: a running thread makes steps, the clock ticks, and the kernel's mutex
  hands over to its waiters (strong fairness of `Lock`). Nothing is assumed of
  the FPGA or of signals.
- `TxTimestamp`: interrupts are served, queued work runs, the FPGA sends what it
  was given, and a reset gets past `cancel_work_sync`. `EverySkbLeaves` excuses
  lost timestamps.
- `NetTx`: what has begun goes on, the FPGA sends, a pending interrupt is taken,
  and a scheduled qdisc gets its turn between watchdog timeouts (strong fairness,
  since the transmit lock is handed over). Nothing makes packets come.
- `NetRx`: likewise, a transfer completes, and an allocation that is tried over
  and over succeeds some time (strong fairness of `PollStatus` and `DmaStart`).
- `PtpClock`: a caller that has begun goes on and the interrupt is served.
- `IrqMux`: the handler gets the locks it waits for in turn (the kernel's spin
  locks are fair), and drivers finish their calls.
- The other modules state safety only.

## Proofs

Each theorem holds for every value of the constants that satisfies the module's
`ASSUME`. Each component has an inductive invariant, stated in its own module
(`IInv`, or a name of its own where modules are proved together); that it holds
always is proved action by action, and the properties that the runs check follow
from it. TLC has checked every inductive invariant on the instance of the
component's run: `rx`, `tx` and `net` (`TxIInv`) list it, for the others the run's
invariants were replaced by it once.

| Module | About | Theorems that state a property of a run |
|---|---|---|
| `TrackTableProofs` | `TrackTable` | none; `AllocSound`, `AllocComplete` for the operators |
| `RxStreamsProofs` | `RxStreams` | `Invariance` (`IInv`), `RollbackHasRoomAlways`, `RxImplements` (`Implements`) |
| `RxRegistersProofs` | `RxRegisters` | `RegistersCatchUpAlways`, `OthersUndisturbedAlways`, `NeverCrossRoutedAlways`, `ActivationIsLastAlways` |
| `TxStreamsProofs` | `TxStreams` | `Invariance` (`IInv`), `PacketLengthAlways`, `TxImplements` (`Implements`) |
| `TxRegistersProofs` | `TxRegisters` | `RegistersCatchUpAlways`, `OthersUndisturbedAlways`, `ActivationIsLastAlways`, `KeepsSendingAlways` |
| `DeviceProofs` | `Rtcp`, `StreamDevice`, `IrqMux` | `AnswersMatch`, `AnswersKept` (`NoLostAnswer`), `ElapsedRight`; `ClientsFindTablesAlways`, `OnlyEarlyStreamsUnhashedAlways`, `DestroyFindsOnlyHeldAlways`; `MaskAlwaysAgrees` (`MaskAgrees`) |
| `NetProofs` | `NetTx`, `NetRx`, `TxTimestamp` | `TxInvariance` (`TxIInv`), `WatchedAlways` (`StoppedIsWatched`), `ConfigAloneStrands` (`OnlyConfigStrands`); `Intact` (`DeliveredIntact`), `OneReaderAlways`, `QuietWhenStopped` (`StoppedIsQuiet`); `Accounted` (`SkbsAccounted`), `OwnStamp` (`StampIsOwn`), `GivesUpRightly` (`GivesUpOnlyUnstamped`) |
| `PtpProofs` | `PtpClock`, `RtpSyncer` | `PairIsOneEventsAlways`, `SettingsAlways` (`SettingsInForce`), `AdjtimeAlways` (`AdjtimeAddsDelta`); `OffsetWithinCreepAlways` |

So every safety invariant and every action property of a run that passes is a
theorem. The larger modules begin with a `USE` of the provers to try: more attempts
than by default, since preparing a leaf can take long in a module of their size.

**RX and TX streams.** `IInv` is the conjunction of `TypeOK`, `EntriesAccounted`,
`TracksExclusive` (RX), `TrackTableRoutes`, `StreamTableCurrent` and
`OwnersAreOpen`; none is inductive alone, since an area or a track can only be
released safely if nobody else has it. The core is `ReplacePreserves`: add,
update in place, move and rollback all replace the contents of one slot, after
releasing what it held. `FreePreserves` covers delete and release. From `IInv`
follow step by step that calls change only the caller's streams and that failed
calls change none; `RollbackHasRoom` follows from completeness of the allocation,
and the packet length from the entry that `StreamTableCurrent` fixes
(`EntryLength`): a number of channels that is cut to a byte is smaller, and so is
the packet that the entry then describes (`FewerAreShorter`). What is read behind
`tracks[]` is a value the track table can hold (`ReadTypes`) in an entry that
`TrackTableRoutes` says nothing about; the service of a stream, which the entry
counts modulo 256, does not reach it.

**`StreamService`.** Under `IInv` the service that the FPGA carries in a slot is
the one its owner asked for (`FpgaCarries`), which turns the mapping into a
function of the list of streams; disjoint tracks make services that do not
conflict (`DisjointServices`). Then every successful call maps to `Open`, `Carry`,
`Delete` or `Close` (`PutCarries`, `FreeDrops`), and every failed one to `Refuse`,
also when the rollback has moved the stream to another area (`FailureImplements`).

**Registers.** `RegIInv` relates the tables in the FPGA to those that the driver
has in mind through the writes in `pending` that are still to be made. The last of
the writes to a register has the value it is to have, and a register that is not
to be written has it already (`TrackTableFollows`); what the words of the busy
entry are depends on how many writes are left (`WritesInOrder`,
`StreamTableFollows`); streams that release has yet to come to are as they were
(`ClosingUntouched`). No write goes to an area that another stream has, and for RX
none routes a channel to a track that the FPGA serves for another stream
(`WritesApart`, `TracksApart`); this is where the order matters, since
`NeverCrossRouted` needs the entry invalid while its base address and its number of
channels disagree. The proof has a step for every word of the entry, and one for
each way in which a call begins (add, update in place, moved or rolled back, delete,
release). The calls themselves keep `IInv`, by the theorems of the stream modules.

**RTCP.** `AnswersInOrder` says where the answer to the waiting call is as long as
no call was given up: collected by the FPGA, about to interrupt, read halfway, or
copied (`Fetching`). It is the mutex that keeps a second request away from it
(`CallsInOrder`). `ElapsedRight` rests on `ElapsedOnWakeup`, which is arithmetic:
the jiffies left are at most those of the timeout, rounded up.

**TX timestamps.** `SkbRing` ties the slots to the indices: the slots in use hold
different packets, the others none. `InOnePlace` then says of every packet that it
is freed, in the ring or with the work item. The lemmas `Pop`, `Push` and `Full`
have the arithmetic of the indices, for rings of any size, and `UsedSlots` the
step from the modulus to comparisons. `TsRing` orders the timestamps: those in the
ring by their place, those in the FIFO after them, those not yet taken last. The
head of the ring is therefore the oldest, and a packet whose id is smaller has
none to come. `OwnStamp` assumes `UniqueIds`, as the comment in `timestamp.c` does.

**Ethernet TX.** `ThrottleIsWatched` and `StopIsWatched` say, for each place of
`ra_net_hw_xmit_skb`, the handler and the calls under the rtnl lock, who will see
a throttled or stopped queue next; `SkbFits` carries the check of the free space
over to the write.

**Ethernet RX.** In DMA mode the enabled interrupt is a token (`OneToken`), in
FIFO mode only the poll reads (`ModesApart`). `StatusHolds` says that whoever is
about to read a packet has its status, and `StopsInOrder` what `ra_net_stop` has
done so far. Resets that wait for nobody are left out by `late` and `timedout`, and
a poll that `napi_disable` has not waited for by `outlived`.

**Stream device.** The resources held are always the first steps of `ra_sd_probe`
(`AcquiredInOrder`), so a property of the list of steps (`Places`: the node comes
after both halves) becomes one of every state. Streams have an open file and their
half has not been destroyed (`StreamsHeld`), which is what the destructors find.

**PTP clock.** `OperationsKept` says that an adjtime knows how far the clock has
come since it has read it, `LockKept` and `OutputKept` that whoever is between two
register writes of `ra_ptp_set_per_out` has the lock and the output is off. The rest
is arithmetic: `AdjustedRight` (adding delta with its sign and borrowing a second),
`PeriodGranted` and `DriftNearest`. For the
event FIFO, `FifoAccounted` counts the starts in it whose timestamp is not there in
full (`Broken`); a read that ends in mixed-up words takes one of them out
(`ReadBroken`), and only an event that finds too little room adds one
(`WriteBroken`).

**RTP syncer.** `lastSubSamples` is the difference seen last, up to wraps of the
counter, so `diffAbs` is the distance of two differences (`DiffIsDistance`). The
distance on the circle of RTP timestamps is reached at one of the points that are
the same and exceeded by none (`DistanceReached`, `DistanceLeast`), which makes it
change by no more than the difference does (`DistanceCreeps`).

**IRQ multiplexer.** `LocksHeld` says that whoever is between read and write of the
mask register has `priv->lock` and the descriptor, `WriteIsRight` that the value
to be written is the register with one bit changed.

Assumptions on constants: sizes are natural numbers (positive where the hardware's
are), inputs are well formed, the mute value is no track number, rings have two
slots or more, the largest drift fits its register, `tracks[]` is no shorter than
the byte of a TX entry can count, offsets, periods and nanoseconds fit an int. A sample has an even number of
subsamples (8 in the code): with an odd one, `toSamples32` would round up from below
the half. Times are far from 2^63 subsamples, as any 64 bit time in ns is (below
2^55): without that, two differences could be 2^63 apart, and the negation in
`diffAbs` would overflow. All are evaluated by TLC in the runs.

Only model-checked:

- liveness (`EveryCallReturns`, `EverySkbLeaves`, `BacklogMoves`, `FifoMoves`,
  `PulseIsNoticed`, `LineServed`), which is out of the prover's reach.

## Not modelled

- debugfs, ethtool, sysfs (but for `rtp_global_offset` and `rtp_timestamp`),
  phylink, VLAN and MAC filters: single reads and writes behind kernel callbacks.
- MDIO and the codec sync device: one actor on registers of its own.
- Go bindings, tools, example client: marshalling and straight-line code.
- `RA_SD_READ_INFO` copies constants. `-ENOTTY` changes nothing.
- The conversion of RX timestamps, and requesting the DMA channel at probe.
- The words that `ra_net_flush_rx_fifo` leaves in the FIFO: it reads fewer than a
  packet has, and what the FPGA shows then is not known from the source.
- Reference counts and memory. Reading the code for the models showed that an add
  that fails after `get_pid` does not put it (`rx.c:181`), and that the skb and
  context of a terminated DMA transfer are freed by nobody (`dma.c:71`).
- Removal of the IRQ driver: its devm action gets `priv` where it expects the
  domain (`irq/main.c:170`).
- Which second a PPS event names: a handler that runs late reads a later one.
- Kernel contexts (what may sleep).
- What a client does with an open file after its device is freed.

## Plan

1. Show `RxRegisters` and `TxRegisters` to implement `RxStreams` and `TxStreams`,
   and `StreamDevice` the life cycle that `StreamService` leaves out.
2. Compose `NetTx` and `NetRx` on one interrupt handler instead of letting the
   receive path wake the queue at any time.
