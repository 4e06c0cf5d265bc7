------------------------------ MODULE PtpClock -------------------------------
(***************************************************************************)
(* The PTP hardware clock (modules/ptp/main.c): clock operations of several *)
(* callers, external timestamps, which come through a FIFO of words, and   *)
(* the pulse per second, which comes as an interrupt.                      *)
(*                                                                         *)
(* A call that holds priv->lock throughout is one step.  Where it lets go  *)
(* of the lock, or another actor may come between its register accesses,   *)
(* it is more.  Time is in nanoseconds; a second has NSEC_PER_SEC of them. *)
(* Integers are as wide as in the code, on a smaller scale: int is modulo  *)
(* U32, and the 64 bits of long and s64 are wide enough.                   *)
(***************************************************************************)
EXTENDS Integers, Sequences, FiniteSets, FiniteSetsExt

CONSTANTS
  Callers,                         \* processes in a clock operation
  NSEC_PER_SEC,
  U32,                             \* 2^32, scaled: unsigned int and int
  RA_PTP_ADJ_TIME_MAX_OFFSET,
  RA_EVENT_OUT_MAX_PERIOD,
  RA_PTP_DRIFT_CORRECTION_MAX_PPB,
  RA_PTP_DRIFT_CORRECTION_PPB_VALUE_MASK,
  Deltas, Times, Periods, Drifts,  \* arguments of the operations
  TimestampWords,                  \* words of ra_ptp_extts_fpga_timestamp
  RA_PTP_EXTTS_TIMESTAMP_WORDLEN,  \* words in which its start is looked for
  FifoWords,                       \* words that the FIFO holds
  MaxClock, MaxCalls, MaxEvents    \* bounds

ASSUME PtpClockAssumption ==
  /\ {NSEC_PER_SEC, U32, TimestampWords, RA_PTP_EXTTS_TIMESTAMP_WORDLEN,
      FifoWords} \subseteq Nat \ {0}
  /\ {MaxClock, MaxCalls, MaxEvents, RA_PTP_ADJ_TIME_MAX_OFFSET,
      RA_EVENT_OUT_MAX_PERIOD, RA_PTP_DRIFT_CORRECTION_MAX_PPB,
      RA_PTP_DRIFT_CORRECTION_PPB_VALUE_MASK} \subseteq Nat
  /\ Deltas \cup Drifts \subseteq Int /\ Times \cup Periods \subseteq Nat
  /\ 2 * RA_PTP_ADJ_TIME_MAX_OFFSET < U32 /\ 2 * NSEC_PER_SEC < U32
  /\ 2 * RA_EVENT_OUT_MAX_PERIOD < U32
  /\ RA_PTP_DRIFT_CORRECTION_MAX_PPB <= RA_PTP_DRIFT_CORRECTION_PPB_VALUE_MASK
  /\ Callers \cap {"none", "irq"} = {}

VARIABLES
  clock,       \* the time in the FPGA
  mask,        \* RA_PTP_IRQ_DISABLE
  mode,        \* RA_PTP_EXTTS_MODE_ENABLE_EXTTS
  pps,         \* RA_PTP_IRQ_PPS is requested
  out,         \* RA_PTP_EVENT_OUT_MODE and RA_PTP_EVENT_OUT_NS_INTERVAL
  drift,       \* RA_PTP_DRIFT_CORRECTION
  fifo,        \* words <<number of the event, position>>; position 1 has the start
  lock,        \* holder of priv->lock across steps, or "none"
  call,        \* the operation of each caller, and where it is
  irq,         \* where ra_ptp_irqhandler is
  last,        \* words of last_ptp_timestamp and last_rtp_timestamp
  wanted,      \* interrupts asked for
  asked,       \* the period granted last, the drift asked for last, in full
  pulse,       \* the last pulse was "raised", "reported" or, without event, "lost"
  count        \* operations and events so far, timestamps truncated and mixed up

settings == <<out, drift, asked>>
hw == <<mask, mode, pps, fifo, settings>>
vars == <<clock, hw, lock, call, irq, last, wanted, pulse, count>>

Free == lock = "none"

Idle == [op |-> "idle"]

Begin(c) == call[c].op = "idle" /\ count.calls < MaxCalls

Return(c) == call' = [call EXCEPT ![c] = Idle]

Count(what, n) == count' = [count EXCEPT ![what] = @ + n]

-----------------------------------------------------------------------------
(* The FPGA                                                                *)

\* Those who are between reading and setting the time.
Elapse(ns) ==
  call' = [c \in Callers |->
             IF call[c].op = "adjtime" THEN [call[c] EXCEPT !.ticks = @ + ns] ELSE call[c]]

Tick ==
  /\ clock \in 0 .. MaxClock - 1
  /\ clock' = clock + 1
  /\ Elapse(1)
  /\ IF clock' % NSEC_PER_SEC = 0 THEN pps' = TRUE /\ pulse' = "raised"
                                  ELSE UNCHANGED <<pps, pulse>>
  /\ UNCHANGED <<mask, mode, fifo, settings, lock, irq, last, wanted, count>>

\* An event at the input is written to the FIFO, as far as there is room.
Event ==
  /\ mode /\ count.events < MaxEvents
  /\ LET n == Min({TimestampWords, FifoWords - Len(fifo)})
     IN /\ fifo' = fifo \o [i \in 1 .. n |-> <<count.events + 1, i>>]
        /\ count' = [count EXCEPT !.events = @ + 1,
                                  !.truncated = @ + IF n \in {0, TimestampWords} THEN 0 ELSE 1]
  /\ UNCHANGED <<clock, mask, mode, pps, settings, lock, call, irq, last, wanted, pulse>>

IsStart(word) == word[2] = 1

\* RA_PTP_EXTTS_TS_CNT
TsCnt == Len(SelectSeq(fifo, IsStart))

\* RA_PTP_IRQS & ~RA_PTP_IRQ_DISABLE
Pending == {i \in {"EXTTS", "PPS"} \ mask : IF i = "PPS" THEN pps ELSE TsCnt > 0}

-----------------------------------------------------------------------------
(* Clock operations.  The ptp core does not serialize them.                *)

Abs(n) == IF n < 0 THEN -n ELSE n

\* Everybody else's reading of the clock is out of date.
Step(c, ns) ==
  /\ clock' = ns
  /\ call' = [d \in Callers |->
                IF d = c THEN Idle
                ELSE IF call[d].op = "adjtime" THEN [call[d] EXCEPT !.overtaken = TRUE]
                ELSE call[d]]

\* What the FPGA makes of SET_TIME_SECONDS and SET_TIME_NANOSECONDS.  Nothing
\* says whether it carries a full second over.
Written(sec, nsec) ==
  LET ns == nsec % U32
  IN {sec * NSEC_PER_SEC + ns, sec * NSEC_PER_SEC + (ns % NSEC_PER_SEC)}

ra_ptp_settime(c) ==
  /\ Begin(c) /\ Free
  /\ \E t \in Times : Step(c, t)
  /\ Count("calls", 1)
  /\ UNCHANGED <<hw, lock, irq, last, wanted, pulse>>

AdjtimeOffset(c) ==
  /\ Begin(c) /\ Free
  /\ \E delta \in Deltas \ {0} :
        /\ delta \in -RA_PTP_ADJ_TIME_MAX_OFFSET .. RA_PTP_ADJ_TIME_MAX_OFFSET
        /\ Step(c, clock + delta)
  /\ Count("calls", 1)
  /\ UNCHANGED <<hw, lock, irq, last, wanted, pulse>>

\* The offset is too large: ra_ptp_gettime reads the clock.  If it fails,
\* adjtime fails, and that is a step that changes nothing.
AdjtimeGet(c) ==
  /\ Begin(c) /\ Free
  /\ \E delta \in Deltas :
        /\ delta \notin -RA_PTP_ADJ_TIME_MAX_OFFSET .. RA_PTP_ADJ_TIME_MAX_OFFSET
        /\ call' = [call EXCEPT ![c] =
                      [op |-> "adjtime", delta |-> delta, read |-> clock,
                       ticks |-> 0, overtaken |-> FALSE]]
  /\ Count("calls", 1)
  /\ UNCHANGED <<clock, hw, lock, irq, last, wanted, pulse>>

\* A number as an int.
Int32(n) == LET u == n % U32 IN IF 2 * u >= U32 THEN u - U32 ELSE u

\* The seconds and nanoseconds that adjtime adds, with the sign of delta.  The
\* seconds go through an int.
Parts(delta) ==
  LET sign == IF delta < 0 THEN -1 ELSE 1
      res == Int32(Abs(delta) \div NSEC_PER_SEC)
  IN [sec |-> Int32(sign * res), nsec |-> sign * (Abs(delta) - res * NSEC_PER_SEC)]

\* Mutant: does not borrow a second.
NoBorrow(read, delta) ==
  [sec |-> (read \div NSEC_PER_SEC) + Parts(delta).sec,
   nsec |-> (read % NSEC_PER_SEC) + Parts(delta).nsec]

\* The time that adjtime sets.
Adjusted(read, delta) ==
  LET sec == (read \div NSEC_PER_SEC) + Parts(delta).sec
      nsec == (read % NSEC_PER_SEC) + Parts(delta).nsec
  IN IF nsec < 0 THEN [sec |-> sec - 1, nsec |-> nsec + NSEC_PER_SEC]
                 ELSE [sec |-> sec, nsec |-> nsec]

AdjtimeSet(c) ==
  /\ call[c].op = "adjtime" /\ Free
  /\ LET ts == Adjusted(call[c].read, call[c].delta)
     IN \E ns \in Written(ts.sec, ts.nsec) : Step(c, ns)
  /\ UNCHANGED <<hw, lock, irq, last, wanted, pulse, count>>

-----------------------------------------------------------------------------
(* ra_ptp_enable and ra_ptp_write_mask                                     *)

EnableRead(c) ==
  /\ Begin(c) /\ Free
  /\ lock' = c
  /\ \E bit \in {"EXTTS", "PPS"}, on \in BOOLEAN :
        call' = [call EXCEPT ![c] = [op |-> "mask", bit |-> bit, on |-> on, v |-> mask]]
  /\ Count("calls", 1)
  /\ UNCHANGED <<clock, hw, irq, last, wanted, pulse>>

EnableWrite(c) ==
  /\ call[c].op = "mask"
  /\ LET bit == call[c].bit
     IN /\ mask' = IF call[c].on THEN call[c].v \ {bit} ELSE call[c].v \cup {bit}
        /\ wanted' = IF call[c].on THEN wanted \cup {bit} ELSE wanted \ {bit}
        /\ IF bit = "EXTTS" THEN call' = [call EXCEPT ![c] = [op |-> "mode", on |-> @.on]]
                            ELSE Return(c)
  /\ lock' = "none"
  /\ UNCHANGED <<clock, mode, pps, fifo, settings, irq, last, pulse, count>>

EnableMode(c) ==
  /\ call[c].op = "mode" /\ Free
  /\ mode' = call[c].on
  /\ Return(c)
  /\ UNCHANGED <<clock, mask, pps, fifo, settings, lock, irq, last, wanted, pulse, count>>

-----------------------------------------------------------------------------
(* ra_ptp_set_per_out, called by ra_ptp_enable with an unsigned int that is *)
(* an int from then on, and ra_ptp_adjfine                                 *)

PerOutRefused(c) ==
  /\ Begin(c)
  /\ \E period \in Periods : Int32(period) > RA_EVENT_OUT_MAX_PERIOD
  /\ Count("calls", 1)
  /\ UNCHANGED <<clock, hw, lock, call, irq, last, wanted, pulse>>

\* Mutant: leaves the output running.
PerOutOn(c) ==
  /\ Begin(c) /\ Free
  /\ lock' = c
  /\ \E period \in Periods :
        /\ Int32(period) <= RA_EVENT_OUT_MAX_PERIOD
        /\ call' = [call EXCEPT ![c] = [op |-> "interval", period |-> period]]
  /\ Count("calls", 1)
  /\ UNCHANGED <<clock, hw, irq, last, wanted, pulse>>

\* "must be disabled to change event out time"
PerOutOff(c) ==
  /\ Begin(c) /\ Free
  /\ lock' = c
  /\ \E period \in Periods :
        /\ Int32(period) <= RA_EVENT_OUT_MAX_PERIOD
        /\ call' = [call EXCEPT ![c] = [op |-> "interval", period |-> period]]
  /\ out' = [out EXCEPT !.enabled = FALSE]
  /\ Count("calls", 1)
  /\ UNCHANGED <<clock, mask, mode, pps, fifo, drift, asked, irq, last, wanted, pulse>>

PerOutInterval(c) ==
  /\ call[c].op = "interval"
  /\ out' = [out EXCEPT !.interval = call[c].period % U32]
  /\ asked' = [asked EXCEPT !.period = call[c].period]
  /\ call' = [call EXCEPT ![c] = [op |-> "start", period |-> @.period]]
  /\ UNCHANGED <<clock, mask, mode, pps, fifo, drift, lock, irq, last, wanted, pulse, count>>

\* Nothing is enabled for an interval of 0, nor for a negative one.
PerOutStart(c) ==
  /\ call[c].op = "start"
  /\ IF Int32(call[c].period) > 0 THEN out' = [out EXCEPT !.enabled = TRUE] ELSE UNCHANGED out
  /\ lock' = "none"
  /\ Return(c)
  /\ UNCHANGED <<clock, mask, mode, pps, fifo, drift, asked, irq, last, wanted, pulse, count>>

\* RA_PTP_DRIFT_CORRECTION
Drift(ppb) ==
  [negative |-> ppb < 0,
   ppb |-> Min({Abs(ppb), RA_PTP_DRIFT_CORRECTION_MAX_PPB})
             % (RA_PTP_DRIFT_CORRECTION_PPB_VALUE_MASK + 1)]

\* A drift of 0 leaves the last one in force.
ra_ptp_adjfine(c) ==
  /\ Begin(c) /\ Free
  /\ \E ppb \in Drifts :
        IF ppb = 0 THEN UNCHANGED <<drift, asked>>
        ELSE drift' = Drift(ppb) /\ asked' = [asked EXCEPT !.ppb = ppb]
  /\ Count("calls", 1)
  /\ UNCHANGED <<clock, mask, mode, pps, fifo, out, lock, call, irq, last, wanted, pulse>>

-----------------------------------------------------------------------------
(* ra_ptp_irqhandler.  Its loop is the same as being called again.         *)

Goto(place) == irq' = [irq EXCEPT !.at = place]

IrqRead ==
  /\ irq.at = "idle" /\ Pending # {}
  /\ irq' = [at |-> IF "EXTTS" \in Pending THEN "count" ELSE "pps",
             pps |-> "PPS" \in Pending, ts_cnt |-> 0, step |-> 1]
  /\ UNCHANGED <<clock, hw, lock, call, last, wanted, pulse, count>>

\* ra_ptp_extts_irq.  The overflow of the FIFO is logged and acknowledged here;
\* that changes nothing else.
ExttsCount ==
  /\ irq.at = "count" /\ Free
  /\ lock' = "irq"
  /\ irq' = [irq EXCEPT !.at = "extts", !.ts_cnt = TsCnt]
  /\ UNCHANGED <<clock, hw, call, last, wanted, pulse, count>>

\* Where a timestamp starts in the FIFO, as far as it is searched.
Starts ==
  {i \in 1 .. Min({RA_PTP_EXTTS_TIMESTAMP_WORDLEN, Len(fifo)}) : IsStart(fifo[i])}

\* An empty FIFO reads as 0.
Word(i) == IF i <= Len(fifo) THEN fifo[i] ELSE <<0, 0>>

Genuine(words) == \E id \in 1 .. MaxEvents : \A i \in DOMAIN words : words[i] = <<id, i>>

\* The pair is taken from the words from i on.
TakeFrom(i) ==
  /\ last' = [k \in 1 .. TimestampWords |-> Word(i + k - 1)]
  /\ fifo' = SubSeq(fifo, i + TimestampWords, Len(fifo))
  /\ Count("mixed", IF Genuine(last') THEN 0 ELSE 1)

\* Mutant: trusts that the first word is the start.
ExttsNoSearch ==
  /\ irq.at = "extts" /\ irq.ts_cnt > 0
  /\ TakeFrom(1)
  /\ irq' = [irq EXCEPT !.ts_cnt = @ - 1]
  /\ UNCHANGED <<clock, mask, mode, pps, settings, lock, call, wanted, pulse>>

ExttsNext ==
  /\ irq.at = "extts" /\ irq.ts_cnt > 0
  /\ IF Starts = {}
     THEN /\ fifo' = SubSeq(fifo, RA_PTP_EXTTS_TIMESTAMP_WORDLEN + 1, Len(fifo))
          /\ UNCHANGED <<last, count>>
     ELSE TakeFrom(Min(Starts))
  /\ irq' = [irq EXCEPT !.ts_cnt = @ - 1]
  /\ UNCHANGED <<clock, mask, mode, pps, settings, lock, call, wanted, pulse>>

ExttsEnd ==
  /\ irq.at = "extts" /\ irq.ts_cnt = 0
  /\ lock' = "none"
  /\ Goto(IF irq.pps THEN "pps" ELSE "idle")
  /\ UNCHANGED <<clock, hw, call, last, wanted, pulse, count>>

\* Mutant: acknowledges the interrupt when it has been dealt with.
PpsAckLast == <<"get", "ack">>

\* The steps of ra_ptp_pps_irq.
PpsSteps == <<"ack", "get">>

AtPps(step) == irq.at = "pps" /\ PpsSteps[irq.step] = step

PpsGoOn ==
  irq' = IF irq.step = Len(PpsSteps) THEN [irq EXCEPT !.at = "idle"]
                                     ELSE [irq EXCEPT !.step = @ + 1]

PpsAck ==
  /\ AtPps("ack")
  /\ pps' = FALSE
  /\ PpsGoOn
  /\ UNCHANGED <<clock, mask, mode, fifo, settings, lock, call, last, wanted, pulse, count>>

\* ra_ptp_gettime succeeds, and the second is reported.
PpsReport ==
  /\ AtPps("get") /\ Free
  /\ pulse' = "reported"
  /\ PpsGoOn
  /\ UNCHANGED <<clock, hw, lock, call, last, wanted, count>>

\* ra_ptp_gettime times out, and the handler returns.
PpsFails ==
  /\ AtPps("get") /\ Free
  /\ pulse' = "lost"
  /\ PpsGoOn
  /\ UNCHANGED <<clock, hw, lock, call, last, wanted, count>>

-----------------------------------------------------------------------------
\* ra_ptp_probe leaves the mask as it finds it.  The device tree has no interval
\* for the periodic output.
Init ==
  /\ clock = 0 /\ mask \in SUBSET {"EXTTS", "PPS"} /\ mode = FALSE /\ pps = FALSE /\ fifo = <<>>
  /\ out = [enabled |-> FALSE, interval |-> 0] /\ drift = [negative |-> FALSE, ppb |-> 0]
  /\ asked = [period |-> 0, ppb |-> 0]
  /\ lock = "none" /\ call = [c \in Callers |-> Idle]
  /\ irq = [at |-> "idle", pps |-> FALSE, ts_cnt |-> 0, step |-> 1]
  /\ last = <<>> /\ wanted = {} /\ pulse = "reported"
  /\ count = [calls |-> 0, events |-> 0, truncated |-> 0, mixed |-> 0]

Fpga == Tick \/ Event

Operate(c) ==
  \/ ra_ptp_settime(c) \/ AdjtimeOffset(c) \/ AdjtimeGet(c) \/ EnableRead(c)
  \/ PerOutRefused(c) \/ PerOutOff(c) \/ ra_ptp_adjfine(c)

GoOn(c) ==
  AdjtimeSet(c) \/ EnableWrite(c) \/ EnableMode(c) \/ PerOutInterval(c) \/ PerOutStart(c)

Irq == IrqRead \/ ExttsCount \/ ExttsNext \/ ExttsEnd \/ PpsAck \/ PpsReport \/ PpsFails

Next == Fpga \/ Irq \/ \E c \in Callers : Operate(c) \/ GoOn(c)

\* A caller who has begun goes on, and a pending interrupt is served.
Fairness == WF_vars(Irq) /\ \A c \in Callers : WF_vars(GoOn(c))

Spec == Init /\ [][Next]_vars /\ Fairness

-----------------------------------------------------------------------------
(* Properties                                                              *)

\* A pair in rtp_timestamp is one event's: its words are those of one
\* timestamp.  Only a timestamp that the FIFO had no room for is mixed up with
\* the next, and it spoils no more than one pair: ra_ptp_extts_irq finds the
\* following start.
PairIsOneEvents == count.mixed <= count.truncated

\* An adjtime of less than 2^31 s beyond the offset register, with no other
\* operation between its gettime and its settime, moves the clock by delta, less
\* the time it has taken.  If the nanoseconds add up to a second or more,
\* ra_ptp_adjtime does not carry it over; should the FPGA not do so either, the
\* clock is a second short.
AdjtimeAddsDelta ==
  [][\A c \in Callers :
       LET a == call[c]
           expected == clock + a.delta - a.ticks
       IN a.op = "adjtime" /\ call'[c].op = "idle" /\ ~a.overtaken
            /\ 2 * (Abs(a.delta) \div NSEC_PER_SEC) < U32
          => \/ clock' = expected
             \/ /\ (a.read % NSEC_PER_SEC) + Parts(a.delta).nsec >= NSEC_PER_SEC
                /\ clock' = expected - NSEC_PER_SEC]_vars

\* A pulse that comes while another is being handled does not go unnoticed: it
\* is reported, or given up because the clock could not be read, unless PPS is
\* switched off.
PulseIsNoticed ==
  (pulse = "raised" /\ "PPS" \in wanted) ~> (pulse # "raised" \/ "PPS" \notin wanted)

\* The periodic output never runs with an interval out of its range, not even
\* between two register writes, and the one it runs with is the period granted
\* last, up to multiples of 2^32 ns.  A period within range is in force once the
\* call is over; one above it is refused, unless it has 2^31 ns or more.  The
\* drift is the possible one nearest to the last one asked for, other than 0.
SettingsInForce ==
  /\ out.enabled =>
       /\ out.interval \in 1 .. RA_EVENT_OUT_MAX_PERIOD
       /\ asked.period % U32 = out.interval
  /\ asked.period \in 1 .. RA_EVENT_OUT_MAX_PERIOD =>
       \/ out.enabled /\ out.interval = asked.period
       \/ \E c \in Callers : call[c].op \in {"interval", "start"}
  /\ asked.period > RA_EVENT_OUT_MAX_PERIOD => 2 * asked.period >= U32
  /\ LET limit == RA_PTP_DRIFT_CORRECTION_MAX_PPB
         value == IF drift.negative THEN -drift.ppb ELSE drift.ppb
     IN \A d \in -limit .. limit : Abs(value - asked.ppb) <= Abs(d - asked.ppb)

-----------------------------------------------------------------------------
(* What the proofs need in addition                                        *)

Adjtime == [op : {"adjtime"}, delta : Deltas, read : Int, ticks : Nat, overtaken : BOOLEAN]

\* An adjtime between its gettime and its settime knows what the clock has gained
\* since, unless another operation has set it.
OperationsKept ==
  /\ clock \in Int
  /\ DOMAIN call = Callers
  /\ \A c \in Callers :
       call[c].op = "adjtime" =>
         /\ call[c] \in Adjtime
         /\ ~call[c].overtaken => clock = call[c].read + call[c].ticks

\* Who is between two register writes has the lock.  Meanwhile the output is off.
LockKept ==
  /\ \A c \in Callers : call[c].op \in {"mask", "interval", "start"} => lock = c
  /\ DOMAIN irq = {"at", "pps", "ts_cnt", "step"}
  /\ irq.at = "extts" => lock = "irq"

OutputKept ==
  /\ out \in [enabled : BOOLEAN, interval : Nat]
  /\ asked \in [period : Nat, ppb : Int]
  /\ \A c \in Callers :
       call[c].op \in {"interval", "start"} =>
         /\ ~out.enabled
         /\ call[c].period \in Nat /\ Int32(call[c].period) <= RA_EVENT_OUT_MAX_PERIOD
         /\ call[c].op = "start" =>
              out.interval = call[c].period % U32 /\ asked.period = call[c].period

\* The timestamp that starts at place i is in the FIFO in full.
Complete(q, i) ==
  \A k \in 1 .. TimestampWords : i + k - 1 <= Len(q) /\ q[i + k - 1] = <<q[i][1], k>>

Broken(q) == {i \in 1 .. Len(q) : IsStart(q[i]) /\ ~Complete(q, i)}

\* Every timestamp that was truncated is still in the FIFO, or was mixed up with
\* the next, once, or was read together with another one.
FifoAccounted ==
  /\ fifo \in Seq((1 .. MaxEvents) \X Nat) /\ Len(fifo) <= FifoWords
  /\ count \in [calls : Nat, events : Nat, truncated : Nat, mixed : Nat]
  /\ count.mixed + Cardinality(Broken(fifo)) <= count.truncated

\* The inductive invariant.
PtpIInv ==
  OperationsKept /\ FifoAccounted /\ LockKept /\ OutputKept /\ SettingsInForce

=============================================================================
