------------------------------ MODULE PtpProofs ------------------------------
(***************************************************************************)
(* Proofs about the PTP clock driver (PtpClock), for any number of callers *)
(* and any FIFO, and about the RTP offset syncer (RtpSyncer), for integers *)
(* of any width.                                                           *)
(*                                                                         *)
(* In PtpClock, an adjtime knows what the clock has gained since it read   *)
(* it (OperationsKept), and every timestamp that is read mixed up is paid  *)
(* for by one that did not fit the FIFO (FifoAccounted).  In RtpSyncer,    *)
(* the differences that Run compares modulo 2^64 are those of unlimited    *)
(* integers, up to the wraps of the sample counter (SyncIInv).             *)
(***************************************************************************)
EXTENDS PtpClock, RtpSyncer, SequenceTheorems, FiniteSetTheorems, TLAPS

\* The provers to try, in this order: a leaf gets more attempts than by default,
\* since one attempt can run out of time on a slow machine.
USE SMTT(10), ZenonT(20), Z3T(20), SMTT(30), Z3T(40), SMTT(60), ZenonT(40)

-----------------------------------------------------------------------------
(* PtpClock                                                                *)

\* Every nonempty set of naturals has a least element.
LEMMA LeastNatural ==
  ASSUME NEW T, T \subseteq Nat, T # {}
  PROVE  \E x \in T : \A y \in T : x <= y
<1> DEFINE R == OpToRel(<, Nat)
<1>1. IsWellFoundedOn(R, Nat)
  BY NatLessThanWellFounded
<1>2. \A x, y \in Nat : y < x => <<y, x>> \in R
  BY DEF OpToRel
<1> HIDE DEF R
<1>3. PICK x \in T : \A y \in T : <<y, x>> \notin R
  BY <1>1, WFMin
<1>4. ASSUME NEW y \in T
      PROVE  x <= y
  <2>1. x \in Nat /\ y \in Nat
    OBVIOUS
  <2>2. ~(y < x)
    BY <1>2, <1>3, <2>1
  <2> QED
    BY <2>1, <2>2
<1> QED
  BY <1>4

\* What the assumption says of each constant.
LEMMA PtpConstants ==
  /\ NSEC_PER_SEC \in Nat \ {0} /\ U32 \in Nat \ {0} /\ TimestampWords \in Nat \ {0}
  /\ RA_PTP_EXTTS_TIMESTAMP_WORDLEN \in Nat \ {0} /\ FifoWords \in Nat \ {0}
  /\ MaxEvents \in Nat /\ RA_EVENT_OUT_MAX_PERIOD \in Nat
  /\ RA_PTP_DRIFT_CORRECTION_MAX_PPB \in Nat
  /\ RA_PTP_DRIFT_CORRECTION_PPB_VALUE_MASK \in Nat
  /\ RA_PTP_DRIFT_CORRECTION_MAX_PPB <= RA_PTP_DRIFT_CORRECTION_PPB_VALUE_MASK
  /\ Deltas \subseteq Int /\ Drifts \subseteq Int /\ Periods \subseteq Nat /\ Times \subseteq Nat
  /\ 2 * NSEC_PER_SEC < U32 /\ 2 * RA_EVENT_OUT_MAX_PERIOD < U32
  /\ \A c \in Callers : c # "none" /\ c # "irq"
BY PtpClockAssumption

\* The smaller of two numbers.
LEMMA MinOfTwo ==
  ASSUME NEW a \in Int, NEW b \in Int
  PROVE  Min({a, b}) = IF a <= b THEN a ELSE b
<1> DEFINE P(x) == x \in {a, b} /\ \A y \in {a, b} : x <= y
           m == IF a <= b THEN a ELSE b
<1>1. P(m)
  OBVIOUS
<1>2. \A x : P(x) => x = m
  OBVIOUS
<1>3. P(CHOOSE x : P(x))
  BY <1>1
<1>4. Min({a, b}) = CHOOSE x : P(x)
  BY DEF Min
<1> QED
  BY <1>2, <1>3, <1>4

\* A remainder that is not needed.
LEMMA SmallMod ==
  ASSUME NEW a \in Nat, NEW m \in Nat \ {0}, a < m
  PROVE  a % m = a
OBVIOUS

\* A number below 2^31 fits an int, and so does its opposite.
LEMMA Int32Fits ==
  ASSUME NEW n \in Nat, 2 * n < U32
  PROVE  Int32(n) = n /\ Int32(-n) = -n
<1>1. U32 \in Nat \ {0} /\ n % U32 = n
  BY PtpConstants, SmallMod
<1>2. Int32(n) = n
  BY <1>1 DEF Int32
<1>3. CASE n = 0
  <2>1. -n \in Int /\ -n <= n /\ n <= -n
    BY <1>3
  <2>2. -n = n
    BY <2>1
  <2> QED
    BY <1>2, <2>2
<1>4. CASE n # 0
  <2>1. (-n) % U32 = U32 - n
    <3>1. -n = U32 * (-1) + (U32 - n) /\ U32 - n \in 0 .. U32 - 1
      BY <1>1, <1>4
    <3> QED
      BY <1>1, <3>1
  <2>2. 2 * (U32 - n) >= U32 /\ (U32 - n) - U32 = -n
    BY <1>1
  <2> QED
    BY <1>2, <2>1, <2>2 DEF Int32
<1> QED
  BY <1>3, <1>4

\* An int is a number.
LEMMA Int32Type ==
  ASSUME NEW n \in Int
  PROVE  Int32(n) \in Int
BY PtpConstants DEF Int32

\* A period that ra_ptp_set_per_out does not refuse: the interval in the register
\* is within range if the output is enabled, and the period itself if that is.
LEMMA PeriodGranted ==
  ASSUME NEW p \in Nat, Int32(p) <= RA_EVENT_OUT_MAX_PERIOD
  PROVE  /\ p % U32 \in Nat
         /\ Int32(p) > 0 => p % U32 \in 1 .. RA_EVENT_OUT_MAX_PERIOD
         /\ p \in 1 .. RA_EVENT_OUT_MAX_PERIOD => Int32(p) > 0 /\ p % U32 = p
         /\ p > RA_EVENT_OUT_MAX_PERIOD => 2 * p >= U32
<1> DEFINE u == p % U32
<1>1. /\ U32 \in Nat \ {0} /\ RA_EVENT_OUT_MAX_PERIOD \in Nat
      /\ 2 * RA_EVENT_OUT_MAX_PERIOD < U32
  BY PtpConstants
<1>2. u \in Nat /\ u < U32 /\ Int32(p) = IF 2 * u >= U32 THEN u - U32 ELSE u
  BY <1>1 DEF Int32
<1>3. 2 * p < U32 => Int32(p) = p /\ u = p
  BY <1>1, Int32Fits, SmallMod
<1> HIDE DEF u
<1>4. Int32(p) > 0 => u \in 1 .. RA_EVENT_OUT_MAX_PERIOD
  BY <1>1, <1>2
<1>5. p \in 1 .. RA_EVENT_OUT_MAX_PERIOD => Int32(p) > 0 /\ u = p
  BY <1>1, <1>3
<1>6. p > RA_EVENT_OUT_MAX_PERIOD => 2 * p >= U32
  BY <1>1, <1>3
<1> QED
  BY <1>2, <1>4, <1>5, <1>6 DEF u

\* RA_PTP_DRIFT_CORRECTION: no drift that can be written is nearer.
LEMMA DriftNearest ==
  ASSUME NEW ppb \in Drifts,
         NEW d \in -RA_PTP_DRIFT_CORRECTION_MAX_PPB .. RA_PTP_DRIFT_CORRECTION_MAX_PPB
  PROVE  LET value == IF Drift(ppb).negative THEN -Drift(ppb).ppb ELSE Drift(ppb).ppb
         IN Abs(value - ppb) <= Abs(d - ppb)
<1> DEFINE L == RA_PTP_DRIFT_CORRECTION_MAX_PPB
           v == IF Abs(ppb) <= L THEN Abs(ppb) ELSE L
<1>1. L \in Nat /\ ppb \in Int /\ Abs(ppb) \in Nat
  BY PtpConstants DEF Abs
<1>2. Min({Abs(ppb), L}) = v
  BY <1>1, MinOfTwo
<1>3. v \in Nat /\ v < RA_PTP_DRIFT_CORRECTION_PPB_VALUE_MASK + 1
  BY <1>1, PtpConstants
<1>4. v % (RA_PTP_DRIFT_CORRECTION_PPB_VALUE_MASK + 1) = v
  BY <1>3, SmallMod, PtpConstants
<1>5. Drift(ppb).negative = (ppb < 0) /\ Drift(ppb).ppb = v
  BY <1>2, <1>4 DEF Drift
<1>6. Abs((IF ppb < 0 THEN -v ELSE v) - ppb) <= Abs(d - ppb)
  BY <1>1 DEF Abs
<1> QED
  BY <1>5, <1>6

\* The whole seconds of a time that is not negative.
LEMMA PartsOfNat ==
  ASSUME NEW a \in Nat, NEW n \in Nat \ {0}
  PROVE  /\ a \div n \in Nat
         /\ a - (a \div n) * n \in 0 .. n - 1
         /\ a = (a \div n) * n + (a - (a \div n) * n)
<1>1. /\ a % n \in Int /\ 0 <= a % n /\ a % n < n
      /\ a \div n \in Int
      /\ a = n * (a \div n) + (a % n)
  OBVIOUS
<1> DEFINE q == a \div n
           r == a % n
<1>2. r \in 0 .. n - 1 /\ q \in Int /\ a = n * q + r
  BY <1>1
<1> HIDE DEF q, r
<1>3. ASSUME q < 0
      PROVE  FALSE
  <2>1. n * q <= n * (-1)
    BY <1>2, <1>3
  <2> QED
    BY <1>2, <2>1
<1>4. q \in Nat /\ a - q * n = r /\ q * n \in Int
  BY <1>2, <1>3
<1> QED
  BY <1>2, <1>4 DEF q

\* The time that adjtime sets, for a delta of less than 2^31 s: it is right, or a
\* second short where the nanoseconds come to one.
LEMMA AdjustedRight ==
  ASSUME NEW read \in Int, NEW delta \in Int, 2 * (Abs(delta) \div NSEC_PER_SEC) < U32,
         NEW ns \in Written(Adjusted(read, delta).sec, Adjusted(read, delta).nsec)
  PROVE  \/ ns = read + delta
         \/ /\ (read % NSEC_PER_SEC) + Parts(delta).nsec >= NSEC_PER_SEC
            /\ ns = read + delta - NSEC_PER_SEC
<1> DEFINE N == NSEC_PER_SEC
           q == read \div N
           r == read % N
           a == Abs(delta)
           res == a \div N
           m == a - res * N
           sign == IF delta < 0 THEN -1 ELSE 1
<1>1. N \in Nat \ {0} /\ a \in Nat /\ delta = sign * a /\ 2 * N < U32 /\ U32 \in Nat
  BY PtpConstants DEF Abs
<1>2. q \in Int /\ r \in 0 .. N - 1 /\ read = (q * N) + r
  BY <1>1
<1> HIDE DEF a
<1>3. res \in Nat /\ m \in 0 .. N - 1 /\ a = res * N + m
  BY <1>1, PartsOfNat
<1>4. Parts(delta) = [sec |-> sign * res, nsec |-> sign * m]
  <2>1. 2 * res < U32
    BY DEF a
  <2>2. Int32(res) = res /\ Int32(-res) = -res
    BY <1>3, <2>1, Int32Fits
  <2>3. Int32(sign * res) = sign * res
    <3>1. CASE delta < 0
      <4>1. sign * res = -res
        BY <1>3, <3>1
      <4> QED
        BY <2>2, <4>1
    <3>2. CASE ~(delta < 0)
      <4>1. sign * res = res
        BY <1>3, <3>2
      <4> QED
        BY <2>2, <4>1
    <3> QED
      BY <3>1, <3>2
  <2> QED
    BY <2>2, <2>3 DEF Parts, a
<1> HIDE DEF res, m, q, r
<1> DEFINE sec == q + sign * res
           nsec == r + sign * m
<1>5. sec \in Int /\ nsec \in Int /\ nsec < 2 * N /\ nsec > -N
  BY <1>1, <1>2, <1>3
<1>6. Adjusted(read, delta) = IF nsec < 0 THEN [sec |-> sec - 1, nsec |-> nsec + N]
                                          ELSE [sec |-> sec, nsec |-> nsec]
  BY <1>4 DEF Adjusted, q, r
<1>7. sec * N + nsec = read + delta
  <2>1. CASE delta < 0
    <3>1. sec = q - res /\ nsec = r - m /\ delta = -a
      BY <1>1, <1>2, <1>3, <2>1
    <3>2. (q - res) * N = q * N - res * N
      BY <1>1, <1>2, <1>3
    <3> QED
      BY <1>1, <1>2, <1>3, <3>1, <3>2
  <2>2. CASE ~(delta < 0)
    <3>1. sec = q + res /\ nsec = r + m /\ delta = a
      BY <1>1, <1>2, <1>3, <2>2
    <3>2. (q + res) * N = q * N + res * N
      BY <1>1, <1>2, <1>3
    <3> QED
      BY <1>1, <1>2, <1>3, <3>1, <3>2
  <2> QED
    BY <2>1, <2>2
<1> HIDE DEF sec, nsec
<1>8. ASSUME NEW s \in Int, NEW n \in 0 .. N - 1, ns \in Written(s, n)
      PROVE  ns = s * N + n
  <2>1. n % U32 = n /\ n % N = n
    BY <1>1, SmallMod
  <2> QED
    BY <1>8, <2>1 DEF Written
<1>9. CASE nsec < 0
  <2>1. ns \in Written(sec - 1, nsec + N)
    BY <1>6, <1>9
  <2>2. ns = (sec - 1) * N + (nsec + N)
    BY <1>1, <1>5, <1>8, <1>9, <2>1
  <2>3. (sec - 1) * N = sec * N - N
    BY <1>1, <1>5
  <2> QED
    BY <1>1, <1>5, <1>7, <2>2, <2>3
<1>10. CASE nsec >= 0 /\ nsec < N
  <2>1. ns \in Written(sec, nsec)
    BY <1>5, <1>6, <1>10
  <2> QED
    BY <1>1, <1>5, <1>7, <1>8, <1>10, <2>1
<1>11. CASE nsec >= N
  <2>1. ns \in Written(sec, nsec)
    BY <1>1, <1>5, <1>6, <1>11
  <2>2. nsec % U32 = nsec
    BY <1>1, <1>5, <1>11, SmallMod
  <2>3. nsec % N = nsec - N
    <3>1. nsec = N * 1 + (nsec - N) /\ nsec - N \in 0 .. N - 1
      BY <1>1, <1>5, <1>11
    <3> QED
      BY <1>1, <3>1
  <2>4. ns = sec * N + nsec \/ ns = sec * N + (nsec - N)
    BY <2>1, <2>2, <2>3 DEF Written
  <2>5. sec * N \in Int /\ (read % NSEC_PER_SEC) + Parts(delta).nsec = nsec
    BY <1>1, <1>4, <1>5 DEF nsec, r
  <2> QED
    BY <1>1, <1>5, <1>7, <1>11, <2>4, <2>5
<1> QED
  BY <1>1, <1>5, <1>9, <1>10, <1>11

\* Whatever is written is a time.
LEMMA WrittenType ==
  ASSUME NEW read \in Int, NEW delta \in Deltas,
         NEW ns \in Written(Adjusted(read, delta).sec, Adjusted(read, delta).nsec)
  PROVE  ns \in Int
<1>1. NSEC_PER_SEC \in Nat \ {0} /\ U32 \in Nat \ {0} /\ delta \in Int
  BY PtpConstants
<1>2. Parts(delta).sec \in Int /\ Parts(delta).nsec \in Int
  <2>1. Abs(delta) \in Nat /\ Abs(delta) \div NSEC_PER_SEC \in Int
    BY <1>1 DEF Abs
  <2>2. Int32(Abs(delta) \div NSEC_PER_SEC) \in Int
    BY <2>1, Int32Type
  <2> DEFINE res == Int32(Abs(delta) \div NSEC_PER_SEC)
             sign == IF delta < 0 THEN -1 ELSE 1
  <2>3. /\ Parts(delta).sec = Int32(sign * res)
        /\ Parts(delta).nsec = sign * (Abs(delta) - res * NSEC_PER_SEC)
    BY DEF Parts
  <2> HIDE DEF res
  <2>4. sign * res \in Int /\ sign * (Abs(delta) - res * NSEC_PER_SEC) \in Int
    BY <1>1, <2>1, <2>2 DEF res
  <2> QED
    BY <2>3, <2>4, Int32Type
<1>3. read \div NSEC_PER_SEC \in Int /\ read % NSEC_PER_SEC \in Int
  BY <1>1
<1>4. Adjusted(read, delta).sec \in Int /\ Adjusted(read, delta).nsec \in Int
  BY <1>1, <1>2, <1>3 DEF Adjusted
<1>5. ASSUME NEW s \in Int, NEW n \in Int
      PROVE  Written(s, n) \subseteq Int
  BY <1>1 DEF Written
<1> QED
  BY <1>4, <1>5

-----------------------------------------------------------------------------
(* The operations.                                                         *)

\* An operation that leaves the clock alone, and puts its own record in order.
LEMMA OperationPut ==
  ASSUME OperationsKept, NEW c \in Callers, NEW a, call' = [call EXCEPT ![c] = a],
         UNCHANGED clock,
         a.op = "adjtime" =>
           /\ a \in Adjtime
           /\ ~a.overtaken => clock = a.read + a.ticks
  PROVE  OperationsKept'
<1>1. DOMAIN call' = Callers /\ call'[c] = a /\ \A d \in Callers \ {c} : call'[d] = call[d]
  BY DEF OperationsKept
<1> QED
  BY <1>1 DEF OperationsKept

\* The clock is set: the others are overtaken.
LEMMA OperationSets ==
  ASSUME OperationsKept, NEW c \in Callers, NEW ns \in Int, Step(c, ns)
  PROVE  OperationsKept'
<1>1. DOMAIN call' = Callers /\ clock' \in Int
  BY DEF Step
<1>2. ASSUME NEW d \in Callers
      PROVE  call'[d].op = "adjtime" =>
               /\ call'[d] \in Adjtime
               /\ ~call'[d].overtaken => clock' = call'[d].read + call'[d].ticks
  <2>1. CASE d = c
    <3>1. call'[d] = Idle
      BY <2>1 DEF Step
    <3> QED
      BY <3>1 DEF Idle
  <2>2. CASE d # c /\ call[d].op = "adjtime"
    <3>1. call'[d] = [call[d] EXCEPT !.overtaken = TRUE] /\ call[d] \in Adjtime
      BY <2>2 DEF Step, OperationsKept
    <3>2. call'[d] \in Adjtime /\ call'[d].overtaken
      BY <3>1 DEF Adjtime
    <3>3. call'[d].op = "adjtime"
      BY <3>2 DEF Adjtime
    <3> QED
      BY <3>2, <3>3
  <2>3. CASE d # c /\ call[d].op # "adjtime"
    <3>1. call'[d] = call[d]
      BY <2>3 DEF Step
    <3> QED
      BY <2>3, <3>1 DEF OperationsKept
  <2> QED
    BY <2>1, <2>2, <2>3
<1> QED
  BY <1>1, <1>2 DEF OperationsKept

\* The clock runs: an adjtime under way counts it.
LEMMA OperationTicks ==
  ASSUME OperationsKept, Tick
  PROVE  OperationsKept'
<1>1. DOMAIN call' = Callers /\ clock' = clock + 1 /\ clock' \in Int
  BY DEF OperationsKept, Tick, Elapse
<1>2. ASSUME NEW d \in Callers
      PROVE  call'[d].op = "adjtime" =>
               /\ call'[d] \in Adjtime
               /\ ~call'[d].overtaken => clock' = call'[d].read + call'[d].ticks
  <2>1. CASE call[d].op = "adjtime"
    <3>1. call'[d] = [call[d] EXCEPT !.ticks = @ + 1] /\ call[d] \in Adjtime
      BY <2>1 DEF Tick, Elapse, OperationsKept
    <3>2. /\ call'[d] \in Adjtime /\ call'[d].op = "adjtime"
          /\ call'[d].ticks = call[d].ticks + 1 /\ call'[d].read = call[d].read
          /\ call'[d].overtaken = call[d].overtaken
          /\ call[d].ticks \in Nat /\ call[d].read \in Int
      BY <3>1 DEF Adjtime
    <3>3. ~call[d].overtaken => clock = call[d].read + call[d].ticks
      BY <2>1 DEF OperationsKept
    <3>4. ASSUME ~call'[d].overtaken
          PROVE  clock' = call'[d].read + call'[d].ticks
      BY <1>1, <3>2, <3>3, <3>4 DEF OperationsKept
    <3> QED
      BY <3>2, <3>4
  <2>2. CASE call[d].op # "adjtime"
    <3>1. call'[d] = call[d]
      BY <2>2 DEF Tick, Elapse
    <3> QED
      BY <2>2, <3>1 DEF OperationsKept
  <2> QED
    BY <2>1, <2>2
<1> QED
  BY <1>1, <1>2 DEF OperationsKept

\* Every step keeps the operations in order.
LEMMA OperationStep ==
  ASSUME OperationsKept, Next
  PROVE  OperationsKept'
<1>1. CASE Tick
  BY <1>1, OperationTicks
<1>2. CASE Event \/ Irq
  <2>1. UNCHANGED <<clock, call>>
    BY <1>2 DEF Event, Irq, IrqRead, ExttsCount, ExttsNext, ExttsEnd, PpsAck, PpsReport, PpsFails
  <2> QED
    BY <2>1 DEF OperationsKept
<1>3. ASSUME NEW c \in Callers, Operate(c)
      PROVE  OperationsKept'
  <2>1. CASE ra_ptp_settime(c)
    <3>1. PICK t \in Times : Step(c, t)
      BY <2>1 DEF ra_ptp_settime
    <3> QED
      BY <3>1, OperationSets, PtpConstants
  <2>2. CASE AdjtimeOffset(c)
    <3>1. PICK delta \in Deltas : Step(c, clock + delta)
      BY <2>2 DEF AdjtimeOffset
    <3>2. clock + delta \in Int
      BY PtpConstants DEF OperationsKept
    <3> QED
      BY <3>1, <3>2, OperationSets
  <2>3. CASE AdjtimeGet(c)
    <3>1. PICK delta \in Deltas :
            call' = [call EXCEPT ![c] = [op |-> "adjtime", delta |-> delta, read |-> clock,
                                         ticks |-> 0, overtaken |-> FALSE]]
      BY <2>3 DEF AdjtimeGet
    <3> DEFINE a == [op |-> "adjtime", delta |-> delta, read |-> clock,
                     ticks |-> 0, overtaken |-> FALSE]
    <3>2. /\ a \in Adjtime /\ a.op = "adjtime" /\ clock = a.read + a.ticks
      BY DEF Adjtime, OperationsKept
    <3>3. call' = [call EXCEPT ![c] = a] /\ UNCHANGED clock
      BY <2>3, <3>1 DEF AdjtimeGet
    <3> HIDE DEF a
    <3> QED
      BY <3>2, <3>3, OperationPut
  <2>4. CASE EnableRead(c)
    <3>1. PICK bit \in {"EXTTS", "PPS"}, on \in BOOLEAN :
            call' = [call EXCEPT ![c] = [op |-> "mask", bit |-> bit, on |-> on, v |-> mask]]
      BY <2>4 DEF EnableRead
    <3> DEFINE a == [op |-> "mask", bit |-> bit, on |-> on, v |-> mask]
    <3>2. call' = [call EXCEPT ![c] = a] /\ UNCHANGED clock /\ a.op = "mask"
      BY <2>4, <3>1 DEF EnableRead
    <3> HIDE DEF a
    <3> QED
      BY <3>2, OperationPut
  <2>5. CASE PerOutRefused(c) \/ ra_ptp_adjfine(c)
    <3>1. UNCHANGED <<clock, call>>
      BY <2>5 DEF PerOutRefused, ra_ptp_adjfine
    <3> QED
      BY <3>1 DEF OperationsKept
  <2>6. CASE PerOutOff(c)
    <3>1. PICK period \in Periods :
            call' = [call EXCEPT ![c] = [op |-> "interval", period |-> period]]
      BY <2>6 DEF PerOutOff
    <3> DEFINE a == [op |-> "interval", period |-> period]
    <3>2. call' = [call EXCEPT ![c] = a] /\ UNCHANGED clock /\ a.op = "interval"
      BY <2>6, <3>1 DEF PerOutOff
    <3> HIDE DEF a
    <3> QED
      BY <3>2, OperationPut
  <2> QED
    BY <1>3, <2>1, <2>2, <2>3, <2>4, <2>5, <2>6 DEF Operate
<1>4. ASSUME NEW c \in Callers, GoOn(c)
      PROVE  OperationsKept'
  <2>1. CASE AdjtimeSet(c)
    <3> DEFINE ts == Adjusted(call[c].read, call[c].delta)
    <3>1. PICK ns \in Written(ts.sec, ts.nsec) : Step(c, ns)
      BY <2>1 DEF AdjtimeSet
    <3>2. ns \in Int
      BY <2>1, WrittenType DEF AdjtimeSet, OperationsKept, Adjtime
    <3> QED
      BY <3>1, <3>2, OperationSets
  <2>2. CASE EnableWrite(c) \/ EnableMode(c) \/ PerOutInterval(c) \/ PerOutStart(c)
    <3>1. PICK a : /\ call' = [call EXCEPT ![c] = a] /\ UNCHANGED clock
                   /\ a.op \in {"idle", "mode", "start"}
      <4>1. CASE EnableWrite(c)
        <5>1. CASE call[c].bit = "EXTTS"
          <6> DEFINE a == [op |-> "mode", on |-> call[c].on]
          <6>1. call' = [call EXCEPT ![c] = a] /\ UNCHANGED clock /\ a.op = "mode"
            BY <4>1, <5>1 DEF EnableWrite, OperationsKept
          <6> QED
            BY <6>1
        <5>2. CASE call[c].bit # "EXTTS"
          <6>1. call' = [call EXCEPT ![c] = Idle] /\ UNCHANGED clock /\ Idle.op = "idle"
            BY <4>1, <5>2 DEF EnableWrite, Return, Idle
          <6> QED
            BY <6>1
        <5> QED
          BY <5>1, <5>2
      <4>2. CASE EnableMode(c) \/ PerOutStart(c)
        <5>1. call' = [call EXCEPT ![c] = Idle] /\ UNCHANGED clock /\ Idle.op = "idle"
          BY <4>2 DEF EnableMode, PerOutStart, Return, Idle
        <5> QED
          BY <5>1
      <4>3. CASE PerOutInterval(c)
        <5> DEFINE a == [op |-> "start", period |-> call[c].period]
        <5>1. call' = [call EXCEPT ![c] = a] /\ UNCHANGED clock /\ a.op = "start"
          BY <4>3 DEF PerOutInterval, OperationsKept
        <5> QED
          BY <5>1
      <4> QED
        BY <2>2, <4>1, <4>2, <4>3
    <3> QED
      BY <3>1, OperationPut
  <2> QED
    BY <1>4, <2>1, <2>2 DEF GoOn
<1> QED
  BY <1>1, <1>2, <1>3, <1>4 DEF Next, Fpga

-----------------------------------------------------------------------------
(* The FIFO of external timestamps.                                        *)

\* The places of the truncated timestamps can be counted.
LEMMA BrokenFinite ==
  ASSUME NEW S, NEW q \in Seq(S)
  PROVE  IsFiniteSet(Broken(q)) /\ Cardinality(Broken(q)) \in Nat
<1>1. Len(q) \in Nat /\ Broken(q) \subseteq 1 .. Len(q)
  BY DEF Broken
<1>2. IsFiniteSet(1 .. Len(q))
  BY <1>1, FS_Interval
<1> QED
  BY <1>1, <1>2, FS_Subset, FS_CardinalityType

\* What is left when m words were read: the truncated timestamps among them are
\* gone, the others are as they were.
LEMMA ReadWords ==
  ASSUME NEW S, NEW q \in Seq(S), NEW m \in Nat
  PROVE  LET r == SubSeq(q, m + 1, Len(q))
         IN /\ r \in Seq(S)
            /\ Cardinality(Broken(r)) <= Cardinality({i \in Broken(q) : i > m})
<1> DEFINE r == SubSeq(q, m + 1, Len(q))
           left == {i \in Broken(q) : i > m}
<1>1. Len(q) \in Nat /\ m + 1 \in Int /\ \A i \in m + 1 .. Len(q) : q[i] \in S
  OBVIOUS
<1>2. /\ r \in Seq(S)
      /\ Len(r) = IF m + 1 <= Len(q) THEN Len(q) - (m + 1) + 1 ELSE 0
      /\ \A i \in 1 .. Len(q) - (m + 1) + 1 : r[i] = q[m + 1 + i - 1]
  BY <1>1, SubSeqProperties
<1> HIDE DEF r
<1>3. /\ Len(r) \in Nat
      /\ \A i \in Nat \ {0} : i <= Len(r) <=> m + i <= Len(q)
      /\ \A i \in Nat \ {0} : i <= Len(r) => r[i] = q[m + i]
  <2>1. Len(r) \in Nat
    BY <1>1, <1>2
  <2>2. ASSUME NEW i \in Nat \ {0}
        PROVE  i <= Len(r) <=> m + i <= Len(q)
    BY <1>1, <1>2
  <2>3. ASSUME NEW i \in Nat \ {0}, i <= Len(r)
        PROVE  r[i] = q[m + i]
    <3>1. i \in 1 .. Len(q) - (m + 1) + 1 /\ m + 1 + i - 1 = m + i
      BY <1>1, <1>2, <2>3
    <3> QED
      BY <1>2, <3>1
  <2> QED
    BY <2>1, <2>2, <2>3
<1>4. ASSUME NEW i \in Broken(r)
      PROVE  m + i \in left
  <2>1. i \in Nat \ {0} /\ i <= Len(r) /\ IsStart(r[i]) /\ ~Complete(r, i)
    BY <1>3 DEF Broken
  <2>2. m + i \in 1 .. Len(q) /\ m + i > m /\ r[i] = q[m + i]
    BY <1>1, <1>3, <2>1
  <2>3. ASSUME Complete(q, m + i)
        PROVE  Complete(r, i)
    <3> SUFFICES ASSUME NEW k \in 1 .. TimestampWords
                 PROVE  i + k - 1 <= Len(r) /\ r[i + k - 1] = <<r[i][1], k>>
      BY DEF Complete
    <3>1. (m + i) + k - 1 <= Len(q) /\ q[(m + i) + k - 1] = <<q[m + i][1], k>>
      BY <2>3 DEF Complete
    <3>2. i + k - 1 \in Nat \ {0} /\ (m + i) + k - 1 = m + (i + k - 1)
      BY <2>1, PtpConstants
    <3> QED
      BY <1>3, <2>2, <3>1, <3>2
  <2> QED
    BY <2>1, <2>2, <2>3 DEF Broken
<1> DEFINE f == [i \in Broken(r) |-> m + i]
<1>5. f \in Injection(Broken(r), left)
  <2>1. f \in [Broken(r) -> left] /\ DOMAIN f = Broken(r)
    BY <1>4
  <2>2. \A i, j \in Broken(r) : f[i] = f[j] => i = j
    BY <1>3 DEF Broken
  <2> HIDE DEF f
  <2> QED
    BY <2>1, <2>2 DEF Injection, IsInjective
<1>6. IsFiniteSet(left)
  BY BrokenFinite, FS_Subset
<1>7. Cardinality(Broken(r)) <= Cardinality(left)
  BY <1>5, <1>6, FS_Injection
<1> QED
  BY <1>2, <1>7 DEF r

\* Reading never adds a truncated timestamp, and a read that takes in the place of
\* one takes one away.
LEMMA ReadBroken ==
  ASSUME NEW S, NEW q \in Seq(S), NEW m \in Nat
  PROVE  LET r == SubSeq(q, m + 1, Len(q))
         IN /\ r \in Seq(S)
            /\ Cardinality(Broken(r)) \in Nat
            /\ Cardinality(Broken(r)) <= Cardinality(Broken(q))
            /\ \A i \in Broken(q) :
                 i <= m => Cardinality(Broken(r)) <= Cardinality(Broken(q)) - 1
<1> DEFINE r == SubSeq(q, m + 1, Len(q))
           left == {i \in Broken(q) : i > m}
<1>1. r \in Seq(S) /\ Cardinality(Broken(r)) <= Cardinality(left)
  BY ReadWords
<1> HIDE DEF r
<1>2. Cardinality(Broken(r)) \in Nat
  BY <1>1, BrokenFinite
<1>3. IsFiniteSet(Broken(q)) /\ Cardinality(Broken(q)) \in Nat
  BY BrokenFinite
<1>4. IsFiniteSet(left) /\ Cardinality(left) <= Cardinality(Broken(q)) /\ Cardinality(left) \in Nat
  BY <1>3, FS_Subset, FS_CardinalityType
<1>5. ASSUME NEW i \in Broken(q), i <= m
      PROVE  Cardinality(left) <= Cardinality(Broken(q)) - 1
  <2>1. left \subseteq Broken(q) \ {i}
    BY <1>5 DEF Broken
  <2>2. IsFiniteSet(Broken(q) \ {i}) /\ Cardinality(Broken(q) \ {i}) = Cardinality(Broken(q)) - 1
    BY <1>3, FS_RemoveElement
  <2> QED
    BY <2>1, <2>2, FS_Subset
<1>6. ASSUME NEW i \in Broken(q), i <= m
      PROVE  Cardinality(Broken(r)) <= Cardinality(Broken(q)) - 1
  BY <1>1, <1>2, <1>3, <1>4, <1>5, <1>6
<1> QED
  BY <1>1, <1>2, <1>3, <1>4, <1>6 DEF r

\* An event is written: there is one truncated timestamp more if there was room
\* for some of its words only.
LEMMA WriteBroken ==
  ASSUME NEW q \in Seq((1 .. MaxEvents) \X Nat), NEW e \in 1 .. MaxEvents,
         NEW n \in 0 .. TimestampWords
  PROVE  LET w == q \o [i \in 1 .. n |-> <<e, i>>]
         IN /\ w \in Seq((1 .. MaxEvents) \X Nat)
            /\ Cardinality(Broken(w)) \in Nat
            /\ Cardinality(Broken(w)) <=
                 Cardinality(Broken(q)) + (IF n \in {0, TimestampWords} THEN 0 ELSE 1)
<1> DEFINE S == (1 .. MaxEvents) \X Nat
           v == [i \in 1 .. n |-> <<e, i>>]
           w == q \o v
           l == Len(q)
<1>1. l \in Nat /\ n \in Nat /\ n <= TimestampWords /\ TimestampWords \in Nat \ {0}
  BY PtpConstants
<1>2. v \in Seq(S) /\ Len(v) = n
  <2>1. \A i \in 1 .. n : <<e, i>> \in S
    OBVIOUS
  <2> QED
    BY <1>1, <2>1
<1>3. \A i \in 1 .. n : v[i] = <<e, i>>
  OBVIOUS
<1> HIDE DEF S, v
<1>4. /\ w \in Seq(S) /\ Len(w) = l + n
      /\ \A i \in 1 .. l : w[i] = q[i]
      /\ \A i \in 1 .. n : w[l + i] = v[i]
  <2>1. q \in Seq(S)
    BY DEF S
  <2>2. /\ w \in Seq(S) /\ Len(w) = Len(q) + Len(v)
        /\ \A i \in 1 .. Len(q) + Len(v) : w[i] = IF i <= Len(q) THEN q[i] ELSE v[i - Len(q)]
    BY <1>2, <2>1, ConcatProperties
  <2>3. \A i \in 1 .. l : i \in 1 .. l + n
    BY <1>1
  <2>4. \A i \in 1 .. n : l + i \in 1 .. l + n /\ ~(l + i <= l) /\ (l + i) - l = i
    BY <1>1
  <2> QED
    BY <1>1, <1>2, <2>2, <2>3, <2>4
<1> HIDE DEF w
<1>5. ASSUME NEW i \in Broken(w), i <= l
      PROVE  i \in Broken(q)
  <2>1. i \in 1 .. l /\ w[i] = q[i]
    BY <1>1, <1>4, <1>5 DEF Broken
  <2>2. ASSUME Complete(q, i)
        PROVE  Complete(w, i)
    <3> SUFFICES ASSUME NEW k \in 1 .. TimestampWords
                 PROVE  i + k - 1 <= Len(w) /\ w[i + k - 1] = <<w[i][1], k>>
      BY DEF Complete
    <3>1. i + k - 1 <= l /\ q[i + k - 1] = <<q[i][1], k>>
      BY <2>2 DEF Complete
    <3>2. i + k - 1 \in 1 .. l /\ i + k - 1 <= l + n
      BY <1>1, <2>1, <3>1
    <3> QED
      BY <1>4, <2>1, <3>1, <3>2
  <2> QED
    BY <2>1, <2>2 DEF Broken
<1>6. ASSUME NEW i \in Broken(w), i > l
      PROVE  i = l + 1 /\ n \notin {0, TimestampWords}
  <2>1. i \in 1 .. l + n /\ i - l \in 1 .. n /\ i = l + (i - l)
    BY <1>1, <1>4, <1>6 DEF Broken
  <2>2. w[i] = <<e, i - l>>
    BY <1>3, <1>4, <2>1
  <2>3. i = l + 1
    BY <1>1, <2>1, <2>2 DEF Broken, IsStart
  <2>4. ASSUME n = TimestampWords
        PROVE  Complete(w, i)
    <3> SUFFICES ASSUME NEW k \in 1 .. TimestampWords
                 PROVE  i + k - 1 <= Len(w) /\ w[i + k - 1] = <<w[i][1], k>>
      BY DEF Complete
    <3>1. k \in 1 .. n /\ i + k - 1 = l + k /\ l + k <= l + n
      BY <1>1, <2>3, <2>4
    <3>2. w[l + k] = <<e, k>>
      BY <1>3, <1>4, <3>1
    <3> QED
      BY <1>4, <2>2, <3>1, <3>2
  <2>5. n # TimestampWords
    BY <2>4 DEF Broken
  <2>6. n # 0
    BY <1>1, <2>1
  <2> QED
    BY <2>3, <2>5, <2>6
<1>7. IsFiniteSet(Broken(q)) /\ Cardinality(Broken(q)) \in Nat
  BY BrokenFinite
<1>8. Cardinality(Broken(w)) \in Nat
  BY <1>4, BrokenFinite
<1>9. \A i \in Broken(w) : i <= l \/ i > l
  BY <1>1, <1>4 DEF Broken
<1>10. CASE n \in {0, TimestampWords}
  <2>1. Broken(w) \subseteq Broken(q)
    BY <1>5, <1>6, <1>9, <1>10
  <2>2. Cardinality(Broken(w)) <= Cardinality(Broken(q))
    BY <1>7, <2>1, FS_Subset
  <2> QED
    BY <1>4, <1>7, <1>8, <1>10, <2>2 DEF w, v, S
<1>11. CASE n \notin {0, TimestampWords}
  <2>1. Broken(w) \subseteq Broken(q) \cup {l + 1}
    BY <1>5, <1>6, <1>9
  <2>2. /\ IsFiniteSet(Broken(q) \cup {l + 1})
        /\ Cardinality(Broken(q) \cup {l + 1}) <= Cardinality(Broken(q)) + 1
    <3>1. /\ IsFiniteSet(Broken(q) \cup {l + 1})
          /\ Cardinality(Broken(q) \cup {l + 1}) =
               IF l + 1 \in Broken(q) THEN Cardinality(Broken(q))
                                      ELSE Cardinality(Broken(q)) + 1
      BY <1>7, FS_AddElement
    <3> QED
      BY <1>7, <3>1
  <2>3. /\ Cardinality(Broken(w)) <= Cardinality(Broken(q) \cup {l + 1})
        /\ Cardinality(Broken(q) \cup {l + 1}) \in Nat
    BY <2>1, <2>2, FS_Subset, FS_CardinalityType
  <2>4. Cardinality(Broken(w)) <= Cardinality(Broken(q)) + 1
    BY <1>7, <1>8, <2>2, <2>3
  <2> QED
    BY <1>4, <1>7, <1>8, <1>11, <2>4 DEF w, v, S
<1> QED
  BY <1>10, <1>11

\* The event of the FPGA.
LEMMA EventFifo ==
  ASSUME FifoAccounted, Event
  PROVE  FifoAccounted'
<1> DEFINE n == Min({TimestampWords, FifoWords - Len(fifo)})
           e == count.events + 1
           more == IF n \in {0, TimestampWords} THEN 0 ELSE 1
           w == fifo \o [i \in 1 .. n |-> <<e, i>>]
<1>1. /\ fifo' = w
      /\ count' = [count EXCEPT !.events = @ + 1, !.truncated = @ + more]
      /\ count.events < MaxEvents
  BY DEF Event
<1>2. fifo \in Seq((1 .. MaxEvents) \X Nat) /\ e \in 1 .. MaxEvents
  BY <1>1, PtpConstants DEF FifoAccounted
<1>3. n \in 0 .. TimestampWords /\ n <= FifoWords - Len(fifo) /\ Len(fifo) \in Nat
  <2>1. /\ TimestampWords \in Nat /\ FifoWords \in Nat
        /\ Len(fifo) \in Nat /\ Len(fifo) <= FifoWords
    BY <1>2, PtpConstants DEF FifoAccounted
  <2>2. n = IF TimestampWords <= FifoWords - Len(fifo) THEN TimestampWords
                                                      ELSE FifoWords - Len(fifo)
    BY <2>1, MinOfTwo
  <2> QED
    BY <2>1, <2>2
<1>4. /\ w \in Seq((1 .. MaxEvents) \X Nat)
      /\ Cardinality(Broken(w)) \in Nat
      /\ Cardinality(Broken(w)) <= Cardinality(Broken(fifo)) + more
  BY <1>2, <1>3, WriteBroken
<1>5. Len(w) = Len(fifo) + n
  BY <1>2, <1>3
<1>6. more \in Nat
  OBVIOUS
<1> HIDE DEF n, more, w
<1>7. /\ count' \in [calls : Nat, events : Nat, truncated : Nat, mixed : Nat]
      /\ count'.mixed = count.mixed /\ count'.truncated = count.truncated + more
      /\ count.mixed \in Nat /\ count.truncated \in Nat
  <2> DEFINE Counts == [calls : Nat, events : Nat, truncated : Nat, mixed : Nat]
  <2>1. count \in Counts
    BY DEF FifoAccounted
  <2>2. /\ count.calls \in Nat /\ count.events + 1 \in Nat
        /\ count.truncated + more \in Nat /\ count.mixed \in Nat
        /\ count.truncated \in Nat
    BY <1>6, <2>1
  <2>3. count' = [calls |-> count.calls, events |-> count.events + 1,
                  truncated |-> count.truncated + more, mixed |-> count.mixed]
    BY <1>1, <2>1
  <2> QED
    BY <2>2, <2>3
<1>8. Cardinality(Broken(fifo)) \in Nat
  BY <1>2, BrokenFinite
<1>9. count.mixed + Cardinality(Broken(fifo)) <= count.truncated
  BY DEF FifoAccounted
<1>10. count'.mixed + Cardinality(Broken(w)) <= count'.truncated
  BY <1>4, <1>6, <1>7, <1>8, <1>9
<1>11. Len(w) <= FifoWords
  BY <1>3, <1>5, PtpConstants
<1> QED
  BY <1>1, <1>4, <1>7, <1>10, <1>11 DEF FifoAccounted

\* The first place where a timestamp starts, if there is one.
LEMMA FirstStart ==
  ASSUME FifoAccounted, Starts # {}
  PROVE  /\ Min(Starts) \in 1 .. Len(fifo)
         /\ IsStart(fifo[Min(Starts)])
<1>1. Starts \subseteq Nat
  BY DEF Starts
<1>2. PICK m \in Starts : \A y \in Starts : m <= y
  BY <1>1, LeastNatural
<1> DEFINE P(x) == x \in Starts /\ \A y \in Starts : x <= y
<1>3. P(CHOOSE x : P(x))
  BY <1>2
<1>4. Min(Starts) = CHOOSE x : P(x)
  BY DEF Min
<1>5. Min(Starts) \in Starts
  BY <1>3, <1>4
<1>6. \A i \in Starts : i \in 1 .. Len(fifo) /\ IsStart(fifo[i])
  <2>1. Len(fifo) \in Nat /\ RA_PTP_EXTTS_TIMESTAMP_WORDLEN \in Nat
    BY PtpConstants DEF FifoAccounted
  <2>2. Min({RA_PTP_EXTTS_TIMESTAMP_WORDLEN, Len(fifo)}) <= Len(fifo)
        /\ Min({RA_PTP_EXTTS_TIMESTAMP_WORDLEN, Len(fifo)}) \in Nat
    BY <2>1, MinOfTwo
  <2> QED
    BY <2>1, <2>2 DEF Starts
<1> QED
  BY <1>5, <1>6

\* A timestamp that is there in full is read as the pair of its event.
LEMMA CompleteIsGenuine ==
  ASSUME FifoAccounted, NEW i \in 1 .. Len(fifo), Complete(fifo, i)
  PROVE  Genuine([k \in 1 .. TimestampWords |-> Word(i + k - 1)])
<1> DEFINE words == [k \in 1 .. TimestampWords |-> Word(i + k - 1)]
           id == fifo[i][1]
<1>1. id \in 1 .. MaxEvents
  BY DEF FifoAccounted
<1>2. ASSUME NEW k \in 1 .. TimestampWords
      PROVE  words[k] = <<id, k>>
  BY DEF Complete, Word
<1> QED
  BY <1>1, <1>2 DEF Genuine

\* One timestamp is read, or the words in which none was found.
LEMMA ExttsFifo ==
  ASSUME FifoAccounted, ExttsNext
  PROVE  FifoAccounted'
<1>1. /\ fifo \in Seq((1 .. MaxEvents) \X Nat) /\ Len(fifo) \in Nat /\ Len(fifo) <= FifoWords
      /\ count \in [calls : Nat, events : Nat, truncated : Nat, mixed : Nat]
      /\ count.mixed + Cardinality(Broken(fifo)) <= count.truncated
      /\ Cardinality(Broken(fifo)) \in Nat
  BY BrokenFinite DEF FifoAccounted
<1>2. /\ count.mixed \in Nat /\ count.truncated \in Nat
  BY <1>1
<1>3. ASSUME NEW m \in Nat
      PROVE  Len(SubSeq(fifo, m + 1, Len(fifo))) <= FifoWords
  <2>1. Len(SubSeq(fifo, m + 1, Len(fifo))) =
          IF m + 1 <= Len(fifo) THEN Len(fifo) - (m + 1) + 1 ELSE 0
    BY <1>1
  <2> QED
    BY <1>1, <2>1, PtpConstants
<1>4. CASE Starts = {}
  <2> DEFINE m == RA_PTP_EXTTS_TIMESTAMP_WORDLEN
             r == SubSeq(fifo, m + 1, Len(fifo))
  <2>1. fifo' = r /\ UNCHANGED count
    BY <1>4 DEF ExttsNext
  <2>2. m \in Nat
    BY PtpConstants
  <2> HIDE DEF m
  <2>3. /\ r \in Seq((1 .. MaxEvents) \X Nat) /\ Cardinality(Broken(r)) \in Nat
        /\ Cardinality(Broken(r)) <= Cardinality(Broken(fifo))
    BY <1>1, <2>2, ReadBroken
  <2>4. Len(r) <= FifoWords
    BY <1>3, <2>2
  <2> HIDE DEF r
  <2>5. count.mixed + Cardinality(Broken(r)) <= count.truncated
    BY <1>1, <1>2, <2>3
  <2> QED
    BY <1>1, <2>1, <2>3, <2>4, <2>5 DEF FifoAccounted
<1>5. CASE Starts # {}
  <2> DEFINE i == Min(Starts)
             m == i + TimestampWords - 1
             r == SubSeq(fifo, m + 1, Len(fifo))
             words == [k \in 1 .. TimestampWords |-> Word(i + k - 1)]
             one == IF Genuine(words) THEN 0 ELSE 1
  <2>1. i \in 1 .. Len(fifo) /\ IsStart(fifo[i])
    BY <1>5, FirstStart
  <2>2. last' = words /\ fifo' = SubSeq(fifo, i + TimestampWords, Len(fifo))
        /\ count' = [count EXCEPT !["mixed"] = @ + IF Genuine(last') THEN 0 ELSE 1]
    BY <1>5 DEF ExttsNext, TakeFrom, Count
  <2>3. count' = [count EXCEPT !.mixed = @ + one]
    BY <2>2
  <2> HIDE DEF i, words
  <2>4. m \in Nat /\ m + 1 = i + TimestampWords /\ i <= m
    BY <1>1, <2>1, PtpConstants
  <2>5. fifo' = r
    BY <2>2, <2>4
  <2> HIDE DEF m
  <2>6. /\ r \in Seq((1 .. MaxEvents) \X Nat) /\ Cardinality(Broken(r)) \in Nat
        /\ Cardinality(Broken(r)) <= Cardinality(Broken(fifo))
        /\ i \in Broken(fifo) => Cardinality(Broken(r)) <= Cardinality(Broken(fifo)) - 1
    BY <1>1, <2>4, ReadBroken
  <2>7. Len(r) <= FifoWords
    BY <1>3, <2>4
  <2>8. ~Genuine(words) => i \in Broken(fifo)
    BY <2>1, CompleteIsGenuine DEF Broken, words
  <2>9. one \in Nat /\ Cardinality(Broken(r)) + one <= Cardinality(Broken(fifo))
    <3>1. CASE Genuine(words)
      BY <2>6, <3>1
    <3>2. CASE ~Genuine(words)
      BY <1>1, <2>6, <2>8, <3>2
    <3> QED
      BY <3>1, <3>2
  <2> HIDE DEF r, one
  <2>10. /\ count' \in [calls : Nat, events : Nat, truncated : Nat, mixed : Nat]
         /\ count'.mixed = count.mixed + one /\ count'.truncated = count.truncated
    <3>1. /\ count.calls \in Nat /\ count.events \in Nat /\ count.truncated \in Nat
          /\ count.mixed + one \in Nat
      BY <1>1, <2>9
    <3>2. count' = [calls |-> count.calls, events |-> count.events,
                    truncated |-> count.truncated, mixed |-> count.mixed + one]
      BY <1>1, <2>3
    <3> QED
      BY <3>1, <3>2
  <2>11. count'.mixed + Cardinality(Broken(r)) <= count'.truncated
    BY <1>1, <1>2, <2>6, <2>9, <2>10
  <2> QED
    BY <2>5, <2>6, <2>7, <2>10, <2>11 DEF FifoAccounted
<1> QED
  BY <1>4, <1>5

\* Every step keeps the FIFO accounted for.
LEMMA FifoStep ==
  ASSUME FifoAccounted, Next
  PROVE  FifoAccounted'
<1>1. CASE Event
  BY <1>1, EventFifo
<1>2. CASE ExttsNext
  BY <1>2, ExttsFifo
<1>3. ASSUME NEW c \in Callers, Operate(c)
      PROVE  FifoAccounted'
  <2>1. UNCHANGED fifo /\ count' = [count EXCEPT !["calls"] = @ + 1]
    BY <1>3 DEF Operate, ra_ptp_settime, AdjtimeOffset, AdjtimeGet, EnableRead,
                PerOutRefused, PerOutOff, ra_ptp_adjfine, Count, hw
  <2>2. count' = [count EXCEPT !.calls = @ + 1]
    BY <2>1
  <2>3. /\ count' \in [calls : Nat, events : Nat, truncated : Nat, mixed : Nat]
        /\ count'.mixed = count.mixed /\ count'.truncated = count.truncated
    BY <2>2 DEF FifoAccounted
  <2> QED
    BY <2>1, <2>3 DEF FifoAccounted
<1>4. CASE \/ Tick \/ IrqRead \/ ExttsCount \/ ExttsEnd \/ PpsAck \/ PpsReport \/ PpsFails
           \/ \E c \in Callers : GoOn(c)
  <2>1. UNCHANGED <<fifo, count>>
    BY <1>4 DEF Tick, IrqRead, ExttsCount, ExttsEnd, PpsAck, PpsReport, PpsFails, GoOn, AdjtimeSet,
                EnableWrite, EnableMode, PerOutInterval, PerOutStart, hw
  <2> QED
    BY <2>1 DEF FifoAccounted
<1> QED
  BY <1>1, <1>2, <1>3, <1>4 DEF Next, Fpga, Irq

-----------------------------------------------------------------------------
(* The lock and the settings.                                              *)

\* Who is between two register writes has just made the first of them, or was
\* there before the step.
LEMMA Holders ==
  ASSUME OperationsKept, Next, NEW d \in Callers, call'[d].op \in {"mask", "interval", "start"}
  PROVE  call'[d] = call[d] \/ EnableRead(d) \/ PerOutOff(d) \/ PerOutInterval(d)
<1>1. CASE Tick
  <2>1. CASE call[d].op = "adjtime"
    <3>1. call'[d] = [call[d] EXCEPT !.ticks = @ + 1] /\ call[d] \in Adjtime
      BY <1>1, <2>1 DEF Tick, Elapse, OperationsKept
    <3>2. call'[d].op = "adjtime"
      BY <3>1 DEF Adjtime
    <3> QED
      BY <3>2
  <2>2. CASE call[d].op # "adjtime"
    BY <1>1, <2>2 DEF Tick, Elapse
  <2> QED
    BY <2>1, <2>2
<1>2. CASE Event \/ Irq
  BY <1>2 DEF Event, Irq, IrqRead, ExttsCount, ExttsNext, ExttsEnd, PpsAck, PpsReport, PpsFails
<1>3. ASSUME NEW c \in Callers, NEW ns, Step(c, ns)
      PROVE  call'[d] = call[d]
  <2>1. CASE d = c
    BY <1>3, <2>1 DEF Step, Idle
  <2>2. CASE d # c /\ call[d].op = "adjtime"
    <3>1. call'[d] = [call[d] EXCEPT !.overtaken = TRUE] /\ call[d] \in Adjtime
      BY <1>3, <2>2 DEF Step, OperationsKept
    <3>2. call'[d].op = "adjtime"
      BY <3>1 DEF Adjtime
    <3> QED
      BY <3>2
  <2>3. CASE d # c /\ call[d].op # "adjtime"
    BY <1>3, <2>3 DEF Step
  <2> QED
    BY <2>1, <2>2, <2>3
<1>4. ASSUME NEW c \in Callers, NEW a, call' = [call EXCEPT ![c] = a]
      PROVE  call'[d] = call[d] \/ (c = d /\ call'[d] = a)
  BY <1>4 DEF OperationsKept
<1>5. ASSUME NEW c \in Callers, Operate(c)
      PROVE  call'[d] = call[d] \/ EnableRead(d) \/ PerOutOff(d)
  <2>1. CASE ra_ptp_settime(c) \/ AdjtimeOffset(c)
    BY <1>3, <2>1 DEF ra_ptp_settime, AdjtimeOffset
  <2>2. CASE AdjtimeGet(c)
    <3>1. PICK delta \in Deltas :
            call' = [call EXCEPT ![c] = [op |-> "adjtime", delta |-> delta, read |-> clock,
                                         ticks |-> 0, overtaken |-> FALSE]]
      BY <2>2 DEF AdjtimeGet
    <3> QED
      BY <1>4, <3>1
  <2>3. CASE EnableRead(c) \/ PerOutOff(c)
    BY <1>4, <2>3 DEF EnableRead, PerOutOff
  <2>4. CASE PerOutRefused(c) \/ ra_ptp_adjfine(c)
    BY <2>4 DEF PerOutRefused, ra_ptp_adjfine
  <2> QED
    BY <1>5, <2>1, <2>2, <2>3, <2>4 DEF Operate
<1>6. ASSUME NEW c \in Callers, GoOn(c)
      PROVE  call'[d] = call[d] \/ PerOutInterval(d)
  <2>1. CASE AdjtimeSet(c)
    BY <1>3, <2>1 DEF AdjtimeSet
  <2>2. CASE EnableWrite(c)
    <3>1. CASE call[c].bit = "EXTTS"
      <4>1. call' = [call EXCEPT ![c] = [op |-> "mode", on |-> call[c].on]]
        BY <2>2, <3>1 DEF EnableWrite, OperationsKept
      <4> QED
        BY <1>4, <4>1
    <3>2. CASE call[c].bit # "EXTTS"
      <4>1. call' = [call EXCEPT ![c] = Idle]
        BY <2>2, <3>2 DEF EnableWrite, Return
      <4> QED
        BY <1>4, <4>1 DEF Idle
    <3> QED
      BY <3>1, <3>2
  <2>3. CASE EnableMode(c) \/ PerOutStart(c)
    <3>1. call' = [call EXCEPT ![c] = Idle]
      BY <2>3 DEF EnableMode, PerOutStart, Return
    <3> QED
      BY <1>4, <3>1 DEF Idle
  <2>4. CASE PerOutInterval(c)
    BY <1>4, <2>4 DEF PerOutInterval
  <2> QED
    BY <1>6, <2>1, <2>2, <2>3, <2>4 DEF GoOn
<1> QED
  BY <1>1, <1>2, <1>5, <1>6 DEF Next, Fpga

\* Who has the lock, and only they, gives it up.
LEMMA LockStep ==
  ASSUME OperationsKept, LockKept, Next
  PROVE  LockKept'
<1>1. /\ \A c \in Callers : call[c].op \in {"mask", "interval", "start"} => lock = c
      /\ DOMAIN irq = {"at", "pps", "ts_cnt", "step"}
      /\ irq.at = "extts" => lock = "irq"
      /\ \A c \in Callers : c # "none" /\ c # "irq"
  BY PtpConstants DEF LockKept
<1>2. ASSUME NEW d \in Callers, call'[d].op \in {"mask", "interval", "start"}
      PROVE  lock' = d
  <2>1. CASE EnableRead(d) \/ PerOutOff(d)
    BY <2>1 DEF EnableRead, PerOutOff
  <2>2. CASE PerOutInterval(d)
    BY <1>1, <2>2 DEF PerOutInterval
  <2>3. CASE call'[d] = call[d]
    <3>1. lock = d /\ lock # "none" /\ lock # "irq"
      BY <1>1, <1>2, <2>3
    <3>2. CASE Fpga \/ Irq
      BY <1>1, <3>1, <3>2 DEF Fpga, Tick, Event, Irq, IrqRead, ExttsCount, ExttsNext, ExttsEnd,
                              PpsAck, PpsReport, PpsFails, Free
    <3>3. ASSUME NEW c \in Callers, Operate(c)
          PROVE  lock' = d
      BY <3>1, <3>3 DEF Operate, ra_ptp_settime, AdjtimeOffset, AdjtimeGet, EnableRead,
                        PerOutRefused, PerOutOff, ra_ptp_adjfine, Free
    <3>4. ASSUME NEW c \in Callers, GoOn(c)
          PROVE  lock' = d
      <4>1. CASE AdjtimeSet(c) \/ EnableMode(c) \/ PerOutInterval(c)
        BY <3>1, <4>1 DEF AdjtimeSet, EnableMode, PerOutInterval
      <4>2. CASE EnableWrite(c)
        <5>1. c = d /\ call[c].op = "mask"
          BY <1>1, <3>1, <4>2 DEF EnableWrite
        <5>2. CASE call[c].bit = "EXTTS"
          <6>1. call'[c] = [op |-> "mode", on |-> call[c].on]
            BY <4>2, <5>2 DEF EnableWrite, OperationsKept
          <6> QED
            BY <1>2, <5>1, <6>1
        <5>3. CASE call[c].bit # "EXTTS"
          <6>1. call'[c] = Idle
            BY <4>2, <5>3 DEF EnableWrite, Return, OperationsKept
          <6> QED
            BY <1>2, <5>1, <6>1 DEF Idle
        <5> QED
          BY <5>2, <5>3
      <4>3. CASE PerOutStart(c)
        <5>1. c = d /\ call'[c] = Idle
          BY <1>1, <3>1, <4>3 DEF PerOutStart, Return, OperationsKept
        <5> QED
          BY <1>2, <5>1 DEF Idle
      <4> QED
        BY <3>4, <4>1, <4>2, <4>3 DEF GoOn
    <3> QED
      BY <3>2, <3>3, <3>4 DEF Next
  <2> QED
    BY <1>2, <2>1, <2>2, <2>3, Holders
<1>3. DOMAIN irq' = {"at", "pps", "ts_cnt", "step"} /\ (irq'.at = "extts" => lock' = "irq")
  <2>1. CASE Irq
    <3>1. CASE IrqRead
      BY <3>1 DEF IrqRead
    <3>2. CASE ExttsCount
      BY <1>1, <3>2 DEF ExttsCount
    <3>3. CASE ExttsNext
      BY <1>1, <3>3 DEF ExttsNext
    <3>4. CASE ExttsEnd
      BY <1>1, <3>4 DEF ExttsEnd, Goto
    <3>5. CASE PpsAck \/ PpsReport \/ PpsFails
      <4>1. irq.at = "pps" /\ PpsGoOn
        BY <3>5 DEF PpsAck, PpsReport, PpsFails, AtPps
      <4>2. DOMAIN irq' = DOMAIN irq /\ irq'.at \in {"pps", "idle"}
        BY <1>1, <4>1 DEF PpsGoOn
      <4> QED
        BY <1>1, <4>2
    <3> QED
      BY <2>1, <3>1, <3>2, <3>3, <3>4, <3>5 DEF Irq
  <2>2. CASE Fpga
    BY <1>1, <2>2 DEF Fpga, Tick, Event
  <2>3. ASSUME NEW c \in Callers, Operate(c)
        PROVE  UNCHANGED irq /\ (irq.at = "extts" => lock' = "irq")
    BY <1>1, <2>3 DEF Operate, ra_ptp_settime, AdjtimeOffset, AdjtimeGet, EnableRead,
                      PerOutRefused, PerOutOff, ra_ptp_adjfine, Free
  <2>4. ASSUME NEW c \in Callers, GoOn(c)
        PROVE  UNCHANGED irq /\ (irq.at = "extts" => lock' = "irq")
    BY <1>1, <2>4 DEF GoOn, AdjtimeSet, EnableWrite, EnableMode, PerOutInterval, PerOutStart
  <2> QED
    BY <1>1, <2>1, <2>2, <2>3, <2>4 DEF Next
<1> QED
  BY <1>2, <1>3 DEF LockKept

\* Who is about to set the interval, or to start the output, does not do anything
\* else.
LEMMA HoldersStay ==
  ASSUME OperationsKept, Next, NEW d \in Callers, call[d].op \in {"interval", "start"}
  PROVE  call'[d] = call[d] \/ PerOutInterval(d) \/ PerOutStart(d)
<1>1. CASE Fpga \/ Irq
  BY <1>1 DEF Fpga, Tick, Elapse, Event, Irq, IrqRead, ExttsCount, ExttsNext, ExttsEnd, PpsAck,
              PpsReport, PpsFails
<1>2. ASSUME NEW c \in Callers, d # c, NEW a, call' = [call EXCEPT ![c] = a]
      PROVE  call'[d] = call[d]
  BY <1>2
<1>3. ASSUME NEW c \in Callers, Operate(c)
      PROVE  call'[d] = call[d]
  <2>1. d # c
    BY <1>3 DEF Operate, ra_ptp_settime, AdjtimeOffset, AdjtimeGet, EnableRead,
                PerOutRefused, PerOutOff, ra_ptp_adjfine, Begin
  <2>2. CASE ra_ptp_settime(c) \/ AdjtimeOffset(c)
    BY <2>1, <2>2 DEF ra_ptp_settime, AdjtimeOffset, Step
  <2>3. CASE AdjtimeGet(c) \/ EnableRead(c) \/ PerOutOff(c)
    BY <1>2, <2>1, <2>3 DEF AdjtimeGet, EnableRead, PerOutOff
  <2>4. CASE PerOutRefused(c) \/ ra_ptp_adjfine(c)
    BY <2>4 DEF PerOutRefused, ra_ptp_adjfine
  <2> QED
    BY <1>3, <2>2, <2>3, <2>4 DEF Operate
<1>4. ASSUME NEW c \in Callers, GoOn(c)
      PROVE  call'[d] = call[d] \/ PerOutInterval(d) \/ PerOutStart(d)
  <2>1. CASE AdjtimeSet(c)
    BY <2>1 DEF AdjtimeSet, Step
  <2>2. CASE EnableWrite(c) \/ EnableMode(c)
    <3>1. d # c
      BY <2>2 DEF EnableWrite, EnableMode
    <3> QED
      BY <1>2, <2>2, <3>1 DEF EnableWrite, EnableMode, Return
  <2>3. CASE PerOutInterval(c) \/ PerOutStart(c)
    BY <1>2, <2>3 DEF PerOutInterval, PerOutStart, Return
  <2> QED
    BY <1>4, <2>1, <2>2, <2>3 DEF GoOn
<1> QED
  BY <1>1, <1>3, <1>4 DEF Next

\* The only steps that touch the settings.
LEMMA SettingsTouched ==
  ASSUME Next
  PROVE  \/ UNCHANGED settings
         \/ \E c \in Callers :
              PerOutOff(c) \/ PerOutInterval(c) \/ PerOutStart(c) \/ ra_ptp_adjfine(c)
<1>1. CASE Fpga \/ Irq
  BY <1>1 DEF Fpga, Tick, Event, Irq, IrqRead, ExttsCount, ExttsNext, ExttsEnd, PpsAck,
              PpsReport, PpsFails, hw
<1>2. ASSUME NEW c \in Callers,
             \/ ra_ptp_settime(c) \/ AdjtimeOffset(c) \/ AdjtimeGet(c) \/ EnableRead(c)
             \/ PerOutRefused(c) \/ AdjtimeSet(c) \/ EnableWrite(c) \/ EnableMode(c)
      PROVE  UNCHANGED settings
  BY <1>2 DEF ra_ptp_settime, AdjtimeOffset, AdjtimeGet, EnableRead, PerOutRefused,
              AdjtimeSet, EnableWrite, EnableMode, hw
<1> QED
  BY <1>1, <1>2 DEF Next, Operate, GoOn

\* A caller of ra_ptp_set_per_out with the lock finds the settings as they have
\* left them.
LEMMA OutputStep ==
  ASSUME OperationsKept, LockKept, OutputKept, Next
  PROVE  OutputKept'
<1>1. /\ out \in [enabled : BOOLEAN, interval : Nat]
      /\ asked \in [period : Nat, ppb : Int]
      /\ DOMAIN call = Callers
      /\ \A c \in Callers : c # "none"
      /\ \A c \in Callers : call[c].op \in {"interval", "start"} => lock = c
      /\ \A c \in Callers :
           call[c].op \in {"interval", "start"} =>
             /\ ~out.enabled
             /\ call[c].period \in Nat /\ Int32(call[c].period) <= RA_EVENT_OUT_MAX_PERIOD
             /\ call[c].op = "start" =>
                  out.interval = call[c].period % U32 /\ asked.period = call[c].period
  BY PtpConstants DEF OperationsKept, LockKept, OutputKept
<1>2. ASSUME NEW c \in Callers, PerOutOff(c)
      PROVE  out' = [enabled |-> FALSE, interval |-> out.interval] /\ UNCHANGED asked
  BY <1>1, <1>2 DEF PerOutOff
<1>3. ASSUME NEW c \in Callers, PerOutInterval(c)
      PROVE  /\ out' = [enabled |-> FALSE, interval |-> call[c].period % U32]
             /\ asked' = [period |-> call[c].period, ppb |-> asked.ppb]
             /\ call[c].period \in Nat /\ call[c].period % U32 \in Nat
             /\ call'[c] = [op |-> "start", period |-> call[c].period]
  <2>1. call[c].op = "interval" /\ ~out.enabled /\ out.enabled \in BOOLEAN
    BY <1>1, <1>3 DEF PerOutInterval
  <2>2. out.enabled = FALSE
    BY <2>1
  <2>3. out' = [enabled |-> out.enabled, interval |-> call[c].period % U32]
    BY <1>1, <1>3 DEF PerOutInterval
  <2>4. asked' = [period |-> call[c].period, ppb |-> asked.ppb]
    BY <1>1, <1>3 DEF PerOutInterval
  <2>5. call'[c] = [op |-> "start", period |-> call[c].period]
    BY <1>1, <1>3 DEF PerOutInterval
  <2>6. call[c].period \in Nat /\ call[c].period % U32 \in Nat
    BY <1>1, <2>1, PeriodGranted
  <2> QED
    BY <2>2, <2>3, <2>4, <2>5, <2>6
<1>4. ASSUME NEW c \in Callers, PerOutStart(c)
      PROVE  out' \in [enabled : BOOLEAN, interval : Nat] /\ UNCHANGED asked
  BY <1>1, <1>4 DEF PerOutStart
<1>5. ASSUME NEW c \in Callers, ra_ptp_adjfine(c)
      PROVE  /\ UNCHANGED out /\ asked' \in [period : Nat, ppb : Int]
             /\ asked'.period = asked.period
  BY <1>1, <1>5, PtpConstants DEF ra_ptp_adjfine
<1>6. out' \in [enabled : BOOLEAN, interval : Nat] /\ asked' \in [period : Nat, ppb : Int]
  <2>1. out.interval \in Nat /\ asked.ppb \in Int
    BY <1>1
  <2>2. ASSUME NEW c \in Callers, PerOutOff(c) \/ PerOutInterval(c)
        PROVE  out' \in [enabled : BOOLEAN, interval : Nat] /\ asked' \in [period : Nat, ppb : Int]
    <3>1. CASE PerOutOff(c)
      <4>1. out' = [enabled |-> FALSE, interval |-> out.interval] /\ UNCHANGED asked
        BY <1>2, <3>1
      <4> QED
        BY <1>1, <2>1, <4>1
    <3>2. CASE PerOutInterval(c)
      <4>1. /\ out' = [enabled |-> FALSE, interval |-> call[c].period % U32]
            /\ asked' = [period |-> call[c].period, ppb |-> asked.ppb]
            /\ call[c].period \in Nat /\ call[c].period % U32 \in Nat
        BY <1>3, <3>2
      <4> QED
        BY <2>1, <4>1
    <3> QED
      BY <2>2, <3>1, <3>2
  <2> QED
    BY <1>1, <1>4, <1>5, <2>2, SettingsTouched DEF settings
<1>7. ASSUME NEW d \in Callers, call'[d].op \in {"interval", "start"}
      PROVE  /\ ~out'.enabled
             /\ call'[d].period \in Nat /\ Int32(call'[d].period) <= RA_EVENT_OUT_MAX_PERIOD
             /\ call'[d].op = "start" =>
                  out'.interval = call'[d].period % U32 /\ asked'.period = call'[d].period
  <2>1. CASE EnableRead(d)
    <3>1. call'[d].op = "mask"
      BY <1>1, <2>1 DEF EnableRead
    <3> QED
      BY <1>7, <3>1
  <2>2. CASE PerOutOff(d)
    <3>1. PICK period \in Periods :
            /\ Int32(period) <= RA_EVENT_OUT_MAX_PERIOD
            /\ call' = [call EXCEPT ![d] = [op |-> "interval", period |-> period]]
      BY <2>2 DEF PerOutOff
    <3>2. call'[d] = [op |-> "interval", period |-> period] /\ period \in Nat
      BY <1>1, <3>1, PtpConstants
    <3>3. ~out'.enabled
      BY <1>2, <2>2
    <3> QED
      BY <3>1, <3>2, <3>3
  <2>3. CASE PerOutInterval(d)
    <3>1. Int32(call[d].period) <= RA_EVENT_OUT_MAX_PERIOD
      BY <1>1, <2>3 DEF PerOutInterval
    <3>2. /\ out' = [enabled |-> FALSE, interval |-> call[d].period % U32]
          /\ asked' = [period |-> call[d].period, ppb |-> asked.ppb]
          /\ call[d].period \in Nat
          /\ call'[d] = [op |-> "start", period |-> call[d].period]
      BY <1>3, <2>3
    <3> QED
      BY <3>1, <3>2
  <2>4. CASE call'[d] = call[d]
    <3>1. lock = d /\ call[d].op \in {"interval", "start"}
      BY <1>1, <1>7, <2>4
    <3>2. ASSUME NEW c \in Callers, PerOutOff(c) \/ PerOutInterval(c) \/ PerOutStart(c)
          PROVE  FALSE
      <4>1. CASE PerOutOff(c)
        BY <1>1, <3>1, <4>1 DEF PerOutOff, Free
      <4>2. CASE PerOutInterval(c)
        <5>1. call[c].op = "interval" /\ c = d
          BY <1>1, <3>1, <4>2 DEF PerOutInterval
        <5>2. call'[c] = [op |-> "start", period |-> call[c].period]
          BY <1>3, <4>2
        <5> QED
          BY <2>4, <5>1, <5>2
      <4>3. CASE PerOutStart(c)
        <5>1. c = d /\ call'[c].op = "idle"
          BY <1>1, <3>1, <4>3 DEF PerOutStart, Return, Idle
        <5> QED
          BY <1>7, <5>1
      <4> QED
        BY <3>2, <4>1, <4>2, <4>3
    <3>3. UNCHANGED out /\ asked'.period = asked.period
      BY <1>5, <3>2, SettingsTouched DEF settings
    <3> QED
      BY <1>1, <2>4, <3>1, <3>3
  <2> QED
    BY <1>7, <2>1, <2>2, <2>3, <2>4, Holders
<1> QED
  BY <1>6, <1>7 DEF OutputKept

\* Every step keeps the settings in force.
LEMMA SettingsStep ==
  ASSUME OperationsKept, LockKept, OutputKept, SettingsInForce, Next
  PROVE  SettingsInForce'
<1> DEFINE top == RA_EVENT_OUT_MAX_PERIOD
           limit == RA_PTP_DRIFT_CORRECTION_MAX_PPB
           Within == out.enabled =>
                       out.interval \in 1 .. top /\ asked.period % U32 = out.interval
           Setting == \E c \in Callers : call[c].op \in {"interval", "start"}
           Granted == asked.period \in 1 .. top =>
                        (out.enabled /\ out.interval = asked.period) \/ Setting
           Refused == asked.period > top => 2 * asked.period >= U32
           Value == IF drift.negative THEN -drift.ppb ELSE drift.ppb
           Nearest == \A d \in -limit .. limit : Abs(Value - asked.ppb) <= Abs(d - asked.ppb)
<1>1. Within /\ Granted /\ Refused /\ Nearest
  BY DEF SettingsInForce
<1>2. /\ out \in [enabled : BOOLEAN, interval : Nat]
      /\ asked \in [period : Nat, ppb : Int]
      /\ DOMAIN call = Callers
      /\ \A c \in Callers :
           call[c].op \in {"interval", "start"} =>
             /\ ~out.enabled
             /\ call[c].period \in Nat /\ Int32(call[c].period) <= top
             /\ call[c].op = "start" =>
                  out.interval = call[c].period % U32 /\ asked.period = call[c].period
  BY DEF OperationsKept, OutputKept
<1>3. CASE UNCHANGED settings
  <2>1. UNCHANGED <<out, drift, asked>>
    BY <1>3 DEF settings
  <2>2. ASSUME NEW c \in Callers, call[c].op \in {"interval", "start"}
        PROVE  call'[c].op \in {"interval", "start"} \/ PerOutStart(c)
    <3>1. CASE PerOutInterval(c)
      <4>1. call'[c] = [op |-> "start", period |-> call[c].period]
        BY <1>2, <3>1 DEF PerOutInterval
      <4> QED
        BY <4>1
    <3> QED
      BY <2>2, <3>1, HoldersStay
  <2>3. ASSUME NEW c \in Callers, PerOutStart(c)
        PROVE  ~(asked.period \in 1 .. top)
    <3>1. /\ call[c].op = "start" /\ asked.period = call[c].period /\ ~out.enabled
          /\ Int32(asked.period) <= top /\ asked.period \in Nat
      BY <1>2, <2>3 DEF PerOutStart
    <3>2. ASSUME Int32(asked.period) > 0
          PROVE  FALSE
      <4>1. out' = [out EXCEPT !.enabled = TRUE]
        BY <2>3, <3>1, <3>2 DEF PerOutStart
      <4>2. out'.enabled
        BY <1>2, <4>1
      <4> QED
        BY <2>1, <3>1, <4>2
    <3> QED
      BY <3>1, <3>2, PeriodGranted
  <2>4. Granted'
    BY <1>1, <2>1, <2>2, <2>3
  <2> QED
    BY <1>1, <2>1, <2>4 DEF SettingsInForce
<1>4. ASSUME NEW c \in Callers, PerOutOff(c)
      PROVE  SettingsInForce'
  <2>1. out'.enabled = FALSE /\ UNCHANGED <<asked, drift>>
    BY <1>2, <1>4 DEF PerOutOff
  <2>2. call'[c].op = "interval"
    BY <1>2, <1>4 DEF PerOutOff
  <2> QED
    BY <1>1, <2>1, <2>2 DEF SettingsInForce
<1>5. ASSUME NEW c \in Callers, PerOutInterval(c)
      PROVE  SettingsInForce'
  <2>1. call[c].op = "interval" /\ ~out.enabled /\ call[c].period \in Nat
        /\ Int32(call[c].period) <= top
    BY <1>2, <1>5 DEF PerOutInterval
  <2>2. ~out'.enabled /\ UNCHANGED drift
    BY <1>2, <1>5, <2>1 DEF PerOutInterval
  <2>3. asked'.period = call[c].period /\ asked'.ppb = asked.ppb
    BY <1>2, <1>5 DEF PerOutInterval
  <2>4. call'[c].op = "start"
    BY <1>2, <1>5 DEF PerOutInterval
  <2>5. Refused'
    BY <2>1, <2>3, PeriodGranted
  <2>6. Nearest'
    BY <1>1, <2>2, <2>3
  <2> QED
    BY <2>2, <2>4, <2>5, <2>6 DEF SettingsInForce
<1>6. ASSUME NEW c \in Callers, PerOutStart(c)
      PROVE  SettingsInForce'
  <2>1. /\ call[c].op = "start" /\ ~out.enabled /\ call[c].period \in Nat
        /\ Int32(call[c].period) <= top
        /\ out.interval = call[c].period % U32 /\ asked.period = call[c].period
    BY <1>2, <1>6 DEF PerOutStart
  <2>2. UNCHANGED <<asked, drift>>
    BY <1>6 DEF PerOutStart
  <2>3. CASE Int32(call[c].period) > 0
    <3>1. out' = [out EXCEPT !.enabled = TRUE]
      BY <1>6, <2>3 DEF PerOutStart
    <3>2. out'.enabled /\ out'.interval = out.interval
      BY <1>2, <3>1
    <3>3. out.interval \in 1 .. top /\ asked.period % U32 = out.interval
      BY <2>1, <2>3, PeriodGranted
    <3>4. asked.period \in 1 .. top => out.interval = asked.period
      BY <2>1, PeriodGranted
    <3> QED
      BY <1>1, <2>2, <3>2, <3>3, <3>4 DEF SettingsInForce
  <2>4. CASE ~(Int32(call[c].period) > 0)
    <3>1. UNCHANGED out
      BY <1>6, <2>4 DEF PerOutStart
    <3>2. ~(asked.period \in 1 .. top)
      BY <2>1, <2>4, PeriodGranted
    <3> QED
      BY <1>1, <2>1, <2>2, <3>1, <3>2 DEF SettingsInForce
  <2> QED
    BY <2>3, <2>4
<1>7. ASSUME NEW c \in Callers, ra_ptp_adjfine(c)
      PROVE  SettingsInForce'
  <2>1. UNCHANGED <<out, call>>
    BY <1>7 DEF ra_ptp_adjfine
  <2>2. PICK ppb \in Drifts :
          IF ppb = 0 THEN UNCHANGED <<drift, asked>>
          ELSE drift' = Drift(ppb) /\ asked' = [asked EXCEPT !.ppb = ppb]
    BY <1>7 DEF ra_ptp_adjfine
  <2>3. CASE ppb = 0
    BY <1>1, <2>1, <2>2, <2>3 DEF SettingsInForce
  <2>4. CASE ppb # 0
    <3>1. drift' = Drift(ppb) /\ asked'.period = asked.period /\ asked'.ppb = ppb
      BY <1>2, <2>2, <2>4
    <3>2. Nearest'
      BY <3>1, DriftNearest
    <3> QED
      BY <1>1, <2>1, <3>1, <3>2 DEF SettingsInForce
  <2> QED
    BY <2>3, <2>4
<1> QED
  BY <1>3, <1>4, <1>5, <1>6, <1>7, SettingsTouched

-----------------------------------------------------------------------------
\* ra_ptp_probe finds the clock at some time and the FIFO empty.
LEMMA PtpInitIInv == Init => PtpIInv
<1> SUFFICES ASSUME Init PROVE PtpIInv
  OBVIOUS
<1>1. OperationsKept
  BY DEF Init, OperationsKept, Idle
<1>2. Broken(<<>>) = {}
  BY DEF Broken
<1>3. Cardinality({}) = 0
  BY FS_EmptySet
<1>4. FifoAccounted
  <2>1. fifo = <<>> /\ count = [calls |-> 0, events |-> 0, truncated |-> 0, mixed |-> 0]
    BY DEF Init
  <2>2. /\ fifo \in Seq((1 .. MaxEvents) \X Nat)
        /\ Len(fifo) = 0
    BY <2>1
  <2>3. Cardinality(Broken(fifo)) = 0
    BY <1>2, <1>3, <2>1
  <2>4. /\ count \in [calls : Nat, events : Nat, truncated : Nat, mixed : Nat]
        /\ count.mixed = 0 /\ count.truncated = 0
    BY <2>1
  <2> QED
    BY <2>2, <2>3, <2>4, PtpConstants DEF FifoAccounted
<1>5. LockKept
  BY DEF Init, LockKept, Idle
<1>6. OutputKept
  BY DEF Init, OutputKept, Idle
<1>7. SettingsInForce
  BY PtpConstants DEF Init, SettingsInForce, Abs
<1> QED
  BY <1>1, <1>4, <1>5, <1>6, <1>7 DEF PtpIInv

\* Every step preserves the invariant.
LEMMA PtpNextIInv == PtpIInv /\ [Next]_vars => PtpIInv'
<1> SUFFICES ASSUME PtpIInv, [Next]_vars
             PROVE  PtpIInv'
  OBVIOUS
<1>1. CASE Next
  BY <1>1, OperationStep, FifoStep, LockStep, OutputStep, SettingsStep DEF PtpIInv
<1>2. CASE UNCHANGED vars
  <2>1. UNCHANGED <<clock, fifo, out, drift, lock, call, irq, asked, count>>
    BY <1>2 DEF vars, hw, settings
  <2> QED
    BY <2>1 DEF PtpIInv, OperationsKept, FifoAccounted, LockKept, OutputKept, SettingsInForce
<1> QED
  BY <1>1, <1>2

\* For any number of callers, and a FIFO and timestamps of any size: an adjtime
\* under way knows how far the clock has come, and every truncated timestamp is
\* accounted for.
THEOREM PtpInvariance == Spec => []PtpIInv
BY PtpInitIInv, PtpNextIInv, PTL DEF Spec

\* ra_ptp_extts_irq gives up no more pairs to mixed-up words than the FIFO has
\* truncated timestamps.
THEOREM PairIsOneEventsAlways == Spec => []PairIsOneEvents
<1>1. PtpIInv => PairIsOneEvents
  <2> SUFFICES ASSUME PtpIInv PROVE PairIsOneEvents
    OBVIOUS
  <2>1. Cardinality(Broken(fifo)) \in Nat /\ count.mixed \in Nat /\ count.truncated \in Nat
    BY BrokenFinite DEF PtpIInv, FifoAccounted
  <2> QED
    BY <2>1 DEF PtpIInv, FifoAccounted, PairIsOneEvents
<1> QED
  BY <1>1, PtpInvariance, PTL

\* For any number of callers and any periods and drifts: ra_ptp_set_per_out keeps
\* the output off unless its interval is within range and the one granted last, and
\* ra_ptp_adjfine has written the drift nearest to the last one other than 0.
THEOREM SettingsAlways == Spec => []SettingsInForce
<1>1. PtpIInv => SettingsInForce
  BY DEF PtpIInv
<1> QED
  BY <1>1, PtpInvariance, PTL

\* An adjtime ends only by setting the clock to what it has read plus delta.
LEMMA AdjtimeEnds ==
  ASSUME OperationsKept, Next, NEW c \in Callers,
         call[c].op = "adjtime", call'[c].op = "idle"
  PROVE  \E ns \in Written(Adjusted(call[c].read, call[c].delta).sec,
                           Adjusted(call[c].read, call[c].delta).nsec) : clock' = ns
<1>1. CASE Tick
  <2>1. call'[c] = [call[c] EXCEPT !.ticks = @ + 1] /\ call[c] \in Adjtime
    BY <1>1 DEF Tick, Elapse, OperationsKept
  <2>2. call'[c].op = "adjtime"
    BY <2>1 DEF Adjtime
  <2> QED
    BY <2>2
<1>2. CASE Event \/ Irq
  <2>1. UNCHANGED call
    BY <1>2 DEF Event, Irq, IrqRead, ExttsCount, ExttsNext, ExttsEnd, PpsAck, PpsReport, PpsFails
  <2> QED
    BY <2>1
<1>3. ASSUME NEW d \in Callers, d # c, NEW ns, Step(d, ns)
      PROVE  FALSE
  <2>1. call'[c] = [call[c] EXCEPT !.overtaken = TRUE] /\ call[c] \in Adjtime
    BY <1>3 DEF Step, OperationsKept
  <2>2. call'[c].op = "adjtime"
    BY <2>1 DEF Adjtime
  <2> QED
    BY <2>2
<1>4. ASSUME NEW d \in Callers, d # c, NEW a, call' = [call EXCEPT ![d] = a]
      PROVE  FALSE
  BY <1>4
<1>5. ASSUME NEW d \in Callers, Operate(d)
      PROVE  FALSE
  <2>1. d # c
    BY <1>5 DEF Operate, ra_ptp_settime, AdjtimeOffset, AdjtimeGet, EnableRead,
                PerOutRefused, PerOutOff, ra_ptp_adjfine, Begin
  <2>2. CASE ra_ptp_settime(d) \/ AdjtimeOffset(d)
    BY <1>3, <2>1, <2>2 DEF ra_ptp_settime, AdjtimeOffset
  <2>3. CASE AdjtimeGet(d) \/ EnableRead(d) \/ PerOutOff(d)
    BY <1>4, <2>1, <2>3 DEF AdjtimeGet, EnableRead, PerOutOff
  <2>4. CASE PerOutRefused(d) \/ ra_ptp_adjfine(d)
    BY <2>4 DEF PerOutRefused, ra_ptp_adjfine
  <2> QED
    BY <1>5, <2>2, <2>3, <2>4 DEF Operate
<1>6. ASSUME NEW d \in Callers, GoOn(d)
      PROVE  AdjtimeSet(c)
  <2>1. CASE AdjtimeSet(d)
    BY <1>3, <2>1 DEF AdjtimeSet
  <2>2. CASE EnableWrite(d) \/ EnableMode(d) \/ PerOutInterval(d) \/ PerOutStart(d)
    <3>1. d # c
      BY <2>2 DEF EnableWrite, EnableMode, PerOutInterval, PerOutStart
    <3> QED
      BY <1>4, <2>2, <3>1 DEF EnableWrite, EnableMode, PerOutInterval, PerOutStart, Return
  <2> QED
    BY <1>6, <2>1, <2>2 DEF GoOn
<1>7. CASE AdjtimeSet(c)
  BY <1>7 DEF AdjtimeSet, Step
<1> QED
  BY <1>1, <1>2, <1>5, <1>6, <1>7 DEF Next, Fpga

\* For any number of callers, whatever they do: an adjtime beyond the offset
\* register, of less than 2^31 s, that nobody overtakes moves the clock by delta,
\* less the time it took; it is a second short only where ra_ptp_adjtime would
\* have to carry one over.
THEOREM AdjtimeAlways == Spec => AdjtimeAddsDelta
<1> DEFINE Moves ==
      \A c \in Callers :
        LET a == call[c]
            expected == clock + a.delta - a.ticks
        IN a.op = "adjtime" /\ call'[c].op = "idle" /\ ~a.overtaken
             /\ 2 * (Abs(a.delta) \div NSEC_PER_SEC) < U32
           => \/ clock' = expected
              \/ /\ (a.read % NSEC_PER_SEC) + Parts(a.delta).nsec >= NSEC_PER_SEC
                 /\ clock' = expected - NSEC_PER_SEC
<1>1. ASSUME PtpIInv, Next
      PROVE  Moves
  <2> SUFFICES ASSUME NEW c \in Callers, call[c].op = "adjtime", call'[c].op = "idle",
                      ~call[c].overtaken, 2 * (Abs(call[c].delta) \div NSEC_PER_SEC) < U32
               PROVE  LET expected == clock + call[c].delta - call[c].ticks
                      IN \/ clock' = expected
                         \/ /\ (call[c].read % NSEC_PER_SEC) + Parts(call[c].delta).nsec
                                 >= NSEC_PER_SEC
                            /\ clock' = expected - NSEC_PER_SEC
    OBVIOUS
  <2> DEFINE read == call[c].read
             delta == call[c].delta
             ticks == call[c].ticks
  <2>1. /\ read \in Int /\ delta \in Int /\ ticks \in Int /\ NSEC_PER_SEC \in Int
        /\ clock = read + ticks
    <3>1. call[c] \in Adjtime /\ clock = call[c].read + call[c].ticks
      BY <1>1 DEF PtpIInv, OperationsKept
    <3>2. call[c].read \in Int /\ call[c].delta \in Deltas /\ call[c].ticks \in Nat
      BY <3>1 DEF Adjtime
    <3>3. Deltas \subseteq Int /\ NSEC_PER_SEC \in Int
      BY PtpConstants
    <3>4. call[c].delta \in Int
      BY <3>2, <3>3
    <3> QED
      BY <3>1, <3>2, <3>3, <3>4
  <2>2. PICK ns \in Written(Adjusted(read, delta).sec, Adjusted(read, delta).nsec) :
          clock' = ns
    BY <1>1, AdjtimeEnds DEF PtpIInv
  <2>3. \/ ns = read + delta
        \/ /\ (read % NSEC_PER_SEC) + Parts(delta).nsec >= NSEC_PER_SEC
           /\ ns = read + delta - NSEC_PER_SEC
    BY <2>1, AdjustedRight
  <2>4. clock + delta - ticks = read + delta
    BY <2>1
  <2> HIDE DEF read, delta, ticks
  <2>5. \/ clock' = clock + delta - ticks
        \/ /\ (read % NSEC_PER_SEC) + Parts(delta).nsec >= NSEC_PER_SEC
           /\ clock' = (clock + delta - ticks) - NSEC_PER_SEC
    BY <2>1, <2>2, <2>3, <2>4
  <2> QED
    BY <2>5 DEF read, delta, ticks
<1>2. PtpIInv /\ [Next]_vars => [Moves]_vars
  BY <1>1
<1> QED
  BY <1>2, PtpInvariance, PTL DEF Spec, AdjtimeAddsDelta
-----------------------------------------------------------------------------
(* RtpSyncer                                                               *)

\* Numbers that differ by a factor of at least one.
LEMMA Multiple ==
  ASSUME NEW m \in Nat \ {0}, NEW q \in Int, q >= 1
  PROVE  m * q >= m /\ m * (-q) <= -m
<1>1. m * q = m * (q - 1) + m
  OBVIOUS
<1>2. m * (q - 1) >= 0
  OBVIOUS
<1>3. m * (-q) = -(m * q)
  OBVIOUS
<1> QED
  BY <1>1, <1>2, <1>3

\* What % and \div are.
LEMMA Euclid ==
  ASSUME NEW n \in Int, NEW m \in Nat \ {0}
  PROVE  /\ n % m \in Int /\ 0 <= n % m /\ n % m < m
         /\ n \div m \in Int
         /\ n = m * (n \div m) + (n % m)
OBVIOUS

\* The remainder is the only one.
LEMMA Remainder ==
  ASSUME NEW n \in Int, NEW m \in Nat \ {0}, NEW q \in Int, NEW r \in Int,
         0 <= r, r < m, n = m * q + r
  PROVE  n % m = r
<1> DEFINE a == n % m
           b == n \div m
<1>1. a \in Int /\ 0 <= a /\ a < m /\ b \in Int /\ n = m * b + a
  BY Euclid
<1> HIDE DEF a, b
<1>2. m * (q - b) = a - r
  <2>1. m * (q - b) = m * q - m * b
    BY <1>1
  <2> QED
    BY <1>1, <2>1
<1>3. ~(q - b >= 1)
  BY <1>1, <1>2, Multiple
<1>4. ~(b - q >= 1)
  <2> SUFFICES ASSUME b - q >= 1 PROVE FALSE
    OBVIOUS
  <2>1. m * (-(b - q)) <= -m
    BY <1>1, Multiple
  <2>2. -(b - q) = q - b
    BY <1>1
  <2> QED
    BY <1>1, <1>2, <2>1, <2>2
<1>5. q = b
  BY <1>1, <1>3, <1>4
<1> QED
  BY <1>1, <1>5 DEF a

\* The types of the syncer's constants.
LEMMA SyncConstants ==
  /\ Uint32 \in Nat \ {0} /\ Uint64 \in Nat \ {0} /\ sampleRate \in Nat \ {0}
  /\ nanoSecondsPerSecond \in Nat \ {0} /\ subSamplesPerSample \in Nat \ {0}
  /\ subSamplesDeviationThreshold \in Nat
  /\ Samples \subseteq Nat /\ Phases \subseteq Int
  /\ Circle \in Nat \ {0} /\ 2 * Circle < Uint64 /\ Uint64 % Circle = 0
  /\ subSamplesPerSample % 2 = 0
<1>1. /\ Uint32 \in Nat \ {0} /\ Uint64 \in Nat \ {0} /\ sampleRate \in Nat \ {0}
      /\ nanoSecondsPerSecond \in Nat \ {0} /\ subSamplesPerSample \in Nat \ {0}
      /\ subSamplesDeviationThreshold \in Nat
      /\ Samples \subseteq Nat /\ Phases \subseteq Int /\ Uint64 % Circle = 0
      /\ subSamplesPerSample % 2 = 0
  BY RtpSyncerAssumption DEF Circle
<1>2. Circle \in Nat \ {0}
  <2>1. Circle \in Int
    BY <1>1 DEF Circle
  <2>2. Circle >= subSamplesPerSample
    BY <1>1, Multiple DEF Circle
  <2> QED
    BY <1>1, <2>1, <2>2
<1>3. 2 * Circle < Uint64
  <2>1. 2 * (InSubSamples(PtpAt(0, 0)) + Circle) < Uint64
    BY RtpSyncerAssumption DEF Circle
  <2>2. PtpAt(0, 0) = 0
    <3>1. 0 * nanoSecondsPerSecond = 0
      BY <1>1
    <3>2. 0 \div sampleRate = 0
      BY <1>1
    <3> QED
      BY <3>1, <3>2 DEF PtpAt
  <2>3. InSubSamples(0) = 0
    <3>1. 0 * sampleRate * subSamplesPerSample = 0
      BY <1>1
    <3>2. 0 \div nanoSecondsPerSecond = 0
      BY <1>1
    <3> QED
      BY <3>1, <3>2 DEF InSubSamples
  <2> QED
    BY <1>2, <2>1, <2>2, <2>3
<1> QED
  BY <1>1, <1>2, <1>3

-----------------------------------------------------------------------------
\* The conversion to int64 gives a difference back that is in range.
LEMMA SmallIsKept ==
  ASSUME NEW v \in Int, -Uint64 <= 2 * v, 2 * v < Uint64
  PROVE  /\ v % Uint64 = IF v >= 0 THEN v ELSE v + Uint64
         /\ int64(v % Uint64) = v
<1>1. Uint64 \in Nat \ {0}
  BY SyncConstants
<1>2. CASE v >= 0
  <2>1. v = Uint64 * 0 + v
    BY <1>1
  <2>2. v % Uint64 = v
    BY <1>1, <1>2, <2>1, Remainder
  <2> QED
    BY <1>1, <1>2, <2>2 DEF int64
<1>3. CASE v < 0
  <2>1. v = Uint64 * (-1) + (v + Uint64)
    BY <1>1
  <2>2. v % Uint64 = v + Uint64
    BY <1>1, <1>3, <2>1, Remainder
  <2> QED
    BY <1>1, <1>3, <2>2 DEF int64
<1> QED
  BY <1>2, <1>3

\* diffAbs is the distance of two differences that are in range.
LEMMA DiffIsDistance ==
  ASSUME NEW v \in Int, NEW u \in Int, InRange(v), InRange(u)
  PROVE  diffAbs(v % Uint64, u % Uint64) = IF v >= u THEN v - u ELSE u - v
<1>1. /\ Uint64 \in Nat \ {0} /\ Circle \in Nat \ {0}
      /\ -Circle <= v /\ 2 * (v + Circle) < Uint64 /\ -Circle <= u /\ 2 * (u + Circle) < Uint64
      /\ 2 * Circle < Uint64
  BY SyncConstants DEF InRange
<1>2. /\ -Uint64 <= 2 * v /\ 2 * v < Uint64 /\ -Uint64 <= 2 * u /\ 2 * u < Uint64
      /\ -Uint64 < 2 * (v - u) /\ 2 * (v - u) < Uint64
  BY <1>1
<1>3. /\ v % Uint64 = IF v >= 0 THEN v ELSE v + Uint64
      /\ u % Uint64 = IF u >= 0 THEN u ELSE u + Uint64
      /\ (v - u) % Uint64 = IF v - u >= 0 THEN v - u ELSE (v - u) + Uint64
      /\ int64((v - u) % Uint64) = v - u
  <2>1. v - u \in Int
    OBVIOUS
  <2>2. /\ (v - u) % Uint64 = IF v - u >= 0 THEN v - u ELSE (v - u) + Uint64
        /\ int64((v - u) % Uint64) = v - u
    <3> DEFINE x == v - u
    <3>1. x \in Int /\ -Uint64 <= 2 * x /\ 2 * x < Uint64
      BY <1>1, <1>2, <2>1
    <3> HIDE DEF x
    <3>2. x % Uint64 = (IF x >= 0 THEN x ELSE x + Uint64) /\ int64(x % Uint64) = x
      BY <3>1, SmallIsKept
    <3> QED
      BY <3>2 DEF x
  <2> QED
    BY <1>2, <2>2, SmallIsKept
<1> DEFINE a == v % Uint64
           b == u % Uint64
           r == IF v - u >= 0 THEN v - u ELSE (v - u) + Uint64
<1>4. a \in Int /\ b \in Int /\ r \in Int /\ 0 <= r /\ r < Uint64
  BY <1>1, <1>2, <1>3
<1>5. \E q \in Int : a - b = Uint64 * q + r
  <2>1. a - b \in {r - 2 * Uint64, r - Uint64, r, r + Uint64}
    BY <1>1, <1>3
  <2>2. /\ r - 2 * Uint64 = Uint64 * (-2) + r /\ r - Uint64 = Uint64 * (-1) + r
        /\ r = Uint64 * 0 + r /\ r + Uint64 = Uint64 * 1 + r
    BY <1>1, <1>4
  <2> QED
    BY <2>1, <2>2
<1>6. a - b \in Int
  BY <1>4
<1>7. (a - b) % Uint64 = r
  <2> HIDE DEF a, b, r
  <2> QED
    BY <1>1, <1>4, <1>5, <1>6, Remainder
<1>8. int64((a - b) % Uint64) = v - u
  BY <1>3, <1>7
<1> QED
  BY <1>1, <1>2, <1>8 DEF diffAbs

\* What Run computes is the difference, up to the wraps of the counter.
LEMMA SubsIsDifference ==
  ASSUME SyncIInv
  PROVE  \E w \in -Circle .. Uint64 :
           /\ InRange(w) /\ subs = w % Uint64
           /\ Difference \in Int /\ (w - Difference) % Circle = 0
<1> DEFINE T == InSubSamples(Ptp)
           sp == subSamplesPerSample
           rtp == samples % Uint32
           k == samples \div Uint32
           w == T - rtp * sp
<1>1. /\ samples \in Nat /\ samples \in Samples \cup {0} /\ phase \in Phases \cup {0}
      /\ Ptp >= 0 /\ pair.ptp = Ptp /\ pair.rtp = rtp /\ phase \in Int
  BY SyncConstants DEF SyncIInv
<1>2. /\ Uint64 \in Nat \ {0} /\ Uint32 \in Nat \ {0} /\ Circle \in Nat \ {0} /\ sp \in Nat \ {0}
      /\ 2 * Circle < Uint64
  BY SyncConstants
<1>3. Ptp \in Int /\ T \in Int /\ 0 <= T
  <2>1. Ptp \in Int
    <3> DEFINE x == samples * nanoSecondsPerSecond
    <3>1. x \in Int
      BY <1>1, SyncConstants
    <3> HIDE DEF x
    <3>2. x \div sampleRate \in Int
      BY <3>1, SyncConstants, Euclid
    <3> QED
      BY <1>1, <3>2 DEF Ptp, PtpAt, x
  <2> DEFINE x == Ptp * sampleRate * sp
  <2>2. x \in Int /\ 0 <= x
    <3>1. Ptp * sampleRate \in Nat
      BY <1>1, <2>1, SyncConstants
    <3> QED
      BY <1>2, <3>1
  <2> HIDE DEF x
  <2>3. x \div nanoSecondsPerSecond \in Int /\ 0 <= x \div nanoSecondsPerSecond
    BY <2>2, SyncConstants
  <2> QED
    BY <2>1, <2>3 DEF InSubSamples, x
<1>4. 2 * (T + Circle) < Uint64
  BY <1>1, RtpSyncerAssumption DEF Ptp, Circle
<1>5. /\ rtp \in Int /\ 0 <= rtp /\ rtp < Uint32 /\ k \in Int
      /\ samples = Uint32 * k + rtp
  BY <1>1, <1>2, Euclid
<1>6. rtp * sp \in Int /\ 0 <= rtp * sp /\ rtp * sp <= Circle
  <2>1. rtp * sp \in Int /\ 0 <= rtp * sp
    BY <1>2, <1>5
  <2>2. (Uint32 - rtp) * sp >= 0
    BY <1>2, <1>5
  <2>3. (Uint32 - rtp) * sp = Circle - rtp * sp
    BY <1>2, <1>5 DEF Circle
  <2> QED
    BY <1>2, <2>1, <2>2, <2>3
<1>7. T % Uint64 = T
  <2>1. T = Uint64 * 0 + T
    BY <1>2, <1>3
  <2> QED
    BY <1>2, <1>3, <1>4, <2>1, Remainder
<1>8. subs = w % Uint64
  <2>1. 2 * Ptp < Uint64 /\ Ptp \in Int
    BY <1>1, <1>3, RtpSyncerAssumption DEF Ptp
  <2>2. int64(Ptp) = Ptp
    BY <1>2, <2>1 DEF int64
  <2>3. ptpTimestampToSubSamples(Ptp) = T
    BY <1>3, <1>7, <2>2 DEF ptpTimestampToSubSamples
  <2> QED
    BY <1>1, <2>3 DEF subs, subtractSamples
<1>9. Difference = T - samples * sp
  BY <1>1 DEF Difference
<1>10. samples * sp = Circle * k + rtp * sp
  BY <1>2, <1>5 DEF Circle
<1> HIDE DEF T, sp, rtp, k
<1>11. samples * sp \in Int
  BY <1>1, <1>2
<1>12. w - Difference = Circle * k + 0 /\ w - Difference \in Int /\ Difference \in Int
  BY <1>2, <1>3, <1>5, <1>6, <1>9, <1>10, <1>11
<1>13. (w - Difference) % Circle = 0
  <2> DEFINE x == w - Difference
  <2>1. x \in Int /\ x = Circle * k + 0
    BY <1>12
  <2> HIDE DEF x
  <2>2. x % Circle = 0
    BY <1>2, <1>5, <2>1, Remainder
  <2> QED
    BY <2>2 DEF x
<1>14. w \in -Circle .. Uint64 /\ InRange(w)
  BY <1>2, <1>3, <1>4, <1>6 DEF InRange
<1> QED
  BY <1>8, <1>12, <1>13, <1>14

-----------------------------------------------------------------------------
\* On the circle, the distance is that of some of the points that are the same.
LEMMA DistanceReached ==
  ASSUME NEW o \in Int, NEW d \in Int
  PROVE  \E j \in Int : Distance(o, d) = Abs(o * subSamplesPerSample - d + Circle * j)
<1> DEFINE y == o * subSamplesPerSample - d
           x == y % Circle
           q == y \div Circle
<1>1. Circle \in Nat \ {0} /\ y \in Int
  BY SyncConstants
<1>2. x \in Int /\ 0 <= x /\ x < Circle /\ q \in Int /\ y = Circle * q + x
  BY <1>1, Euclid
<1>3. Distance(o, d) = IF 2 * x > Circle THEN Circle - x ELSE x
  BY DEF Distance, Circle
<1> HIDE DEF y, x, q
<1>4. /\ Circle * (-q) = -(Circle * q) /\ Circle * (-q - 1) = -(Circle * q) - Circle
      /\ Circle * q \in Int
  BY <1>1, <1>2
<1>5. CASE 2 * x > Circle
  <2>1. y + Circle * (-q - 1) = x - Circle
    BY <1>1, <1>2, <1>4
  <2>2. Distance(o, d) = Abs(y + Circle * (-q - 1))
    BY <1>1, <1>2, <1>3, <1>5, <2>1 DEF Abs
  <2> QED
    BY <1>2, <2>2 DEF y
<1>6. CASE ~(2 * x > Circle)
  <2>1. y + Circle * (-q) = x
    BY <1>1, <1>2, <1>4
  <2>2. Distance(o, d) = Abs(y + Circle * (-q))
    BY <1>2, <1>3, <1>6, <2>1 DEF Abs
  <2> QED
    BY <1>2, <2>2 DEF y
<1> QED
  BY <1>5, <1>6

\* And none of them is nearer.
LEMMA DistanceLeast ==
  ASSUME NEW o \in Int, NEW d \in Int, NEW j \in Int
  PROVE  /\ Distance(o, d) \in Int
         /\ Distance(o, d) <= Abs(o * subSamplesPerSample - d + Circle * j)
<1> DEFINE y == o * subSamplesPerSample - d
           x == y % Circle
           q == y \div Circle
<1>1. Circle \in Nat \ {0} /\ y \in Int
  BY SyncConstants
<1>2. x \in Int /\ 0 <= x /\ x < Circle /\ q \in Int /\ y = Circle * q + x
  BY <1>1, Euclid
<1>3. Distance(o, d) = IF 2 * x > Circle THEN Circle - x ELSE x
  BY DEF Distance, Circle
<1> HIDE DEF y, x, q
<1>4. PICK m \in Int : m = Circle * (q + j) /\ y + Circle * j = x + m
  <2>1. Circle * (q + j) = Circle * q + Circle * j /\ Circle * q \in Int /\ Circle * j \in Int
    BY <1>1, <1>2
  <2> QED
    BY <1>1, <1>2, <2>1
<1>5. m >= 0 \/ m <= -Circle
  <2>1. CASE q + j >= 0
    BY <1>1, <1>2, <1>4, <2>1
  <2>2. CASE -(q + j) >= 1
    <3>1. Circle * (-(-(q + j))) <= -Circle
      BY <1>1, <1>2, <2>2, Multiple
    <3>2. -(-(q + j)) = q + j
      BY <1>2
    <3> QED
      BY <1>4, <3>1, <3>2
  <2> QED
    BY <1>2, <2>1, <2>2
<1>6. Distance(o, d) \in Int /\ Distance(o, d) <= Abs(x + m)
  BY <1>1, <1>2, <1>3, <1>4, <1>5 DEF Abs
<1> QED
  BY <1>4, <1>6 DEF y

\* The distance changes by no more than the difference does, wraps aside.
LEMMA DistanceCreeps ==
  ASSUME NEW o \in Int, NEW d \in Int, NEW e \in Int, NEW v \in Int, NEW w \in Int,
         (v - d) % Circle = 0, (w - e) % Circle = 0
  PROVE  Distance(o, e) <= Distance(o, d) + IF w >= v THEN w - v ELSE v - w
<1> DEFINE a == (v - d) \div Circle
           b == (w - e) \div Circle
           y == o * subSamplesPerSample
<1>1. Circle \in Nat \ {0} /\ y \in Int
  BY SyncConstants
<1>2. a \in Int /\ b \in Int /\ v - d = Circle * a /\ w - e = Circle * b
  BY <1>1, Euclid
<1>3. PICK j \in Int : Distance(o, d) = Abs(y - d + Circle * j)
  BY DistanceReached
<1> HIDE DEF a, b, y
<1>4. /\ Circle * a \in Int /\ Circle * b \in Int /\ Circle * j \in Int
      /\ Circle * (j + a - b) = Circle * j + Circle * a - Circle * b
      /\ j + a - b \in Int
  BY <1>1, <1>2, <1>3
<1>5. /\ Distance(o, e) \in Int
      /\ Distance(o, e) <= Abs(y - e + Circle * (j + a - b))
  BY <1>4, DistanceLeast DEF y
<1>6. y - e + Circle * (j + a - b) = (y - d + Circle * j) + (v - w)
  <2>1. PICK ca \in Int, cb \in Int, cj \in Int :
          ca = Circle * a /\ cb = Circle * b /\ cj = Circle * j
    BY <1>4
  <2>2. Circle * (j + a - b) = cj + ca - cb /\ v - d = ca /\ w - e = cb
    BY <1>2, <1>4, <2>1
  <2>3. y - e + (cj + ca - cb) = (y - d + cj) + (v - w)
    BY <1>1, <2>2
  <2> QED
    BY <2>1, <2>2, <2>3
<1>7. PICK z \in Int : z = y - d + Circle * j
  BY <1>1, <1>4
<1>8. Abs(z + (v - w)) <= Abs(z) + IF w >= v THEN w - v ELSE v - w
  BY DEF Abs
<1>9. Distance(o, d) = Abs(z) /\ Distance(o, e) <= Abs(z + (v - w)) /\ Abs(z) \in Int
      /\ Abs(z + (v - w)) \in Int
  BY <1>3, <1>5, <1>6, <1>7 DEF Abs
<1> QED
  BY <1>5, <1>8, <1>9

\* toSamples32 gives the nearest whole number of samples.
LEMMA RoundsToNearest ==
  ASSUME NEW w \in Int, NEW e \in Int, (w - e) % Circle = 0
  PROVE  /\ toSamples32(w % Uint64) \in Int
         /\ 2 * Distance(toSamples32(w % Uint64), e) <= subSamplesPerSample
<1> DEFINE s == w % Uint64
           sp == subSamplesPerSample
           up == IF s % sp >= sp \div 2 THEN 1 ELSE 0
           n == s \div sp + up
           t == (n % Uint64) % Uint32
<1>1. /\ Uint64 \in Nat \ {0} /\ Uint32 \in Nat \ {0} /\ Circle \in Nat \ {0} /\ sp \in Nat \ {0}
      /\ Uint64 % Circle = 0 /\ sp % 2 = 0 /\ Circle = sp * Uint32
  BY SyncConstants DEF Circle
<1>2. PICK c \in Int : Uint64 = Circle * c
  <2>1. Uint64 \div Circle \in Int /\ Uint64 = Circle * (Uint64 \div Circle) + (Uint64 % Circle)
    <3>1. Uint64 \in Int /\ Circle \in Nat \ {0}
      BY <1>1
    <3> QED
      BY <3>1, Euclid
  <2> QED
    BY <1>1, <2>1
<1>3. s \in Int /\ w \div Uint64 \in Int /\ w = Uint64 * (w \div Uint64) + s
  BY <1>1, Euclid
<1>4. PICK f \in Int : w = Uint64 * f + s
  BY <1>3
<1> HIDE DEF s
<1>5. /\ s % sp \in Int /\ 0 <= s % sp /\ s % sp < sp
      /\ s \div sp \in Int /\ s = sp * (s \div sp) + (s % sp)
  BY <1>1, <1>3, Euclid
<1>6. PICK r \in Int : r = up * sp - (s % sp) /\ 2 * r <= sp /\ -sp <= 2 * r /\ sp * n = s + r
  <2>1. sp \div 2 \in Int /\ sp = 2 * (sp \div 2)
    BY <1>1
  <2>2. CASE s % sp >= sp \div 2
    <3>1. up = 1 /\ n = s \div sp + 1
      BY <2>2
    <3>2. sp * (s \div sp + 1) = sp * (s \div sp) + sp
      BY <1>1, <1>5
    <3> HIDE DEF up, n
    <3> QED
      BY <1>1, <1>3, <1>5, <2>1, <2>2, <3>1, <3>2
  <2>3. CASE ~(s % sp >= sp \div 2)
    <3>1. up = 0 /\ n = s \div sp
      BY <1>5, <2>3
    <3> HIDE DEF up, n
    <3> QED
      BY <1>1, <1>3, <1>5, <2>1, <2>3, <3>1
  <2> QED
    BY <2>2, <2>3
<1>7. n \in Int
  BY <1>5
<1> HIDE DEF n
<1> DEFINE n64 == n % Uint64
<1>8. n64 \in Int /\ n \div Uint64 \in Int /\ n = Uint64 * (n \div Uint64) + n64
  BY <1>1, <1>7, Euclid
<1>9. PICK g \in Int : n = Uint64 * g + n64
  BY <1>8
<1>10. t \in Int /\ n64 \div Uint32 \in Int /\ n64 = Uint32 * (n64 \div Uint32) + t
  <2>1. t = n64 % Uint32
    OBVIOUS
  <2> HIDE DEF n64, t
  <2> QED
    BY <1>1, <1>8, <2>1, Euclid
<1>11. PICK h \in Int : n64 = Uint32 * h + t
  BY <1>10
<1>12. toSamples32(s) = t
  BY DEF toSamples32, n, n64
<1> HIDE DEF n64, t
<1>13. PICK b \in Int : w - e = Circle * b
  <2> DEFINE x == w - e
  <2>1. x \in Int /\ x % Circle = 0 /\ Circle \in Nat \ {0}
    BY <1>1
  <2> HIDE DEF x
  <2>2. x \div Circle \in Int /\ x = Circle * (x \div Circle) + (x % Circle)
    BY <2>1, Euclid
  <2>3. PICK b \in Int : b = x \div Circle
    BY <2>2
  <2>4. x = Circle * b + 0 /\ Circle * b \in Int
    BY <2>1, <2>2, <2>3
  <2> QED
    BY <2>1, <2>4 DEF x
<1> DEFINE j == h + sp * (c * g) + c * f - b
<1>14. j \in Int
  <2>1. c * g \in Int /\ c * f \in Int
    BY <1>2, <1>4, <1>9
  <2>2. sp * (c * g) \in Int
    BY <1>1, <2>1
  <2> QED
    BY <1>11, <1>13, <2>1, <2>2
<1>15. t * sp - e + Circle * j = r
  <2>1. Circle * j = Circle * h + Circle * (sp * (c * g)) + Circle * (c * f) - Circle * b
    BY <1>1, <1>2, <1>4, <1>9, <1>11, <1>13
  <2>2. Circle * h = sp * (Uint32 * h)
    BY <1>1, <1>11
  <2>3. Circle * (sp * (c * g)) = sp * (Uint64 * g)
    BY <1>1, <1>2, <1>9
  <2>4. Circle * (c * f) = Uint64 * f
    BY <1>1, <1>2, <1>4
  <2>5. sp * n = sp * (Uint64 * g) + sp * (Uint32 * h) + t * sp
    BY <1>1, <1>9, <1>10, <1>11
  <2>6. /\ sp * (Uint64 * g) \in Int /\ sp * (Uint32 * h) \in Int /\ t * sp \in Int
        /\ Uint64 * f \in Int /\ sp * n \in Int /\ Circle * b \in Int
    BY <1>1, <1>4, <1>7, <1>9, <1>10, <1>11, <1>13
  <2> HIDE DEF j
  <2>7. PICK ug \in Int, uh \in Int, tt \in Int, uf \in Int, cb \in Int :
          /\ ug = sp * (Uint64 * g) /\ uh = sp * (Uint32 * h) /\ tt = t * sp
          /\ uf = Uint64 * f /\ cb = Circle * b
    BY <2>6
  <2>8. Circle * j = uh + ug + uf - cb
    BY <2>1, <2>2, <2>3, <2>4, <2>7
  <2>9. s + r = ug + uh + tt /\ w = uf + s /\ w - e = cb
    BY <1>4, <1>6, <1>13, <2>5, <2>7
  <2>10. tt - e + (uh + ug + uf - cb) = r
    BY <1>3, <1>6, <2>9
  <2> QED
    BY <2>7, <2>8, <2>10
<1> HIDE DEF j
<1>16. Distance(t, e) \in Int /\ Distance(t, e) <= Abs(r)
  BY <1>10, <1>14, <1>15, DistanceLeast
<1>17. 2 * Abs(r) <= sp /\ Abs(r) \in Int
  BY <1>1, <1>6 DEF Abs
<1>18. 2 * Distance(t, e) <= sp
  BY <1>1, <1>16, <1>17
<1> QED
  BY <1>10, <1>12, <1>18 DEF s

-----------------------------------------------------------------------------
\* The system starts in the invariant.
LEMMA SyncInitIInv == SyncInit => SyncIInv
<1> SUFFICES ASSUME SyncInit PROVE SyncIInv
  OBVIOUS
<1>1. /\ Uint64 \in Nat \ {0} /\ Uint32 \in Nat \ {0} /\ Circle \in Nat \ {0}
      /\ 2 * Circle < Uint64
  BY SyncConstants
<1>2. Ptp = 0
  <2>1. 0 * nanoSecondsPerSecond = 0
    BY SyncConstants
  <2>2. 0 \div sampleRate = 0
    BY SyncConstants
  <2> QED
    BY <2>1, <2>2 DEF SyncInit, Ptp, PtpAt
<1>3. 0 % Uint32 = 0 /\ 0 % Uint64 = 0
  BY <1>1
<1>4. 0 \in -Circle .. Uint64 /\ InRange(0)
  BY <1>1 DEF InRange
<1> QED
  BY <1>1, <1>2, <1>3, <1>4 DEF SyncInit, SyncIInv, OffsetWithinCreep

\* The difference is seen, and the offset kept or set.
LEMMA RunIInv ==
  ASSUME SyncIInv, KeepOffset \/ NewOffset
  PROVE  SyncIInv'
<1>1. /\ subSamplesPerSample \in Nat \ {0} /\ Circle \in Nat \ {0}
  BY SyncConstants
<1>2. PICK w \in -Circle .. Uint64 :
        /\ InRange(w) /\ subs = w % Uint64
        /\ Difference \in Int /\ (w - Difference) % Circle = 0
  BY SubsIsDifference
<1>3. w \in Int
  BY <1>1, SyncConstants
<1>4. /\ offset \in Int /\ lastOffset \in Int /\ seen \in Int /\ crept \in Nat
      /\ running /\ lastOffset = offset
      /\ lastSubSamples' = w % Uint64 /\ seen' = Difference
      /\ UNCHANGED <<samples, phase, pair, running>>
  BY <1>2 DEF SyncIInv, KeepOffset, NewOffset, fpga
<1>5. /\ samples' \in Samples \cup {0} /\ phase' \in Phases \cup {0} /\ Ptp' >= 0
      /\ pair' = [ptp |-> Ptp', rtp |-> samples' % Uint32]
  BY <1>4 DEF SyncIInv, Ptp
<1>6. (w - seen') % Circle = 0 /\ seen' \in Int
  BY <1>2, <1>4
<1>7. /\ offset' \in Int /\ lastOffset' \in Int /\ crept' \in Nat /\ lastOffset' = offset'
      /\ OffsetWithinCreep'
  <2>1. CASE KeepOffset
    <3>1. UNCHANGED <<offset, lastOffset, applied>>
      BY <2>1 DEF KeepOffset
    <3>2. CASE ~applied
      <4>1. crept' = 0
        BY <2>1, <3>2 DEF KeepOffset
      <4> QED
        BY <1>4, <3>1, <3>2, <4>1 DEF OffsetWithinCreep
    <3>3. CASE applied
      <4>1. PICK v \in -Circle .. Uint64 :
              InRange(v) /\ lastSubSamples = v % Uint64 /\ (v - seen) % Circle = 0
        BY <3>3 DEF SyncIInv
      <4>2. v \in Int
        BY <1>1, SyncConstants
      <4> DEFINE g == IF w >= v THEN w - v ELSE v - w
      <4>3. crept' = crept + g
        <5>1. crept' = crept + diffAbs(subs, lastSubSamples)
          BY <2>1, <3>3 DEF KeepOffset
        <5>2. diffAbs(w % Uint64, v % Uint64) = g
          BY <1>2, <1>3, <4>1, <4>2, DiffIsDistance
        <5> QED
          BY <1>2, <4>1, <5>1, <5>2
      <4>4. g \in Nat
        BY <1>3, <4>2
      <4>5. Distance(offset, Difference) <= Distance(offset, seen) + g
        BY <1>2, <1>3, <1>4, <4>1, <4>2, DistanceCreeps
      <4>6. Distance(offset, Difference) \in Int /\ Distance(offset, seen) \in Int
        <5>1. 0 \in Int
          OBVIOUS
        <5> QED
          BY <1>2, <1>4, <5>1, DistanceLeast
      <4>7. 2 * Distance(offset, seen) <= subSamplesPerSample + 2 * crept
        BY <3>3 DEF SyncIInv, OffsetWithinCreep
      <4> HIDE DEF g
      <4>8. 2 * Distance(offset, Difference) <= subSamplesPerSample + 2 * (crept + g)
        BY <1>1, <1>4, <4>4, <4>5, <4>6, <4>7
      <4>9. OffsetWithinCreep'
        BY <1>4, <3>1, <4>3, <4>8 DEF OffsetWithinCreep, Distance
      <4> QED
        BY <1>4, <3>1, <4>3, <4>4, <4>9
    <3> QED
      BY <3>2, <3>3
  <2>2. CASE NewOffset
    <3> DEFINE t == toSamples32(w % Uint64)
    <3>1. t \in Int /\ 2 * Distance(t, Difference) <= subSamplesPerSample
      BY <1>2, <1>3, RoundsToNearest
    <3>2. lastOffset' = t /\ crept' = 0 /\ offset' = t
      BY <1>2, <1>4, <2>2 DEF NewOffset, SetRTPGlobalOffset
    <3> HIDE DEF t
    <3>3. 2 * Distance(t, Difference) <= subSamplesPerSample + 2 * 0
      BY <1>1, <3>1
    <3>4. OffsetWithinCreep'
      BY <1>4, <3>2, <3>3 DEF OffsetWithinCreep, Distance
    <3> QED
      BY <3>1, <3>2, <3>4
  <2> QED
    BY <2>1, <2>2
<1> QED
  BY <1>2, <1>4, <1>5, <1>6, <1>7 DEF SyncIInv

\* Every step preserves the invariant.
LEMMA SyncNextIInv == SyncIInv /\ [SyncNext]_syncVars => SyncIInv'
<1> SUFFICES ASSUME SyncIInv, [SyncNext]_syncVars
             PROVE  SyncIInv'
  OBVIOUS
<1>1. CASE KeepOffset \/ NewOffset
  BY <1>1, RunIInv
<1>2. CASE TakePair
  <2>1. /\ samples' \in Samples \cup {0} /\ phase' \in Phases \cup {0} /\ Ptp' >= 0
        /\ pair' = [ptp |-> Ptp', rtp |-> samples' % Uint32]
        /\ UNCHANGED <<offset, running, lastSubSamples, lastOffset, applied, seen, crept>>
    BY <1>2 DEF TakePair, history
  <2> QED
    BY <2>1 DEF SyncIInv, OffsetWithinCreep, Distance
<1>3. CASE SetFails \/ Cancel
  BY <1>3 DEF SetFails, Cancel, fpga, history, SyncIInv, OffsetWithinCreep, Distance, Ptp
<1>4. CASE New
  <2>1. /\ Uint64 \in Nat \ {0} /\ Circle \in Nat \ {0} /\ 2 * Circle < Uint64
    BY SyncConstants
  <2>2. 0 % Uint64 = 0 /\ 0 \in -Circle .. Uint64 /\ InRange(0)
    BY <2>1 DEF InRange
  <2> QED
    BY <1>4, <2>2 DEF New, fpga, SyncIInv, OffsetWithinCreep, Ptp
<1>5. CASE UNCHANGED syncVars
  BY <1>5 DEF syncVars, fpga, history, SyncIInv, OffsetWithinCreep, Distance, Ptp
<1> QED
  BY <1>1, <1>2, <1>3, <1>4, <1>5 DEF SyncNext

\* For any scale of the integers, and any times that are far from 2^63 eighths of
\* a sample: the syncer's view of the offset and of the difference is right.
THEOREM SyncInvariance == SyncSpec => []SyncIInv
BY SyncInitIInv, SyncNextIInv, PTL DEF SyncSpec

\* rtp_global_offset is nearest to the difference last seen, but for the changes
\* that Run has passed over since it set it.
THEOREM OffsetWithinCreepAlways == SyncSpec => []OffsetWithinCreep
<1>1. SyncIInv => OffsetWithinCreep
  BY DEF SyncIInv
<1> QED
  BY <1>1, SyncInvariance, PTL
=============================================================================
