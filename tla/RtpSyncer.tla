------------------------------ MODULE RtpSyncer ------------------------------
(***************************************************************************)
(* The RTP offset syncer (go/rtp-syncer/syncer.go).  Once per interval it  *)
(* reads the time and the sample counter of the last external event from   *)
(* rtp_timestamp, computes by how much the counter is off, in eighths of a *)
(* sample, and writes the offset to rtp_global_offset, both in sysfs.      *)
(*                                                                         *)
(* Integers are as wide as in the code, on a smaller scale: uint32 is      *)
(* modulo Uint32, uint64 and int64 are modulo Uint64; a big.Int has no     *)
(* limit, and its Uint64 is the low word of the absolute value.            *)
(***************************************************************************)
EXTENDS Integers

CONSTANTS
  Uint32, Uint64,
  sampleRate, nanoSecondsPerSecond,
  subSamplesPerSample,
  subSamplesDeviationThreshold,
  Samples,  \* values of the sample counter, had it no limit
  Phases    \* by how many ns the clock can be ahead of the counter

\* The clock at a sample, in ns, and a time in eighths of a sample.
PtpAt(s, ahead) == ((s * nanoSecondsPerSecond) \div sampleRate) + ahead

InSubSamples(ptp) == (ptp * sampleRate * subSamplesPerSample) \div nanoSecondsPerSecond

\* Times are below 2^63 ns, and well below 2^63 eighths of a sample.
ASSUME RtpSyncerAssumption ==
  /\ {Uint32, Uint64, sampleRate, nanoSecondsPerSecond, subSamplesPerSample,
      subSamplesDeviationThreshold} \subseteq Nat \ {0}
  /\ Uint64 % (subSamplesPerSample * Uint32) = 0
  /\ Samples \subseteq Nat /\ Phases \subseteq Int
  /\ subSamplesPerSample % 2 = 0
  /\ \A s \in Samples \cup {0}, p \in Phases \cup {0} :
       /\ 2 * PtpAt(s, p) < Uint64
       /\ 2 * (InSubSamples(PtpAt(s, p)) + subSamplesPerSample * Uint32) < Uint64

VARIABLES
  samples,         \* the sample counter at the last event, without wrapping
  phase,           \* what the clock was ahead of it
  pair,            \* last_ptp_timestamp and last_rtp_timestamp of the driver
  offset,          \* RA_NET_RTP_GLOBAL_OFFSET
  running,         \* Run has not returned
  lastSubSamples, lastOffset,
  applied,         \* this Run has computed an offset
  seen,            \* the difference it has seen last, in unlimited integers
  crept            \* the sum of the changes it has passed over since

fpga == <<samples, phase, pair>>
history == <<applied, seen, crept>>
syncVars == <<fpga, offset, running, lastSubSamples, lastOffset, history>>

-----------------------------------------------------------------------------
(* The FPGA and the PTP driver                                             *)

Ptp == PtpAt(samples, phase)

\* The phase creeps, and jumps when the clock is set.
TakePair ==
  /\ samples' \in {s \in Samples : s > samples}
  /\ phase' \in Phases
  /\ Ptp' >= 0
  /\ pair' = [ptp |-> Ptp', rtp |-> samples' % Uint32]
  /\ UNCHANGED <<offset, running, lastSubSamples, lastOffset, history>>

-----------------------------------------------------------------------------
(* subSamples                                                              *)

\* Mutant: rounds towards zero.
toSamples32Down(s) == (s \div subSamplesPerSample) % Uint32

toSamples32(s) ==
  LET up == IF s % subSamplesPerSample >= subSamplesPerSample \div 2 THEN 1 ELSE 0
  IN ((s \div subSamplesPerSample + up) % Uint64) % Uint32

int64(s) == IF 2 * s >= Uint64 THEN s - Uint64 ELSE s

\* The difference as an int64; the most negative one has no absolute value.
diffAbs(s, other) ==
  LET diff == int64((s - other) % Uint64)
  IN IF diff < 0 /\ 2 * diff # -Uint64 THEN -diff ELSE diff

subtractSamples(s, i) == (s - i * subSamplesPerSample) % Uint64

ptpTimestampToSubSamples(ptpTimestamp) ==
  LET r == InSubSamples(int64(ptpTimestamp))
  IN (IF r < 0 THEN -r ELSE r) % Uint64

-----------------------------------------------------------------------------
(* Run                                                                     *)

subs == subtractSamples(ptpTimestampToSubSamples(pair.ptp), pair.rtp)

\* The same without limits: what the offset should be, in eighths of a sample.
Difference == InSubSamples(pair.ptp) - samples * subSamplesPerSample

Deviates == diffAbs(subs, lastSubSamples) >= subSamplesDeviationThreshold

\* rtp_global_offset_store, of a decimal number of up to 32 bits.
SetRTPGlobalOffset(n) == offset' = n

\* The difference is much the same.  (If GetTimestampPair fails, nothing changes.)
KeepOffset ==
  /\ running /\ ~Deviates
  /\ lastSubSamples' = subs
  /\ seen' = Difference
  /\ crept' = IF applied THEN crept + diffAbs(subs, lastSubSamples) ELSE 0
  /\ UNCHANGED <<fpga, offset, running, lastOffset, applied>>

\* SetRTPGlobalOffset is left out if nothing changes.
NewOffset ==
  /\ running /\ Deviates
  /\ lastSubSamples' = subs
  /\ lastOffset' = toSamples32(subs)
  /\ IF lastOffset' = lastOffset THEN UNCHANGED offset ELSE SetRTPGlobalOffset(lastOffset')
  /\ applied' = TRUE /\ seen' = Difference /\ crept' = 0
  /\ UNCHANGED <<fpga, running>>

\* SetRTPGlobalOffset fails, and so does Run.
SetFails ==
  /\ running /\ Deviates /\ toSamples32(subs) # lastOffset
  /\ running' = FALSE
  /\ UNCHANGED <<fpga, offset, lastSubSamples, lastOffset, history>>

Cancel ==
  /\ running
  /\ running' = FALSE
  /\ UNCHANGED <<fpga, offset, lastSubSamples, lastOffset, history>>

New ==
  /\ ~running
  /\ running' = TRUE
  /\ lastOffset' = offset /\ lastSubSamples' = 0 /\ applied' = FALSE
  /\ UNCHANGED <<fpga, offset, seen, crept>>

-----------------------------------------------------------------------------
SyncInit ==
  /\ samples = 0 /\ phase = 0 /\ pair = [ptp |-> 0, rtp |-> 0]
  /\ offset \in 0 .. Uint32 - 1
  /\ running = FALSE /\ lastSubSamples = 0 /\ lastOffset = 0
  /\ applied = FALSE /\ seen = 0 /\ crept = 0

SyncNext == TakePair \/ KeepOffset \/ NewOffset \/ SetFails \/ Cancel \/ New

SyncSpec == SyncInit /\ [][SyncNext]_syncVars

-----------------------------------------------------------------------------
(* Properties                                                              *)

\* How far an offset in samples is from a difference in subsamples, on the
\* circle on which RTP timestamps live.
Distance(o, d) ==
  LET circle == subSamplesPerSample * Uint32
      x == (o * subSamplesPerSample - d) % circle
  IN IF 2 * x > circle THEN circle - x ELSE x

\* rtp_global_offset is within half a sample of the difference last seen, and of
\* the changes that Run has passed over since it last computed an offset, whether
\* counter or difference have wrapped, and whatever calls failed and were made
\* again.
OffsetWithinCreep ==
  applied => 2 * Distance(offset, seen) <= subSamplesPerSample + 2 * crept

\* "If the difference between the new and the last calculated offset is more than
\* 1 half-sample, the FPGA register for the global RTP offset is updated"
\* (syncer.go): after a round of Run, the register is within half a sample of the
\* difference it has seen.  But Run compares with the last difference and not with
\* the last it has acted upon, so that changes below the threshold add up.
OffsetIsNearest == applied => 2 * Distance(offset, seen) <= subSamplesPerSample

-----------------------------------------------------------------------------
(* What the proofs need in addition                                        *)

Circle == subSamplesPerSample * Uint32

\* A difference far enough from half of uint64.
InRange(v) == -Circle <= v /\ 2 * (v + Circle) < Uint64

\* The inductive invariant: the pair is the counter's and the clock's, the offset
\* in the syncer is that in the FPGA, and lastSubSamples is the difference seen
\* last, up to the wraps of the counter.
SyncIInv ==
  /\ samples \in Samples \cup {0} /\ phase \in Phases \cup {0} /\ Ptp >= 0
  /\ pair = [ptp |-> Ptp, rtp |-> samples % Uint32]
  /\ offset \in Int /\ lastOffset \in Int /\ seen \in Int /\ crept \in Nat
  /\ running => lastOffset = offset
  /\ \E v \in -Circle .. Uint64 :
       /\ InRange(v) /\ lastSubSamples = v % Uint64
       /\ applied => (v - seen) % Circle = 0
  /\ OffsetWithinCreep

=============================================================================
