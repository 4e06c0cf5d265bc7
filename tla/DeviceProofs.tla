---------------------------- MODULE DeviceProofs ----------------------------
(***************************************************************************)
(* Proofs about the stream device, Rtcp and StreamDevice, and about IrqMux,*)
(* through which its interrupts and those of the other devices come: for   *)
(* any number of clients, pages, lines and drivers, any timeouts and HZ.   *)
(***************************************************************************)
EXTENDS Rtcp, StreamDevice, IrqMux, WellFoundedInduction, TLAPS

\* The provers to try, in this order: a leaf gets more attempts than by default,
\* since one attempt can run out of time on a slow machine.
USE SMTT(10), ZenonT(20), Z3T(20), SMTT(30), Z3T(40), SMTT(60), ZenonT(40)

-----------------------------------------------------------------------------
(* Rtcp                                                                    *)

\* What is left of the timeout of a call that was answered, taken from the
\* timeout: the two roundings of wait_event_interruptible_timeout.
LEMMA ElapsedOnWakeup ==
  ASSUME NEW t \in Timeout, NEW l \in Nat, l <= msecs_to_jiffies(t)
  PROVE  LET ret == IF l = 0 THEN 1 ELSE l
             e == (t - jiffies_to_msecs(ret)) % U32
         IN /\ e \in Nat
            /\ \/ e <= t
               \/ (t = 0 \/ t % MsPerJiffy # 0) /\ e >= U32 - MsPerJiffy
<1> DEFINE M == MsPerJiffy
           J == msecs_to_jiffies(t)
           ret == IF l = 0 THEN 1 ELSE l
           d == t - ret * M
           e == d % U32
<1>1. /\ M \in Nat \ {0} /\ U32 \in Nat \ {0}
      /\ t \in Nat /\ t < U32
  BY RtcpAssumption
<1>2. J \in Nat /\ t <= J * M /\ J * M <= t + M - 1
  BY <1>1 DEF msecs_to_jiffies
<1>3. ret \in Nat /\ ret >= 1 /\ (ret <= J \/ ret = 1) /\ d \in Int
  BY <1>1, <1>2
<1> HIDE DEF J, ret
<1>4. d >= -M
  <2>1. CASE ret = 1
    BY <1>1, <2>1
  <2>2. CASE ret <= J
    <3>1. ret * M <= J * M
      BY <1>1, <1>2, <1>3, <2>2
    <3> QED
      BY <1>1, <1>2, <1>3, <3>1
  <2> QED
    BY <1>3, <2>1, <2>2
<1>5. ASSUME d < 0, t # 0, t % M = 0
      PROVE  FALSE
  <2>1. PICK k \in Nat : t = k * M
    BY <1>1, <1>5
  <2>2. k >= 1 /\ J <= k
    <3>1. k >= 1
      BY <1>1, <1>5, <2>1
    <3>2. ASSUME J > k
          PROVE  FALSE
      <4>1. (k + 1) * M <= J * M
        BY <1>1, <1>2, <3>2
      <4> QED
        BY <1>1, <1>2, <2>1, <4>1
    <3> QED
      BY <1>2, <3>1, <3>2
  <2>3. ret <= k
    BY <1>2, <1>3, <2>2
  <2>4. ret * M <= k * M
    BY <1>1, <1>3, <2>3
  <2> QED
    BY <1>1, <1>3, <1>5, <2>1, <2>4
<1> HIDE DEF d
<1>6. e \in Nat
  BY <1>1, <1>3
<1>7. CASE d >= 0
  <2>1. d <= t
    <3>1. ret * M >= 0
      BY <1>1, <1>3
    <3> QED
      BY <1>1, <1>3, <3>1 DEF d
  <2>2. e = d
    BY <1>1, <1>3, <1>7, <2>1
  <2> QED
    BY <1>6, <2>1, <2>2 DEF jiffies_to_msecs, d, ret
<1>8. CASE d < 0
  <2>1. e >= U32 - M
    <3>1. CASE M <= U32
      <4>1. d \in -U32 .. -1
        BY <1>1, <1>3, <1>4, <1>8, <3>1
      <4>2. e = d + U32
        BY <1>1, <4>1
      <4> QED
        BY <1>1, <1>3, <1>4, <4>2
    <3>2. CASE M > U32
      BY <1>1, <1>6, <3>2
    <3> QED
      BY <1>1, <3>1, <3>2
  <2> QED
    BY <1>5, <1>6, <1>8, <2>1 DEF jiffies_to_msecs, d, ret
<1> QED
  BY <1>3, <1>7, <1>8

-----------------------------------------------------------------------------
\* Nobody has called, and the FPGA is quiet.
LEMMA InitIInv == Init => IInv
<1> SUFFICES ASSUME Init PROVE IInv
  OBVIOUS
<1>1. \A p \in Proc : pc[p] = "idle" /\ cmd[p] = NoCmd /\ cmd[p].index = None
  BY DEF Init, NoCmd, Command
<1>2. \A p \in Proc : ~Succeeded(p)
  BY <1>1 DEF Succeeded
<1>3. TypeOK
  <2>1. NoCmd \in Cmd
    BY DEF NoCmd, Command, Cmd, Word
  <2> QED
    BY <2>1 DEF Init, TypeOK, Word
<1>4. CallsInOrder
  BY <1>1, RtcpAssumption DEF Init, CallsInOrder, Locked
<1>5. AnswersInOrder
  BY <1>1 DEF Init, AnswersInOrder, Quiet
<1>6. AnswerMatchesUnlessAbandoned /\ NoLostAnswer /\ ElapsedWithinTimeout
  BY <1>1, <1>2 DEF AnswerMatchesUnlessAbandoned, AnswerMatches, NoLostAnswer,
                    ElapsedWithinTimeout
<1> QED
  BY <1>3, <1>4, <1>5, <1>6 DEF IInv

\* The FPGA and the interrupt handler only move the answer on.
LEMMA IrqIInv == ASSUME IInv, PageDone \/ Irq PROVE IInv'
<1> USE DEF IInv, TypeOK, Word
<1>0. UNCHANGED <<pc, cmd, left, mutex, abandoned>>
  BY DEF PageDone, Irq, IrqEnter, IrqRead1, IrqRead2, IrqReady
<1>1. TypeOK'
  <2>1. data[1] \in Word /\ data[2] \in Word
    OBVIOUS
  <2>2. data' \in Word \X Word
    BY <2>1 DEF PageDone, Irq, IrqEnter, IrqRead1, IrqRead2, IrqReady, fpga
  <2>3. request' \in Word /\ regs' \in Word /\ ready' \in BOOLEAN /\ irq' \in BOOLEAN
        /\ handler' \in {"idle", "read1", "read2", "ready"}
    BY DEF PageDone, Irq, IrqEnter, IrqRead1, IrqRead2, IrqReady, fpga
  <2> QED
    BY <1>0, <2>2, <2>3
<1>2. CallsInOrder'
  BY <1>0 DEF CallsInOrder
<1>3. AnswerMatchesUnlessAbandoned'
  BY <1>0 DEF AnswerMatchesUnlessAbandoned, AnswerMatches, Succeeded, Answer
<1>4. ElapsedWithinTimeout'
  BY <1>0 DEF ElapsedWithinTimeout, Succeeded, ElapsedIsRight
<1>5. NoLostAnswer'
  BY <1>0 DEF NoLostAnswer, PageDone, Irq, IrqEnter, IrqRead1, IrqRead2, IrqReady, fpga
<1>6. ~Quiet
  BY DEF Quiet, PageDone, Irq, IrqEnter, IrqRead1, IrqRead2, IrqReady
<1>7. ASSUME NEW index \in Page, Fetching(index)
      PROVE  Fetching(index)'
  <2> USE <1>6, <1>7, RtcpAssumption DEF Fetching, Quiet, Answer
  <2>1. CASE PageDone
    BY <2>1 DEF PageDone
  <2>2. CASE IrqEnter
    BY <2>2 DEF IrqEnter
  <2>3. CASE IrqRead1
    BY <2>3 DEF IrqRead1, fpga
  <2>4. CASE IrqRead2
    BY <2>4 DEF IrqRead2, fpga
  <2>5. CASE IrqReady
    BY <2>5 DEF IrqReady, fpga
  <2> QED
    BY <2>1, <2>2, <2>3, <2>4, <2>5 DEF Irq
<1>8. AnswersInOrder'
  <2>1. ASSUME ~abandoned, NEW p \in Proc
        PROVE  /\ mutex # None
               /\ pc[p] \notin {"reset", "select", "parse1", "parse2"}
               /\ pc[p] = "wait" => Fetching(cmd[p].index)'
    <3>1. pc[p] = "wait" => cmd[p].index \in Page /\ Fetching(cmd[p].index)
      BY <2>1 DEF AnswersInOrder, CallsInOrder
    <3> QED
      BY <1>0, <1>6, <1>7, <2>1, <3>1 DEF AnswersInOrder
  <2>2. ~abandoned => mutex # None
    BY <1>6 DEF AnswersInOrder
  <2> QED
    BY <1>0, <2>1, <2>2 DEF AnswersInOrder
<1> QED
  BY <1>1, <1>2, <1>3, <1>4, <1>5, <1>8

-----------------------------------------------------------------------------
(* The steps of a call                                                     *)

\* The timeout of a wait is a number of jiffies.
LEMMA JiffiesType == ASSUME NEW t \in Timeout PROVE msecs_to_jiffies(t) \in Nat
<1>1. t \in Nat /\ MsPerJiffy \in Nat \ {0}
  BY RtcpAssumption
<1> QED
  BY <1>1 DEF msecs_to_jiffies

\* What a failed call leaves behind.
LEMMA FailedCmd ==
  ASSUME NEW err \in Int
  PROVE  [NoCmd EXCEPT !.ret = -err] \in Cmd /\ [NoCmd EXCEPT !.ret = -err].index = None
BY DEF NoCmd, Command, Cmd, Word

\* The mutex excludes.
LEMMA OthersOut ==
  ASSUME IInv, NEW p \in Proc, pc[p] \in Locked \/ mutex = None
  PROVE  \A q \in Proc : q # p => pc[q] \notin Locked
BY RtcpAssumption DEF IInv, CallsInOrder

\* A call begins, or is refused at once.
LEMMA CallIInv ==
  ASSUME IInv, NEW p \in Proc,
         \/ \E index \in Page, ms \in Timeout : Call(p, index, ms)
         \/ \E err \in {EINVAL, EFAULT} : CallRefused(p, err)
  PROVE  IInv'
<1> DEFINE c == cmd'[p]
<1>1. /\ pc[p] = "idle" /\ UNCHANGED <<left, shared>>
      /\ \/ /\ pc' = [pc EXCEPT ![p] = "lock"]
            /\ \E index \in Page, ms \in Timeout :
                 cmd' = [cmd EXCEPT ![p] = Command(index, ms)]
         \/ /\ pc' = pc
            /\ \E err \in {EINVAL, EFAULT} :
                 cmd' = [cmd EXCEPT ![p] = [NoCmd EXCEPT !.ret = -err]]
  BY DEF Call, CallRefused, Goto
<1> DEFINE G == /\ \A q \in Proc : q # p => cmd'[q] = cmd[q] /\ pc'[q] = pc[q]
                /\ pc' \in [Proc -> {"idle", "lock"} \cup Locked] /\ cmd' \in [Proc -> Cmd]
                /\ \/ pc'[p] = "lock" /\ c.index \in Page /\ c.timeout_ms \in Timeout
                   \/ pc'[p] = "idle" /\ c.index = None
<1>2. G
  <2>1. ASSUME NEW index \in Page, NEW ms \in Timeout
        PROVE  /\ Command(index, ms) \in Cmd
               /\ Command(index, ms).index = index
               /\ Command(index, ms).timeout_ms = ms
    BY DEF Command, Cmd, Word
  <2>2. ASSUME NEW err \in {EINVAL, EFAULT}
        PROVE  [NoCmd EXCEPT !.ret = -err] \in Cmd /\ [NoCmd EXCEPT !.ret = -err].index = None
    BY FailedCmd DEF EINVAL, EFAULT
  <2>3. cmd \in [Proc -> Cmd] /\ pc \in [Proc -> {"idle", "lock"} \cup Locked]
    BY DEF IInv, TypeOK
  <2>4. ASSUME NEW err \in {EINVAL, EFAULT}, pc' = pc,
               cmd' = [cmd EXCEPT ![p] = [NoCmd EXCEPT !.ret = -err]]
        PROVE  G
    BY <1>1, <2>2, <2>3, <2>4
  <2>5. ASSUME NEW index \in Page, NEW ms \in Timeout, pc' = [pc EXCEPT ![p] = "lock"],
               cmd' = [cmd EXCEPT ![p] = Command(index, ms)]
        PROVE  G
    BY <1>1, <2>1, <2>3, <2>5
  <2> HIDE DEF G
  <2> QED
    BY <1>1, <2>4, <2>5
<1>3. TypeOK'
  BY <1>1, <1>2 DEF IInv, TypeOK, shared
<1> HIDE DEF c
<1>4. CallsInOrder'
  BY <1>1, <1>2 DEF IInv, CallsInOrder, shared, Locked, c
<1>5. AnswersInOrder'
  BY <1>1, <1>2 DEF IInv, AnswersInOrder, Quiet, Fetching, shared
<1>6. AnswerMatchesUnlessAbandoned' /\ ElapsedWithinTimeout'
  BY <1>1, <1>2 DEF IInv, AnswerMatchesUnlessAbandoned, AnswerMatches, Succeeded,
                      ElapsedWithinTimeout, shared, c
<1>7. NoLostAnswer'
  BY <1>1, <1>2 DEF IInv, NoLostAnswer, shared
<1> QED
  BY <1>3, <1>4, <1>5, <1>6, <1>7 DEF IInv

\* A call takes the mutex, clears the flag, selects its page and waits.
LEMMA WaitIInv ==
  ASSUME IInv, NEW p \in Proc, Lock(p) \/ Reset(p) \/ Select(p) \/ Tick(p)
  PROVE  IInv'
<1> USE RtcpAssumption DEF Locked
<1>1. /\ UNCHANGED <<cmd, data, regs, irq, handler, abandoned>>
      /\ pc[p] \in Locked \/ mutex = None
      /\ \A q \in Proc : q # p => pc[q] \notin Locked
  BY OthersOut DEF Lock, Reset, Select, Tick, shared, fpga
<1>2. /\ \A q \in Proc : q # p => pc'[q] = pc[q] /\ left'[q] = left[q]
      /\ mutex' = p
  BY DEF IInv, TypeOK, CallsInOrder, Lock, Reset, Select, Tick, Goto, shared
<1>3. /\ pc[p] # "idle" /\ cmd[p].index \in Page /\ cmd[p].timeout_ms \in Timeout
  BY DEF IInv, CallsInOrder, Lock, Reset, Select, Tick
<1>4. TypeOK'
  <2>1. msecs_to_jiffies(cmd[p].timeout_ms) \in Nat
    BY <1>3, JiffiesType
  <2>2. left' \in [Proc -> Nat]
    BY <2>1 DEF IInv, TypeOK, Lock, Reset, Select, Tick
  <2>3. pc' \in [Proc -> {"idle", "lock"} \cup Locked]
    BY DEF IInv, TypeOK, Lock, Reset, Select, Tick, Goto
  <2>4. request' \in Word /\ ready' \in BOOLEAN
    BY <1>3 DEF IInv, TypeOK, Lock, Reset, Select, Tick, Word, fpga, shared
  <2> QED
    BY <1>1, <1>2, <2>2, <2>3, <2>4 DEF IInv, TypeOK
<1>5. CallsInOrder'
  <2>1. pc'[p] \in Locked \ {"parse1", "parse2"}
    BY DEF IInv, TypeOK, Lock, Reset, Select, Tick, Goto
  <2>2. pc'[p] = "wait" => left'[p] <= msecs_to_jiffies(cmd[p].timeout_ms)
    <3>1. msecs_to_jiffies(cmd[p].timeout_ms) \in Nat
      BY <1>3, JiffiesType
    <3> QED
      BY <3>1 DEF IInv, TypeOK, CallsInOrder, Lock, Reset, Select, Tick, Goto
  <2>3. \A q \in Proc : q # p =>
          /\ pc'[q] \notin Locked /\ mutex' # q
          /\ pc[q] # "idle" => cmd[q].index \in Page /\ cmd[q].timeout_ms \in Timeout
    BY <1>1, <1>2 DEF IInv, CallsInOrder
  <2> QED
    BY <1>1, <1>2, <1>3, <2>1, <2>2, <2>3 DEF CallsInOrder
<1>6. AnswersInOrder'
  <2> USE DEF IInv, TypeOK, AnswersInOrder, Quiet, Goto, fpga, shared
  <2>1. CASE Lock(p)
    BY <1>1, <1>2, <2>1 DEF Lock
  <2>2. CASE Reset(p)
    BY <1>1, <1>2, <2>2 DEF Reset
  <2>3. CASE Select(p)
    BY <1>1, <1>2, <1>3, <2>3 DEF Select, Fetching
  <2>4. CASE Tick(p)
    BY <1>1, <1>2, <2>4 DEF Tick, Fetching
  <2> QED
    BY <2>1, <2>2, <2>3, <2>4
<1>7. AnswerMatchesUnlessAbandoned' /\ ElapsedWithinTimeout'
  <2>1. \A q \in Proc : Succeeded(q)' => Succeeded(q)
    <3>1. pc'[p] # "idle"
      BY DEF IInv, TypeOK, Lock, Reset, Select, Tick, Goto
    <3> QED
      BY <1>1, <1>2, <3>1 DEF Succeeded
  <2> QED
    BY <1>1, <2>1 DEF IInv, AnswerMatchesUnlessAbandoned, AnswerMatches, ElapsedWithinTimeout
<1>8. NoLostAnswer'
  <2>1. CASE Select(p)
    BY <1>1, <1>2, <1>3, <2>1 DEF Select, NoLostAnswer
  <2>2. CASE Tick(p)
    BY <1>1, <1>2, <2>2 DEF Tick, IInv, NoLostAnswer, shared
  <2>3. CASE Lock(p) \/ Reset(p)
    BY <1>1, <1>2, <2>3 DEF IInv, TypeOK, Lock, Reset, Goto, NoLostAnswer
  <2> QED
    BY <2>1, <2>2, <2>3
<1> QED
  BY <1>4, <1>5, <1>6, <1>7, <1>8 DEF IInv

\* The wait ends with an answer, and the elapsed time is computed.
LEMMA WokenIInv ==
  ASSUME IInv, NEW p \in Proc, Woken(p)
  PROVE  IInv'
<1> DEFINE ret == IF left[p] = 0 THEN 1 ELSE left[p]
           e == (cmd[p].timeout_ms - jiffies_to_msecs(ret)) % U32
           new == [index |-> cmd[p].index, timeout_ms |-> cmd[p].timeout_ms,
                   elapsed |-> e, data |-> cmd[p].data, ret |-> cmd[p].ret]
<1> USE DEF Locked
<1>1. /\ pc[p] = "wait" /\ ready /\ UNCHANGED shared
      /\ pc' = [pc EXCEPT ![p] = "parse1"] /\ left' = [left EXCEPT ![p] = 0]
      /\ cmd' = [cmd EXCEPT ![p] = [cmd[p] EXCEPT !.elapsed = e]]
  BY DEF Woken, Goto
<1>2. /\ mutex = p /\ cmd[p].index \in Page /\ cmd[p].timeout_ms \in Timeout
      /\ left[p] \in Nat /\ left[p] <= msecs_to_jiffies(cmd[p].timeout_ms)
      /\ cmd[p] \in Cmd
      /\ \A q \in Proc : q # p => pc[q] \notin Locked
  BY <1>1, OthersOut DEF IInv, TypeOK, CallsInOrder
<1>3. /\ e \in Nat
      /\ \/ e <= cmd[p].timeout_ms
         \/ /\ cmd[p].timeout_ms = 0 \/ cmd[p].timeout_ms % MsPerJiffy # 0
            /\ e >= U32 - MsPerJiffy
  BY <1>2, ElapsedOnWakeup
<1> HIDE DEF ret, e
<1>4. [cmd[p] EXCEPT !.elapsed = e] = new
  BY <1>2 DEF Cmd
<1>5. /\ new.index = cmd[p].index /\ new.timeout_ms = cmd[p].timeout_ms
      /\ new.elapsed = e /\ new \in Cmd
  BY <1>2, <1>3 DEF Cmd
<1> HIDE DEF new
<1>6. ElapsedIsRight(new)
  BY <1>3, <1>5 DEF ElapsedIsRight, WholeJiffies
<1>7. /\ cmd'[p] = new /\ pc'[p] = "parse1" /\ cmd' \in [Proc -> Cmd]
      /\ \A q \in Proc : q # p => cmd'[q] = cmd[q] /\ pc'[q] = pc[q]
  BY <1>1, <1>4, <1>5 DEF IInv, TypeOK
<1>8. TypeOK'
  BY <1>1, <1>7 DEF IInv, TypeOK, shared
<1>9. CallsInOrder'
  BY <1>1, <1>2, <1>5, <1>6, <1>7 DEF IInv, CallsInOrder, shared
<1>10. AnswersInOrder'
  BY <1>1, <1>2, <1>5, <1>7 DEF IInv, AnswersInOrder, Quiet, Fetching, shared
<1>11. AnswerMatchesUnlessAbandoned' /\ ElapsedWithinTimeout'
  BY <1>1, <1>7 DEF IInv, AnswerMatchesUnlessAbandoned, AnswerMatches, Succeeded,
                    ElapsedWithinTimeout, shared
<1>12. NoLostAnswer'
  BY <1>2, <1>7 DEF NoLostAnswer
<1> QED
  BY <1>8, <1>9, <1>10, <1>11, <1>12 DEF IInv

\* The wait ends without an answer.
LEMMA GiveUpIInv ==
  ASSUME IInv, NEW p \in Proc, NEW err \in Int, GiveUp(p, err)
  PROVE  IInv'
<1> DEFINE new == [NoCmd EXCEPT !.ret = -err]
<1> USE DEF Locked
<1>1. new \in Cmd /\ new.index = None
  BY FailedCmd
<1> HIDE DEF new
<1>2. /\ pc[p] = "wait" /\ mutex' = None /\ abandoned' = TRUE
      /\ UNCHANGED <<ready, data, fpga, handler>>
      /\ pc' = [pc EXCEPT ![p] = "idle"] /\ left' = [left EXCEPT ![p] = 0]
      /\ cmd' = [cmd EXCEPT ![p] = new]
  BY DEF GiveUp, Goto, new
<1>3. \A q \in Proc : q # p => pc[q] \notin Locked
  BY <1>2, OthersOut
<1>4. /\ cmd'[p] = new /\ pc'[p] = "idle" /\ cmd' \in [Proc -> Cmd]
      /\ \A q \in Proc : q # p => cmd'[q] = cmd[q] /\ pc'[q] = pc[q]
  BY <1>1, <1>2 DEF IInv, TypeOK
<1>5. TypeOK'
  BY <1>2, <1>4 DEF IInv, TypeOK, fpga
<1>6. CallsInOrder'
  BY <1>2, <1>3, <1>4, RtcpAssumption DEF IInv, CallsInOrder
<1>7. AnswersInOrder' /\ AnswerMatchesUnlessAbandoned'
  BY <1>2 DEF AnswersInOrder, AnswerMatchesUnlessAbandoned
<1>8. ElapsedWithinTimeout'
  BY <1>1, <1>4 DEF IInv, Succeeded, ElapsedWithinTimeout
<1>9. NoLostAnswer'
  BY <1>3, <1>4 DEF NoLostAnswer
<1> QED
  BY <1>5, <1>6, <1>7, <1>8, <1>9 DEF IInv

\* The first half of the answer is taken.
LEMMA Parse1IInv ==
  ASSUME IInv, NEW p \in Proc, Parse1(p)
  PROVE  IInv'
<1> DEFINE new == [index |-> cmd[p].index, timeout_ms |-> cmd[p].timeout_ms,
                   elapsed |-> cmd[p].elapsed, data |-> <<data[1], cmd[p].data[2]>>,
                   ret |-> cmd[p].ret]
<1> USE DEF Locked
<1>1. /\ pc[p] = "parse1" /\ UNCHANGED <<left, shared>>
      /\ pc' = [pc EXCEPT ![p] = "parse2"]
      /\ cmd' = [cmd EXCEPT ![p] = [cmd[p] EXCEPT !.data = <<data[1], cmd[p].data[2]>>]]
  BY DEF Parse1, Goto
<1>2. /\ mutex = p /\ cmd[p].index \in Page /\ cmd[p].timeout_ms \in Timeout
      /\ cmd[p] \in Cmd /\ data[1] \in Word
      /\ \A q \in Proc : q # p => pc[q] \notin Locked
  BY <1>1, OthersOut DEF IInv, TypeOK, CallsInOrder
<1>3. [cmd[p] EXCEPT !.data = <<data[1], cmd[p].data[2]>>] = new
  BY <1>2 DEF Cmd
<1>4. /\ new.index = cmd[p].index /\ new.timeout_ms = cmd[p].timeout_ms
      /\ new.elapsed = cmd[p].elapsed /\ new.data[1] = data[1] /\ new \in Cmd
  BY <1>2 DEF Cmd
<1> HIDE DEF new
<1>5. ElapsedIsRight(new)
  BY <1>1, <1>4 DEF IInv, CallsInOrder, ElapsedIsRight
<1>6. /\ cmd'[p] = new /\ pc'[p] = "parse2" /\ cmd' \in [Proc -> Cmd]
      /\ \A q \in Proc : q # p => cmd'[q] = cmd[q] /\ pc'[q] = pc[q]
  BY <1>1, <1>3, <1>4 DEF IInv, TypeOK
<1>7. TypeOK'
  BY <1>1, <1>6 DEF IInv, TypeOK, shared
<1>8. CallsInOrder'
  BY <1>1, <1>2, <1>4, <1>5, <1>6 DEF IInv, CallsInOrder, shared
<1>9. AnswersInOrder'
  BY <1>1, <1>2, <1>4, <1>6 DEF IInv, AnswersInOrder, Quiet, Answer, shared
<1>10. AnswerMatchesUnlessAbandoned' /\ ElapsedWithinTimeout'
  BY <1>1, <1>6 DEF IInv, AnswerMatchesUnlessAbandoned, AnswerMatches, Succeeded,
                    ElapsedWithinTimeout, shared
<1>11. NoLostAnswer'
  BY <1>2, <1>6 DEF NoLostAnswer
<1> QED
  BY <1>7, <1>8, <1>9, <1>10, <1>11 DEF IInv

\* The second half is taken and the call returns.
LEMMA Parse2IInv ==
  ASSUME IInv, NEW p \in Proc, Parse2(p)
  PROVE  IInv'
<1> DEFINE old == cmd[p]
           new == [index |-> old.index, timeout_ms |-> old.timeout_ms,
                   elapsed |-> old.elapsed, data |-> <<old.data[1], data[2]>>,
                   ret |-> old.ret]
           fail == [NoCmd EXCEPT !.ret = -EFAULT]
<1> USE DEF Locked
<1>1. /\ pc[p] = "parse2" /\ mutex' = None
      /\ UNCHANGED <<left, ready, data, fpga, handler, abandoned>>
      /\ pc' = [pc EXCEPT ![p] = "idle"]
      /\ \/ cmd' = [cmd EXCEPT ![p] = [old EXCEPT !.data = <<old.data[1], data[2]>>]]
         \/ cmd' = [cmd EXCEPT ![p] = fail]
  BY DEF Parse2, Goto
<1>2. /\ mutex = p /\ old.index \in Page /\ old \in Cmd /\ data[2] \in Word
      /\ ElapsedIsRight(old)
      /\ \A q \in Proc : q # p => pc[q] \notin Locked
  BY <1>1, OthersOut DEF IInv, TypeOK, CallsInOrder
<1>3. ~abandoned => Quiet /\ data = Answer(old.index) /\ old.data[1] = old.index
  BY <1>1 DEF IInv, AnswersInOrder
<1> HIDE DEF old
<1>4. [old EXCEPT !.data = <<old.data[1], data[2]>>] = new
  BY <1>2 DEF Cmd
<1>5. /\ new.index = old.index /\ new.timeout_ms = old.timeout_ms
      /\ new.elapsed = old.elapsed /\ new.data = <<old.data[1], data[2]>> /\ new \in Cmd
  BY <1>2 DEF Cmd
<1>6. fail \in Cmd /\ fail.index = None
  BY FailedCmd DEF EFAULT
<1> HIDE DEF new, fail
<1>7. ElapsedIsRight(new) /\ (~abandoned => new.data = Answer(new.index))
  BY <1>2, <1>3, <1>5 DEF ElapsedIsRight, Answer
<1>8. /\ cmd'[p] \in {new, fail} /\ pc'[p] = "idle" /\ cmd' \in [Proc -> Cmd]
      /\ \A q \in Proc : q # p => cmd'[q] = cmd[q] /\ pc'[q] = pc[q]
  BY <1>1, <1>4, <1>5, <1>6 DEF IInv, TypeOK
<1>9. TypeOK'
  BY <1>1, <1>8 DEF IInv, TypeOK, fpga
<1>10. CallsInOrder'
  BY <1>1, <1>2, <1>8, RtcpAssumption DEF IInv, CallsInOrder
<1>11. AnswersInOrder'
  BY <1>1, <1>2, <1>3, <1>8 DEF AnswersInOrder, Quiet, fpga
<1>12. AnswerMatchesUnlessAbandoned' /\ ElapsedWithinTimeout'
  BY <1>1, <1>6, <1>7, <1>8 DEF IInv, AnswerMatchesUnlessAbandoned, AnswerMatches,
                                Succeeded, ElapsedWithinTimeout
<1>13. NoLostAnswer'
  BY <1>2, <1>8 DEF NoLostAnswer
<1> QED
  BY <1>9, <1>10, <1>11, <1>12, <1>13 DEF IInv

-----------------------------------------------------------------------------
\* Every step preserves the invariant.
LEMMA NextIInv == IInv /\ [Next]_vars => IInv'
<1> SUFFICES ASSUME IInv, [Next]_vars
             PROVE  IInv'
  OBVIOUS
<1>1. CASE Next
  <2>1. ASSUME NEW p \in Proc, TimedOut(p) \/ Interrupted(p)
        PROVE  IInv'
    BY <2>1, GiveUpIInv DEF TimedOut, Interrupted, ETIMEDOUT, ERESTARTSYS
  <2> QED
    BY <1>1, <2>1, CallIInv, WaitIInv, WokenIInv, Parse1IInv, Parse2IInv, IrqIInv DEF Next, Step
<1>2. CASE UNCHANGED vars
  BY <1>2 DEF vars, IInv, TypeOK, CallsInOrder, AnswersInOrder, Quiet, Fetching, Answer,
              AnswerMatchesUnlessAbandoned, AnswerMatches, Succeeded, NoLostAnswer,
              ElapsedWithinTimeout, ElapsedIsRight
<1> QED
  BY <1>1, <1>2

\* The mutex, the flag and the order of the handler's steps keep calls and
\* answers in step, for any number of clients.
THEOREM Invariance == Spec => []IInv
BY InitIInv, NextIInv, PTL DEF Spec

\* As long as no call was abandoned, a successful call returns the statistics it
\* asked for, whole and of the right stream.
THEOREM AnswersMatch == Spec => []AnswerMatchesUnlessAbandoned
<1>1. IInv => AnswerMatchesUnlessAbandoned
  BY DEF IInv
<1> QED
  BY <1>1, Invariance, PTL

\* While a call waits, its answer is somewhere between the FPGA and the flag,
\* abandoned calls or not.
THEOREM AnswersKept == Spec => []NoLostAnswer
<1>1. IInv => NoLostAnswer
  BY DEF IInv
<1> QED
  BY <1>1, Invariance, PTL

\* For every HZ, the elapsed time that a successful call reports is within the
\* timeout, if that is a whole number of jiffies and not none.
THEOREM ElapsedRight == Spec => []ElapsedWithinTimeout
<1>1. IInv => ElapsedWithinTimeout
  BY DEF IInv
<1> QED
  BY <1>1, Invariance, PTL

-----------------------------------------------------------------------------
(* StreamDevice                                                            *)

\* The place of each resource among the steps of probe.
LEMMA ProbeOrder ==
  /\ DOMAIN ProbeSteps = 1 .. 12 /\ Len(ProbeSteps) = 12
  /\ ProbeSteps[1] = "priv" /\ ProbeSteps[2] = "regs" /\ ProbeSteps[3] = "irq"
  /\ ProbeSteps[4] = "rx_sttb" /\ ProbeSteps[5] = "rx_trtb"
  /\ ProbeSteps[6] = "rx_streams" /\ ProbeSteps[7] = "rx_used_tracks"
  /\ ProbeSteps[8] = "tx_sttb" /\ ProbeSteps[9] = "tx_trtb"
  /\ ProbeSteps[10] = "tx_streams" /\ ProbeSteps[11] = "misc"
  /\ ProbeSteps[12] = "debugfs"
BY DEF ProbeSteps

\* What probe has acquired follows from how far it has come.
LEMMA HasByLength ==
  ASSUME AcquiredInOrder, NEW k \in 1 .. 12, NEW r, r = ProbeSteps[k],
         \A i \in 1 .. 12 : ProbeSteps[i] = r => i = k
  PROVE  Has(r) <=> Len(devres) >= k
<1>1. devres \in Seq(Range(ProbeSteps)) /\ Len(devres) \in Nat /\ Len(devres) <= 12
  BY ProbeOrder DEF AcquiredInOrder
<1>2. DOMAIN devres = 1 .. Len(devres)
  BY <1>1
<1>3. ASSUME Len(devres) >= k
      PROVE  Has(r)
  <2>1. k \in DOMAIN devres
    BY <1>1, <1>2, <1>3
  <2>2. devres[k] = r
    BY <1>2, <2>1 DEF AcquiredInOrder
  <2> QED
    BY <2>1, <2>2 DEF Has, Range
<1>4. ASSUME Has(r)
      PROVE  Len(devres) >= k
  <2>1. PICK i \in 1 .. Len(devres) : devres[i] = r
    BY <1>2, <1>4 DEF Has, Range
  <2>2. ProbeSteps[i] = r
    BY <2>1 DEF AcquiredInOrder
  <2>3. i \in 1 .. 12 /\ i <= Len(devres)
    BY <1>1, <2>1
  <2>4. i = k
    BY <2>2, <2>3
  <2> QED
    BY <2>3, <2>4
<1> QED
  BY <1>3, <1>4

\* Each resource is acquired in one place only.
LEMMA PlaceOf ==
  /\ \A i \in 1 .. 12 : ProbeSteps[i] = "priv" => i = 1
  /\ \A i \in 1 .. 12 : ProbeSteps[i] = "rx_streams" => i = 6
  /\ \A i \in 1 .. 12 : ProbeSteps[i] = "tx_streams" => i = 10
  /\ \A i \in 1 .. 12 : ProbeSteps[i] = "misc" => i = 11
<1>1. \A i \in 1 .. 12 : ProbeSteps[i] = "priv" => i = 1
  BY ProbeOrder
<1>2. \A i \in 1 .. 12 : ProbeSteps[i] = "rx_streams" => i = 6
  BY ProbeOrder
<1>3. \A i \in 1 .. 12 : ProbeSteps[i] = "tx_streams" => i = 10
  BY ProbeOrder
<1>4. \A i \in 1 .. 12 : ProbeSteps[i] = "misc" => i = 11
  BY ProbeOrder
<1> QED
  BY <1>1, <1>2, <1>3, <1>4

\* Where the lists of streams and the node stand.
WellPlaced ==
  /\ Len(devres) \in Nat /\ Len(devres) <= 12
  /\ devres = << >> <=> Len(devres) = 0
  /\ Has("rx_streams") <=> Len(devres) >= 6
  /\ Has("tx_streams") <=> Len(devres) >= 10
  /\ Has("misc") <=> Len(devres) >= 11

\* They follow from how far probe has come.
LEMMA Places == AcquiredInOrder => WellPlaced
<1> SUFFICES ASSUME AcquiredInOrder PROVE WellPlaced
  OBVIOUS
<1>1. devres \in Seq(Range(ProbeSteps)) /\ Len(devres) \in Nat /\ Len(devres) <= 12
  BY ProbeOrder DEF AcquiredInOrder
<1>2. devres = << >> <=> Len(devres) = 0
  BY <1>1
<1>3. 6 \in 1 .. 12 /\ 10 \in 1 .. 12 /\ 11 \in 1 .. 12
  OBVIOUS
<1>4. Has("rx_streams") <=> Len(devres) >= 6
  BY <1>3, HasByLength, ProbeOrder, PlaceOf
<1>5. Has("tx_streams") <=> Len(devres) >= 10
  BY <1>3, HasByLength, ProbeOrder, PlaceOf
<1>6. Has("misc") <=> Len(devres) >= 11
  BY <1>3, HasByLength, ProbeOrder, PlaceOf
<1> QED
  BY <1>1, <1>2, <1>4, <1>5, <1>6 DEF WellPlaced

\* A client finds what was acquired before the node.
LEMMA NodeIsLate ==
  ASSUME AcquiredInOrder, Has("misc"), NEW k \in 1 .. 11
  PROVE  Has(ProbeSteps[k])
<1>1. DOMAIN devres = 1 .. Len(devres) /\ Len(devres) \in Nat /\ Len(devres) >= 11
  BY Places DEF WellPlaced, AcquiredInOrder
<1>2. k \in DOMAIN devres /\ devres[k] = ProbeSteps[k]
  BY <1>1 DEF AcquiredInOrder
<1> QED
  BY <1>2 DEF Has, Range

-----------------------------------------------------------------------------
\* A device is unbound when its module is loaded.
LEMMA DevInitIInv == DevInit => DevIInv
<1> SUFFICES ASSUME DevInit PROVE DevIInv
  OBVIOUS
<1>1. AcquiredInOrder
  BY ProbeOrder DEF DevInit, AcquiredInOrder
<1>2. DevTypeOK
  BY DEF DevInit, DevTypeOK
<1> QED
  BY <1>1, <1>2 DEF DevInit, DevIInv, OpenFilesHaveDevice, StreamsHeld,
                    OnlyEarlyStreamsUnhashed

\* What the invariant says when no resource is acquired or released.
LEMMA SameDevres ==
  ASSUME AcquiredInOrder, UNCHANGED devres,
         phase' = "unbound" => devres = << >>,
         phase' = "bound" => Len(devres) = Len(ProbeSteps)
  PROVE  /\ AcquiredInOrder'
         /\ \A r : Has(r)' <=> Has(r)
BY DEF AcquiredInOrder, Has

\* ra_sd_probe begins, fails or ends, and unbinding begins or ends: only phase
\* changes, and the hash table when probe has ended.
LEMMA PhaseIInv ==
  ASSUME DevIInv, Probe \/ ProbeFails \/ ProbeEnds \/ Unbind \/ UnwindEnds
  PROVE  DevIInv'
<1> USE DEF DevIInv
<1>1. UNCHANGED <<devres, filp, streams>>
  BY DEF Probe, ProbeFails, ProbeEnds, Unbind, UnwindEnds
<1>2. /\ phase' = "unbound" => devres = << >>
      /\ phase' = "bound" => Len(devres) = Len(ProbeSteps)
  BY DEF Probe, ProbeFails, ProbeEnds, Unbind, UnwindEnds
<1>3. AcquiredInOrder' /\ \A r : Has(r)' <=> Has(r)
  BY <1>1, <1>2, SameDevres
<1>4. DevTypeOK'
  BY <1>1 DEF DevTypeOK, Probe, ProbeFails, ProbeEnds, Unbind, UnwindEnds
<1>5. phase = "unbound" => streams = {} /\ \A f \in File : filp[f] # "open"
  <2>1. ASSUME phase = "unbound", NEW f \in File
        PROVE  filp[f] # "open"
    BY <2>1 DEF AcquiredInOrder, OpenFilesHaveDevice
  <2> QED
    BY <2>1 DEF StreamsHeld, DevTypeOK, Stream
<1>6. OpenFilesHaveDevice'
  <2> SUFFICES ASSUME NEW f \in File, filp[f] = "open"
               PROVE  devres # << >> /\ (Running' => Has("misc"))
    BY <1>1, <1>3 DEF OpenFilesHaveDevice
  <2>1. phase # "unbound"
    BY <1>5
  <2>2. Running' => Running
    BY <2>1 DEF Running, Probe, ProbeFails, ProbeEnds, Unbind, UnwindEnds
  <2> QED
    BY <2>2 DEF OpenFilesHaveDevice
<1>7. StreamsHeld'
  <2> SUFFICES ASSUME NEW s \in streams, phase' = "probing"
               PROVE  s.early
    BY <1>1, <1>3 DEF StreamsHeld
  <2> QED
    BY <1>5 DEF Probe, ProbeFails, ProbeEnds, Unbind, UnwindEnds
<1>8. OnlyEarlyStreamsUnhashed'
  <2>1. CASE ProbeEnds
    BY <1>1, <2>1 DEF ProbeEnds, StreamsHeld, OnlyEarlyStreamsUnhashed
  <2>2. CASE ~ProbeEnds
    BY <1>1, <2>2 DEF Probe, ProbeFails, Unbind, UnwindEnds, OnlyEarlyStreamsUnhashed
  <2> QED
    BY <2>1, <2>2
<1> QED
  BY <1>3, <1>4, <1>6, <1>7, <1>8
\* Probe acquires one more resource.
LEMMA ProbeStepIInv ==
  ASSUME DevIInv, ProbeStep
  PROVE  DevIInv'
<1> USE DEF DevIInv
<1>0. PICK n \in Nat : n = Len(devres)
  BY Places DEF WellPlaced
<1> DEFINE x == ProbeSteps[n + 1]
<1>1. devres \in Seq(Range(ProbeSteps)) /\ n \in 0 .. 11 /\ x \in Range(ProbeSteps)
  <2>1. devres \in Seq(Range(ProbeSteps)) /\ n \in Nat /\ n < 12
    BY <1>0, ProbeOrder DEF ProbeStep, AcquiredInOrder
  <2>2. n + 1 \in DOMAIN ProbeSteps
    BY <2>1, ProbeOrder
  <2>3. x \in Range(ProbeSteps)
    BY <2>2 DEF Range
  <2>4. n \in 0 .. 11
    BY <2>1
  <2> QED
    BY <2>1, <2>3, <2>4
<1>2. devres' = Append(devres, x) /\ UNCHANGED <<phase, filp, streams, hashed>>
  BY <1>0 DEF ProbeStep
<1> HIDE DEF x
<1>3. /\ devres' \in Seq(Range(ProbeSteps)) /\ Len(devres') = n + 1
      /\ \A i \in 1 .. n : devres'[i] = devres[i]
      /\ devres'[n + 1] = x
  BY <1>0, <1>1, <1>2
<1>4. AcquiredInOrder'
  <2>1. \A i \in 1 .. n + 1 : i \in 1 .. n \/ i = n + 1
    BY <1>1
  <2>2. \A i \in 1 .. n + 1 : devres'[i] = ProbeSteps[i]
    BY <1>0, <1>3, <2>1 DEF AcquiredInOrder, x
  <2>3. phase' = "probing"
    BY DEF ProbeStep
  <2>4. Len(devres') = n + 1 /\ Len(devres') <= Len(ProbeSteps)
    BY <1>1, <1>3, ProbeOrder
  <2>5. \A i \in 1 .. Len(devres') : devres'[i] = ProbeSteps[i]
    BY <2>2, <2>4
  <2> QED
    BY <1>3, <2>3, <2>4, <2>5 DEF AcquiredInOrder
<1>5. \A r : Has(r) => Has(r)'
  <2>1. DOMAIN devres = 1 .. n /\ DOMAIN devres' = 1 .. n + 1
    BY <1>0, <1>1, <1>3
  <2>2. \A i \in 1 .. n : i \in 1 .. n + 1
    BY <1>1
  <2> QED
    BY <1>3, <2>1, <2>2 DEF Has, Range
<1>6. devres' # << >>
  BY <1>1, <1>3
<1> QED
  BY <1>2, <1>4, <1>5, <1>6
     DEF DevTypeOK, OpenFilesHaveDevice, StreamsHeld, OnlyEarlyStreamsUnhashed, Running

\* devres releases the resource acquired last, or stops in the BUG_ON of the
\* destructors.
LEMMA UnwindIInv ==
  ASSUME DevIInv, Unwind
  PROVE  DevIInv'
<1> USE DEF DevIInv
<1>0. PICK n \in Nat : n = Len(devres)
  BY Places DEF WellPlaced
<1>1. /\ devres \in Seq(Range(ProbeSteps)) /\ n \in 1 .. 12 /\ phase = "unwinding"
      /\ UNCHANGED <<streams, hashed>>
      /\ Last(devres) = ProbeSteps[n]
  <2>1. /\ devres \in Seq(Range(ProbeSteps)) /\ n \in Nat /\ n <= 12 /\ n # 0
        /\ phase = "unwinding" /\ UNCHANGED <<streams, hashed>>
    BY <1>0, Places DEF WellPlaced, Unwind, AcquiredInOrder
  <2>2. n \in 1 .. 12 /\ n \in 1 .. n
    BY <2>1
  <2>3. devres[n] = ProbeSteps[n]
    BY <1>0, <2>2 DEF AcquiredInOrder
  <2> QED
    BY <1>0, <2>1, <2>2, <2>3 DEF Last
<1>2. OnlyEarlyStreamsUnhashed'
  BY <1>1 DEF OnlyEarlyStreamsUnhashed
<1>3. CASE Destroys(Last(devres)) # {}
  <2>1. phase' = "BUG" /\ UNCHANGED <<devres, filp>>
    BY <1>3 DEF Unwind
  <2>2. AcquiredInOrder' /\ \A r : Has(r)' <=> Has(r)
    BY <2>1, SameDevres
  <2> QED
    BY <1>1, <1>2, <2>1, <2>2 DEF DevTypeOK, OpenFilesHaveDevice, StreamsHeld, Running
<1>4. CASE Destroys(Last(devres)) = {}
  <2>1. /\ devres' = SubSeq(devres, 1, n - 1) /\ phase' = "unwinding"
        /\ filp' = IF Last(devres) = "priv"
                   THEN [f \in File |-> IF filp[f] = "open" THEN "stale" ELSE filp[f]]
                   ELSE filp
    BY <1>0, <1>1, <1>4 DEF Unwind, Front
  <2>2. /\ devres' \in Seq(Range(ProbeSteps)) /\ Len(devres') = n - 1
        /\ \A i \in 1 .. n - 1 : devres'[i] = devres[i]
    <3>1. PICK m \in Nat : m = n - 1 /\ m <= n
      BY <1>1
    <3>2. /\ SubSeq(devres, 1, m) \in Seq(Range(ProbeSteps)) /\ Len(SubSeq(devres, 1, m)) = m
          /\ \A i \in 1 .. m : SubSeq(devres, 1, m)[i] = devres[i]
      BY <1>0, <1>1, <3>1
    <3> QED
      BY <2>1, <3>1, <3>2
  <2>3. AcquiredInOrder'
    <3>1. Len(devres') <= Len(ProbeSteps)
      BY <1>1, <2>2, ProbeOrder
    <3>2. \A i \in 1 .. Len(devres') : devres'[i] = ProbeSteps[i]
      <4>1. \A i \in 1 .. n - 1 : i \in 1 .. n
        BY <1>1
      <4> QED
        BY <1>0, <2>2, <4>1 DEF AcquiredInOrder
    <3> QED
      BY <2>1, <2>2, <3>1, <3>2 DEF AcquiredInOrder
  <2>4. DevTypeOK'
    BY <1>1, <2>1 DEF DevTypeOK
  <2>5. /\ devres' = << >> <=> n = 1
        /\ Has("rx_streams")' <=> n - 1 >= 6
        /\ Has("tx_streams")' <=> n - 1 >= 10
    <3>1. AcquiredInOrder' => WellPlaced'
      BY Places, PTL
    <3>2. WellPlaced' /\ Len(devres') = n - 1
      BY <2>2, <2>3, <3>1
    <3> QED
      BY <1>1, <3>2 DEF WellPlaced
  <2>6. /\ n = 1 <=> Last(devres) = "priv"
        /\ n = 6 <=> Last(devres) = "rx_streams"
        /\ n = 10 <=> Last(devres) = "tx_streams"
    BY <1>1, ProbeOrder, PlaceOf
  <2>7. OpenFilesHaveDevice'
    <3>1. CASE n = 1
      BY <2>1, <2>6, <3>1 DEF OpenFilesHaveDevice
    <3>2. CASE n # 1
      BY <2>1, <2>5, <2>6, <3>2 DEF OpenFilesHaveDevice, Running
    <3> QED
      BY <3>1, <3>2
  <2>8. StreamsHeld'
    <3> SUFFICES ASSUME NEW s \in streams
                 PROVE  /\ filp'[s.filp] = "open"
                        /\ Has(IF s.dir = "rx" THEN "rx_streams" ELSE "tx_streams")'
      BY <1>1, <2>1 DEF StreamsHeld
    <3>1. s.dir \in {"rx", "tx"} /\ s.filp \in File
      BY DEF DevTypeOK, Stream, Dir
    <3>2. IF s.dir = "rx" THEN n >= 6 ELSE n >= 10
      BY <1>0, <3>1, Places DEF WellPlaced, StreamsHeld
    <3>3. ~(n = 6 /\ s.dir = "rx") /\ ~(n = 10 /\ s.dir = "tx")
      BY <1>4, <2>6 DEF Destroys
    <3>4. filp'[s.filp] = "open"
      BY <2>1, <2>6, <3>2 DEF StreamsHeld
    <3>5. IF s.dir = "rx" THEN n - 1 >= 6 ELSE n - 1 >= 10
      <4>1. CASE s.dir = "rx"
        BY <1>1, <3>2, <3>3, <4>1
      <4>2. CASE s.dir = "tx"
        BY <1>1, <3>2, <3>3, <4>2
      <4> QED
        BY <3>1, <4>1, <4>2
    <3> QED
      BY <2>5, <3>1, <3>4, <3>5
  <2> QED
    BY <1>2, <2>3, <2>4, <2>7, <2>8
<1> QED
  BY <1>3, <1>4

\* A client opens the node, and adds or deletes a stream.
LEMMA ClientIInv ==
  ASSUME DevIInv, NEW f \in File,
         \/ Open(f)
         \/ \E dir \in Dir : AddStream(f, dir)
         \/ \E s \in streams : DeleteStream(s)
  PROVE  DevIInv'
<1> USE DEF DevIInv
<1>1. UNCHANGED <<phase, devres>>
  BY DEF Open, AddStream, DeleteStream
<1>2. AcquiredInOrder' /\ \A r : Has(r)' <=> Has(r)
  BY <1>1, SameDevres DEF AcquiredInOrder
<1>3. CASE Open(f)
  <2>1. /\ filp' = [filp EXCEPT ![f] = "open"] /\ UNCHANGED <<streams, hashed>>
        /\ Has("misc")
    BY <1>3 DEF Open
  <2>2. DevTypeOK'
    BY <1>1, <2>1 DEF DevTypeOK
  <2>3. devres # << >>
    BY <2>1, Places DEF WellPlaced
  <2>4. OpenFilesHaveDevice'
    BY <1>1, <1>2, <2>1, <2>3 DEF OpenFilesHaveDevice, DevTypeOK, Running
  <2>5. StreamsHeld'
    BY <1>1, <1>2, <2>1 DEF StreamsHeld, DevTypeOK, Stream
  <2> QED
    BY <1>2, <2>1, <2>2, <2>4, <2>5 DEF OnlyEarlyStreamsUnhashed
<1>4. ASSUME NEW dir \in Dir, AddStream(f, dir)
      PROVE  DevIInv'
  <2>1. PICK i \in 1 .. MaxStreams :
          LET s == [dir |-> dir, index |-> i, filp |-> f, early |-> phase = "probing"]
          IN /\ streams' = streams \cup {s}
             /\ hashed' = IF dir = "rx" THEN hashed \cup {s} ELSE hashed
    BY <1>4 DEF AddStream
  <2> DEFINE s == [dir |-> dir, index |-> i, filp |-> f, early |-> phase = "probing"]
  <2>2. /\ s \in Stream /\ s.dir = dir /\ s.filp = f /\ s.early = (phase = "probing")
    BY DEF Stream
  <2>3. /\ streams' = streams \cup {s}
        /\ hashed' = IF dir = "rx" THEN hashed \cup {s} ELSE hashed
        /\ UNCHANGED filp /\ filp[f] = "open" /\ Running
    BY <1>4, <2>1 DEF AddStream
  <2> HIDE DEF s
  <2>4. DevTypeOK'
    BY <1>1, <2>2, <2>3 DEF DevTypeOK
  <2>5. OpenFilesHaveDevice'
    BY <1>1, <1>2, <2>3 DEF OpenFilesHaveDevice, Running
  <2>6. Has("rx_streams") /\ Has("tx_streams")
    <3>1. Has("misc")
      BY <2>3 DEF OpenFilesHaveDevice
    <3> QED
      BY <3>1, Places DEF WellPlaced
  <2>7. StreamsHeld'
    BY <1>1, <1>2, <2>2, <2>3, <2>6 DEF StreamsHeld
  <2>8. OnlyEarlyStreamsUnhashed'
    BY <2>2, <2>3 DEF OnlyEarlyStreamsUnhashed
  <2> QED
    BY <1>2, <2>4, <2>5, <2>7, <2>8
<1>5. ASSUME NEW s \in streams, DeleteStream(s)
      PROVE  DevIInv'
  <2>1. /\ streams' = streams \ {s} /\ hashed' = hashed \ {s} /\ UNCHANGED filp
    BY <1>5 DEF DeleteStream
  <2> QED
    BY <1>1, <1>2, <2>1
       DEF DevTypeOK, OpenFilesHaveDevice, StreamsHeld, OnlyEarlyStreamsUnhashed, Running
<1> QED
  BY <1>3, <1>4, <1>5

\* ra_sd_release deletes the streams of the file in both directions.
LEMMA DevReleaseIInv ==
  ASSUME DevIInv, NEW f \in File, ra_sd_release(f)
  PROVE  DevIInv'
<1> USE DEF DevIInv
<1> DEFINE mine == {s \in streams : s.filp = f}
<1>1. /\ UNCHANGED <<phase, devres>> /\ filp' = [filp EXCEPT ![f] = "closed"]
      /\ streams' = streams \ mine /\ hashed' = hashed \ mine
  BY DEF ra_sd_release
<1>2. AcquiredInOrder' /\ \A r : Has(r)' <=> Has(r)
  BY <1>1, SameDevres DEF AcquiredInOrder
<1>3. DevTypeOK'
  BY <1>1 DEF DevTypeOK
<1>4. OpenFilesHaveDevice'
  BY <1>1, <1>2 DEF OpenFilesHaveDevice, DevTypeOK, Running
<1>5. StreamsHeld'
  BY <1>1, <1>2 DEF StreamsHeld, DevTypeOK, Stream
<1>6. OnlyEarlyStreamsUnhashed'
  BY <1>1 DEF OnlyEarlyStreamsUnhashed
<1> QED
  BY <1>2, <1>3, <1>4, <1>5, <1>6

\* Every step preserves the invariant.
LEMMA DevNextIInv == DevIInv /\ [DevNext]_devVars => DevIInv'
<1> SUFFICES ASSUME DevIInv, [DevNext]_devVars
             PROVE  DevIInv'
  OBVIOUS
<1>1. CASE UNCHANGED devVars
  BY <1>1 DEF devVars, DevIInv, DevTypeOK, AcquiredInOrder, OpenFilesHaveDevice, StreamsHeld,
              OnlyEarlyStreamsUnhashed, Has, Running
<1>2. ASSUME NEW s \in streams, DeleteStream(s)
      PROVE  DevIInv'
  <2>1. s.filp \in File
    BY DEF DevIInv, DevTypeOK, Stream
  <2> QED
    BY <1>2, <2>1, ClientIInv
<1> QED
  BY <1>1, <1>2, PhaseIInv, ProbeStepIInv, UnwindIInv, ClientIInv, DevReleaseIInv DEF DevNext

-----------------------------------------------------------------------------
\* For any number of files and streams, and wherever probe or unbinding is: what
\* was acquired is a prefix of what probe acquires, an open file has its device,
\* and every stream has an owner who can close it.
THEOREM DevInvariance == DevSpec => []DevIInv
BY DevInitIInv, DevNextIInv, PTL DEF DevSpec

\* A client that opens the node while ra_sd_probe is still running, or later,
\* finds the tables, lists and registers of both directions.
THEOREM ClientsFindTablesAlways == DevSpec => []ClientsFindTables
<1>1. DevIInv => ClientsFindTables
  <2> SUFFICES ASSUME DevIInv, Running, NEW f \in File, filp[f] = "open",
                      NEW r \in {"regs", "irq", "rx_sttb", "rx_trtb", "rx_streams",
                                 "rx_used_tracks", "tx_sttb", "tx_trtb", "tx_streams"}
               PROVE  Has(r)
    BY DEF ClientsFindTables
  <2>1. PICK k \in 1 .. 11 : r = ProbeSteps[k]
    BY ProbeOrder
  <2>2. AcquiredInOrder /\ Has("misc")
    BY DEF DevIInv, OpenFilesHaveDevice
  <2> QED
    BY <2>1, <2>2, NodeIsLate
<1> QED
  BY <1>1, DevInvariance, PTL

\* An RX stream that was added when probe had ended is in the hash table until it
\* is deleted, whoever else deletes streams, closes files or unbinds.
THEOREM OnlyEarlyStreamsUnhashedAlways == DevSpec => []OnlyEarlyStreamsUnhashed
<1>1. DevIInv => OnlyEarlyStreamsUnhashed
  BY DEF DevIInv
<1> QED
  BY <1>1, DevInvariance, PTL

\* The streams that ra_sd_rx_destroy_streams and ra_sd_tx_destroy_streams find
\* belong to clients that still have the device open, all of them.
THEOREM DestroyFindsOnlyHeldAlways == DevSpec => DestroyFindsOnlyHeld
<1>1. DevIInv =>
        [phase' = "BUG" /\ phase # "BUG" =>
           \A s \in Destroys(Last(devres)) : filp[s.filp] = "open"]_devVars
  BY DEF Destroys, DevIInv, StreamsHeld
<1> QED
  BY <1>1, DevInvariance, PTL DEF DevSpec, DestroyFindsOnlyHeld

-----------------------------------------------------------------------------
(* IrqMux                                                                  *)

\* The next pending line is one of the pending lines.
LEMMA MinIsPending ==
  ASSUME NEW S \in SUBSET Lines, S # {}
  PROVE  Min(S) \in S
<1> DEFINE R == OpToRel(<, Nat)
<1>1. S \subseteq Nat
  BY IrqMuxAssumption DEF Lines
<1>2. IsWellFoundedOn(R, Nat)
  BY NatLessThanWellFounded
<1>3. \A x, y \in Nat : y < x => <<y, x>> \in R
  BY DEF OpToRel
<1> HIDE DEF R
<1>4. PICK x \in S : \A y \in S : <<y, x>> \notin R
  BY <1>1, <1>2, WFMin
<1>5. \A y \in S : ~(y < x)
  BY <1>1, <1>3, <1>4
<1>6. \A y \in S : x <= y
  BY <1>1, <1>5
<1> QED
  BY <1>6 DEF Min

\* What an actor does that begins to change the mask: it has the descriptor of
\* the line and the lock, and a fresh copy of the register.
Reads(a, line, on, action) ==
  /\ lock = "none" /\ lock' = a
  /\ desc[line].lock = "none"
  /\ desc' = [desc EXCEPT ![line] =
                [action |-> action, masked |-> desc[line].masked, lock |-> a]]
  /\ rmw' = [rmw EXCEPT ![a] = [line |-> line, on |-> on, v |-> mask]]
  /\ UNCHANGED mask

\* What holds afterwards: all other locks are free, and only the one descriptor
\* has changed.
HasRead(a, line, on, action) ==
  /\ mask' = mask /\ lock' = a
  /\ \A b \in Actors : rmw'[b] = IF b = a THEN [line |-> line, on |-> on, v |-> mask]
                                 ELSE NoLine
  /\ \A l \in Lines :
       /\ desc'[l].action = IF l = line THEN action ELSE desc[l].action
       /\ desc'[l].masked = desc[l].masked
       /\ l # line => desc'[l].lock = desc[l].lock
       /\ desc[l].lock = "none"
  /\ desc'[line].lock = a
  /\ [line |-> line, on |-> on, v |-> mask] # NoLine
  /\ rmw' \in [Actors -> {NoLine} \cup [line : Lines, on : BOOLEAN, v : SUBSET Lines]]
  /\ desc' \in [Lines -> [action : BOOLEAN, masked : BOOLEAN, lock : Actors \cup {"none"}]]
  /\ LocksHeld'

\* The locks are taken together.
LEMMA ReadsLocks ==
  ASSUME MuxIInv, NEW a \in Actors, NEW line \in Lines, NEW on \in BOOLEAN,
         NEW action \in BOOLEAN, Reads(a, line, on, action)
  PROVE  HasRead(a, line, on, action)
<1> DEFINE new == [line |-> line, on |-> on, v |-> mask]
           d == [action |-> action, masked |-> desc[line].masked, lock |-> a]
<1>1. a # "none"
  BY IrqMuxAssumption DEF Actors
<1>2. new # NoLine /\ new.line = line
  <2>1. line # -1
    BY IrqMuxAssumption DEF Lines
  <2> QED
    BY <2>1 DEF NoLine
<1>3. \A b \in Actors : rmw[b] = NoLine
  <2>1. lock = "none" /\ "none" \notin Actors
    BY IrqMuxAssumption DEF Reads, Actors
  <2> QED
    BY <2>1 DEF MuxIInv, LocksHeld
<1>4. \A l \in Lines : desc[l].lock = "none"
  <2>1. \A l \in Lines : desc[l].lock \in Actors \cup {"none"}
    BY DEF MuxIInv, MuxTypeOK
  <2> QED
    BY <1>3, <2>1 DEF MuxIInv, LocksHeld
<1>5. d.action = action /\ d.masked = desc[line].masked /\ d.lock = a
  OBVIOUS
<1>6. d \in [action : BOOLEAN, masked : BOOLEAN, lock : Actors \cup {"none"}]
  BY DEF MuxIInv, MuxTypeOK
<1>7. new \in [line : Lines, on : BOOLEAN, v : SUBSET Lines]
  BY DEF MuxIInv, MuxTypeOK
<1> HIDE DEF new, d
<1>8. rmw' = [rmw EXCEPT ![a] = new] /\ desc' = [desc EXCEPT ![line] = d]
  BY DEF Reads, new, d
<1>9. /\ rmw' \in [Actors -> {NoLine} \cup [line : Lines, on : BOOLEAN, v : SUBSET Lines]]
      /\ desc' \in [Lines -> [action : BOOLEAN, masked : BOOLEAN,
                              lock : Actors \cup {"none"}]]
  BY <1>6, <1>7, <1>8 DEF MuxIInv, MuxTypeOK
<1>10. \A b \in Actors : rmw'[b] = IF b = a THEN new ELSE NoLine
  BY <1>3, <1>8 DEF MuxIInv, MuxTypeOK
<1>11. \A l \in Lines : desc'[l] = IF l = line THEN d ELSE desc[l]
  BY <1>8 DEF MuxIInv, MuxTypeOK
<1>12. lock' = a /\ mask' = mask /\ mask \subseteq Lines
  BY DEF Reads, MuxIInv, MuxTypeOK
<1>13. LocksHeld'
  BY <1>1, <1>2, <1>4, <1>5, <1>10, <1>11, <1>12 DEF LocksHeld
<1> QED
  BY <1>2, <1>4, <1>5, <1>9, <1>10, <1>11, <1>12, <1>13 DEF HasRead, new

\* The register and the descriptor change together, and the locks are free.
LEMMA WritesLocks ==
  ASSUME MuxIInv, NEW a \in Actors, WriteMask(a)
  PROVE  /\ rmw[a].line \in Lines /\ rmw[a].on \in BOOLEAN
         /\ desc[rmw[a].line].lock = a
         /\ lock' = "none"
         /\ mask' \subseteq Lines
         /\ rmw' \in [Actors -> {NoLine} \cup [line : Lines, on : BOOLEAN, v : SUBSET Lines]]
         /\ desc' \in [Lines -> [action : BOOLEAN, masked : BOOLEAN,
                                 lock : Actors \cup {"none"}]]
         /\ \A b \in Actors : rmw'[b] = NoLine
         /\ \A l \in Lines :
              /\ desc'[l].action = desc[l].action
              /\ desc'[l].masked = IF l = rmw[a].line THEN rmw[a].on ELSE desc[l].masked
              /\ desc'[l].lock = "none"
              /\ l # rmw[a].line => desc[l].lock = "none"
         /\ LocksHeld'
         /\ mask' = {l \in Lines : desc'[l].masked}
<1> DEFINE line == rmw[a].line
           on == rmw[a].on
           d == [action |-> desc[line].action, masked |-> on, lock |-> "none"]
<1>1. rmw[a] # NoLine /\ lock' = "none"
  BY DEF WriteMask
<1>2. line \in Lines /\ on \in BOOLEAN /\ rmw[a].v = {l \in Lines : desc[l].masked}
      /\ desc[line].lock = a
  BY <1>1 DEF MuxIInv, MuxTypeOK, WriteIsRight, LocksHeld
<1>3. \A b \in Actors : b # a => rmw[b] = NoLine
  BY <1>1 DEF MuxIInv, LocksHeld
<1>4. \A l \in Lines : l # line => desc[l].lock = "none"
  <2>1. \A l \in Lines : desc[l].lock \in Actors \cup {"none"}
    BY DEF MuxIInv, MuxTypeOK
  <2> QED
    BY <1>1, <1>3, <2>1 DEF MuxIInv, LocksHeld
<1>5. d \in [action : BOOLEAN, masked : BOOLEAN, lock : Actors \cup {"none"}]
      /\ d.action = desc[line].action /\ d.masked = on /\ d.lock = "none"
  BY <1>2 DEF MuxIInv, MuxTypeOK
<1>6. desc' = [desc EXCEPT ![line] = d]
  BY DEF WriteMask
<1>7. rmw' = [rmw EXCEPT ![a] = NoLine]
      /\ mask' = IF on THEN rmw[a].v \cup {line} ELSE rmw[a].v \ {line}
  BY DEF WriteMask
<1> HIDE DEF d, on, line
<1>8. desc' \in [Lines -> [action : BOOLEAN, masked : BOOLEAN,
                           lock : Actors \cup {"none"}]]
  BY <1>5, <1>6 DEF MuxIInv, MuxTypeOK
<1>9. \A l \in Lines : desc'[l] = IF l = line THEN d ELSE desc[l]
  BY <1>6 DEF MuxIInv, MuxTypeOK
<1>10. rmw' \in [Actors -> {NoLine} \cup [line : Lines, on : BOOLEAN, v : SUBSET Lines]]
       /\ \A b \in Actors : rmw'[b] = NoLine
  BY <1>3, <1>7 DEF MuxIInv, MuxTypeOK
<1>11. mask' = {l \in Lines : desc'[l].masked}
  BY <1>2, <1>5, <1>7, <1>9
<1>12. LocksHeld'
  <2>1. "none" \notin Actors
    BY IrqMuxAssumption DEF Actors
  <2> QED
    BY <1>1, <1>4, <1>5, <1>9, <1>10, <2>1 DEF LocksHeld
<1> QED
  BY <1>1, <1>2, <1>4, <1>5, <1>8, <1>9, <1>10, <1>11, <1>12 DEF line, on

-----------------------------------------------------------------------------
\* All lines are masked and nobody holds a lock at probe.
LEMMA MuxInitIInv == MuxInit => MuxIInv
<1> SUFFICES ASSUME MuxInit PROVE MuxIInv
  OBVIOUS
<1>1. "none" \notin Actors /\ "cpu" \in Actors
  BY IrqMuxAssumption DEF Actors
<1>2. \A line \in Lines : desc[line] = [action |-> FALSE, masked |-> TRUE, lock |-> "none"]
  BY DEF MuxInit
<1>3. desc \in [Lines -> [action : BOOLEAN, masked : BOOLEAN, lock : Actors \cup {"none"}]]
  BY DEF MuxInit
<1>4. MuxTypeOK
  BY <1>3 DEF MuxInit, MuxTypeOK
<1>5. \A line \in Lines : desc[line].masked /\ ~desc[line].action /\ desc[line].lock = "none"
  BY <1>2
<1>6. mask = {line \in Lines : desc[line].masked}
  BY <1>5 DEF MuxInit
<1>7. MaskAgrees
  BY <1>5, <1>6 DEF MaskAgrees
<1>8. LocksHeld
  BY <1>1, <1>5 DEF MuxInit, LocksHeld
<1>9. WriteIsRight
  BY <1>1, <1>6 DEF MuxInit, WriteIsRight, Actors
<1> QED
  BY <1>4, <1>7, <1>8, <1>9 DEF MuxIInv

\* The two ways in which the chained handler takes the locks.
LEMMA CpuReads ==
  ASSUME MuxIInv, NEW line \in Lines, NEW on \in BOOLEAN,
         LockDesc("cpu", line), ReadMask("cpu", line, on), UNCHANGED mask
  PROVE  Reads("cpu", line, on, desc[line].action) /\ desc[line].action \in BOOLEAN
<1>1. desc[line] \in [action : BOOLEAN, masked : BOOLEAN, lock : Actors \cup {"none"}]
  BY DEF MuxIInv, MuxTypeOK
<1>2. [desc[line] EXCEPT !.lock = "cpu"]
      = [action |-> desc[line].action, masked |-> desc[line].masked, lock |-> "cpu"]
  BY <1>1
<1>3. desc' = [desc EXCEPT ![line] = [desc[line] EXCEPT !.lock = "cpu"]]
  BY DEF LockDesc
<1> QED
  BY <1>1, <1>2, <1>3 DEF LockDesc, ReadMask, Reads

\* The chained handler begins to mask a pending line.
LEMMA HandleMaskIInv == ASSUME MuxIInv, HandleMask PROVE MuxIInv'
<1> DEFINE line == Min(cpu.pending)
           new == [line |-> line, on |-> TRUE, v |-> mask]
<1>1. line \in Lines /\ cpu.pending \ {line} \subseteq Lines
  BY MinIsPending DEF MuxIInv, MuxTypeOK, HandleMask
<1>2. /\ "cpu" \in Actors /\ "none" \notin Actors
      /\ "cpu" \notin Drivers /\ Drivers \subseteq Actors
  BY IrqMuxAssumption DEF Actors
<1> HIDE DEF line
<1>3. /\ cpu.at = "next" /\ requests' = requests
      /\ cpu' = [at |-> "mask", pending |-> cpu.pending \ {line}, line |-> line]
  BY DEF HandleMask, line
<1>4. Reads("cpu", line, TRUE, desc[line].action) /\ desc[line].action \in BOOLEAN
  BY <1>1, CpuReads DEF HandleMask, line
<1>5. HasRead("cpu", line, TRUE, desc[line].action)
  BY <1>1, <1>2, <1>3, <1>4, ReadsLocks
<1>6. /\ LocksHeld' /\ lock' = "cpu" /\ mask' = mask
      /\ \A b \in Actors : rmw'[b] = IF b = "cpu" THEN new ELSE NoLine
      /\ \A l \in Lines : /\ desc'[l].action = desc[l].action
                          /\ desc'[l].masked = desc[l].masked
                          /\ l # line => desc'[l].lock = desc[l].lock
                          /\ desc[l].lock = "none"
      /\ desc'[line].lock = "cpu" /\ new # NoLine
  BY <1>5 DEF HasRead
<1>7. MuxTypeOK'
  BY <1>1, <1>2, <1>3, <1>4, <1>5 DEF HasRead, MuxIInv, MuxTypeOK
<1>8. new.line = line /\ new.on = TRUE /\ new.v = mask
  OBVIOUS
<1> HIDE DEF new
<1>9. mask' = {l \in Lines : desc'[l].masked}
  BY <1>6 DEF MuxIInv, WriteIsRight
<1>10. MaskAgrees'
  BY <1>2, <1>3, <1>6 DEF MuxIInv, MaskAgrees, InService
<1>11. WriteIsRight'
  BY <1>2, <1>1, <1>3, <1>6, <1>8, <1>9 DEF WriteIsRight
<1> QED
  BY <1>6, <1>7, <1>10, <1>11 DEF MuxIInv

\* The chained handler begins to unmask the line it has served.
LEMMA HandleUnmaskIInv == ASSUME MuxIInv, HandleUnmask PROVE MuxIInv'
<1> DEFINE line == cpu.line
           new == [line |-> line, on |-> FALSE, v |-> mask]
<1>1. line \in Lines /\ cpu.at = "served" /\ requests' = requests /\ desc[line].action
  BY DEF MuxIInv, MuxTypeOK, HandleUnmask
<1>2. /\ "cpu" \in Actors /\ "none" \notin Actors
      /\ "cpu" \notin Drivers /\ Drivers \subseteq Actors
  BY IrqMuxAssumption DEF Actors
<1>3. /\ cpu'.at = "unmask" /\ cpu'.line = line
      /\ cpu' \in [at : {"idle", "next", "mask", "serve", "served", "unmask"},
                   pending : SUBSET Lines, line : Lines \cup {-1}]
  BY DEF HandleUnmask, GoTo, MuxIInv, MuxTypeOK
<1>4. Reads("cpu", line, FALSE, desc[line].action) /\ desc[line].action \in BOOLEAN
  BY <1>1, CpuReads DEF HandleUnmask
<1> HIDE DEF line
<1>5. HasRead("cpu", line, FALSE, desc[line].action)
  BY <1>1, <1>2, <1>3, <1>4, ReadsLocks
<1>6. /\ LocksHeld' /\ lock' = "cpu" /\ mask' = mask
      /\ \A b \in Actors : rmw'[b] = IF b = "cpu" THEN new ELSE NoLine
      /\ \A l \in Lines : /\ desc'[l].action = desc[l].action
                          /\ desc'[l].masked = desc[l].masked
                          /\ l # line => desc'[l].lock = desc[l].lock
                          /\ desc[l].lock = "none"
      /\ desc'[line].lock = "cpu" /\ new # NoLine
  BY <1>5 DEF HasRead
<1>7. MuxTypeOK'
  BY <1>1, <1>2, <1>3, <1>4, <1>5 DEF HasRead, MuxIInv, MuxTypeOK
<1>8. new.line = line /\ new.on = FALSE /\ new.v = mask
  OBVIOUS
<1> HIDE DEF new
<1>9. mask' = {l \in Lines : desc'[l].masked}
  BY <1>6 DEF MuxIInv, WriteIsRight
<1>10. MaskAgrees'
  BY <1>2, <1>3, <1>6 DEF MuxIInv, MaskAgrees, InService, line
<1>11. WriteIsRight'
  BY <1>2, <1>1, <1>3, <1>6, <1>8, <1>9 DEF WriteIsRight
<1> QED
  BY <1>6, <1>7, <1>10, <1>11 DEF MuxIInv

\* A driver begins to request or free a line.
LEMMA RequestIInv ==
  ASSUME MuxIInv, NEW dr \in Drivers, RequestOrFree(dr)
  PROVE  MuxIInv'
<1>1. PICK line \in Lines :
        /\ desc[line].lock = "none"
        /\ desc' = [desc EXCEPT ![line] =
                      [action |-> ~@.action, masked |-> @.masked, lock |-> dr]]
        /\ ReadMask(dr, line, desc[line].action)
  BY DEF RequestOrFree
<1> DEFINE on == desc[line].action
           action == ~desc[line].action
           new == [line |-> line, on |-> on, v |-> mask]
<1>2. /\ "cpu" \in Actors /\ "none" \notin Actors
      /\ "cpu" \notin Drivers /\ Drivers \subseteq Actors
  BY IrqMuxAssumption DEF Actors
<1>3. /\ requests' = requests /\ cpu' = cpu
      /\ on \in BOOLEAN /\ action \in BOOLEAN /\ on = ~action
  BY DEF RequestOrFree, MuxIInv, MuxTypeOK
<1>4. Reads(dr, line, on, action)
  BY <1>1 DEF Reads, ReadMask, RequestOrFree
<1> HIDE DEF on, action
<1>5. HasRead(dr, line, on, action)
  BY <1>2, <1>3, <1>4, ReadsLocks
<1>6. /\ LocksHeld' /\ lock' = dr /\ mask' = mask
      /\ \A b \in Actors : rmw'[b] = IF b = dr THEN new ELSE NoLine
      /\ \A l \in Lines : /\ desc'[l].action = IF l = line THEN action ELSE desc[l].action
                          /\ desc'[l].masked = desc[l].masked
                          /\ l # line => desc'[l].lock = desc[l].lock
                          /\ desc[l].lock = "none"
      /\ desc'[line].lock = dr /\ new # NoLine
  BY <1>5 DEF HasRead
<1>7. MuxTypeOK'
  BY <1>2, <1>3, <1>4, <1>5 DEF HasRead, MuxIInv, MuxTypeOK
<1>8. new.line = line /\ new.on = on /\ new.v = mask
  OBVIOUS
<1> HIDE DEF new
<1>9. mask' = {l \in Lines : desc'[l].masked}
  BY <1>6 DEF MuxIInv, WriteIsRight
<1>10. MaskAgrees'
  BY <1>2, <1>3, <1>6 DEF MuxIInv, MaskAgrees, InService
<1>11. WriteIsRight'
  <2>1. rmw["cpu"] = NoLine /\ cpu.at \notin {"mask", "unmask"}
    BY <1>2, <1>4 DEF Reads, MuxIInv, LocksHeld, WriteIsRight
  <2>2. \A d \in Drivers : rmw'[d] # NoLine => rmw'[d].on = ~desc'[rmw'[d].line].action
    BY <1>2, <1>3, <1>6, <1>8
  <2>3. \A a \in Actors : rmw'[a] # NoLine => rmw'[a].v = mask'
    BY <1>6, <1>8
  <2>4. rmw'["cpu"] = NoLine
    BY <1>2, <1>6
  <2> QED
    BY <1>3, <1>9, <2>1, <2>2, <2>3, <2>4 DEF WriteIsRight
<1> QED
  BY <1>6, <1>7, <1>10, <1>11 DEF MuxIInv

-----------------------------------------------------------------------------
\* The chained handler has masked the line, or unmasked it again.
LEMMA HandleWritesIInv == ASSUME MuxIInv, HandleMasked \/ HandleUnmasked PROVE MuxIInv'
<1>1. /\ cpu.at \in {"mask", "unmask"} /\ WriteMask("cpu") /\ requests' = requests
      /\ cpu' = [cpu EXCEPT !.at = IF cpu.at = "mask" /\ desc[cpu.line].action
                                     THEN "serve" ELSE "next"]
  BY DEF HandleMasked, HandleUnmasked, GoTo
<1>2. "cpu" \in Actors /\ Drivers \subseteq Actors
  BY DEF Actors
<1>3. /\ rmw["cpu"].line = cpu.line /\ rmw["cpu"].on = (cpu.at = "mask")
      /\ cpu.line \in Lines /\ cpu.at = "unmask" => desc[cpu.line].action
  BY <1>1 DEF MuxIInv, MuxTypeOK, WriteIsRight
<1>4. /\ cpu'.line = cpu.line
      /\ cpu'.at = IF cpu.at = "mask" /\ desc[cpu.line].action THEN "serve" ELSE "next"
      /\ cpu' \in [at : {"idle", "next", "mask", "serve", "served", "unmask"},
                   pending : SUBSET Lines, line : Lines \cup {-1}]
  BY <1>1 DEF MuxIInv, MuxTypeOK
<1>5. /\ lock' = "none" /\ LocksHeld' /\ mask' = {l \in Lines : desc'[l].masked}
      /\ \A b \in Actors : rmw'[b] = NoLine
      /\ \A l \in Lines :
           /\ desc'[l].action = desc[l].action
           /\ desc'[l].masked = IF l = cpu.line THEN cpu.at = "mask" ELSE desc[l].masked
           /\ l # cpu.line => desc[l].lock = "none"
  BY <1>1, <1>2, <1>3, WritesLocks
<1>6. MuxTypeOK'
  BY <1>1, <1>2, <1>3, <1>4, WritesLocks DEF MuxIInv, MuxTypeOK
<1>7. MaskAgrees'
  <2>1. ASSUME NEW l \in Lines
        PROVE  /\ ~desc'[l].action => desc'[l].masked
               /\ desc'[l].action /\ desc'[l].masked => InService(l)'
    <3>1. CASE l = cpu.line
      BY <1>1, <1>3, <1>4, <1>5, <3>1 DEF InService
    <3>2. CASE l # cpu.line
      BY <1>1, <1>5, <3>2 DEF MuxIInv, MaskAgrees, InService
    <3> QED
      BY <3>1, <3>2
  <2> QED
    BY <1>5, <2>1 DEF MaskAgrees
<1>8. WriteIsRight'
  BY <1>2, <1>4, <1>5 DEF WriteIsRight
<1> QED
  BY <1>5, <1>6, <1>7, <1>8 DEF MuxIInv

\* A driver has requested or freed a line.
LEMMA RequestEndIInv ==
  ASSUME MuxIInv, NEW dr \in Drivers, RequestEnd(dr)
  PROVE  MuxIInv'
<1> DEFINE line == rmw[dr].line
<1>1. WriteMask(dr) /\ requests' = requests /\ cpu' = cpu
  BY DEF RequestEnd
<1>2. "cpu" \in Actors /\ Drivers \subseteq Actors /\ dr # "cpu"
  BY IrqMuxAssumption DEF Actors
<1>3. rmw[dr] # NoLine /\ rmw[dr].on = ~desc[line].action /\ rmw["cpu"] = NoLine
  BY <1>1, <1>2 DEF WriteMask, MuxIInv, WriteIsRight, LocksHeld
<1>4. /\ lock' = "none" /\ LocksHeld' /\ mask' = {l \in Lines : desc'[l].masked}
      /\ \A b \in Actors : rmw'[b] = NoLine
      /\ \A l \in Lines :
           /\ desc'[l].action = desc[l].action
           /\ desc'[l].masked = IF l = line THEN ~desc[line].action ELSE desc[l].masked
           /\ l # line => desc[l].lock = "none"
  BY <1>1, <1>2, <1>3, WritesLocks
<1>5. MuxTypeOK'
  BY <1>1, <1>2, WritesLocks DEF MuxIInv, MuxTypeOK
<1>6. MaskAgrees'
  BY <1>1, <1>4 DEF MuxIInv, MaskAgrees, InService
<1>7. WriteIsRight'
  BY <1>1, <1>2, <1>3, <1>4 DEF MuxIInv, WriteIsRight
<1> QED
  BY <1>4, <1>5, <1>6, <1>7 DEF MuxIInv

\* The steps that change neither the register nor a descriptor.
LEMMA OtherIInv ==
  ASSUME MuxIInv, Trigger \/ Serve \/ HandleFreed \/ HandleEnd \/ Raise
  PROVE  MuxIInv'
<1> USE DEF MuxIInv, LocksHeld, WriteIsRight, MaskAgrees, InService, GoTo
<1>1. UNCHANGED <<mask, lock, rmw, desc>>
  BY DEF Trigger, Serve, HandleFreed, HandleEnd, Raise
<1>2. CASE Trigger
  BY <1>1, <1>2 DEF Trigger, MuxTypeOK
<1>3. CASE Serve
  BY <1>1, <1>3 DEF Serve, MuxTypeOK
<1>4. CASE HandleFreed
  BY <1>1, <1>4 DEF HandleFreed, MuxTypeOK
<1>5. CASE HandleEnd
  BY <1>1, <1>5 DEF HandleEnd, MuxTypeOK
<1>6. CASE Raise
  BY <1>1, <1>6 DEF Raise, MuxTypeOK
<1> QED
  BY <1>2, <1>3, <1>4, <1>5, <1>6

\* Every step preserves the invariant.
LEMMA MuxNextIInv == MuxIInv /\ [MuxNext]_muxVars => MuxIInv'
<1> SUFFICES ASSUME MuxIInv, [MuxNext]_muxVars
             PROVE  MuxIInv'
  OBVIOUS
<1>1. CASE Handler
  BY <1>1, HandleMaskIInv, HandleUnmaskIInv, HandleWritesIInv, OtherIInv DEF Handler
<1>2. CASE Raise
  BY <1>2, OtherIInv
<1>3. CASE \E d \in Drivers : RequestOrFree(d) \/ RequestEnd(d)
  BY <1>3, RequestIInv, RequestEndIInv
<1>4. CASE UNCHANGED muxVars
  BY <1>4 DEF muxVars, MuxIInv, MuxTypeOK, LocksHeld, WriteIsRight, MaskAgrees, InService
<1> QED
  BY <1>1, <1>2, <1>3, <1>4 DEF MuxNext

\* priv->lock and the locks of the descriptors keep every read, change and write
\* of the mask register whole, for any number of lines and drivers.
THEOREM MuxInvariance == MuxSpec => []MuxIInv
BY MuxInitIInv, MuxNextIInv, PTL DEF MuxSpec

\* The mask register is what the kernel believes it to be, and a line that has a
\* handler is masked only while the chained handler is at it.
THEOREM MaskAlwaysAgrees == MuxSpec => []MaskAgrees
<1>1. MuxIInv => MaskAgrees
  BY DEF MuxIInv
<1> QED
  BY <1>1, MuxInvariance, PTL

=============================================================================
