-------------------------------- MODULE Rtcp --------------------------------
(***************************************************************************)
(* Reading RTCP statistics of a stream (modules/stream-device/rtcp.c): a   *)
(* client selects a page in the FPGA and sleeps until the interrupt        *)
(* handler has fetched it, or until a timeout or a signal.  RX and TX have *)
(* the same code on separate state; this is either of them.  Time is in    *)
(* jiffies.  The answer of the FPGA is two words of data, so that a mix of *)
(* two answers can be told from an answer.                                 *)
(***************************************************************************)
EXTENDS Integers, StreamTypes

CONSTANTS
  Proc,        \* client threads
  Page,        \* stream indices, up to 127
  Timeout,     \* values of cmd.timeout_ms
  MsPerJiffy,  \* 1000 / HZ
  U32,         \* 2^32, the modulus of cmd.timeout_ms
  None         \* no page, no process

ETIMEDOUT == 110
ERESTARTSYS == 512

ASSUME RtcpAssumption ==
  /\ None \notin Page \cup Proc
  /\ MsPerJiffy \in Nat \ {0}
  /\ U32 \in Nat \ {0}
  /\ Timeout \subseteq 0 .. (U32 \div 2) - 1

VARIABLES
  pc,         \* where each client is in ra_sd_read_rtcp_*_stat_ioctl
  cmd,        \* its argument, and on return its result
  left,       \* what is left of its timeout, in jiffies
  mutex,      \* holder of priv->rtcp_*.mutex
  ready,      \* priv->rtcp_*.ready
  data,       \* priv->rtcp_*.data
  request,    \* FPGA: page that was selected and is being collected
  regs,       \* FPGA: page in the data registers
  irq,        \* FPGA: the interrupt is pending
  handler,    \* where ra_sd_rtcp_*_irq is
  abandoned   \* a call has ended before its answer came

vars == <<pc, cmd, left, mutex, ready, data, request, regs, irq, handler, abandoned>>

fpga == <<request, regs, irq>>
shared == <<mutex, ready, data, request, regs, irq, handler, abandoned>>

\* Rounds up.  A timeout that is negative as an int, which means to wait without
\* one, is not among the values of Timeout.
msecs_to_jiffies(ms) == (ms + MsPerJiffy - 1) \div MsPerJiffy
jiffies_to_msecs(j) == j * MsPerJiffy

Command(index, ms) ==
  [index |-> index, timeout_ms |-> ms, elapsed |-> 0, data |-> <<None, None>>, ret |-> 0]

NoCmd == Command(None, 0)

Init ==
  /\ pc = [p \in Proc |-> "idle"]
  /\ cmd = [p \in Proc |-> NoCmd]
  /\ left = [p \in Proc |-> 0]
  /\ mutex = None
  /\ ready = FALSE
  /\ data = <<None, None>>
  /\ request = None
  /\ regs = None
  /\ irq = FALSE
  /\ handler = "idle"
  /\ abandoned = FALSE

-----------------------------------------------------------------------------
(* The ioctl.                                                              *)

Goto(p, label) == pc' = [pc EXCEPT ![p] = label]

Call(p, index, ms) ==
  /\ pc[p] = "idle"
  /\ cmd' = [cmd EXCEPT ![p] = Command(index, ms)]
  /\ Goto(p, "lock")
  /\ UNCHANGED <<left, shared>>

\* A command of the wrong size, one that cannot be read, or an index above 127.
CallRefused(p, err) ==
  /\ pc[p] = "idle"
  /\ cmd' = [cmd EXCEPT ![p] = [NoCmd EXCEPT !.ret = -err]]
  /\ UNCHANGED <<pc, left, shared>>

Lock(p) ==
  /\ pc[p] = "lock"
  /\ mutex = None
  /\ mutex' = p
  /\ Goto(p, "reset")
  /\ UNCHANGED <<cmd, left, ready, data, fpga, handler, abandoned>>

\* Mutant: the flag of an earlier call stays set.
ResetNothing(p) ==
  /\ pc[p] = "reset"
  /\ Goto(p, "select")
  /\ UNCHANGED <<cmd, left, shared>>

Reset(p) ==
  /\ pc[p] = "reset"
  /\ ready' = FALSE
  /\ Goto(p, "select")
  /\ UNCHANGED <<cmd, left, mutex, data, fpga, handler, abandoned>>

\* Mutant: does not select the page that is in the registers already.
SelectUnlessSame(p) ==
  /\ pc[p] = "select"
  /\ request' = IF regs = cmd[p].index THEN request ELSE cmd[p].index
  /\ left' = [left EXCEPT ![p] = msecs_to_jiffies(cmd[p].timeout_ms)]
  /\ Goto(p, "wait")
  /\ UNCHANGED <<cmd, mutex, ready, data, regs, irq, handler, abandoned>>

Select(p) ==
  /\ pc[p] = "select"
  /\ request' = cmd[p].index
  /\ left' = [left EXCEPT ![p] = msecs_to_jiffies(cmd[p].timeout_ms)]
  /\ Goto(p, "wait")
  /\ UNCHANGED <<cmd, mutex, ready, data, regs, irq, handler, abandoned>>

\* Mutant: waits without a timeout.
TickNever(p) ==
  /\ pc[p] = "wait"
  /\ UNCHANGED vars

\* The clock, while somebody waits.
Tick(p) ==
  /\ pc[p] = "wait"
  /\ left[p] > 0
  /\ left' = [left EXCEPT ![p] = @ - 1]
  /\ UNCHANGED <<pc, cmd, shared>>

\* Mutant: subtracts the other way round.
WokenSwapped(p) ==
  /\ pc[p] = "wait"
  /\ ready
  /\ cmd' = [cmd EXCEPT ![p].elapsed =
               (jiffies_to_msecs(left[p]) - cmd[p].timeout_ms) % U32]
  /\ Goto(p, "parse1")
  /\ left' = [left EXCEPT ![p] = 0]
  /\ UNCHANGED shared

\* wait_event_interruptible_timeout returns the jiffies left, at least 1.
Woken(p) ==
  /\ pc[p] = "wait"
  /\ ready
  /\ LET ret == IF left[p] = 0 THEN 1 ELSE left[p] IN
     cmd' = [cmd EXCEPT ![p].elapsed =
               (cmd[p].timeout_ms - jiffies_to_msecs(ret)) % U32]
  /\ Goto(p, "parse1")
  /\ left' = [left EXCEPT ![p] = 0]
  /\ UNCHANGED shared

\* The wait ends without an answer.
GiveUp(p, err) ==
  /\ pc[p] = "wait"
  /\ ~ready
  /\ cmd' = [cmd EXCEPT ![p] = [NoCmd EXCEPT !.ret = -err]]
  /\ left' = [left EXCEPT ![p] = 0]
  /\ mutex' = None
  /\ abandoned' = TRUE
  /\ Goto(p, "idle")
  /\ UNCHANGED <<ready, data, fpga, handler>>

TimedOut(p) == left[p] = 0 /\ GiveUp(p, ETIMEDOUT)

\* A signal; wait_event looks for it after the condition and the timeout.
Interrupted(p) == left[p] > 0 /\ GiveUp(p, ERESTARTSYS)

\* ra_sd_parse_rtcp_*_data reads the copy that the interrupt handler made.
Parse1(p) ==
  /\ pc[p] = "parse1"
  /\ cmd' = [cmd EXCEPT ![p].data = <<data[1], @[2]>>]
  /\ Goto(p, "parse2")
  /\ UNCHANGED <<left, shared>>

\* ra_sd_parse_rtcp_*_data ends; copy_to_user may fail.
Parse2(p) ==
  /\ pc[p] = "parse2"
  /\ \/ cmd' = [cmd EXCEPT ![p].data = <<@[1], data[2]>>]
     \/ cmd' = [cmd EXCEPT ![p] = [NoCmd EXCEPT !.ret = -EFAULT]]
  /\ mutex' = None
  /\ Goto(p, "idle")
  /\ UNCHANGED <<left, ready, data, fpga, handler, abandoned>>

-----------------------------------------------------------------------------
(* The interrupt handler, and the FPGA (external): it collects the page    *)
(* selected last, puts it into the data registers and interrupts.          *)

PageDone ==
  /\ request # None
  /\ regs' = request
  /\ irq' = TRUE
  /\ request' = None
  /\ UNCHANGED <<pc, cmd, left, mutex, ready, data, handler, abandoned>>

\* ra_sd_irqhandler: reading RA_SD_IRQ_REQUEST acknowledges.
IrqEnter ==
  /\ handler = "idle"
  /\ irq
  /\ irq' = FALSE
  /\ handler' = "read1"
  /\ UNCHANGED <<pc, cmd, left, mutex, ready, data, request, regs, abandoned>>

IrqRead1 ==
  /\ handler = "read1"
  /\ data' = <<regs, data[2]>>
  /\ handler' = "read2"
  /\ UNCHANGED <<pc, cmd, left, mutex, ready, fpga, abandoned>>

IrqRead2 ==
  /\ handler = "read2"
  /\ data' = <<data[1], regs>>
  /\ handler' = "ready"
  /\ UNCHANGED <<pc, cmd, left, mutex, ready, fpga, abandoned>>

IrqReady ==
  /\ handler = "ready"
  /\ ready' = TRUE
  /\ handler' = "idle"
  /\ UNCHANGED <<pc, cmd, left, mutex, data, fpga, abandoned>>

Irq == IrqEnter \/ IrqRead1 \/ IrqRead2 \/ IrqReady

Step(p) ==
  Reset(p) \/ Select(p) \/ Tick(p) \/ Woken(p) \/ TimedOut(p) \/ Parse1(p) \/ Parse2(p)

Next ==
  \/ \E p \in Proc :
       \/ \E index \in Page, ms \in Timeout : Call(p, index, ms)
       \/ \E err \in {EINVAL, EFAULT} : CallRefused(p, err)
       \/ Lock(p)
       \/ Interrupted(p)
       \/ Step(p)
  \/ PageDone
  \/ Irq

\* A running thread makes progress, the clock ticks, and the kernel's mutex
\* hands over to a waiter.  Nothing is assumed of the FPGA or of signals.
Fairness == \A p \in Proc : WF_vars(Step(p)) /\ SF_vars(Lock(p))

Spec == Init /\ [][Next]_vars /\ Fairness

-----------------------------------------------------------------------------
(* Properties                                                              *)

Word == Page \cup {None}

Cmd == [index : Word, timeout_ms : Timeout \cup {0}, elapsed : Nat,
        data : Word \X Word, ret : Int]

Locked == {"reset", "select", "wait", "parse1", "parse2"}

TypeOK ==
  /\ pc \in [Proc -> {"idle", "lock"} \cup Locked]
  /\ cmd \in [Proc -> Cmd]
  /\ left \in [Proc -> Nat]
  /\ mutex \in Proc \cup {None}
  /\ data \in Word \X Word /\ request \in Word /\ regs \in Word
  /\ handler \in {"idle", "read1", "read2", "ready"}
  /\ ready \in BOOLEAN /\ irq \in BOOLEAN /\ abandoned \in BOOLEAN

Succeeded(p) == pc[p] = "idle" /\ cmd[p].index # None /\ cmd[p].ret = 0

Answer(index) == <<index, index>>

\* A successful call returns the statistics of the stream it was asked for.
AnswerMatches == \A p \in Proc : Succeeded(p) => cmd[p].data = Answer(cmd[p].index)

\* As long as no call has timed out or was interrupted, the flag, the mutex and
\* the order of the handler's steps make every successful call return the
\* statistics it was asked for, never those of another call or a mix.
AnswerMatchesUnlessAbandoned == ~abandoned => AnswerMatches

\* The answer to a waiting call is never lost: it is set ready, or being fetched
\* by the interrupt handler, or about to interrupt, or still being collected.
NoLostAnswer ==
  \A p \in Proc :
    pc[p] = "wait" => ready \/ handler # "idle" \/ irq \/ request # None

\* A timeout that msecs_to_jiffies need not round up, and that is not none.
WholeJiffies(ms) == ms > 0 /\ ms % MsPerJiffy = 0

ElapsedIsRight(c) == WholeJiffies(c.timeout_ms) => c.elapsed <= c.timeout_ms

\* A successful call with a timeout of whole jiffies reports no more than that
\* timeout as the time it took, also if the answer came with the last jiffy or
\* with the timeout itself.
ElapsedWithinTimeout == \A p \in Proc : Succeeded(p) => ElapsedIsRight(cmd[p])

\* "Report elapsed time back to userspace" (rtcp.c), whatever the timeout.  One
\* that is 0, or no whole number of jiffies, is rounded up for the wait; an answer
\* within the first jiffy finds more time left than was asked for, and the
\* subtraction wraps.
ReportsElapsed ==
  \A p \in Proc : Succeeded(p) => cmd[p].elapsed <= cmd[p].timeout_ms

\* What a call carries from one step to the next: the mutex excludes the others,
\* and the clock only takes away from the timeout.
CallsInOrder ==
  \A p \in Proc :
    /\ pc[p] \in Locked <=> mutex = p
    /\ pc[p] # "idle" => cmd[p].index \in Page /\ cmd[p].timeout_ms \in Timeout
    /\ pc[p] = "wait" => left[p] <= msecs_to_jiffies(cmd[p].timeout_ms)
    /\ pc[p] \in {"parse1", "parse2"} => ElapsedIsRight(cmd[p])

Quiet == request = None /\ ~irq /\ handler = "idle"

\* Where the answer for the page can be on its way to the waiting call.
Fetching(index) ==
  \/ ~ready /\ request = index /\ ~irq /\ handler = "idle"
  \/ /\ ~ready /\ request = None /\ regs = index
     /\ \/ irq /\ handler = "idle"
        \/ ~irq /\ handler = "read1"
        \/ ~irq /\ handler = "read2" /\ data[1] = index
        \/ ~irq /\ handler = "ready" /\ data = Answer(index)
  \/ ready /\ Quiet /\ data = Answer(index)

\* Without abandoned calls, there is at most one answer on its way, and it is the
\* one the holder of the mutex waits for.
AnswersInOrder ==
  ~abandoned =>
    /\ mutex = None => Quiet
    /\ \A p \in Proc :
         /\ pc[p] = "reset" => Quiet
         /\ pc[p] = "select" => Quiet /\ ~ready
         /\ pc[p] = "wait" => Fetching(cmd[p].index)
         /\ pc[p] \in {"parse1", "parse2"} => Quiet /\ data = Answer(cmd[p].index)
         /\ pc[p] = "parse2" => cmd[p].data[1] = cmd[p].index

\* The inductive invariant.
IInv ==
  /\ TypeOK /\ CallsInOrder /\ AnswersInOrder
  /\ AnswerMatchesUnlessAbandoned /\ NoLostAnswer /\ ElapsedWithinTimeout

\* Every call returns, whatever the FPGA does: it gets the mutex, and its wait
\* ends with the timeout at the latest.
EveryCallReturns == \A p \in Proc : pc[p] # "idle" ~> pc[p] = "idle"

=============================================================================
