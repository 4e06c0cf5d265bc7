------------------------------- MODULE IrqMux --------------------------------
(***************************************************************************)
(* The interrupt multiplexer (modules/irq/main.c): a request and a mask    *)
(* register, read by a chained handler.  All lines share the mask          *)
(* register; it is read, changed and written back under priv->lock.        *)
(*                                                                         *)
(* From the kernel come handle_level_irq (mask, run the line's handler,    *)
(* unmask) and drivers that request and free lines, each under the lock of *)
(* the line's descriptor.                                                  *)
(***************************************************************************)
EXTENDS Integers, FiniteSets, FiniteSetsExt

CONSTANTS
  Width,   \* priv->width
  Drivers  \* who requests and frees lines

ASSUME IrqMuxAssumption == Width \in Nat \ {0} /\ "cpu" \notin Drivers /\ "none" \notin Drivers

Lines == 0 .. Width - 1

Actors == Drivers \cup {"cpu"}

VARIABLES
  requests, \* RA_IRQ_REQUEST_REG: lines that their devices raise
  mask,     \* RA_IRQ_MASK_REG
  lock,     \* holder of priv->lock
  rmw,      \* per actor: the line it masks or unmasks, and the mask it has read
  desc,     \* per line: has it a handler, is it masked, who holds its lock
  cpu       \* where the chained handler is, its pending lines and its line

muxVars == <<requests, mask, lock, rmw, desc, cpu>>

NoLine == [line |-> -1]

-----------------------------------------------------------------------------
(* ra_irq_irqchip_mask and ra_irq_irqchip_unmask                           *)

\* Mutant: reads the register before it takes the lock.
ReadUnlocked(a, line, on) ==
  /\ rmw[a] = NoLine
  /\ rmw' = [rmw EXCEPT ![a] = [line |-> line, on |-> on, v |-> mask]]
  /\ UNCHANGED lock

ReadMask(a, line, on) ==
  /\ rmw[a] = NoLine /\ lock = "none"
  /\ lock' = a
  /\ rmw' = [rmw EXCEPT ![a] = [line |-> line, on |-> on, v |-> mask]]

\* The descriptor notes what was done.
WriteMask(a) ==
  LET line == rmw[a].line
  IN /\ rmw[a] # NoLine
     /\ mask' = IF rmw[a].on THEN rmw[a].v \cup {line} ELSE rmw[a].v \ {line}
     /\ lock' = "none"
     /\ rmw' = [rmw EXCEPT ![a] = NoLine]
     /\ desc' = [desc EXCEPT ![line] =
                  [action |-> @.action, masked |-> rmw[a].on, lock |-> "none"]]

-----------------------------------------------------------------------------
(* ra_irq_irq_handler, with handle_level_irq                               *)

LockDesc(a, line) ==
  /\ desc[line].lock = "none"
  /\ desc' = [desc EXCEPT ![line].lock = a]

GoTo(place) == cpu' = [cpu EXCEPT !.at = place]

\* Mutant: handles one line per interrupt.
TriggerFirst ==
  /\ cpu.at = "idle" /\ requests \ mask # {}
  /\ cpu' = [at |-> "next", pending |-> {Min(requests \ mask)}, line |-> -1]
  /\ UNCHANGED <<requests, mask, lock, rmw, desc>>

Trigger ==
  /\ cpu.at = "idle" /\ requests \ mask # {}
  /\ cpu' = [at |-> "next", pending |-> requests \ mask, line |-> -1]
  /\ UNCHANGED <<requests, mask, lock, rmw, desc>>

HandleMask ==
  /\ cpu.at = "next" /\ cpu.pending # {}
  /\ LET line == Min(cpu.pending)
     IN /\ LockDesc("cpu", line)
        /\ ReadMask("cpu", line, TRUE)
        /\ cpu' = [at |-> "mask", pending |-> cpu.pending \ {line}, line |-> line]
  /\ UNCHANGED <<requests, mask>>

\* A line without handler stays masked.
HandleMasked ==
  /\ cpu.at = "mask"
  /\ WriteMask("cpu")
  /\ GoTo(IF desc[cpu.line].action THEN "serve" ELSE "next")
  /\ UNCHANGED requests

\* The handler of the line quiets its device.
Serve ==
  /\ cpu.at = "serve"
  /\ requests' = requests \ {cpu.line}
  /\ GoTo("served")
  /\ UNCHANGED <<mask, lock, rmw, desc>>

HandleUnmask ==
  /\ cpu.at = "served" /\ desc[cpu.line].action
  /\ LockDesc("cpu", cpu.line)
  /\ ReadMask("cpu", cpu.line, FALSE)
  /\ GoTo("unmask")
  /\ UNCHANGED <<requests, mask>>

\* It was freed in the meantime.
HandleFreed ==
  /\ cpu.at = "served" /\ ~desc[cpu.line].action /\ desc[cpu.line].lock = "none"
  /\ GoTo("next")
  /\ UNCHANGED <<requests, mask, lock, rmw, desc>>

HandleUnmasked ==
  /\ cpu.at = "unmask"
  /\ WriteMask("cpu")
  /\ GoTo("next")
  /\ UNCHANGED requests

HandleEnd ==
  /\ cpu.at = "next" /\ cpu.pending = {}
  /\ GoTo("idle")
  /\ UNCHANGED <<requests, mask, lock, rmw, desc>>

-----------------------------------------------------------------------------
(* Devices and drivers                                                     *)

Raise ==
  /\ \E line \in Lines \ requests : requests' = requests \cup {line}
  /\ UNCHANGED <<mask, lock, rmw, desc, cpu>>

\* request_irq unmasks the line, free_irq masks it.
RequestOrFree(d) ==
  /\ \E line \in Lines :
        /\ desc[line].lock = "none"
        /\ desc' = [desc EXCEPT ![line] =
                     [action |-> ~@.action, masked |-> @.masked, lock |-> d]]
        /\ ReadMask(d, line, desc[line].action)
  /\ UNCHANGED <<requests, mask, cpu>>

RequestEnd(d) == WriteMask(d) /\ UNCHANGED <<requests, cpu>>

-----------------------------------------------------------------------------
\* ra_irq_drv_probe masks all lines.
MuxInit ==
  /\ requests \in SUBSET Lines /\ mask = Lines /\ lock = "none"
  /\ rmw = [a \in Actors |-> NoLine]
  /\ desc = [line \in Lines |-> [action |-> FALSE, masked |-> TRUE, lock |-> "none"]]
  /\ cpu = [at |-> "idle", pending |-> {}, line |-> -1]

Handler ==
  \/ Trigger \/ HandleMask \/ HandleMasked \/ Serve
  \/ HandleUnmask \/ HandleFreed \/ HandleUnmasked \/ HandleEnd

MuxNext == Handler \/ Raise \/ \E d \in Drivers : RequestOrFree(d) \/ RequestEnd(d)

\* Spin locks are handed over in turn.
MuxFairness == SF_muxVars(Handler) /\ \A d \in Drivers : WF_muxVars(RequestEnd(d))

MuxSpec == MuxInit /\ [][MuxNext]_muxVars /\ MuxFairness

-----------------------------------------------------------------------------
(* Properties                                                              *)

MuxTypeOK ==
  /\ requests \subseteq Lines /\ mask \subseteq Lines
  /\ lock \in Actors \cup {"none"}
  /\ rmw \in [Actors -> {NoLine} \cup [line : Lines, on : BOOLEAN, v : SUBSET Lines]]
  /\ desc \in [Lines -> [action : BOOLEAN, masked : BOOLEAN, lock : Actors \cup {"none"}]]
  /\ cpu \in [at : {"idle", "next", "mask", "serve", "served", "unmask"},
              pending : SUBSET Lines, line : Lines \cup {-1}]
  /\ cpu.at \in {"mask", "serve", "served", "unmask"} => cpu.line \in Lines

\* handle_level_irq runs, or has run, the handler of the line.
InService(line) == cpu.at \in {"serve", "served"} /\ cpu.line = line

\* Between two changes the mask register is what the kernel believes it to be,
\* for all lines, although each change writes the bits of the others as well.
\* And it is right: while nobody has its descriptor, a line without a handler is
\* masked, and a line with a handler is masked only while the chained handler
\* is at it, however drivers free and request it again meanwhile.
MaskAgrees ==
  /\ lock = "none" => mask = {line \in Lines : desc[line].masked}
  /\ \A line \in Lines :
       desc[line].lock = "none" =>
         /\ ~desc[line].action => desc[line].masked
         /\ desc[line].action /\ desc[line].masked => InService(line)

\* Whoever is between the read and the write of the register holds priv->lock
\* and the descriptor of its line, and nobody else holds either.
LocksHeld ==
  /\ \A a \in Actors : rmw[a] # NoLine <=> lock = a
  /\ \A a \in Actors : rmw[a] # NoLine => desc[rmw[a].line].lock = a
  /\ \A line \in Lines :
       desc[line].lock # "none" =>
         /\ rmw[desc[line].lock] # NoLine
         /\ rmw[desc[line].lock].line = line

\* What it has read is still there, and what it is going to write is right for
\* the line.
WriteIsRight ==
  /\ mask = {line \in Lines : desc[line].masked}
  /\ \A a \in Actors : rmw[a] # NoLine => rmw[a].v = mask
  /\ \A d \in Drivers : rmw[d] # NoLine => rmw[d].on = ~desc[rmw[d].line].action
  /\ rmw["cpu"] # NoLine <=> cpu.at \in {"mask", "unmask"}
  /\ rmw["cpu"] # NoLine =>
       /\ rmw["cpu"].line = cpu.line
       /\ rmw["cpu"].on = (cpu.at = "mask")
       /\ cpu.at = "unmask" => desc[cpu.line].action

\* The inductive invariant.
MuxIInv == MuxTypeOK /\ MaskAgrees /\ LocksHeld /\ WriteIsRight

\* A line that is raised and has a handler is served, whatever lines come before
\* it and whatever other lines are requested and freed meanwhile.
LineServed ==
  \A line \in Lines :
    (line \in requests /\ desc[line].action) ~> (line \notin requests \/ ~desc[line].action)

=============================================================================
