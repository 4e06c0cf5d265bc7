---------------------------- MODULE StreamService ----------------------------
(***************************************************************************)
(* What the stream device promises its clients, in one direction: the FPGA *)
(* carries, under each index, the service that the owner of the index last *)
(* asked for with success, and nothing else.  There are no bitmaps, areas  *)
(* or tables here.  RxStreams and TxStreams implement it.                  *)
(***************************************************************************)

CONSTANTS
  File,      \* clients
  Index,     \* stream numbers
  Service,   \* what the FPGA can be asked to do for one stream
  Conflict,  \* pairs of services the FPGA cannot carry at once
  NULL

VARIABLES
  open,      \* the clients that have the device open
  owner,     \* whose each index is, or NULL
  carried,   \* what the FPGA does under each index, or NULL
  answer     \* who called last, and whether the call succeeded

vars == <<open, owner, carried, answer>>

Answers(f, ok) == answer' = [filp |-> f, ok |-> ok]

Init ==
  /\ open = {}
  /\ owner = [i \in Index |-> NULL]
  /\ carried = [i \in Index |-> NULL]
  /\ answer = [filp |-> NULL, ok |-> TRUE]

Open(f) ==
  /\ f \notin open
  /\ open' = open \cup {f}
  /\ Answers(f, TRUE)
  /\ UNCHANGED <<owner, carried>>

\* A client adds a stream, or replaces one of its own.
Carry(f, i, service) ==
  /\ f \in open
  /\ owner[i] \in {NULL, f}
  /\ Answers(f, TRUE)
  /\ owner' = [owner EXCEPT ![i] = f]
  /\ carried' = [carried EXCEPT ![i] = service]
  /\ \A j \in Index \ {i} :
       carried[j] # NULL => <<service, carried[j]>> \notin Conflict
  /\ UNCHANGED open

Drop(S) ==
  /\ owner' = [i \in Index |-> IF i \in S THEN NULL ELSE owner[i]]
  /\ carried' = [i \in Index |-> IF i \in S THEN NULL ELSE carried[i]]

Delete(f, i) ==
  /\ f \in open
  /\ owner[i] = f
  /\ Answers(f, TRUE)
  /\ Drop({i})
  /\ UNCHANGED open

\* The client closes the device, or dies.
Close(f) ==
  /\ f \in open
  /\ open' = open \ {f}
  /\ Answers(f, TRUE)
  /\ Drop({i \in Index : owner[i] = f})

\* Any call may fail, and then it changed nothing.
Refuse(f) ==
  /\ f \in open
  /\ Answers(f, FALSE)
  /\ UNCHANGED <<open, owner, carried>>

Next ==
  \E f \in File :
    \/ Refuse(f)
    \/ Open(f)
    \/ \E i \in Index : Delete(f, i)
    \/ Close(f)
    \/ \E i \in Index, service \in Service : Carry(f, i, service)

Spec == Init /\ [][Next]_vars

=============================================================================
