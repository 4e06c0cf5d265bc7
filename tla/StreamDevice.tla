---------------------------- MODULE StreamDevice ----------------------------
(***************************************************************************)
(* The life of a stream device (modules/stream-device/main.c): it is       *)
(* probed step by step, opened, used and closed by clients from the moment *)
(* its node is registered, and unbound by releasing what probe acquired in *)
(* reverse order (devres).  A stream is here what opening, closing and     *)
(* unbinding see of it: its direction, its owner and its entry in the hash *)
(* table of the FPGA.  RxStreams and TxStreams model the calls on streams. *)
(***************************************************************************)
EXTENDS Naturals, Sequences, FiniteSets, SequencesExt

CONSTANTS
  File,        \* files a client may open
  MaxStreams   \* streams in each direction

Dir == {"rx", "tx"}

ASSUME StreamDeviceAssumption == MaxStreams \in Nat

VARIABLES
  phase,     \* "unbound", "probing", "bound", "unwinding", or "BUG"
  devres,    \* what probe has acquired so far
  filp,      \* each file: "closed", "open", or "stale": open, its device freed
  streams,   \* rx->streams and tx->streams
  hashed     \* FPGA: RX streams in the hash table

devVars == <<phase, devres, filp, streams, hashed>>

Stream == [dir : Dir, index : 1 .. MaxStreams, filp : File, early : BOOLEAN]

Has(resource) == resource \in Range(devres)

\* Mutant: the node is registered before the TX half is set up.
MiscBeforeTx ==
  << "priv", "regs", "irq", "rx_sttb", "rx_trtb", "rx_streams", "rx_used_tracks",
     "misc", "tx_sttb", "tx_trtb", "tx_streams", "debugfs" >>

\* What ra_sd_probe, ra_sd_rx_probe, ra_sd_tx_probe and the probes of the
\* tables acquire, in order.
ProbeSteps ==
  << "priv", "regs", "irq", "rx_sttb", "rx_trtb", "rx_streams", "rx_used_tracks",
     "tx_sttb", "tx_trtb", "tx_streams", "misc", "debugfs" >>

DevInit ==
  /\ phase = "unbound"
  /\ devres = << >>
  /\ filp = [f \in File |-> "closed"]
  /\ streams = {}
  /\ hashed = {}

-----------------------------------------------------------------------------
(* Binding.                                                                *)

Probe ==
  /\ phase = "unbound"
  /\ phase' = "probing"
  /\ UNCHANGED <<devres, filp, streams, hashed>>

ProbeStep ==
  /\ phase = "probing"
  /\ Len(devres) < Len(ProbeSteps)
  /\ devres' = Append(devres, ProbeSteps[Len(devres) + 1])
  /\ UNCHANGED <<phase, filp, streams, hashed>>

\* Any step but the register writes at the end may fail.
ProbeFails ==
  /\ phase = "probing"
  /\ Len(devres) < Len(ProbeSteps)
  /\ phase' = "unwinding"
  /\ UNCHANGED <<devres, filp, streams, hashed>>

\* The register writes at the end of ra_sd_probe; RA_SD_RX_HSTB_CLEAR.
ProbeEnds ==
  /\ phase = "probing"
  /\ Len(devres) = Len(ProbeSteps)
  /\ hashed' = {}
  /\ phase' = "bound"
  /\ UNCHANGED <<devres, filp, streams>>

Unbind ==
  /\ phase = "bound"
  /\ phase' = "unwinding"
  /\ UNCHANGED <<devres, filp, streams, hashed>>

\* ra_sd_rx_destroy_streams and ra_sd_tx_destroy_streams: BUG_ON(!xa_empty).
Destroys(resource) ==
  {s \in streams : \/ resource = "rx_streams" /\ s.dir = "rx"
                   \/ resource = "tx_streams" /\ s.dir = "tx"}

\* The devres core (external) undoes what was acquired last.  Files that are
\* still open when priv is freed are stale.
Unwind ==
  /\ phase = "unwinding"
  /\ devres # << >>
  /\ IF Destroys(Last(devres)) # {}
     THEN /\ phase' = "BUG"
          /\ UNCHANGED <<devres, filp>>
     ELSE /\ devres' = Front(devres)
          /\ filp' = IF Last(devres) = "priv"
                     THEN [f \in File |-> IF filp[f] = "open" THEN "stale" ELSE filp[f]]
                     ELSE filp
          /\ UNCHANGED phase
  /\ UNCHANGED <<streams, hashed>>

UnwindEnds ==
  /\ phase = "unwinding"
  /\ devres = << >>
  /\ phase' = "unbound"
  /\ UNCHANGED <<devres, filp, streams, hashed>>

-----------------------------------------------------------------------------
(* Clients.  What a client does with a stale file, or with an open one     *)
(* while its device is being unwound, touches memory that may be gone: it  *)
(* is not modelled, except that the file can be closed before priv is gone.*)

Running == phase \in {"probing", "bound"}

\* The misc core (external) finds the device by its node.
Open(f) ==
  /\ Has("misc")
  /\ filp[f] = "closed"
  /\ filp' = [filp EXCEPT ![f] = "open"]
  /\ UNCHANGED <<phase, devres, streams, hashed>>

AddStream(f, dir) ==
  /\ Running
  /\ filp[f] = "open"
  /\ \E i \in 1 .. MaxStreams :
       /\ \A s \in streams : ~(s.dir = dir /\ s.index = i)
       /\ LET s == [dir |-> dir, index |-> i, filp |-> f, early |-> phase = "probing"] IN
          /\ streams' = streams \cup {s}
          /\ hashed' = IF dir = "rx" THEN hashed \cup {s} ELSE hashed
  /\ UNCHANGED <<phase, devres, filp>>

DeleteStream(s) ==
  /\ Running
  /\ s \in streams
  /\ filp[s.filp] = "open"
  /\ streams' = streams \ {s}
  /\ hashed' = hashed \ {s}
  /\ UNCHANGED <<phase, devres, filp>>

\* Mutant: forgets the TX streams.
ReleaseRxOnly(f) ==
  /\ filp[f] = "open"
  /\ filp' = [filp EXCEPT ![f] = "closed"]
  /\ LET mine == {s \in streams : s.filp = f /\ s.dir = "rx"} IN
     /\ streams' = streams \ mine
     /\ hashed' = hashed \ mine
  /\ UNCHANGED <<phase, devres>>

\* Mutant: clears the hash table with the streams of the client.
ReleaseClearsHash(f) ==
  /\ filp[f] = "open"
  /\ filp' = [filp EXCEPT ![f] = "closed"]
  /\ streams' = {s \in streams : s.filp # f}
  /\ hashed' = {}
  /\ UNCHANGED <<phase, devres>>

ra_sd_release(f) ==
  /\ filp[f] = "open"
  /\ filp' = [filp EXCEPT ![f] = "closed"]
  /\ LET mine == {s \in streams : s.filp = f} IN
     /\ streams' = streams \ mine
     /\ hashed' = hashed \ mine
  /\ UNCHANGED <<phase, devres>>

DevNext ==
  \/ Probe \/ ProbeStep \/ ProbeFails \/ ProbeEnds
  \/ Unbind \/ Unwind \/ UnwindEnds
  \/ \E f \in File :
       \/ Open(f)
       \/ \E dir \in Dir : AddStream(f, dir)
       \/ ra_sd_release(f)
  \/ \E s \in streams : DeleteStream(s)

DevSpec == DevInit /\ [][DevNext]_devVars

-----------------------------------------------------------------------------
(* Properties                                                              *)

\* Whatever ra_sd_rx_destroy_streams and ra_sd_tx_destroy_streams find belongs to
\* a client that still has the device open, and can close it: once every file is
\* closed, neither a failed probe nor unbinding finds a stream, because closing a
\* file deletes its streams of both directions.
DestroyFindsOnlyHeld ==
  [][phase' = "BUG" /\ phase # "BUG" =>
       \A s \in Destroys(Last(devres)) : filp[s.filp] = "open"]_devVars

\* BUG_ON(!xa_empty(xa)) (rx.c, tx.c): when a list of streams is destroyed, it is
\* empty.  It is not when the driver is unbound from a device that a client has
\* open and uses, which nothing in the driver prevents.
DestroyFindsNone == phase # "BUG"

\* A client finds both halves set up: a file is open only on a device whose
\* tables, lists and registers were all acquired before its node was registered.
ClientsFindTables ==
  Running /\ (\E f \in File : filp[f] = "open") =>
    \A r \in {"regs", "irq", "rx_sttb", "rx_trtb", "rx_streams", "rx_used_tracks",
              "tx_sttb", "tx_trtb", "tx_streams"} : Has(r)

\* "Now activate the stream and trigger a hash operation" (stream-table-rx.c):
\* an RX stream is in the hash table by which packets are matched, whatever is
\* deleted or closed.  Only one added while probe was still running can be
\* missing, since probe clears the table after it has registered the node.
OnlyEarlyStreamsUnhashed ==
  \A s \in streams : s.dir = "rx" /\ s \notin hashed => s.early


-----------------------------------------------------------------------------
(* What the proofs need in addition                                        *)

DevTypeOK ==
  /\ phase \in {"unbound", "probing", "bound", "unwinding", "BUG"}
  /\ filp \in [File -> {"closed", "open", "stale"}]
  /\ streams \subseteq Stream
  /\ hashed \subseteq Stream

\* devres holds the first steps of probe, all of them while the device is bound.
AcquiredInOrder ==
  /\ devres \in Seq(Range(ProbeSteps)) /\ Len(devres) <= Len(ProbeSteps)
  /\ \A i \in 1 .. Len(devres) : devres[i] = ProbeSteps[i]
  /\ phase = "unbound" => devres = << >>
  /\ phase = "bound" => Len(devres) = Len(ProbeSteps)

\* No file is open before there is a node to open, nor after priv is gone.
OpenFilesHaveDevice ==
  \A f \in File :
    filp[f] = "open" => devres # << >> /\ (Running => Has("misc"))

\* A stream has an owner who can still close its file, and is destroyed, if it
\* is left to that, before priv is freed.  One that was added when probe had
\* ended is in the hash table.
StreamsHeld ==
  \A s \in streams :
    /\ filp[s.filp] = "open"
    /\ Has(IF s.dir = "rx" THEN "rx_streams" ELSE "tx_streams")
    /\ phase = "probing" => s.early

\* The inductive invariant.
DevIInv ==
  /\ DevTypeOK /\ AcquiredInOrder /\ OpenFilesHaveDevice /\ StreamsHeld
  /\ OnlyEarlyStreamsUnhashed

=============================================================================
