-------------------------------- MODULE MCPtp --------------------------------
(***************************************************************************)
(* Small instances of PtpClock and RtpSyncer for TLC.  The two share no    *)
(* variable: each takes its steps while the other is where it starts.      *)
(***************************************************************************)
EXTENDS PtpClock, RtpSyncer

CONSTANTS c1, c2

MCDeltas == {-5, -2, 3, 4, 25}
MCDrifts == {-9, 0, 3}
MCPhases == {p \in -40 .. 40 : p % 2 = 0 \/ p % 5 = 0}

MCInit == Init /\ SyncInit

MCNext ==
  \/ Next /\ SyncInit /\ offset = 0 /\ UNCHANGED syncVars
  \/ SyncNext /\ Init /\ mask = {} /\ UNCHANGED vars

MCSpec == MCInit /\ [][MCNext]_<<vars, syncVars>> /\ Fairness
=============================================================================
