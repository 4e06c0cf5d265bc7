-------------------------------- MODULE MCNet --------------------------------
(***************************************************************************)
(* Small instances of NetRx and NetTx for TLC.  The two share no variable: *)
(* each takes its steps while the other is where it starts.                *)
(***************************************************************************)
EXTENDS NetRx, NetTx

MCInit == Init /\ TxInit

MCNext ==
  \/ Next /\ TxInit /\ UNCHANGED txVars
  \/ TxNext /\ Init /\ UNCHANGED vars

MCSpec == MCInit /\ [][MCNext]_<<vars, txVars>> /\ Fairness /\ TxFairness
=============================================================================
