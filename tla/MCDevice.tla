------------------------------ MODULE MCDevice ------------------------------
(***************************************************************************)
(* Small instances of StreamDevice and IrqMux for TLC.  The two share no   *)
(* variable: each takes its steps while the other is where it starts.      *)
(***************************************************************************)
EXTENDS StreamDevice, IrqMux

MCInit == DevInit /\ MuxInit

MCNext ==
  \/ DevNext /\ MuxInit /\ UNCHANGED muxVars
  \/ MuxNext /\ DevInit /\ UNCHANGED devVars

MCSpec == MCInit /\ [][MCNext]_<<devVars, muxVars>> /\ MuxFairness
=============================================================================
