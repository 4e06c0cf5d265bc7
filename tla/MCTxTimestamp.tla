--------------------------- MODULE MCTxTimestamp ---------------------------
(* Instances of TxTimestamp for TLC. *)
EXTENDS TxTimestamp

MCShort == -1

\* One packet is too short to have an id, and the last id has wrapped.
MCIds == <<1, 2, -1, 0>>

MCGrowing == <<1, 2, 3>>
=============================================================================
