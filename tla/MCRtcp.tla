------------------------------- MODULE MCRtcp -------------------------------
(* Instances of Rtcp for TLC. *)
EXTENDS Rtcp

\* HZ = 100; timeouts of a jiffy, of half a jiffy, and none.
MCTimeout == {10, 5, 0}

=============================================================================
