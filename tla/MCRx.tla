-------------------------------- MODULE MCRx --------------------------------
(* A small instance of RxRegisters, and with it of RxStreams, for TLC.     *)
EXTENDS RxRegisters, TLC

\* A stream on one interface with the given tracks; the rest is muted.
Plain(ip, tracks, n) ==
  [primary |-> [destination_ip |-> ip, destination_port |-> ip],
   secondary |-> NoInterface, vlan_tagged |-> FALSE, vlan_tag |-> 0,
   codec |-> RA_STREAM_CODEC_L16, num_channels |-> n, rtp_payload_type |-> 97,
   active |-> TRUE,
   tracks |-> [c \in 0 .. RA_MAX_CHANNELS - 1 |->
                 IF c < n THEN tracks[c + 1] ELSE -1]]

\* A secondary-only stream: the stale primary port must not reach the FPGA.
SecondaryOnly(tracks, n) ==
  [Plain(2, tracks, n) EXCEPT
     !.primary = [destination_ip |-> 0, destination_port |-> 7],
     !.secondary = [destination_ip |-> 2, destination_port |-> 2],
     !.active = FALSE, !.vlan_tagged = TRUE, !.vlan_tag = 4095]

Good == {Plain(1, <<>>, 0), Plain(1, <<0>>, 1), SecondaryOnly(<<2>>, 1),
         Plain(2, <<1, 0>>, 2), Plain(1, <<-1, 2, -1, 3>>, 4)}

\* Each fails one check of ra_sd_rx_validate_stream or tracks_available.
Bad == {Plain(1, <<1, 1>>, 2), Plain(1, <<4>>, 1),
        [Plain(1, <<0>>, 1) EXCEPT !.primary = NoInterface],
        [Plain(1, <<0>>, 1) EXCEPT !.primary.destination_port = 0],
        [Plain(1, <<0>>, 1) EXCEPT !.rtp_payload_type = 10],
        [Plain(1, <<0>>, 1) EXCEPT !.num_channels = 5]}

MCInput == Good \cup Bad

Symmetry == Permutations(File)

=============================================================================
