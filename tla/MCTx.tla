-------------------------------- MODULE MCTx --------------------------------
(* A small instance of TxRegisters, and with it of TxStreams, for TLC.     *)
EXTENDS TxRegisters, TLC

Port == [destination_ip |-> 1, destination_port |-> 1, source_ip |-> 1,
         source_port |-> 1, vlan_tag |-> 4095]
NoPort == [destination_ip |-> 0, destination_port |-> 0, source_ip |-> 0,
           source_port |-> 0, vlan_tag |-> 4096]

\* A stream on the primary interface; the rest of its tracks[] is muted.
Plain(tracks, n, samples) ==
  [primary |-> Port, secondary |-> NoPort,
   use_primary |-> TRUE, use_secondary |-> FALSE, vlan_tagged |-> TRUE,
   codec |-> RA_STREAM_CODEC_L24, rtp_payload_type |-> 97, dscp_tos |-> 46,
   rtp_ssrc |-> 1, num_samples |-> samples, num_channels |-> n, active |-> TRUE,
   tracks |-> [c \in 0 .. RA_MAX_CHANNELS - 1 |->
                 IF c < Len(tracks) THEN tracks[c + 1] ELSE -1]]

\* The last two have more channels than their entry can count, and the very last
\* more than tracks[] holds.
Good == {Plain(<<>>, 0, 1), Plain(<<0>>, 1, 16), Plain(<<1>>, 1, 16),
         [Plain(<<1, 0>>, 2, 8) EXCEPT !.active = FALSE],
         Plain(<<0, 0, 1>>, 3, 1), Plain(<<-1, 1, 0>>, 4, 118)}

\* Each fails one check of ra_sd_tx_validate_stream, or is one sample too long.
Bad == {Plain(<<-1, 1, 0>>, 4, 119), Plain(<<2>>, 1, 16),
        [Plain(<<0>>, 1, 16) EXCEPT !.use_secondary = TRUE],
        [Plain(<<0>>, 1, 16) EXCEPT !.rtp_ssrc = 0]}

MCInput == Good \cup Bad

MCStray == {-3, 7}

Symmetry == Permutations(File)

=============================================================================
