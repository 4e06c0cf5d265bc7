----------------------------- MODULE StreamTypes -----------------------------
(***************************************************************************)
(* What the RX and TX halves of the stream device share: error numbers,    *)
(* codecs, and the checks of rtp.h and codec.h.                            *)
(***************************************************************************)
EXTENDS Integers

ENOENT == 2
ENOMEM == 12
EACCES == 13
EFAULT == 14
EBUSY  == 16
EINVAL == 22
ENOSPC == 28

\* enum ra_stream_codec; RA_STREAM_CODEC_MAX is _RA_STREAM_CODEC_MAX.
RA_STREAM_CODEC_AM824 == 0
RA_STREAM_CODEC_L32   == 1
RA_STREAM_CODEC_L24   == 2
RA_STREAM_CODEC_L16   == 3
RA_STREAM_CODEC_MAX   == 4

\* The code the FPGA knows a codec by: 0xa8, 0x20, 0x18 and 0x10.
ra_sd_codec_fpga_code(codec) ==
  CASE codec = RA_STREAM_CODEC_AM824 -> 168
    [] codec = RA_STREAM_CODEC_L32   -> 32
    [] codec = RA_STREAM_CODEC_L24   -> 24
    [] codec = RA_STREAM_CODEC_L16   -> 16

ra_sd_codec_sample_length(codec) ==
  CASE codec = RA_STREAM_CODEC_AM824 -> 8
    [] codec = RA_STREAM_CODEC_L32   -> 4
    [] codec = RA_STREAM_CODEC_L24   -> 3
    [] codec = RA_STREAM_CODEC_L16   -> 2

ra_sd_validate_rtp_payload_type(type, num_channels, codec) ==
  \/ type = 10 /\ num_channels = 2 /\ codec = RA_STREAM_CODEC_L16
  \/ type = 11 /\ num_channels = 1 /\ codec = RA_STREAM_CODEC_L16
  \/ type \in 95 .. 127

=============================================================================
