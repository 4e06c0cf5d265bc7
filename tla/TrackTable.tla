----------------------------- MODULE TrackTable -----------------------------
(***************************************************************************)
(* The track table of modules/stream-device/track-table.c: an FPGA memory  *)
(* that maps channels to tracks, and the bitmap of its allocated entries.  *)
(* Each stream owns one contiguous area of it.  A table is a function from *)
(* entries to track numbers or MUTE; the bitmap is the set of its set bits.*)
(***************************************************************************)
EXTENDS Integers

CONSTANTS
  TrtbEntries,          \* trtb->max_entries, the size of the FPGA memory
  RA_TRACK_TABLE_MUTE   \* BIT(31), a register value no track number has

ASSUME TrackTableAssumption ==
  /\ TrtbEntries \in Nat
  /\ TrtbEntries <= 65536   \* trtp_base_addr is a __u16
  /\ RA_TRACK_TABLE_MUTE \notin Int

Entry == 0 .. TrtbEntries - 1

Area(index, n) == index .. index + n - 1

(***************************************************************************)
(* bitmap_find_next_zero_area of the kernel starts at a clear bit and      *)
(* needs n clear bits from there.  For n = 0 it still needs a clear bit to *)
(* start from: on a full bitmap it returns max_entries, which              *)
(* ra_track_table_alloc turns into -ENOSPC.                                *)
(***************************************************************************)
ZeroAreas(used, n) ==
  {start \in Entry : /\ start \notin used
                     /\ start + n <= TrtbEntries
                     /\ Area(start, n) \cap used = {}}

\* Mutant: takes the first clear bit, without looking at the length.
AllocFirstBit(used, n) ==
  {start \in Entry \ used : \A other \in Entry \ used : start <= other}

\* First fit: the singleton of the start index, or {} for -ENOSPC.
ra_track_table_alloc(used, n) ==
  {start \in ZeroAreas(used, n) :
     \A other \in ZeroAreas(used, n) : start <= other}

ra_track_table_set(trtb, index, n, tracks) ==
  [i \in Entry |->
     IF i \in Area(index, n)
       THEN IF tracks[i - index] >= 0 THEN tracks[i - index]
                                      ELSE RA_TRACK_TABLE_MUTE
       ELSE trtb[i]]

\* The register half of ra_track_table_free; the bitmap half is "used \ Area".
ra_track_table_free(trtb, area) ==
  [i \in Entry |-> IF i \in area THEN RA_TRACK_TABLE_MUTE ELSE trtb[i]]

ra_track_table_reset == [i \in Entry |-> RA_TRACK_TABLE_MUTE]

=============================================================================
