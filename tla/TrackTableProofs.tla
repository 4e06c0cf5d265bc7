-------------------------- MODULE TrackTableProofs --------------------------
(* Lemmas about the allocator of track-table.c, used for RX and for TX.    *)
EXTENDS TrackTable, WellFoundedInduction, TLAPS

\* Every nonempty set of naturals has a least element.
LEMMA LeastNatural ==
  ASSUME NEW T, T \subseteq Nat, T # {}
  PROVE  \E x \in T : \A y \in T : x <= y
<1> DEFINE R == OpToRel(<, Nat)
<1>1. IsWellFoundedOn(R, Nat)
  BY NatLessThanWellFounded
<1>2. \A x, y \in Nat : y < x => <<y, x>> \in R
  BY DEF OpToRel
<1> HIDE DEF R
<1>3. PICK x \in T : \A y \in T : <<y, x>> \notin R
  BY <1>1, WFMin
<1>4. ASSUME NEW y \in T
      PROVE  x <= y
  <2>1. x \in Nat /\ y \in Nat
    OBVIOUS
  <2>2. ~(y < x)
    BY <1>2, <1>3, <2>1
  <2> QED
    BY <2>1, <2>2
<1> QED
  BY <1>4

\* What ra_track_table_alloc returns lies inside the table and is free.
LEMMA AllocSound ==
  ASSUME NEW used, NEW n \in Nat, NEW start \in ra_track_table_alloc(used, n)
  PROVE  /\ start \in Entry
         /\ Area(start, n) \subseteq Entry
         /\ Area(start, n) \cap used = {}
BY TrackTableAssumption DEF ra_track_table_alloc, ZeroAreas, Area, Entry

\* It fails only when there is no free area of that size.
LEMMA AllocComplete ==
  ASSUME NEW used, NEW n \in Nat, ZeroAreas(used, n) # {}
  PROVE  ra_track_table_alloc(used, n) # {}
<1>1. ZeroAreas(used, n) \subseteq Nat
  BY TrackTableAssumption DEF ZeroAreas, Entry
<1>2. PICK x \in ZeroAreas(used, n) : \A y \in ZeroAreas(used, n) : x <= y
  BY <1>1, LeastNatural
<1> QED
  BY <1>2 DEF ra_track_table_alloc

\* An area that has just been freed can be allocated again, unless it is empty.
LEMMA FreedAreaIsZero ==
  ASSUME NEW used, NEW n \in Nat, n > 0, NEW index \in Entry,
         Area(index, n) \subseteq Entry
  PROVE  index \in ZeroAreas(used \ Area(index, n), n)
<1>1. index \in Area(index, n)
  BY TrackTableAssumption DEF Area, Entry
<1>2. index + n - 1 \in Area(index, n)
  BY TrackTableAssumption DEF Area, Entry
<1>3. index + n <= TrtbEntries
  BY <1>2, TrackTableAssumption DEF Entry
<1> QED
  BY <1>1, <1>3 DEF ZeroAreas

=============================================================================
