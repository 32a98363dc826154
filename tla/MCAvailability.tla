--------------------------- MODULE MCAvailability ---------------------------
(***************************************************************************)
(* Instances of Availability: two local days, and a slot early on the      *)
(* second one that UTC counts to the first.                                *)
(***************************************************************************)
EXTENDS Availability, TLC

CONSTANTS noon, dawn, d1, d2, c1, c2, w1, w2

MCLocalDay == (noon :> d1) @@ (dawn :> d2)
MCUtcDay == [s \in Slot |-> d1]

Symmetry == Permutations(Reader) \cup Permutations(Writer)
=============================================================================
