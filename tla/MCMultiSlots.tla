---------------------------- MODULE MCMultiSlots ----------------------------
(***************************************************************************)
(* MultiSlots for TLC.                                                     *)
(***************************************************************************)
EXTENDS MultiInvariant, TLC

CONSTANTS A, B

\* The clients behave alike.
Symmetry == Permutations({A, B})
=============================================================================
