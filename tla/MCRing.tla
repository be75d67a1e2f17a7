------------------------------- MODULE MCRing -------------------------------
(* Instances of Ring for TLC; the bounds are in the .cfg files.            *)
EXTENDS RingInvariant

\* The invariants promise nothing after a fault: the exploration stops at the
\* first faulty state, which is still checked.
BeforeFault == fault = "none"
=============================================================================
