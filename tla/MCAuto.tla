------------------------------- MODULE MCAuto -------------------------------
(* Auto for TLC: the instances are in the configurations.                     *)
EXTENDS AutoInvariant
CONSTANTS A, B
=============================================================================
