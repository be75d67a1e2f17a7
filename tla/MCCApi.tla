------------------------------- MODULE MCCApi -------------------------------
(* CApi for TLC: the instance is in the configuration.                        *)
EXTENDS CApiInvariant
=============================================================================
