----------------------------- MODULE MCDispatch -----------------------------
(* Dispatch for TLC: the instances are in the configurations.                 *)
EXTENDS DispatchInvariant
=============================================================================
