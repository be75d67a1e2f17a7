------------------------------ MODULE MCTraffic ------------------------------
(* Traffic for TLC: the instance is in the configuration.                     *)
EXTENDS Traffic
=============================================================================
