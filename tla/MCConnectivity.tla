--------------------------- MODULE MCConnectivity ---------------------------
(* Small instances of Connectivity for TLC: the constants are numbers.     *)
EXTENDS Connectivity
=============================================================================
