--------------------------- MODULE MCResultGates ---------------------------
(* Instances of ResultGates for TLC.                                       *)
EXTENDS ResultGates, MCResultCases
=============================================================================
