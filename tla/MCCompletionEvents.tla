------------------------- MODULE MCCompletionEvents -------------------------
(* Instances of CompletionEvents for TLC.                                  *)
EXTENDS CompletionEvents, TLC

CONSTANTS a, b, cli, mcp
=============================================================================
