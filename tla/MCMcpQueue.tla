------------------------------ MODULE MCMcpQueue ------------------------------
(* A TLC instance of McpQueue.                                              *)
EXTENDS McpQueue

CONSTANTS r1, r2, r3
=============================================================================
