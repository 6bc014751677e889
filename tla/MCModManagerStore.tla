------------------------- MODULE MCModManagerStore -------------------------
(* One mod and two values, one of which its Lua does not take as it is.     *)
EXTENDS ModManagerStore

CONSTANTS m1, v1, v2
=============================================================================
