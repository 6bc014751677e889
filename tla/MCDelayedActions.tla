-------------------------- MODULE MCDelayedActions --------------------------
(* TLC instances of DelayedActions.                                         *)
EXTENDS DelayedActions

CONSTANTS m1, m2
=============================================================================
