----------------------------- MODULE MCEventLoop -----------------------------
(* A TLC instance of EventLoop.                                             *)
EXTENDS EventLoop

CONSTANTS m1, m2
=============================================================================
