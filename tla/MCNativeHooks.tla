--------------------------- MODULE MCNativeHooks ---------------------------
(* Two mods and two functions.                                              *)
EXTENDS NativeHooks

CONSTANTS m1, m2, f1, f2
=============================================================================
