----------------------------- MODULE MCModUnload -----------------------------
(* Small instances of ModUnload: the .cfg files choose the entries into the *)
(* game thread, the requests and the bounds.                                *)
EXTENDS ModUnload, TLC

CONSTANTS m1, m2, m3
=============================================================================
