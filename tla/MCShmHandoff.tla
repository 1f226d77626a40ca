---------------------------- MODULE MCShmHandoff ----------------------------
(* Small instances of the shared memory hand-off.                          *)
EXTENDS ShmHandoff

CONSTANTS r1, r2, w1, w2, w3
=============================================================================
