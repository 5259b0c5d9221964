--------------------------- MODULE MCObjectServer ---------------------------
(* Small instances of ObjectServer.                                        *)
EXTENDS ObjectServer

CONSTANTS h1, u1, u2, d1, p1
=============================================================================
