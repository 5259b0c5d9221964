---------------------------- MODULE MCTokenStore ----------------------------
(* Small instances of TokenStore.                                          *)
EXTENDS TokenStore

CONSTANTS i1, i2, l1, a1, a2, c1
=============================================================================
