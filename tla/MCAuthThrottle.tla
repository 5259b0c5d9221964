--------------------------- MODULE MCAuthThrottle ---------------------------
(* Small instances of AuthThrottle: buckets are interchangeable.           *)
EXTENDS AuthThrottle, TLC

Symmetry == Permutations(Client)
=============================================================================
