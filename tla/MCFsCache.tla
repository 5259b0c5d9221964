------------------------------ MODULE MCFsCache ------------------------------
(* Small instances of FsCacheServer: symmetry of its requests and hashes.  *)
EXTENDS FsCacheServer, TLC

Symmetry == Permutations(Hash) \cup Permutations(Upload) \cup Permutations(Download)
=============================================================================
