-------------------------- MODULE MCBucketCatalog ---------------------------
(* Small instances of BucketCatalog for TLC. *)
EXTENDS BucketCatalog, TLC

Symmetry == Permutations(Ids) \cup Permutations(Uploads) \cup Permutations(Contents)
=============================================================================
