--------------------------- MODULE MCLocalCatalog ---------------------------
(* Small instances of LocalCatalog for TLC. *)
EXTENDS LocalCatalog, TLC

\* Ids, contents, uploads and deletes are interchangeable.
Symmetry == Permutations(Ids) \cup Permutations(Contents)
              \cup Permutations(Uploads) \cup Permutations(Deletes)
=============================================================================
