---------------------------- MODULE MCShareLinks ----------------------------
(* Small instances of ShareLinks for TLC. *)
EXTENDS ShareLinks, TLC

Symmetry == Permutations(Links) \cup Permutations(Requests)
=============================================================================
