---------------------------- MODULE MCRetention -----------------------------
(* Small instances of Retention for TLC. *)
EXTENDS Retention

MCMaxTime == [t \in Topologies |-> IF t = "vps" THEN 3 ELSE 2]
=============================================================================
