---------------------------- MODULE MCIngestion ----------------------------
(* Ingestion with interchangeable processes, for TLC. *)
EXTENDS Ingestion

Symmetry == Permutations(Dashboard)

=============================================================================
