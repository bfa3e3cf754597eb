---------------------------- MODULE MCIngestion ----------------------------
(* Small instances of the ingestion pipeline for TLC. *)
EXTENDS Ingestion, TLC

CONSTANTS v1, v2, w1, w2, r1, r2

WorkerSymmetry == Permutations(Workers)

RelaySymmetry == Permutations(Relays)
=============================================================================
