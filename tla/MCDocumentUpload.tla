-------------------------- MODULE MCDocumentUpload --------------------------
(* Small instances of the upload composed with the pipeline for TLC. *)
EXTENDS DocumentUpload

CONSTANTS v1, w1, r1
=============================================================================
