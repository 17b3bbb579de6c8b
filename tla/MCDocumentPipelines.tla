-------------------------- MODULE MCDocumentPipelines --------------------------
(* Values of the constants of DocumentPipelines for TLC. *)
EXTENDS DocumentPipelines, TLC

CONSTANTS d1, d2, n1, a, b, c1, c2, w1, w2

Interchangeable == Permutations(Callers) \cup Permutations(Workers)
=============================================================================
