-------------------------- MODULE MCDocumentGroup --------------------------
(* DocumentGroup for TLC. *)
EXTENDS DocumentGroup, TLC

Symmetry == Permutations(Training)
=============================================================================
