-------------------------- MODULE MCDocumentLease --------------------------
(* DocumentLease for TLC. *)
EXTENDS DocumentLease, TLC

Symmetry == Permutations(Request)
=============================================================================
