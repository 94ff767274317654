---------------------------- MODULE MCFormDrafts ----------------------------
(* FormDrafts for TLC. *)
EXTENDS FormDrafts, TLC

Symmetry == Permutations(Request)
=============================================================================
