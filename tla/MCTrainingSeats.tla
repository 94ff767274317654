-------------------------- MODULE MCTrainingSeats --------------------------
(* TLC instances of TrainingSeats and the bugs its properties must catch.   *)
EXTENDS TrainingSeats, TLC

Symmetry == Permutations(Submission)
=============================================================================
