---------------------------- MODULE MCQuizUpload ----------------------------
(***************************************************************************)
(* Small instances of QuizUpload for TLC.  Each call is one press of a     *)
(* button with at most two POSTs; the number of calls bounds the history.  *)
(***************************************************************************)
EXTENDS QuizUpload, TLC

Symmetry == Permutations(Class) \cup Permutations(Call)

=============================================================================
