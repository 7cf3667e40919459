---------------------------- MODULE MCQuizEngine ---------------------------
(***************************************************************************)
(* A class with one choice question and one table question for TLC.        *)
(***************************************************************************)
EXTENDS QuizEngine, TLC

CONSTANTS q1, q2, a, b, c1, c2

Choices == {q1}
Tables == {q2}
Options == {a, b}
Right == [q \in Choices |-> a]
Cells == {c1, c2}

Symmetry == Permutations(Device) \cup Permutations(Cells)

=============================================================================
