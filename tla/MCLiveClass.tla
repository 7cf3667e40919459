---------------------------- MODULE MCLiveClass ----------------------------
(***************************************************************************)
(* Small classes for TLC: the first option is the right one everywhere.    *)
(***************************************************************************)
EXTENDS LiveClass, TLC

CONSTANTS a, b

Options == {a, b}
Right == [q \in ChoiceQuestion |-> a]

Symmetry == Permutations(ChoiceQuestion)

=============================================================================
