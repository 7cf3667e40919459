--------------------------- MODULE MCQuizRuntime ---------------------------
(***************************************************************************)
(* A choice and a table that are bound to one line, and a second line: a   *)
(* program in a loop meets first the one and then the other.               *)
(***************************************************************************)
EXTENDS QuizRuntime

CONSTANTS choice, table, here, there

Questions == {choice, table}
Lines == {here, there}
TriggerLine == [q \in Questions |-> here]
=============================================================================
