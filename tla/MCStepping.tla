----------------------------- MODULE MCStepping -----------------------------
(* A main with a loop in lines 1 and 2, closed in line 3, and a function     *)
(* in line 4, closed in line 5.                                            *)
EXTENDS Stepping

Lines == 1 .. 5
Fns == [l \in Lines |-> IF l <= 3 THEN 1 ELSE 2]
Entries == {1, 4}
Closings == {3, 5}
Loops == {<<1, 2>>}
=============================================================================
