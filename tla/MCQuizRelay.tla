---------------------------- MODULE MCQuizRelay ----------------------------
(***************************************************************************)
(* Small instances of QuizRelay for TLC.  Sids are never reused, so their  *)
(* number bounds how often anybody connects, and with it the generations   *)
(* of the grace timers.                                                    *)
(***************************************************************************)
EXTENDS QuizRelay, TLC

Symmetry == Permutations(Sid) \cup Permutations(Device)

=============================================================================
