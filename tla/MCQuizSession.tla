--------------------------- MODULE MCQuizSession ---------------------------
(* Symmetry sets for the small instances of QuizSession.                   *)
EXTENDS QuizSession, TLC

Interchangeable == Permutations(Worker) \cup Permutations(Dish)
=============================================================================
