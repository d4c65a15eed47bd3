---------------------------- MODULE MCRepository ----------------------------
(* Pages for model checking the Repository: all rows, a first, a later page.  *)
EXTENDS Repository, TLC

SmallPages == {[limit |-> 0, offset |-> 1], [limit |-> 1, offset |-> 0], [limit |-> 2, offset |-> 1]}

Symmetry == Permutations(Procs) \cup Permutations(Tasks)
=============================================================================
