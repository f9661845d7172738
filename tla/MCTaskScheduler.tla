-------------------------- MODULE MCTaskScheduler --------------------------
(* Instances of TaskScheduler for TLC.                                     *)
EXTENDS TaskScheduler, TLC

(* The settings of a scene's scheduler: a time budget, hence one message   *)
(* per batch; and the plain ones, whose batch of 32 is 2 here.             *)
Budgeted == [ingest |-> 0, dispatch |-> 0, budget |-> TRUE, size |-> 1]
Batched == [ingest |-> 0, dispatch |-> 0, budget |-> FALSE, size |-> 2]
Limited == [ingest |-> 1, dispatch |-> 1, budget |-> FALSE, size |-> 2]

OnlyBudgeted == {Budgeted}
OnlyBatched == {Batched}
BatchedOrLimited == {Batched, Limited}

Symmetry == Permutations(Tasks)
=============================================================================
