----------------------------- MODULE MCTaskQueue -----------------------------
(* Two tasks and two researchers; for liveness, one researcher and a task   *)
(* of a department nobody works for.                                        *)
EXTENDS TaskQueue, TLC

CONSTANTS w1, w2, t1, t2, t3

MCTasks == 1..2
MCRank  == [k \in Tasks |-> k]
WorkerSymmetry == Permutations(Workers)
=============================================================================
