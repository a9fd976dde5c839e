----------------------------- MODULE MCTaskApi -----------------------------
(* Small instances of TaskApi for TLC. *)
EXTENDS TaskApi, TLC

CONSTANTS t1, t2, t3, w1, w2

ThreeTasks == {t1, t2, t3}
TwoThreads == {w1, w2}

Renamings == Permutations(ThreeTasks) \union Permutations(TwoThreads)
=============================================================================
