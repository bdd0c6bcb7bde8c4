----------------------------- MODULE MCWorkerPool -----------------------------
(* Three tasks, all three waiting modes, every outcome of pthread_create.  *)
EXTENDS WorkerPool

MCSecLives == {-1, 0, 2}
AnyOutcome == {"live", "zero", "stale"}
===============================================================================
