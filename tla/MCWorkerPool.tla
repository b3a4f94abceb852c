---------------------------- MODULE MCWorkerPool ---------------------------
EXTENDS WorkerPool, TLC

Symmetric ==
  Permutations(Workers) \union Permutations(Producers)
    \union Permutations(SendTasks) \union Permutations(RecvTasks)
=============================================================================
