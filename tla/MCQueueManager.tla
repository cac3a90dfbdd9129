--------------------------- MODULE MCQueueManager ---------------------------
(* QueueManager for TLC: calls and workers are interchangeable.            *)
EXTENDS QueueManager, TLC

Symmetry == Permutations(Calls) \cup Permutations(Workers)

\* Sizes asked of setWorkerPoolSize: an invalid one, an empty and a large pool.
AskedSizes == {-1, 0, 2}
=============================================================================
