------------------------------ MODULE MCJobWorker ------------------------------
(* Small instances of JobWorker: one node, one fence key, a lease longer than   *)
(* the stale time.  Job ids and workers are interchangeable.                   *)
EXTENDS JobWorker, TLC

Symmetry == Permutations(JobIds) \cup Permutations(Workers)
==============================================================================
