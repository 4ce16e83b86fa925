---------------------------- MODULE MCIngestJobs ----------------------------
(* Instances of IngestJobs for model checking.                             *)
EXTENDS IngestJobs, TLC

\* Workers, and the keys clients choose, are interchangeable.
Interchangeable == Permutations(Worker) \cup Permutations(IdempotencyKey)
=============================================================================
