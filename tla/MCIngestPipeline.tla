-------------------------- MODULE MCIngestPipeline --------------------------
(* Instances of IngestPipeline for model checking.                         *)
EXTENDS IngestPipeline, TLC

CONSTANTS up1, api1, api2, cli1, cli2, shaA, shaB, k1, k2, k3

\* Two editions that share a chunk, as an edited document does.
SharedManifest   == (shaA :> {k1}) @@ (shaB :> {k1, k2})
\* Two editions with nothing in common.
DisjointManifest == (shaA :> {k1}) @@ (shaB :> {k2, k3})
\* One edition of two chunks.
SingleManifest   == shaB :> {k2, k3}

\* Requests of one kind are interchangeable.
Requests == Permutations(Processor)
=============================================================================
