--------------------------- MODULE MCJobOwnership ---------------------------
(* Instances for model checking: the queue, and beside it what shares nothing *)
(* with the queue, the immutable source of a document version.  A behaviour   *)
(* is of one of them.                                                         *)
EXTENDS MCIngestJobs, VersionSources

VARIABLE side

sides == <<vars, storage, side>>

SidesInit ==
    /\ Init /\ StorageInit /\ side \in {"jobs", "storage"}
    /\ side = "jobs" => platform = "posix"

SidesNext ==
    /\ UNCHANGED side
    /\ \/ side = "jobs" /\ Next /\ UNCHANGED storage
       \/ side = "storage" /\ StorageNext /\ UNCHANGED vars

SidesSpec == SidesInit /\ [][SidesNext]_sides

\* Publishers are only compared with each other, too.
Alike == Interchangeable \cup Permutations(Publisher)
=============================================================================
