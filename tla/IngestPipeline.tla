--------------------------- MODULE IngestPipeline ---------------------------
(***************************************************************************)
(* One document of the index: its row, its immutable versions and their    *)
(* source objects, the indexing attempts that lease it, the chunk rows     *)
(* they stage, and the callers that publish and index concurrently: upload *)
(* requests, process requests and the command line.  Every database        *)
(* transaction is one step; everything between two transactions of a       *)
(* caller (parsing, embedding) may interleave with the others.             *)
(*                                                                         *)
(* The durable job queue is empty here; IngestJobs adds it.                *)
(***************************************************************************)
EXTENDS Naturals, FiniteSets

CONSTANTS
    Sha,            \* the contents (SHA-256 digests) that may be offered
    Key,            \* content keys of chunks
    Manifest,       \* the keys a complete parse of each content yields
    BatchSize,      \* chunk rows per upsert (32 in the code)
    Uploader, Processor, Cli,   \* upload requests, process requests, CLI runs
    None,           \* SQL NULL for digests and holders
    MaxCandidate, MaxAttempt, MaxRevision   \* bounds on fresh identities

Actor     == Uploader \cup Processor \cup Cli
Candidate == 1..MaxCandidate
Attempt   == 1..MaxAttempt

ASSUME ConstantsAssumption ==
    /\ Manifest \in [Sha -> SUBSET Key]
    /\ \A s \in Sha : Manifest[s] # {}
    /\ IsFiniteSet(Key)
    /\ None \notin Sha /\ None \notin Actor
    /\ BatchSize \in Nat \ {0}
    /\ MaxCandidate \in Nat /\ MaxAttempt \in Nat /\ MaxRevision \in Nat
    /\ Uploader \cap Processor = {} /\ Uploader \cap Cli = {}
    /\ Processor \cap Cli = {}

VARIABLES
    doc,        \* the documents row; id 0 stands for NULL
    version,    \* document_versions: candidate id -> digest, None if unborn
    source,     \* versions whose immutable bytes are in object storage
    attempt,    \* the attempts table
    lastGen,    \* documents.last_generation
    chunk,      \* chunk rows [gen, ver, key]
    build,      \* document_version_builds receipts [ver, gen, att, count]
    publock,    \* who holds the document's session publish lock
    run,        \* the local state of every caller
    client      \* a version-activation request: target, revision and
                \* generation it has read

vars == <<doc, version, source, attempt, lastGen, chunk, build, publock,
          run, client>>

State   == {"absent", "staged", "published"}
Verdict == {"unborn", "running", "done", "error", "partial", "superseded"}
Pc == {"idle", "crashed", "lock", "write", "finalize", "begin", "ensure",
       "parse", "check", "allocate", "reuse", "beat", "embed", "extend", "copy",
       "partial", "promote", "swap", "close", "raised", "unreleased"}

\* The caller is at work on nothing: it waits for a request, its process died,
\* or its request ended with a lease the database would not take back.
Over(r) == r.pc \in {"idle", "crashed", "unreleased"}

Idle(p) == [pc |-> p, att |-> 0, cand |-> 0, bytes |-> None, gen |-> 0,
            keys |-> {}, todo |-> {}, reuse |-> {}, whole |-> FALSE]

Init ==
    /\ doc = [sha |-> None, cand |-> 0, state |-> "absent", att |-> 0,
              live |-> FALSE, gen |-> 0, ver |-> 0, served |-> None,
              rev |-> 0, archived |-> FALSE]
    /\ version = [c \in Candidate |-> None]
    /\ source = {}
    /\ attempt = [a \in Attempt |-> [status |-> "unborn", cand |-> 0,
                                     sha |-> None, observed |-> 0]]
    /\ lastGen = 0 /\ chunk = {} /\ build = {}
    /\ publock = None
    /\ run = [w \in Actor |-> Idle("idle")]
    /\ client = [ver |-> 0, rev |-> 0, gen |-> 0]

\* Caller w moves to local state r.
LocalState(w, r) == run' = [run EXCEPT ![w] = r]

-----------------------------------------------------------------------------
(* Publication: wait for the session publish lock; under it stage, write   *)
(* the immutable source and finalize.                                      *)

\* A candidate id no version has carried.
NewCandidate(c) ==
    version[c] = None /\ \A b \in Candidate : b < c => version[b] # None

\* The conflict gate of stage_candidate for an offer of digest s.
GateAdmits(s, replace) ==
    \/ replace
    \/ doc.state = "absent"
    \/ doc.sha = s
    \/ doc.served = None /\ chunk = {}

\* Wrong: the row is fenced and the attempt record left dangling.
FenceNothing(c) == attempt

\* Wrong: a verdict the attempts table does not know.
FenceUnknown(c) ==
    [a \in Attempt |->
        IF attempt[a].status = "running" /\ attempt[a].cand # c
        THEN [attempt[a] EXCEPT !.status = "fenced"] ELSE attempt[a]]

\* Attempts bound to another candidate are closed by the system.
Fence(c) ==
    [a \in Attempt |->
        IF attempt[a].status = "running" /\ attempt[a].cand # c
        THEN [attempt[a] EXCEPT !.status = "superseded"] ELSE attempt[a]]

\* Wrong: a recorded candidate is taken for one whose bytes were written.
StageSameUnwritten(u, s) ==
    /\ doc.sha = s /\ doc.cand # 0
    /\ LocalState(u, [Idle("finalize") EXCEPT !.cand = doc.cand, !.bytes = s])
    /\ attempt' = Fence(doc.cand)
    /\ UNCHANGED <<doc, version>>

\* A re-offer of the recorded bytes keeps the candidate, its state and lease.
StageSame(u, s) ==
    /\ doc.sha = s /\ doc.cand # 0
    /\ LocalState(u, [Idle("write") EXCEPT !.cand = doc.cand, !.bytes = s])
    /\ attempt' = Fence(doc.cand)
    /\ UNCHANGED <<doc, version>>

\* Other bytes mint a candidate and its version row, and empty the lease.
StageNew(u, s, replace) ==
    /\ GateAdmits(s, replace)
    /\ ~(doc.sha = s /\ doc.cand # 0)
    /\ \E c \in Candidate :
          /\ NewCandidate(c)
          /\ doc' = [doc EXCEPT !.sha = s, !.cand = c, !.state = "staged",
                                !.att = 0, !.live = FALSE]
          /\ version' = [version EXCEPT ![c] = s]
          /\ attempt' = Fence(c)
          /\ LocalState(u, [Idle("write") EXCEPT !.cand = c, !.bytes = s])

\* publish_candidate blocks in pg_advisory_lock before it does anything else.
AskLock(u) ==
    /\ u \in Uploader \cup Cli
    /\ run[u].pc = "idle"
    /\ LocalState(u, Idle("lock"))
    /\ UNCHANGED <<doc, version, source, attempt, lastGen, chunk, build,
                   publock, client>>

\* The lock is granted and the offered bytes are staged.
StageCandidate(u) ==
    /\ run[u].pc = "lock"
    /\ publock = None
    /\ publock' = u
    /\ \E s \in Sha, replace \in BOOLEAN :
          StageSame(u, s) \/ StageNew(u, s, replace)
    /\ UNCHANGED <<source, lastGen, chunk, build, client>>

\* The lock is granted and the offer refused (a conflict, an unsafe name, a
\* failing database): the lock is given back and nothing was staged.
StageRefused(u) ==
    /\ run[u].pc = "lock"
    /\ publock = None
    /\ LocalState(u, Idle("idle"))
    /\ UNCHANGED <<doc, version, source, attempt, lastGen, chunk, build,
                   publock, client>>

\* publish_version_source writes once; repeating it proves the same bytes.
WriteSource(u) ==
    /\ run[u].pc = "write"
    /\ source' = source \cup {run[u].cand}
    /\ LocalState(u, [run[u] EXCEPT !.pc = "finalize"])
    /\ UNCHANGED <<doc, version, attempt, lastGen, chunk, build, publock,
                   client>>

\* A command-line run goes on to index what it published, an upload is over.
Published(u) ==
    IF u \in Cli THEN [Idle("begin") EXCEPT !.bytes = run[u].bytes]
                 ELSE Idle("idle")

\* Guarded on the candidate id; then the lock is released.
FinalizePublication(u) ==
    /\ run[u].pc = "finalize"
    /\ doc.cand = run[u].cand
    /\ doc' = [doc EXCEPT !.state = "published"]
    /\ publock' = None
    /\ LocalState(u, Published(u))
    /\ UNCHANGED <<version, source, attempt, lastGen, chunk, build, client>>

\* Wrong: the session keeps its lock when the write is refused.
StopsLocked(u) ==
    /\ run[u].pc \in {"write", "finalize"}
    /\ LocalState(u, Idle("idle"))
    /\ UNCHANGED <<doc, version, source, attempt, lastGen, chunk, build,
                   publock, client>>

\* A refused write or a lost session releases the lock and leaves STAGED.
PublicationStops(u) ==
    /\ run[u].pc \in {"write", "finalize"}
    /\ publock' = None
    /\ LocalState(u, Idle("idle"))
    /\ UNCHANGED <<doc, version, source, attempt, lastGen, chunk, build,
                   client>>

-----------------------------------------------------------------------------
(* The lease.                                                              *)

\* begin_attempt: an expired holder is displaced and its record closed.
BeginAttempt(w) ==
    /\ \/ w \in Processor /\ run[w].pc = "idle"
       \/ run[w].pc = "begin"
    /\ doc.state = "published" /\ ~doc.archived
    /\ doc.att = 0 \/ ~doc.live
    /\ \E a \in Attempt :
          /\ attempt[a].status = "unborn"
          /\ \A b \in Attempt : b < a => attempt[b].status # "unborn"
          /\ attempt' = [b \in Attempt |->
                IF b = a THEN [status |-> "running", cand |-> doc.cand,
                               sha |-> doc.sha, observed |-> doc.gen]
                ELSE IF b = doc.att /\ attempt[b].status = "running"
                THEN [attempt[b] EXCEPT !.status = "superseded"]
                ELSE attempt[b]]
          /\ doc' = [doc EXCEPT !.att = a, !.live = TRUE]
          /\ LocalState(w, [Idle(IF w \in Cli THEN "parse" ELSE "ensure")
                             EXCEPT !.att = a, !.bytes = run[w].bytes])
    /\ UNCHANGED <<version, source, lastGen, chunk, build, publock, client>>

\* begin_attempt refuses (or the bound MaxAttempt is reached): the
\* command-line run ends with its exit code.
BeginRefused(w) ==
    /\ run[w].pc = "begin"
    /\ \/ doc.state # "published" \/ doc.archived
       \/ doc.att # 0 /\ doc.live
       \/ \A a \in Attempt : attempt[a].status # "unborn"
    /\ LocalState(w, Idle("idle"))
    /\ UNCHANGED <<doc, version, source, attempt, lastGen, chunk, build,
                   publock, client>>

\* The database clock passes attempt_expires_at; ownership does not move.
LeaseExpires ==
    /\ doc.live
    /\ doc' = [doc EXCEPT !.live = FALSE]
    /\ UNCHANGED <<version, source, attempt, lastGen, chunk, build, publock,
                   run, client>>

\* Wrong: two runs of one candidate are indistinguishable.
SameCandidate(w) == doc.cand = attempt[run[w].att].cand

\* _authority: the row still names this attempt's candidate and this attempt.
\* Expiry alone does not take it away.
Authority(w) ==
    /\ doc.cand = attempt[run[w].att].cand
    /\ doc.att = run[w].att

\* A failing run keeps its attempt and nothing else that is used again.
Failing(w, pc) == [Idle(pc) EXCEPT !.att = run[w].att]

\* Where an exception raised at each step of ingest_attempt lands: the embed
\* block and the early phase close the attempt, the other steps propagate.
Handler(pc) ==
    IF pc \in {"parse", "embed", "extend", "copy"} THEN "close" ELSE "raised"

Raise(w) ==
    /\ LocalState(w, Failing(w, Handler(run[w].pc)))
    /\ UNCHANGED <<doc, version, source, attempt, lastGen, chunk, build,
                   publock, client>>

\* A refusal by _authority inside a write's own transaction.
WriteRefused(w) ==
    /\ \/ run[w].pc \in {"allocate", "beat", "extend", "copy"}
       \/ run[w].pc = "embed" /\ run[w].todo # {}
    /\ ~Authority(w)
    /\ Raise(w)

\* Storage, parser, embedding service or database failure.
StepFails(w) ==
    /\ run[w].pc \in {"ensure", "parse", "check", "allocate", "reuse", "beat",
                      "embed", "extend", "copy", "partial", "promote", "swap"}
    /\ Raise(w)

\* Push the expiry forward: an expired lease nobody took is live again.
Heartbeat(w) ==
    /\ run[w].pc \in {"beat", "extend"}
    /\ Authority(w)
    /\ doc' = [doc EXCEPT !.live = TRUE]
    /\ LocalState(w, [run[w] EXCEPT !.pc = "embed"])
    /\ UNCHANGED <<version, source, attempt, lastGen, chunk, build, publock,
                   client>>

\* The attempts table once attempt a has its terminal verdict.
Ended(a, verdict) ==
    [attempt EXCEPT ![a] = [attempt[a] EXCEPT !.status = verdict]]

\* record_attempt_outcome: verdict and lease release together, or nothing.
Record(w, verdict) ==
    IF Authority(w)
    THEN /\ attempt' = Ended(run[w].att, verdict)
         /\ doc' = [doc EXCEPT !.att = 0, !.live = FALSE]
    ELSE UNCHANGED <<attempt, doc>>

\* _close_attempt in the failing paths of ingest_attempt, then re-raise.
CloseAsError(w) ==
    /\ run[w].pc = "close"
    /\ Record(w, "error")
    /\ LocalState(w, [run[w] EXCEPT !.pc = "raised"])
    /\ UNCHANGED <<version, source, lastGen, chunk, build, publock, client>>

\* The database refuses that closing: the exception goes on, the lease is held.
CloseFails(w) ==
    /\ run[w].pc = "close"
    /\ LocalState(w, [run[w] EXCEPT !.pc = "raised"])
    /\ UNCHANGED <<doc, version, source, attempt, lastGen, chunk, build,
                   publock, client>>

\* Wrong: the endpoint answers 500 and leaves the lease to expire.
CallerForgets(w) ==
    /\ run[w].pc = "raised"
    /\ LocalState(w, Idle("idle"))
    /\ UNCHANGED <<doc, version, source, attempt, lastGen, chunk, build,
                   publock, client>>

\* The process endpoint abandons the attempt it took, whatever was raised;
\* the command line turns the exception into an exit code or a traceback.
CallerEnds(w) ==
    /\ run[w].pc = "raised"
    /\ IF w \in Processor THEN Record(w, "error")
                          ELSE UNCHANGED <<attempt, doc>>
    /\ LocalState(w, Idle("idle"))
    /\ UNCHANGED <<version, source, lastGen, chunk, build, publock, client>>

\* _release_attempt only logs a closing the database refuses: the endpoint
\* answers 500 and the lease is left to expire.
ReleaseFails(w) ==
    /\ w \in Processor
    /\ run[w].pc = "raised"
    /\ LocalState(w, Idle("unreleased"))
    /\ UNCHANGED <<doc, version, source, attempt, lastGen, chunk, build,
                   publock, client>>

\* The process dies holding whatever it holds; its session lock is dropped.
Crash(w) ==
    /\ ~Over(run[w]) /\ run[w].pc \notin {"write", "finalize"}
    /\ LocalState(w, Idle("crashed"))
    /\ UNCHANGED <<doc, version, source, attempt, lastGen, chunk, build,
                   publock, client>>

\* The next request of this caller.
Restart(w) ==
    /\ run[w].pc \in {"crashed", "unreleased"}
    /\ LocalState(w, Idle("idle"))
    /\ UNCHANGED <<doc, version, source, attempt, lastGen, chunk, build,
                   publock, client>>

-----------------------------------------------------------------------------
(* ingest_attempt.                                                         *)

\* The process endpoint re-proves the binding under the publish lock and reads
\* the version's immutable bytes.
EnsureSource(w) ==
    /\ run[w].pc = "ensure"
    /\ publock = None
    /\ LET a == attempt[run[w].att] IN
       IF doc.cand = a.cand /\ doc.sha = a.sha /\ a.cand \in source
       THEN LocalState(w, [run[w] EXCEPT !.pc = "parse",
                                         !.bytes = version[a.cand]])
       ELSE LocalState(w, Failing(w, "raised"))
    /\ UNCHANGED <<doc, version, source, attempt, lastGen, chunk, build,
                   publock, client>>

\* Wrong: whatever was on the path is taken for the candidate.
SnapshotTrusted(w) == run[w].bytes # None

\* The snapshot is the attempt's candidate, before and after the parse.
SnapshotIsCandidate(w) == run[w].bytes = attempt[run[w].att].sha

\* A parse is complete, loses parts it reports, or silently yields nothing.
\* Bytes that are not the attempt's candidate are refused before it.
Parse(w) ==
    /\ run[w].pc = "parse"
    /\ \/ /\ ~SnapshotIsCandidate(w)
          /\ LocalState(w, Failing(w, "close"))
       \/ /\ SnapshotIsCandidate(w)
          /\ \E found \in SUBSET Manifest[run[w].bytes], whole \in BOOLEAN :
                /\ whole => found \in {{}, Manifest[run[w].bytes]}
                /\ ~whole => found # Manifest[run[w].bytes]
                /\ LocalState(w, [run[w] EXCEPT !.pc = "check", !.keys = found,
                                                !.whole = whole])
    /\ UNCHANGED <<doc, version, source, attempt, lastGen, chunk, build,
                   publock, client>>

\* _refuse_if_superseded, then the refusal of a parse with nothing usable.
CheckParsed(w) ==
    /\ run[w].pc = "check"
    /\ LocalState(w,
           IF doc.cand # attempt[run[w].att].cand THEN Failing(w, "raised")
           ELSE IF run[w].keys = {} /\ run[w].whole THEN Failing(w, "close")
           ELSE [run[w] EXCEPT !.pc = "allocate"])
    /\ UNCHANGED <<doc, version, source, attempt, lastGen, chunk, build,
                   publock, client>>

\* Wrong: the first design, the number after the active generation.
AllocateNextToActive(w) ==
    /\ run[w].pc = "allocate"
    /\ Authority(w)
    /\ lastGen' = doc.gen + 1
    /\ LocalState(w, [run[w] EXCEPT !.pc = "reuse", !.gen = doc.gen + 1])
    /\ UNCHANGED <<doc, version, source, attempt, chunk, build, publock,
                   client>>

\* A generation number no other attempt has ever held.
AllocateGeneration(w) ==
    /\ run[w].pc = "allocate"
    /\ Authority(w)
    /\ lastGen' = lastGen + 1
    /\ LocalState(w, [run[w] EXCEPT !.pc = "reuse", !.gen = lastGen + 1])
    /\ UNCHANGED <<doc, version, source, attempt, chunk, build, publock,
                   client>>

\* existing_content_keys looks at every version and generation.
FindReusable(w) ==
    /\ run[w].pc = "reuse"
    /\ LET known == {c.key : c \in chunk} IN
       LocalState(w, [run[w] EXCEPT !.pc = "beat",
                                    !.todo  = run[w].keys \ known,
                                    !.reuse = run[w].keys \cap known])
    /\ UNCHANGED <<doc, version, source, attempt, lastGen, chunk, build,
                   publock, client>>

\* Chunk rows of this run's generation, under its candidate's version.
Rows(w, keys) ==
    {[gen |-> run[w].gen, ver |-> attempt[run[w].att].cand, key |-> k] :
        k \in keys}

\* A full batch is written and followed by a heartbeat.
UpsertBatch(w) ==
    /\ run[w].pc = "embed"
    /\ Authority(w)
    /\ \E batch \in SUBSET run[w].todo :
          /\ Cardinality(batch) = BatchSize
          /\ chunk' = chunk \cup Rows(w, batch)
          /\ LocalState(w, [run[w] EXCEPT !.pc = "extend",
                                          !.todo = run[w].todo \ batch])
    /\ UNCHANGED <<doc, version, source, attempt, lastGen, build, publock,
                   client>>

\* The remainder, if there is one, is written before the copies.
UpsertRest(w) ==
    /\ run[w].pc = "embed"
    /\ Cardinality(run[w].todo) < BatchSize
    /\ run[w].todo # {} => Authority(w)
    /\ chunk' = chunk \cup Rows(w, run[w].todo)
    /\ LocalState(w, [run[w] EXCEPT !.pc = "copy", !.todo = {}])
    /\ UNCHANGED <<doc, version, source, attempt, lastGen, build, publock,
                   client>>

\* copy_chunks_into_generation finds a predecessor of the same version only.
Copyable(w) ==
    {k \in run[w].reuse :
        \E c \in chunk : c.key = k /\ c.ver = attempt[run[w].att].cand}

CopyReused(w) ==
    /\ run[w].pc = "copy"
    /\ Authority(w)
    /\ chunk' = chunk \cup Rows(w, Copyable(w))
    /\ LocalState(w, [run[w] EXCEPT !.pc = IF run[w].whole THEN "promote"
                                                         ELSE "partial"])
    /\ UNCHANGED <<doc, version, source, attempt, lastGen, build, publock,
                   client>>

\* A parse that lost parts never promotes; the run returns its verdict.
RecordPartial(w) ==
    /\ run[w].pc = "partial"
    /\ Record(w, "partial")
    /\ LocalState(w, Idle("idle"))
    /\ UNCHANGED <<version, source, lastGen, chunk, build, publock, client>>

Edition(gen, ver) == {c \in chunk : c.gen = gen /\ c.ver = ver}

\* promote_generation, first statement: the staged rows against the manifest.
CheckManifest(w) ==
    /\ run[w].pc = "promote"
    /\ LocalState(w,
           IF /\ run[w].keys # {}
              /\ Edition(run[w].gen, attempt[run[w].att].cand)
                    = Rows(w, run[w].keys)
           THEN [run[w] EXCEPT !.pc = "swap"] ELSE Failing(w, "raised"))
    /\ UNCHANGED <<doc, version, source, attempt, lastGen, chunk, build,
                   publock, client>>

\* Its compare-and-swap on generation, candidate and attempt.
SwapAllowed(w) ==
    /\ attempt[run[w].att].status = "running"
    /\ doc.gen = attempt[run[w].att].observed
    /\ Authority(w)

SwapRefused(w) ==
    /\ run[w].pc = "swap"
    /\ ~SwapAllowed(w)
    /\ Raise(w)

\* Rows covered by a build receipt survive the sweep.
Sweep(receipts) ==
    {c \in chunk : \E b \in receipts : b.gen = c.gen /\ b.ver = c.ver}

\* Wrong: the digest of the served bytes is not moved with the pointer.
PromotedKeepingDigest(ver, gen, sha) ==
    [doc EXCEPT !.ver = ver, !.gen = gen, !.rev = @ + 1, !.att = 0,
                !.live = FALSE]

\* The row after a promotion: pointer, digest and revision move together and
\* the lease is released.
PromotedRow(ver, gen, sha) ==
    [doc EXCEPT !.ver = ver, !.gen = gen, !.served = sha, !.rev = @ + 1,
                !.att = 0, !.live = FALSE]

\* The swap, the lease release, the build receipt, the attempt's DONE and the
\* sweep of rows no receipt covers are one transaction.
Promote(w) ==
    /\ run[w].pc = "swap"
    /\ SwapAllowed(w)
    /\ LET a   == run[w].att
           ver == attempt[a].cand
           gen == run[w].gen
       IN
       /\ doc' = PromotedRow(ver, gen, attempt[a].sha)
       /\ attempt' = Ended(a, "done")
       /\ build' = build \cup
             {[ver |-> ver, gen |-> gen, att |-> a,
               count |-> Cardinality(Edition(gen, ver))]}
       /\ chunk' = Sweep(build')
    /\ LocalState(w, Idle("idle"))
    /\ UNCHANGED <<version, source, lastGen, publock, client>>

-----------------------------------------------------------------------------
(* Lifecycle: archive, restore and activation of a retained version.       *)

\* set_document_archived, when it changes anything: no attempt may be open.
SetArchived ==
    /\ doc.state # "absent"
    /\ doc.att = 0
    /\ doc' = [doc EXCEPT !.archived = ~@]
    /\ UNCHANGED <<version, source, attempt, lastGen, chunk, build, publock,
                   run, client>>

\* The client reads the version list and the document revision.
ReadVersions ==
    /\ client.ver = 0
    /\ \E c \in Candidate :
          /\ version[c] # None
          /\ client' = [ver |-> c, rev |-> doc.rev, gen |-> doc.gen]
    /\ UNCHANGED <<doc, version, source, attempt, lastGen, chunk, build,
                   publock, run>>

\* The receipts of ver whose retained rows still match them.
ReadyBuilds(ver) ==
    {b \in build : b.ver = ver /\ b.count = Cardinality(Edition(b.gen, ver))}

\* Wrong: the last activation wins whatever its client had seen.
RevisionIgnored == TRUE

\* The revision the client read is still the document's.
RevisionMatches == doc.rev = client.rev

ActivationAllowed ==
    /\ doc.att = 0 /\ ~doc.archived
    /\ RevisionMatches /\ doc.rev < MaxRevision
    /\ client.ver \in source /\ ReadyBuilds(client.ver) # {}

\* activate_document_version: retrieval moves to the newest ready build of the
\* version; repeating the served build changes nothing.
ActivateVersion ==
    /\ client.ver # 0 /\ ActivationAllowed
    /\ \E b \in ReadyBuilds(client.ver) :
          /\ \A o \in ReadyBuilds(client.ver) : b.gen >= o.gen
          /\ doc' = IF doc.ver = b.ver /\ doc.gen = b.gen THEN doc
                    ELSE [doc EXCEPT !.ver = b.ver, !.gen = b.gen,
                                     !.served = version[b.ver], !.rev = @ + 1]
    /\ client' = [ver |-> 0, rev |-> 0, gen |-> 0]
    /\ UNCHANGED <<version, source, attempt, lastGen, chunk, build, publock,
                   run>>

\* Refused beside an attempt, in an archive, on a stale revision or without a
\* ready build.
ActivationRefused ==
    /\ client.ver # 0 /\ ~ActivationAllowed
    /\ client' = [ver |-> 0, rev |-> 0, gen |-> 0]
    /\ UNCHANGED <<doc, version, source, attempt, lastGen, chunk, build,
                   publock, run>>

-----------------------------------------------------------------------------
LockGranted(u) == StageCandidate(u) \/ StageRefused(u)

Publication(u) == WriteSource(u) \/ FinalizePublication(u)

IngestStep(w) ==
    \/ EnsureSource(w) \/ Parse(w) \/ CheckParsed(w) \/ AllocateGeneration(w)
    \/ FindReusable(w) \/ Heartbeat(w) \/ UpsertBatch(w) \/ UpsertRest(w)
    \/ CopyReused(w) \/ RecordPartial(w) \/ CheckManifest(w) \/ Promote(w)
    \/ SwapRefused(w) \/ WriteRefused(w) \/ CloseAsError(w) \/ CallerEnds(w)

CallerStep(w) ==
    \/ AskLock(w) \/ LockGranted(w) \/ Publication(w) \/ PublicationStops(w)
    \/ BeginAttempt(w) \/ BeginRefused(w) \/ IngestStep(w) \/ StepFails(w)
    \/ CloseFails(w) \/ ReleaseFails(w) \/ Crash(w) \/ Restart(w)

Next ==
    \/ \E w \in Actor : CallerStep(w)
    \/ LeaseExpires \/ SetArchived \/ ReadVersions \/ ActivateVersion
    \/ ActivationRefused

Spec == Init /\ [][Next]_vars

\* What a request that has begun does next; nobody need send one.
Advance(w) ==
    \/ Publication(w) \/ BeginRefused(w) \/ IngestStep(w)
    \/ run[w].pc = "begin" /\ BeginAttempt(w)

\* The session publish lock is granted to one who waits for it.
TakesLock(w) == LockGranted(w) \/ EnsureSource(w)

\* A caller at work goes on, and PostgreSQL queues those who wait for a lock.
Fairness == \A w \in Actor : WF_vars(Advance(w)) /\ SF_vars(TakesLock(w))

FairSpec == Spec /\ Fairness

-----------------------------------------------------------------------------
(* Properties.                                                             *)

DocRow     == [sha : Sha \cup {None}, cand : Candidate \cup {0}, state : State,
               att : Attempt \cup {0}, live : BOOLEAN, gen : Nat,
               ver : Candidate \cup {0}, served : Sha \cup {None}, rev : Nat,
               archived : BOOLEAN]
AttemptRow == [status : Verdict, cand : Candidate \cup {0},
               sha : Sha \cup {None}, observed : Nat]
ChunkRow   == [gen : Nat, ver : Candidate \cup {0}, key : Key]
BuildRow   == [ver : Candidate \cup {0}, gen : Nat, att : Attempt \cup {0},
               count : Nat]
RunState   == [pc : Pc, att : Attempt \cup {0}, cand : Candidate \cup {0},
               bytes : Sha \cup {None}, gen : Nat, keys : SUBSET Key,
               todo : SUBSET Key, reuse : SUBSET Key, whole : BOOLEAN]

TypeOK ==
    /\ doc \in DocRow
    /\ version \in [Candidate -> Sha \cup {None}]
    /\ source \subseteq Candidate
    /\ attempt \in [Attempt -> AttemptRow]
    /\ lastGen \in Nat
    /\ chunk \subseteq ChunkRow
    /\ build \subseteq BuildRow
    /\ publock \in Actor \cup {None}
    /\ run \in [Actor -> RunState]
    /\ client \in [ver : Candidate \cup {0}, rev : Nat, gen : Nat]

\* The lease on the row and the attempt records agree: the holder is exactly
\* the one running attempt, and it is bound to the recorded, published
\* candidate and its bytes.  AttemptRecordInconsistent is never raised.
LeaseMatchesRecord ==
    /\ \A a \in Attempt : attempt[a].status = "running" <=> doc.att = a
    /\ doc.att # 0 => /\ doc.state = "published" /\ ~doc.archived
                      /\ attempt[doc.att].cand = doc.cand
                      /\ attempt[doc.att].sha = doc.sha

\* A published candidate and a served version have immutable bytes in storage
\* that are the bytes the row names, whatever publication crashed between
\* stage, write and finalize.
NamedBytesExist ==
    /\ doc.state = "published" => /\ doc.cand \in source
                                  /\ version[doc.cand] = doc.sha
    /\ doc.ver # 0 => /\ doc.ver \in source
                      /\ version[doc.ver] = doc.served

\* Every build that was ever served keeps all its rows, so that activation is
\* a rollback and not a pointer at swept data.
ReceiptsKeepEditions ==
    \A b \in build : {c.key : c \in Edition(b.gen, b.ver)}
                        = Manifest[version[b.ver]]

\* No two runs stage under one generation number, and no generation mixes the
\* rows of two versions.
GenerationsArePrivate ==
    /\ \A v, w \in Actor : v # w /\ run[v].gen # 0 => run[v].gen # run[w].gen
    /\ \A c, d \in chunk : c.gen = d.gen => c.ver = d.ver

\* Whatever is staged under a version was parsed from that version's bytes: a
\* command-line snapshot is never indexed under another upload's candidate.
StagedFromOwnBytes ==
    \A c \in chunk : c.key \in Manifest[version[c.ver]]

\* An edition is made of its own version's bytes and stays whole for as long as
\* it can be activated again.
EditionsAreWhole == ReceiptsKeepEditions /\ StagedFromOwnBytes

\* Rows appear only for the current candidate and the generation of the run
\* that holds the lease: a fenced or displaced run writes nothing.
OnlyTheHolderStages ==
    [][\A c \in chunk' \ chunk :
          /\ c.ver = doc.cand
          /\ \E w \in Actor : /\ run[w].att = doc.att /\ doc.att # 0
                              /\ run[w].gen = c.gen]_vars

\* A verdict is written once: nobody, displaced worker, promotion or sweep,
\* rewrites a terminal attempt.
VerdictsAreFinal ==
    [][\A a \in Attempt : attempt[a].status \notin {"unborn", "running"}
                            => attempt'[a] = attempt[a]]_vars

\* The served pointer moves only from the generation its mover had read: a
\* promotion from the one observed when its attempt began, an activation from
\* the one the client saw with its revision.
NoBlindOverwrite ==
    [][<<doc.ver, doc.gen>> # <<doc'.ver, doc'.gen>> =>
          \/ doc.att # 0 /\ attempt[doc.att].observed = doc.gen
          \/ client.ver = doc'.ver /\ client.gen = doc.gen]_vars

\* A process request that is over holds nothing: unless its process died or
\* the database refused to close its attempt, the lease it took is released
\* when it ends.  A lease left behind (by one of those, or by the command line,
\* which leaves what it cannot close) only runs out: nobody but the run that
\* holds it, and is still at work, ever renews it.
EndedRunHoldsNothing ==
    [][/\ \A w \in Processor :
             (~Over(run[w]) /\ run'[w].pc = "idle" /\ run[w].att # 0)
                => doc'.att # run[w].att
       /\ (doc'.att = doc.att /\ ~doc.live /\ doc'.live)
             => \E w \in Actor : run[w].att = doc.att /\ ~Over(run[w])]_vars

\* Reusing embeddings is only an optimisation: the holder of the lease that
\* has written and copied everything it parsed finds its whole manifest staged.
ReuseCompletesManifest ==
    \A w \in Actor : (run[w].pc = "promote" /\ Authority(w)) =>
        Edition(run[w].gen, attempt[run[w].att].cand) = Rows(w, run[w].keys)

\* Every publication and every indexing run comes to an end or dies with its
\* process.  None waits for ever, not for the lease and not in the queue of the
\* publish lock; whoever got that lock gives it back, by finalize, a refusal or
\* the end of its session.
RunsEnd ==
    /\ \A w \in Actor : ~Over(run[w]) ~> Over(run[w])
    /\ (publock # None) ~> (publock = None)

\* The rows a search can reach: the active generation of the active version.
Retrievable ==
    IF doc.archived THEN {} ELSE {c.key : c \in Edition(doc.gen, doc.ver)}

Served == INSTANCE ServedIndex WITH
    stored <- {version[c] : c \in source}, edition <- doc.served,
    hidden <- doc.archived, visible <- Retrievable

\* The pipeline, with its staging, leases, crashes and rollbacks, implements
\* the served index: a search never sees a partial or mixed edition.
ServesOneEdition == Served!Spec
=============================================================================
