----------------------------- MODULE IngestJobs -----------------------------
(***************************************************************************)
(* The durable ingest queue of one document: jobs bound to the candidate   *)
(* that was current when they were enqueued, workers that claim them under *)
(* a database lease, and process requests that index the document without  *)
(* a job.  The work under an attempt is one step here (IngestPipeline      *)
(* opens it); what matters is who may begin it, who may write its outcome  *)
(* and what a worker does when its claim is taken away.                    *)
(***************************************************************************)
EXTENDS Naturals, FiniteSets

CONSTANTS
    Worker, Direct,     \* job workers, process requests
    IdempotencyKey,
    MaxTries,           \* attempt budget of a job (max_attempts)
    MaxJob, MaxCandidate, MaxAttempt    \* bounds on fresh identities

Actor     == Worker \cup Direct
Job       == 1..MaxJob
Candidate == 1..MaxCandidate
Attempt   == 1..MaxAttempt

ASSUME JobsAssumption ==
    /\ Worker \cap Direct = {}
    /\ MaxTries \in Nat \ {0}
    /\ MaxJob \in Nat /\ MaxCandidate \in Nat /\ MaxAttempt \in Nat
    /\ 0 \notin Actor /\ 0 \notin IdempotencyKey

VARIABLES
    doc,        \* the documents row; 0 stands for NULL
    attempt,    \* the attempts table
    job,        \* the ingest_jobs table, in order of creation
    run         \* the local state of every worker and request

vars == <<doc, attempt, job, run>>

Terminal  == {"succeeded", "partial", "failed", "cancelled"}
Active(j) == job[j].status \in {"queued", "running"}
ActiveJobs == {j \in Job : Active(j)}

Idle == [pc |-> "idle", job |-> 0, att |-> 0, stale |-> FALSE,
         lost |-> FALSE, verdict |-> "none"]

Init ==
    /\ doc = [cand |-> 0, published |-> FALSE, att |-> 0, live |-> FALSE,
              gen |-> 0, archived |-> FALSE]
    /\ attempt = [a \in Attempt |-> [status |-> "unborn", cand |-> 0,
                                     observed |-> 0]]
    /\ job = [j \in Job |-> [status |-> "unborn", cand |-> 0, key |-> 0,
                             worker |-> 0, live |-> FALSE, tries |-> 0]]
    /\ run = [w \in Actor |-> Idle]

LocalState(w, r) == run' = [run EXCEPT ![w] = r]
At(w, pc)        == LocalState(w, [run[w] EXCEPT !.pc = pc])
Closing(w, pc)   == LocalState(w, [Idle EXCEPT !.pc = pc, !.job = run[w].job])
Dies(w)          == LocalState(w, [Idle EXCEPT !.pc = "crashed"])

-----------------------------------------------------------------------------
(* The document around the queue.                                          *)

\* Other bytes are staged: the lease is emptied and its attempt closed.
StageCandidate ==
    /\ doc.cand < MaxCandidate
    /\ doc' = [doc EXCEPT !.cand = @ + 1, !.published = FALSE, !.att = 0,
                          !.live = FALSE]
    /\ attempt' = [a \in Attempt |->
          IF attempt[a].status = "running"
          THEN [attempt[a] EXCEPT !.status = "superseded"] ELSE attempt[a]]
    /\ UNCHANGED <<job, run>>

FinalizePublication ==
    /\ doc.cand # 0 /\ ~doc.published
    /\ doc' = [doc EXCEPT !.published = TRUE]
    /\ UNCHANGED <<attempt, job, run>>

\* Archive and restore refuse beside an active job or an open attempt.
SetArchived ==
    /\ doc.cand # 0
    /\ ActiveJobs = {} /\ doc.att = 0
    /\ doc' = [doc EXCEPT !.archived = ~@]
    /\ UNCHANGED <<attempt, job, run>>

AttemptLeaseExpires ==
    /\ doc.live
    /\ doc' = [doc EXCEPT !.live = FALSE]
    /\ UNCHANGED <<attempt, job, run>>

-----------------------------------------------------------------------------
(* The queue.                                                              *)

\* What enqueue_ingest_job asks of the document for a key it has not seen.
EnqueueAdmits ==
    /\ doc.cand # 0 /\ doc.published /\ ~doc.archived
    /\ doc.att = 0
    /\ ActiveJobs = {}

\* Wrong: the document is not asked whether an attempt holds it.
EnqueueAdmitsHeld ==
    /\ doc.cand # 0 /\ doc.published /\ ~doc.archived
    /\ ActiveJobs = {}

\* A repeated key answers with the job it already names and changes nothing.
Enqueue ==
    /\ EnqueueAdmits
    /\ \E key \in IdempotencyKey, j \in Job :
          /\ \A i \in Job : job[i].key # key
          /\ job[j].status = "unborn"
          /\ \A i \in Job : i < j => job[i].status # "unborn"
          /\ job' = [job EXCEPT ![j] = [@ EXCEPT !.status = "queued",
                                                 !.cand = doc.cand,
                                                 !.key = key]]
    /\ UNCHANGED <<doc, attempt, run>>

\* Only a queued job can be cancelled.
Cancel(j) ==
    /\ job[j].status = "queued"
    /\ job' = [job EXCEPT ![j].status = "cancelled"]
    /\ UNCHANGED <<doc, attempt, run>>

JobLeaseExpires(j) ==
    /\ job[j].status = "running" /\ job[j].live
    /\ job' = [job EXCEPT ![j].live = FALSE]
    /\ UNCHANGED <<doc, attempt, run>>

\* Wrong: only a queued job is looked at, never an expired one.
ExhaustedWhenQueued(j) ==
    job[j].status = "queued" /\ job[j].tries >= MaxTries

Exhausted(j) ==
    job[j].status = "running" /\ ~job[j].live /\ job[j].tries >= MaxTries

Claimable(j) ==
    /\ job[j].status = "queued" \/ (job[j].status = "running" /\ ~job[j].live)
    /\ job[j].tries < MaxTries

\* The row of a job that is no longer running.
Released(j, status) ==
    [job[j] EXCEPT !.status = status, !.worker = 0, !.live = FALSE]

\* A poll closes the expired jobs whose budget is spent and claims the oldest
\* other one; the document is read in the same transaction.
Claim(w) ==
    /\ run[w].pc = "idle"
    /\ \E j \in Job :
          /\ Claimable(j)
          /\ \A i \in Job : i < j => ~Claimable(i)
          /\ job' = [i \in Job |->
                IF i = j THEN [job[j] EXCEPT !.status = "running", !.worker = w,
                                             !.live = TRUE, !.tries = @ + 1]
                ELSE IF Exhausted(i) THEN Released(i, "failed") ELSE job[i]]
          /\ LocalState(w, [Idle EXCEPT !.pc = "begin", !.job = j,
                               !.stale = doc.archived \/ doc.cand # job[j].cand])
    /\ UNCHANGED <<doc, attempt>>

CloseExhausted(w) ==
    /\ run[w].pc = "idle"
    /\ \A j \in Job : ~Claimable(j)
    /\ \E j \in Job : Exhausted(j)
    /\ job' = [j \in Job |-> IF Exhausted(j) THEN Released(j, "failed")
                                             ELSE job[j]]
    /\ UNCHANGED <<doc, attempt, run>>

\* Wrong: an expired claim still counts as ownership.
OwnsForEver(w) == TRUE

\* The guard of every write of a worker to its job.
Owns(w) ==
    LET j == job[run[w].job] IN
    j.status = "running" /\ j.worker = w /\ j.live

-----------------------------------------------------------------------------
(* The lease on the document (begin_attempt, record_attempt_outcome).      *)

TakeLease(w) ==
    \E a \in Attempt :
       /\ attempt[a].status = "unborn"
       /\ \A b \in Attempt : b < a => attempt[b].status # "unborn"
       /\ attempt' = [b \in Attempt |->
             IF b = a THEN [status |-> "running", cand |-> doc.cand,
                            observed |-> doc.gen]
             ELSE IF b = doc.att /\ attempt[b].status = "running"
             THEN [attempt[b] EXCEPT !.status = "superseded"]
             ELSE attempt[b]]
       /\ doc' = [doc EXCEPT !.att = a, !.live = TRUE]
       /\ LocalState(w, [run[w] EXCEPT !.att = a, !.pc =
             IF w \in Worker THEN "ensure" ELSE "ingest"])

LeaseFree == doc.att = 0 \/ ~doc.live

Authority(w) == doc.att = run[w].att /\ doc.cand = attempt[run[w].att].cand

\* The verdict and the release of the lease, or nothing for a displaced run.
Record(w, verdict) ==
    IF run[w].att # 0 /\ Authority(w)
    THEN /\ attempt' = [attempt EXCEPT ![run[w].att].status = verdict]
         /\ doc' = [doc EXCEPT !.att = 0, !.live = FALSE]
    ELSE UNCHANGED <<attempt, doc>>

\* The index moves to what the attempt staged.
Promotes(w) ==
    /\ Authority(w)
    /\ attempt[run[w].att].status = "running"
    /\ doc.gen = attempt[run[w].att].observed
    /\ attempt' = [attempt EXCEPT ![run[w].att].status = "done"]
    /\ doc' = [doc EXCEPT !.gen = @ + 1, !.att = 0, !.live = FALSE]

-----------------------------------------------------------------------------
(* A worker: run_one.                                                      *)

\* A claim that was stale when it was read, or a document that refuses, fails
\* the job; a live attempt of somebody else sends it back to the queue; a claim
\* that is no longer this worker's is given up.
BeginForJob(w) ==
    /\ run[w].pc = "begin"
    /\ \/ /\ run[w].stale \/ doc.archived \/ ~doc.published
          /\ At(w, "fail") /\ UNCHANGED <<doc, attempt>>
       \/ /\ ~run[w].stale /\ ~doc.archived /\ doc.published
          /\ \/ ~Owns(w) /\ At(w, "disown") /\ UNCHANGED <<doc, attempt>>
             \/ Owns(w) /\ ~LeaseFree /\ At(w, "retry") /\ UNCHANGED <<doc, attempt>>
             \/ Owns(w) /\ LeaseFree /\ TakeLease(w)
    /\ UNCHANGED job

\* Wrong: whatever candidate the attempt was given is indexed for the job.
AnyCandidate(w) == TRUE

\* The job's version is still the document's candidate and the attempt's.
BoundToJob(w) ==
    /\ doc.cand = job[run[w].job].cand
    /\ attempt[run[w].att].cand = job[run[w].job].cand

EnsureSource(w) ==
    /\ run[w].pc = "ensure"
    /\ At(w, IF BoundToJob(w) THEN "ingest" ELSE "fail")
    /\ UNCHANGED <<doc, attempt, job>>

\* ingest_attempt: promoted, partial, or an exception of either class.
IngestDone(w) ==
    /\ run[w].pc = "ingest"
    /\ Promotes(w)
    /\ LocalState(w, IF w \in Worker
                     THEN [run[w] EXCEPT !.pc = "check", !.verdict = "succeeded"]
                     ELSE Idle)
    /\ UNCHANGED job

\* A statement after the promotion fails: the job is retried although the index
\* has moved.
PromotedThenRaises(w) ==
    /\ run[w].pc = "ingest"
    /\ Promotes(w)
    /\ At(w, "retry")
    /\ UNCHANGED job

IngestPartial(w) ==
    /\ run[w].pc = "ingest"
    /\ Record(w, "partial")
    /\ LocalState(w, IF w \in Worker
                     THEN [run[w] EXCEPT !.pc = "check", !.verdict = "partial"]
                     ELSE Idle)
    /\ UNCHANGED job

IngestRaises(w) ==
    /\ run[w].pc = "ingest"
    /\ \E handler \in {"fail", "retry"} : At(w, handler)
    /\ UNCHANGED <<doc, attempt, job>>

\* The heartbeat thread was refused, or failed: the worker assumes the worst.
\* Nobody reads the flag after CheckLost.
HeartbeatLost(w) ==
    /\ run[w].pc \in {"begin", "ensure", "ingest", "check"} /\ ~run[w].lost
    /\ LocalState(w, [run[w] EXCEPT !.lost = TRUE])
    /\ UNCHANGED <<doc, attempt, job>>

CheckLost(w) ==
    /\ run[w].pc = "check"
    /\ At(w, IF run[w].lost THEN "disown" ELSE "finish")
    /\ UNCHANGED <<doc, attempt, job>>

\* finish_ingest_job; a claim found lost here is given up like the others.
Finish(w) ==
    /\ run[w].pc = "finish"
    /\ IF Owns(w)
       THEN /\ job' = [job EXCEPT ![run[w].job] = Released(run[w].job,
                                                           run[w].verdict)]
            /\ LocalState(w, Idle)
       ELSE UNCHANGED job /\ At(w, "disown")
    /\ UNCHANGED <<doc, attempt>>

\* The handlers abandon the attempt first, in a transaction of its own.
Abandon(w) ==
    /\ Record(w, "error")
    /\ \/ run[w].pc = "fail" /\ Closing(w, "failing")
       \/ run[w].pc = "retry" /\ Closing(w, "requeue")
       \/ run[w].pc = "disown" /\ LocalState(w, Idle)
    /\ UNCHANGED job

\* Ownership lost inside a handler is not caught: the worker process ends.
CloseFailed(w) ==
    /\ run[w].pc = "failing"
    /\ IF Owns(w)
       THEN /\ job' = [job EXCEPT ![run[w].job] = Released(run[w].job, "failed")]
            /\ LocalState(w, Idle)
       ELSE UNCHANGED job /\ Dies(w)
    /\ UNCHANGED <<doc, attempt>>

\* retry_ingest_job: back to the queue while budget remains.
Requeue(w) ==
    /\ run[w].pc = "requeue"
    /\ IF Owns(w)
       THEN /\ job' = [job EXCEPT ![run[w].job] = Released(run[w].job,
                  IF job[run[w].job].tries < MaxTries THEN "queued"
                                                      ELSE "failed")]
            /\ LocalState(w, Idle)
       ELSE UNCHANGED job /\ Dies(w)
    /\ UNCHANGED <<doc, attempt>>

\* The process dies anywhere, and is started again.
Crash(w) ==
    /\ run[w].pc \notin {"idle", "crashed"}
    /\ Dies(w)
    /\ UNCHANGED <<doc, attempt, job>>

Restart(w) ==
    /\ run[w].pc = "crashed"
    /\ LocalState(w, Idle)
    /\ UNCHANGED <<doc, attempt, job>>

-----------------------------------------------------------------------------
(* A process request: no job, and none may be active.                      *)

\* Wrong: only a running job keeps a process request away.
IgnoreQueued(p) ==
    /\ run[p].pc = "idle"
    /\ doc.published /\ ~doc.archived
    /\ \A j \in Job : job[j].status # "running"
    /\ LeaseFree
    /\ TakeLease(p)
    /\ UNCHANGED job

BeginDirect(p) ==
    /\ run[p].pc = "idle"
    /\ doc.published /\ ~doc.archived
    /\ ActiveJobs = {}
    /\ LeaseFree
    /\ TakeLease(p)
    /\ UNCHANGED job

\* The endpoint abandons the attempt it took, whatever was raised.
DirectFails(p) ==
    /\ run[p].pc = "ingest"
    /\ Record(p, "error")
    /\ LocalState(p, Idle)
    /\ UNCHANGED job

-----------------------------------------------------------------------------
RunOne(w) ==
    \/ BeginForJob(w) \/ EnsureSource(w) \/ IngestDone(w) \/ IngestPartial(w)
    \/ PromotedThenRaises(w) \/ IngestRaises(w) \/ CheckLost(w) \/ Finish(w)
    \/ Abandon(w) \/ CloseFailed(w) \/ Requeue(w)

Poll(w) == Claim(w) \/ CloseExhausted(w)

Next ==
    \/ StageCandidate \/ FinalizePublication \/ SetArchived
    \/ AttemptLeaseExpires \/ Enqueue
    \/ \E j \in Job : Cancel(j) \/ JobLeaseExpires(j)
    \/ \E w \in Worker : Poll(w) \/ RunOne(w) \/ HeartbeatLost(w)
    \/ \E p \in Direct :
          BeginDirect(p) \/ IngestDone(p) \/ IngestPartial(p) \/ DirectFails(p)
    \/ \E w \in Actor : Crash(w) \/ Restart(w)

Spec == Init /\ [][Next]_vars

\* Nobody renews the claim: its worker died, gave it up or stopped renewing.
ClaimAbandoned(j) ==
    /\ job[j].worker # 0
    /\ LET r == run[job[j].worker] IN r.job # j \/ r.lost

\* Workers poll, finish what they claimed and are restarted when they die; a
\* claim nobody renews expires.
Fairness ==
    /\ \A w \in Worker :
          WF_vars(Poll(w)) /\ WF_vars(RunOne(w)) /\ WF_vars(Restart(w))
    /\ \A j \in Job : WF_vars(ClaimAbandoned(j) /\ JobLeaseExpires(j))

FairSpec == Spec /\ Fairness

-----------------------------------------------------------------------------
(* Properties.                                                             *)

TypeOK ==
    /\ doc \in [cand : Candidate \cup {0}, published : BOOLEAN,
                att : Attempt \cup {0}, live : BOOLEAN, gen : Nat,
                archived : BOOLEAN]
    /\ attempt \in [Attempt -> [status : {"unborn", "running", "done", "error",
                                          "partial", "superseded"},
                                cand : Candidate \cup {0}, observed : Nat]]
    /\ job \in [Job -> [status : {"unborn", "queued", "running"} \cup Terminal,
                        cand : Candidate \cup {0},
                        key : IdempotencyKey \cup {0},
                        worker : Worker \cup {0}, live : BOOLEAN,
                        tries : 0..MaxTries]]
    /\ run \in [Actor -> [pc : {"idle", "begin", "ensure", "ingest", "check",
                                "finish", "fail", "retry", "disown", "failing",
                                "requeue", "crashed"},
                          job : Job \cup {0}, att : Attempt \cup {0},
                          stale : BOOLEAN, lost : BOOLEAN,
                          verdict : {"none", "succeeded", "partial"}]]

\* README: only one queued or running job or synchronous process call owns the
\* document.  While a process request holds the lease no job is active, and
\* never are two.
OneOwner ==
    /\ Cardinality(ActiveJobs) <= 1
    /\ \A p \in Direct : (run[p].att # 0 /\ doc.att = run[p].att)
                            => ActiveJobs = {}

\* A job reported as succeeded was promoted: some attempt of its candidate is
\* done.  What the queue tells a client is what happened to the index.
SucceededWasPromoted ==
    \A j \in Job : job[j].status = "succeeded" =>
        \E a \in Attempt : attempt[a].cand = job[j].cand
                           /\ attempt[a].status = "done"

\* A live claim moves only by a step of the worker that made it, or expires:
\* a displaced worker neither finishes nor requeues what another now owns.
ClaimIsExclusive ==
    \A j \in Job :
        (job[j].status = "running" /\ job'[j] # job[j]) =>
            \/ ~job[j].live
            \/ job'[j] = [job[j] EXCEPT !.live = FALSE]
            \/ /\ run[job[j].worker].job = j
               /\ run'[job[j].worker] = Idle

\* What a worker promotes for a job is the candidate bound when the job was
\* enqueued, whatever was uploaded between the claim and the attempt.
PromotesBoundCandidate ==
    \A w \in Worker :
        (run[w].pc = "ingest" /\ run'[w].verdict = "succeeded") =>
            attempt[run[w].att].cand = job[run[w].job].cand

\* finish_ingest_job, retry_ingest_job, ensure_bound_version_source: a claim is
\* its worker's alone, and the worker indexes what the client handed in.
ClaimsAreHonoured == [][ClaimIsExclusive /\ PromotesBoundCandidate]_vars

\* Every job that was accepted is decided, through crashes, lost claims and
\* retries.
JobsEnd ==
    \A j \in Job : Active(j) ~> job[j].status \in Terminal

\* The queue, the lease and the index tell one story: the state is typed, one
\* owner works, and success means a promotion.
JobsAgree == TypeOK /\ OneOwner /\ SucceededWasPromoted
=============================================================================
