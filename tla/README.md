# Verification of the document pipeline

TLA+ models of the parts of this repository where the order of things matters:
how bytes become a candidate, a candidate becomes a served edition, a job
becomes an attempt, an archived document becomes a tombstone and a question an
answer; how a machine, a browser and a request come to a tenant and a tenant's
records follow its structure; and how the agent loop calls programs, judges what
they say, and brings an accepted change to the operator's checkout.  Modules are
translated from the source; `PROJECT.json` names, for every definition, the lines
it stands for.  TLC checks the models on small instances; TLAPS proves, for every
instance, the invariants of publication, promotion, the queue, listings, retention, the
stored sources, credentials, tenants, logins, a tenant's records, answers, the runs of the agent
loop, the application of a candidate, acceptances and contained calls.

- [1. The system](#1-the-system): its components, their state, and what must hold
- [2. Modules](#2-modules): which module models what
- [3. Runs](#3-runs): what is checked, the bounds and why they suffice
- [4. Fairness](#4-fairness)
- [5. Proofs](#5-proofs)
- [6. What the runs found](#6-what-the-runs-found)
- [7. Not modelled](#7-not-modelled)
- [8. Plan](#8-plan)

## 1. The system

PostgreSQL is the only shared state of the services.  The API (FastAPI, threads),
the command-line ingest, job workers and purge workers are separate processes;
each statement group that ends in a `commit` is one step here, and what a process
remembers between two commits is local state that can be stale.  Object storage
(the version sources) takes no part in a transaction.

| component | state | operations | hard part | correct means |
|---|---|---|---|---|
| Candidate publication (`publication.py`, `db.stage_candidate`) | candidate fields of the `documents` row, `document_versions`, source objects, session publish lock | stage, write source, finalize, migrate a legacy source | crash between stage, write and finalize; two uploads of one name | a published candidate has its own bytes |
| Attempts and generations (`ingest.py`, `db.begin_attempt` ... `promote_generation`) | lease on the row, `attempts`, `chunks`, generation counter, `document_version_builds` | begin, heartbeat, stage rows, copy reusable rows, promote, record verdict, abandon | lease expiry and takeover, a fenced run that keeps working, partial parses | a search reads exactly one complete edition; only the lease holder writes |
| Versions and lifecycle (`db.activate_document_version`, `set_document_archived`) | active version and generation, revision, archive flag | activate a retained build, archive, restore | clients act on stale lists; sweeping of old builds | no blind overwrite; every receipt stays activatable |
| Job queue (`job_worker.py`, `db.enqueue_ingest_job` ...) | `ingest_jobs` | enqueue, claim, heartbeat, finish, retry, cancel | claims that expire under a working worker; death in the last try | one owner; the job says what happened to the index; every job ends |
| Retention (`purge_worker.py`, `db.*legal_hold*`, `db.*purge*`) | policy and policy epoch, holds, purge jobs, tombstone | change policy, hold, release, schedule, purge | storage cannot be rolled back; the claim is never committed | holds and purges exclude each other; the tombstone is final |
| Immutable sources (`publication.py`, `pipeline/storage`) | one directory and object per version | publish, read, purge | several calls on a shared directory, none of them atomic together | a source appears whole and is never replaced |
| Organisation and policy epoch (`db.py` 515-630, 1585-1920) | memberships, positions, two versions | replace the tree, update a member, list | architects act on what they were shown | decisions fit the structure they are made in |
| Reviews (`db.py` 840-1157) | interactions, verdicts, cases, events | record, comment, queue, decide | the structure changes between two statements of a decision | a case is decided from above, once |
| Evaluation datasets (`db.py` 1157-1585) | datasets, versions, cases | create, draft, publish, retire | editors who read revisions and cases in two requests | versions form a line, what is published is what was read |
| Evidence and export tickets (`db.py` 630-840, `app.py`) | references, preview rows, exports, download tickets | cite, issue, redeem, send | a second ticket over the first; a file that changes after the ticket is spent | a ticket shows what it was issued for, once |
| Control plane (`pipeline/control`) | accounts, credentials, approvals, nonces | issue, approve, redeem, rotate, revoke | authority proved in another database with another clock | one live credential, one per approval, an assertion once before it expires |
| Tenant binding (`app.py`, `db.py`, row security of `schema.sql`) | settings of pooled connections | route, bind, commit, roll back, give back | settings take part in transactions and age | a request sees rows of one tenant, its own |
| OIDC sessions (`pipeline/api/oidc*.py`) | pending logins, sessions | begin, callback, look up, log out | callbacks that compete for one state, full stores | a login opens one session |
| Retrieval and answering (`pipeline/retrieval`, `answer_guard.py`, `app.py`) | one question; the comparison index | scope, rank, answer, guard, cite, record | publication, purge and policy changes between its transactions | it is answered from what is served and stands on that |
| Agent loop run, workspace, finalization (`runner.py`, `flat_workspace.py`, `finalization.py`) | state document, binding, workspace record, archive, lock | run, resume, finalize | death at any write | the record tells what lies in the trees, and is removed only into an archive |
| Agent loop calls (`process.py`, `execution.py`, `audit.py`) | a contained program and the threads around it | launch, prompt, read, wait, drain | deaf, endless, escaping programs | a believed answer is whole and leaves nobody behind |
| Agent loop replies (`schemas.py`, `contract.py`) | one reply | derive the copy, parse, complete, judge, describe | two schemas of one reply | the authority alone decides |
| Agent loop acceptance (`acceptance.py`, `acceptance_workspace.py`) | receipt, mirror | begin, build, run commands, remove | writers beside it, a crash with a green receipt | a passed receipt was earned by what it names |
| Agent loop evidence (`fs_evidence.py`, `changes.py`) | a walk over a tree | scan, freeze a policy, compare, open a holder | the tree moves under the walk | what is described is what lay there |
| Agent loop application (`application.py`) | journal, holder | plan, move, verify, roll back, recover | death between any two moves, an operator who edits | nothing of the operator's is lost, trees are old or new |
| Speech service (`services/speech_service.py`) | slot, queue, staged uploads, worker | open, transcribe, time out, close | a slot handed over between a thread and a loop | one slot, neither lost nor doubled |
| Offline evaluation (`eval/answer`) | saved answers, packages, reports | count, have reviewed, screen | files change between two reads | the report names what was measured |
| Extraction and validation (`pipeline/extraction`, `pipeline/validation`) | none across calls | parse, consensus, guards | numeric edges | pure functions |

Interaction is through rows: the queue and the request path meet in
`begin_attempt`, which holds the document row and looks at both tables; promotion,
activation, archive and purge meet in the same row; publication alone is
serialised by a session advisory lock and writes storage outside any transaction.
Retention, reviews, datasets and redemptions meet in the policy epoch and the
memberships.  The control plane is another database: an assertion carries authority
from the one to the other.  The agent loop shares nothing with the services; its
calls meet in the workspace, its processes in the lock.

## 2. Modules

| module | models | abstracts |
|---|---|---|
| `IngestPipeline` | one document: publication, attempts, staging, promotion, verdicts, activation, archive, for any number of uploads, process requests and command-line runs | bytes are members of `Sha`; a complete parse is the set `Manifest[s]`; embedding and upsert batches are one batch and the rest |
| `ServedIndex` | what all this promises a reader: the row shows at most one stored edition, and moves between whole editions | refined by `IngestPipeline` (`ServesOneEdition`) |
| `IngestPipelineProofs` | theorems about `IngestPipeline`, and its refinement of `ServedIndex` | |
| `IngestJobs` | the queue of one document, its workers and the direct requests that compete with them | the work under an attempt is one step |
| `IngestJobsProofs` | theorems about `IngestJobs` and `LibraryListing`, two machines over separate variables | |
| `DocumentRetention` | retention, holds and purge of one document | a clock in days; ingest activity is one flag, since every gate asks for both kinds |
| `DocumentRetentionProofs` | theorems about `DocumentRetention` | |
| `VersionSources` | the source object of one version: publication, reading and removal, call by call, on POSIX and Windows | a body is one value or two halves; power loss |
| `TenantOrganisation` | memberships and who stands above whom, their versions, what architects were shown | the tree is the relation it makes |
| `ReviewCases`, `EvalDatasets`, `AccessTickets` | EXTEND the structure: cases of answers; one dataset; previews and downloads | cases of a dataset are one value; tokens are numbers |
| `TenantRecords` | composes the three over one structure and one epoch | |
| `ServiceAccounts` | credentials of one tenant over two databases, from approval to expiry | tokens are their numbers, digests their content |
| `TenantContext` | control route, membership, the signed context of pooled connections | row security is the tenant of the context that is valid |
| `BrowserSessions` | login store, callbacks, sessions | whether keys vouch for a token is open |
| `IdentityProofs` | theorems about `ServiceAccounts`, `TenantContext` and `BrowserSessions`, three machines over separate variables | |
| `Answering` | one question in either engine, from scope to delivery, and the comparison index | a chunk stands for an edition; scores are any subset |
| `TenantRecordsProofs` | theorems about `TenantRecords` and `Answering`, two machines over separate variables | |
| `SpeechService` | gate, semaphore, worker thread, staged files, hotword pack | an upload is the one thing that is wrong with it |
| `AgentRun` | processes that run, resume and finalize over one repository; every document they write | a candidate is one value; applying it is two steps |
| `FilesProofs` | theorems about `VersionSources`, `AgentRun` and `EvidenceScan`, three machines over separate variables | |
| `ApplicationJournal` | one application of the agent loop at a time: the move table, the journal, link and unlink, verification, rollback, recovery, and the operator | contents are identities; a file is saved by replacement; the evidence gathered before the plan is one refusal |
| `ContainedCall` | one program, its five callers, both hosts | an answer is a few blocks, a prompt a few pieces |
| `AcceptanceGate` | receipt, mirror, commands of consecutive acceptances | trees are the number of their last write |
| `AgentLoopProofs` | theorems about `ApplicationJournal`, `AcceptanceGate` and `ContainedCall`, three machines over separate variables | |
| `ProgramReplies` | the schemas, the derived copy, completion and verdict of a reply | a few fields stand for the rest, a text for a class of texts |
| `EvidenceScan` | a scan of a moving tree, the two readings of a checkout, a holder | files of one size; two names deep |
| `EligibilityReview` | inventory, private package, review with its stopping rule | what detectors look for is a field of a row |
| `LockedScreening` | EXTENDS it: contract chain, pins, mutants, replay, gate, report schema; `EvaluationSpec` puts both over the same files | the guard is outside |
| `EvaluationProofs` | the theorem about `EvaluationSpec` | |
| `LibraryListing` | a client that walks a listing page by page, labels, what moves rows meanwhile | ids and instants are numbers; filters over columns are the archive flag and the labels |
| `MC*` | symmetry sets and instances for TLC; `MCJobOwnership`, `MCJobsDecided`, `MCFiles`, `MCIdentities`, `MCTenantRecords` and `MCAgentCalls` put components beside each other that share no state, a behaviour being of one of them | |

State corresponds to columns.  In `IngestPipeline`, `doc` is the `documents` row
(`cand`/`sha`/`state` the candidate, `served`/`gen` the active version and
generation, `att`/`live` the attempt and whether its lease has expired, `rev` the
revision), `attempt`, `version`, `chunk`, `build` are the tables, `source` the
object storage, `publock` the session lock, and `run[w]` what the process `w`
remembers: its `pc`, the candidate and attempt it began, the digest of the bytes
it parsed and the generation it was given.  Time appears only as the expiry of a
lease.  A step that fails (a refused statement, a lost connection) is an
alternative of every step of a run, and `Crash` may happen anywhere; a crash drops
local state and the session lock and keeps the tables and the storage.

In `IngestJobs`, `job` is the `ingest_jobs` table in order of creation, and
`run[w].pc` follows `run_one`: `begin`, `ensure`, `ingest`, `check`, `finish`, and
one place per `except` clause: `fail` (close the job), `retry` (requeue), `disown`
(leave the row alone).  `stale` is what the worker read at the claim, `lost` the
event its heartbeat thread sets.  Ownership lost inside a handler is not caught by
`run_one`, so the worker dies there.

In `DocumentRetention`, `rowlock` is the document row held by the purge worker's
open transaction: every other statement that writes the row waits for it, the
object write of an upload and the release of a hold do not.  Nothing of a purge is
visible before its commit, so `purge` holds committed rows only, and `WorkerDies`
restores the claim by doing nothing to them, while `source` keeps what was removed.

In `ApplicationJournal`, `at` gives the content at every name, in the repository
and in the holder's slots, so that a move is two assignments to it: the link and
the unlink.  `journal` is the file on disk and `proc` what the process believes;
they differ exactly when a write of the journal failed or the process died.  `own`
is a history variable, the checkout as its operator left it, against which survival
and restoration are stated; a commit makes the candidate theirs, path by path, from
what was to be delivered and not from what the moves have left, and not where they
saved a file after the verification (`mishap.since`).  `mishap.late` names the files
they saved while a move that had proved them was taking them away.  The checkout is
read twice, as in the code: `Start` takes the reading that verification compares with
(`plan.before`), `Plan` the one the moves are made from (`plan.sha`, `plan.dirs`), and
an edit may come between.

In `AgentRun`, `disk` holds the documents of the state directory by name (state with
its backup, binding, receipt), `ledger` the status in the workspace's record, `holder`
its candidate tree, `pending` the application journal, and `mem[p]` what a process
believes.  Each write of a document is an action, because a process may die between
any two of them; `lock` alone is returned by its death.  `ContainedCall` opens a call
(`call` the calling thread, `prog` the program with what it started, `io` the reader,
writer and watcher threads), `AcceptanceGate` an acceptance, where a tree is the
number of the last write of somebody else to each of its files, and `ProgramReplies`
a reply: a schema is a record of keywords, a document a value tagged with its JSON
type, and `Transport(road)` is derived from `Authority(road)` by the same walk as in
`schemas.py`.

In `EvidenceScan` a directory is a function from names to objects, a handle is the
object it was opened on and a path is looked up again at every use; `stamp` moves by
`tick`, so that two writes may carry one timestamp.  In `VersionSources`, `folder` and
`source` are what two names lead to now, and `actor[a].in` the directory a process
has open, which may be one that was removed.

In `ServiceAccounts`, `clock` and `skew` are the two databases' times, `proof` the
assertions minted in one and `nonce` those consumed in the other; `story` is the
event table of an approval.  In `TenantContext` a session has the settings `now`, the
settings `kept` by its last commit, and the start of its transaction, which is the
time its context is compared with.  In `BrowserSessions` each call keeps the time it
began with, as the code passes `now` on.  In `SpeechService`, `value`, `waiters` and
`granted` are the fields of `asyncio.Semaphore`, `jobs` and `worker` the executor,
`returning` the callbacks scheduled with `call_soon_threadsafe`.

In `TenantRecords` the tables are sequences in order of creation, and what a client
was shown (`looked`, `queue`, `known`, `text`, `issued`, `fetching`) is state of its
own, since every write compares with it.  In `Answering`, `q.pc` follows the request
through its transactions, its other
fields keep what each has seen, and the locks of the repeatable-read window are
guards on the library's actions.

In `EligibilityReview` a fingerprint is the content it is of, `loader` the process
that reads one file after another; in `LockedScreening`, `stated` is the owner's
statement, `gated` what the run has verified so far, and the report a record that
`Stands` derives again, number by number, as the schema check does.

In `LibraryListing`, `entry` is the table that is listed (documents, events or the
versions of one document), each row with the instant at which its transaction began;
`reading` is the client: the cursor or offset it will send, what it was shown, and
`steady`, the rows that matched from its first page on, which is history for the
property.

## 3. Runs

| run | specification | properties | shows |
|---|---|---|---|
| `IngestRequests` | `MCIngestPipeline` | `TypeOK`, `LeaseMatchesRecord`, `NamedBytesExist`, `GenerationsArePrivate`, `OnlyTheHolderStages`, `VerdictsAreFinal`, `EndedRunHoldsNothing` | An upload and two concurrent process requests over two contents: leases, fences, takeovers, crashes and failures keep the row, the attempt records and the staged rows in agreement. |
| `IngestCommandLine` | `MCIngestPipeline` | `EditionsAreWhole`, `NoBlindOverwrite`, `ServesOneEdition`, `RunsEnd` | A command-line run publishes and indexes beside an upload, with promotions and activations of retained versions: its snapshot is never indexed under the other's candidate, a search always sees one complete edition, every build that was served stays activatable, and under fair scheduling every publication and run that has begun ends or dies, those that wait for each other's publish lock included. |
| `SharedChunkReuse` (violated) | `MCIngestPipeline` | `ReuseCompletesManifest` | Two editions that share a chunk: the second can never stage its whole manifest. |
| `JobOwnership` | `MCJobOwnership` | `JobsAgree`, `StorageAnswers`, `ClaimsAreHonoured`, `SourceIsImmutable` | Two workers, two jobs and a process request over two contents, with crashes, expired claims and refused heartbeats: one owner at a time, and the job row tells what happened to the index. Beside it the sources of a version: two publishers, a reader and a purger on both hosts, with deaths between any two calls. |
| `JobsDecided` | `MCJobsDecided` | `EvaluationIsHonest`, `ListingsAreWhole`, `JobsEnd` | With workers that are restarted and claims that expire, every accepted job reaches a terminal status. Beside it listings that are walked page by page while rows come, go and change their labels, and the offline evaluation: the inventory, its review and the locked screening while files, tree and contract are edited. |
| `Retention` | `MCDocumentRetention` | `PolicyIsKept`, `TombstoneIsFinal`, `PurgeIsDecided` | Holds, releases, policy changes, schedules, uploads and a purge worker that may die: the gates a claim read stand until the tombstone, the tombstone is final, and a claimable purge is decided. |
| `Application` | `MCApplicationJournal` | `NothingIsLost`, `ReturnedTreeIsWhole`, `CrashedApplyIsUndone` | One added, one deleted and one modified file beside an operator who makes two edits at any moment, the middle of a move included, two crashes and two failing steps: no bytes of the operator are lost but those saved under a move that has proved the file, returned trees are whole, and a crashed application is undone by the next run. |
| `Files` | `MCFiles` | `EvidenceHolds`, `RecordsTellTheTree`, `RunsKeepTheirRecord` | The agent loop: two processes, two tasks, two runs and two candidates with one fault and one outside edit: one repair at most, only an accepted and approved candidate reaches the checkout, an unfinished run keeps its record and nothing is removed that is not archived. Evidence: a scan, two readings of a checkout and a holder of pins accept nothing that was moved under them. |
| `Identities` | `MCIdentities` | `AccountsAgree`, `RequestsStayInTheirTenant`, `SessionsKeepTheirLogin`, `SpeechHolds`, `AuthorityIsRecent` | Machines: operators approve and cancel, administrators redeem, credentials end and are revoked while memberships change and two clocks differ: one live credential per account, one credential per approval, each assertion once before it expires. Requests: whatever a handler commits or rolls back and whoever had its connection before, it sees rows of the tenant it was routed to. Browsers: callbacks that compete for a login open one session for the identity that answered its nonce. Speech: speakers and dictation share one recogniser, each may leave while the other thread still works, and every slot has one holder, every upload one owner. |
| `TenantRecords` | `MCTenantRecords` | `RecordsAgree`, `RetrievalIsCurrent`, `AnswersStandOnEvidence`, `ClosedByRight` | Reviews, evaluation datasets, previews and downloads, each beside every change of the structure between one read, lock or commit and the next; and a question in either engine beside publication, archive, purge, policy changes and rebuilds of the index: it is answered from what is served, and what it publishes stands on that. |
| `AgentCalls` | `MCAgentCalls` | `CallsAreHonest`, `GateAgrees`, `RepliesAreJudged`, `CallEnds` | The five callers of a contained program over both hosts, with a program that may be deaf, endless, verbose, leave a child or escape; and two acceptances with two commands beside two foreign writes and crashes. Replies: what the program answers against the schema of its role is accepted, completed or refused once and by the same rules. |
| `InventedPage` (violated) | `MCTenantRecords` | `PagesWereSupplied` | An answer that quotes a passage without a trusted page may name any page, and it is published as a citation. |

Bounds.  Two attempts that compete for one lease are enough for every fence, takeover
and late write: the guards compare one run with the row, never three runs with each
other.  Two contents that share a chunk and differ in another give reuse, partial
overlap and a changed manifest.  Two attempts also give promote, promote again and roll
back, with two retained builds at the sweep; a later promotion over a version that was
rolled back to takes a third attempt, which no run makes: that the sweep spares its
build is shown by `EditionsStayWhole` alone, for any number of attempts.
Two jobs and two tries give a retry, an exhausted budget and a successor in the queue.
Two holds and three epochs give a hold placed, released and the policy changed around a
purge.  Three revisions give two promotions and an activation from a list read before
either.  One change of each kind gives every shape of the move table, four moves with a displaced file
between them; two crashes give a crash of the recovery itself, and two failing
steps a failure of the rollback.  Fresh identities
(candidates, attempts, generations, jobs) are numbers up to a named bound; when
they are used up the action that takes one is disabled, which is why the queue and
retention runs do not check for deadlock.  The operator of `Application` edits at any
moment, between the two readings, under a move and after the verification; edits are
alike, so they are taken in one order.

The runs that put several components beside each other (`JobOwnership`,
`JobsDecided`, `Files`, `Identities`, `TenantRecords`, `AgentCalls`) choose one
component per behaviour and leave the others in their initial state: the components
share nothing, so that their product would show no more than their sum.

- `JobOwnership`: the queue as above; two publishers, a reader and a purger share one
  version's directory, with two objects and two directories, so that a purge may fall
  between any two calls of a publication, and a second one begin after it.
- `JobsDecided`: one job and two workers.  A listing has at most three rows over three
  instants and pages of one row, with two changes during the walk: an insertion that
  commits late, two rows of one instant, a row that leaves and comes back.  The
  evaluation has five saved answers in two sets, three of them
  locked, and a target of two clusters, so that a class can reach, miss and exceed it;
  two edits beside a screening (a file swapped and swapped back), one edit between two
  inventories whose reviewer agrees to all, any verdicts over one package.
- `Files`: two processes, tasks, runs and candidates, one fault and one outside edit.
  A scan sees two names in two levels, a link and a tree outside, two moves of others
  and three timestamps: a rename with an exchange, a replacement with a restoration,
  two writes of one timestamp.
- `Identities`: one member and account, two approvals, two assertions that may each be
  answered twice, three instants, credentials that end at the last, the control
  plane's clock level with the other or one tick behind, which is the tolerance the code
  assumes (the tenant is closed and its policy moved only under level clocks); a
  statement may commit at any instant after it began; two tenants and two requests over one
  connection; two logins and two calls over stores of size one; three speakers, one of whom may wait, so that one is refused, and four registries of
  hotwords: none, one whose second phrase does not fit, one without a default context,
  one that names a phrase twice.
- `TenantRecords`: two members under one architect's structures, two interactions,
  versions and tickets; two documents of the tenant and one of another, two editions
  each and two changes under one question.  The first content a dataset is given is
  fixed, contents being alike.
- `AgentCalls`: all five callers on both hosts; one stream, since both readers are
  alike, a limit of one block, a prompt of two pieces over a pipe that takes one.
  Windows is checked for the implementer and the commands, whose containers differ.
  Two attempts of two commands over two files with two foreign writes.  A reply
  differs from the expected one in at most two fields, since every rule ties the
  status to one other field, and from a well-formed envelope in any one way.

Symmetry is used only in runs without liveness, over workers, idempotency keys,
processors, publishers, processes and candidates, which are compared for equality only.

## 4. Fairness

`IngestPipeline!FairSpec`: weak fairness of the next step of every request that has
begun (a thread that can take its next statement eventually does), and strong fairness
of taking the publish lock, for everyone who waits for it: a publication that has asked
for it (`AskLock`, then `lock` until `pg_advisory_lock` returns) and a process request
in `ensure_bound_version_source`.  PostgreSQL queues waiters of an advisory lock in
order, so a waiter whose lock is released again and again gets it.  Nothing forces a
lease to expire, a client to call, a step to fail or a process to die.  In
`IngestCommandLine` the upload and the command-line run wait for each other's lock; a
process request waits for the same lock under the same assumption, but that run has
none.

`IngestJobs!FairSpec`: workers poll, take their next step and are restarted when
they die (the loop in `main`, run under a supervisor), and a claim that nobody
renews expires, because its expiry is a timestamp compared with `now()`.  A claim
that its worker still renews need not expire.

`ApplicationJournal!FairSpec`: a call runs to its end unless its process dies, and
somebody starts another run while an application is pending.

`DocumentRetention!FairSpec`: weak fairness of each purge worker's run; deaths are
finitely many (`MaxCrash`), without which nothing ends.

`MCAgentCalls!Spec`: the calling thread takes its next step, the deadline and the grace
budget pass, and a process that was killed dies.  Nothing makes the program read, write
or end, and nothing makes a helper thread (reader, writer, watcher) run: the caller
waits for them no longer than its grace.  An interrupt of the caller (`BreaksOff`) may
happen and is not assumed.

In `JobsDecided` only the queue is scheduled, as `IngestJobs!FairSpec` says; the
listings and the evaluation beside it are checked for safety.

The other runs check safety and state no fairness.

## 5. Proofs

Each theorem holds for every value of the constants that satisfies the `ASSUME` of
its machine (`ConstantsAssumption` of `IngestPipeline` and of
`ServiceAccounts`, `JobsAssumption`, `ListingAssumption`, `RetentionAssumption`, `SourcesAssumption`,
`TenancyAssumption`, `SessionsAssumption`, `PagesAssumption`, `ApplicationAssumption`,
`MovesAssumption`, `AgentRunAssumption`, `EvidenceAssumption`, `GateAssumption`, `CallAssumption`, `StructureAssumption`,
`ReviewAssumption` of `ReviewCases` and of `EligibilityReview`, `ScreeningAssumption`,
`DatasetAssumption` and `TicketAssumption`): kinds of callers are
disjoint, a null value is not a value of the set beside it, a table has finitely many
rows, bounds are naturals (there is
at least one epoch and one version), a structure relates active members and puts
nobody above himself, and a tree is finite, with no directory of the checkout that has
one outside under a name and no file outside that has no name there; base questions are
numbered, each belongs to one numbered set, targets are positive, a pair of disjoint
figures shares a passage, and the guard answers for every case.  Sets of callers,
members, structures, documents, tokens and clocks are otherwise arbitrary.  In every module the argument has one shape: an
inductive invariant that TLC had confirmed on the run of the component, a lemma for
each kind of step, the theorem that the invariant always holds, and the properties
read off it.

### One document

- `IngestPipelineProofs!TypeCorrect` (`TypeOK`). Every reachable state is typed; the strengthening says that what a caller's local state refers to exists.
- `IngestPipelineProofs!LeaseAgrees` (`LeaseMatchesRecord`). The lease on the row and the attempt records never disagree, for any number of callers.
- `IngestPipelineProofs!BytesExist` (`NamedBytesExist`). A published candidate and a served version always have their own bytes in storage.
- `IngestPipelineProofs!VerdictsStayFinal` (`VerdictsAreFinal`). No step rewrites a terminal attempt.
- `IngestPipelineProofs!HolderStages` (`OnlyTheHolderStages`). Chunk rows are written only by the holder of the lease, for the current candidate and its own generation.

`TypeOK` alone is not inductive: a step reads the attempt, the candidate and the
generation that the local state of its process names, so typing needs that these
exist.  `Typed` adds, for every process, that its local record is one of the
declared `RunState` records and refers to attempts and candidates in range, and
that the tables are finite where a step takes a maximum.  The agreement of the
lease with the attempt table needs `Typed` and one fact about every step that
changes either side: the attempt on the row is the only running one of the current
candidate.  That published and served versions have their bytes
needs to know that no step removes an object and that whoever finalizes has
written.  `Consistent` is the conjunction of the three; each action is shown to
preserve it once, and `VerdictsStayFinal` and `HolderStages` are read off the same
case split, because a guarded write sees the row it was promised.

- `IngestPipelineProofs!GenerationsStayPrivate` (`GenerationsArePrivate`). No two runs, of any number, hold one generation, and no generation mixes the rows of two versions.
- `IngestPipelineProofs!EditionsStayWhole` (`EditionsAreWhole`). What is staged under a version was parsed from its bytes, and every build that was ever served keeps all its rows, whatever is swept, taken over or rolled back.
- `IngestPipelineProofs!PointerMovesOnSight` (`NoBlindOverwrite`). The served pointer moves only from the generation its mover had read.
- `IngestPipelineProofs!PipelineServesOneEdition` (`ServesOneEdition`). The pipeline implements ServedIndex: each of its steps is a step of the served index or invisible to a reader.
- `IngestPipelineProofs!LeaseIsReleased` (`EndedRunHoldsNothing`). A process request that is over has given its lease back unless its process died or the database refused the closing, and a lease left behind is renewed by no one but a run still at work under it.

What a reader is shown rests on more than the tables that are shown.  `Whole` adds
to `Consistent` that a generation number is handed to one run, so that the rows it
stages carry nobody else's; that what a run has parsed is the manifest of the bytes
its attempt is bound to, at every place between the parse and the promotion; and
that the sweep after a promotion spares the builds that have a receipt, which are
those an activation can name.  `Kept` says what no step may undo (the binding of an
attempt, the bytes of a version, the order of generations), so that a run which
steps leaves every other run's part alone.  The refinement maps four steps:
`WriteSource` of new bytes to `Store`, a promotion or an activation to `Serve`,
`SetArchived` to `Hide`; every other step stutters, because what a search can reach
is the whole content of the served version or nothing (`ShownEdition`).
`LeaseIsReleased` has an invariant of its own, `Unleased`: before `begin_attempt` a
caller has no attempt, so that whatever ends a publication leaves no lease behind.  From
there on a process request records a verdict in every way it can end but two: its death,
and a database that refuses the closing (`ReleaseFails`), where `_release_attempt` only
logs and the request answers 500 with its lease still on the row.  The command line
leaves a lease behind more easily still.  What is proved of these leases is that they
run out: once one has lapsed, only the run that took it and is still at work renews it
(`LapsedStep`).

### The queue

- `IngestJobsProofs!OneOwnerAndHonestJobs` (`JobsAgree`). For any number of workers, requests and jobs: one owner of the document at a time, and a job reported as succeeded was promoted.
- `IngestJobsProofs!ClaimsStayHonoured` (`ClaimsAreHonoured`). A live claim moves only by the worker that made it or by its expiry, and what is promoted for a job is the candidate it was enqueued for.

`Queued` records what a worker may rely on although it holds no lock: the attempt
named on the row is the running one of the current candidate (`LeaseHeld`); the
attempt a worker works under is one of its job's candidate, whoever has superseded
either since, and before it closes the job as succeeded that attempt was promoted
(`Fits`); at most one job of the document is active (`OneJob`).  `DirectAlone` is
what `begin_attempt` buys by looking at both tables: a process request that holds
the lease is alone.

### Listings

- `IngestJobsProofs!ListingsStayWhole` (`ListingsAreWhole`). For any rows, labels, filters and page size, and any changes beside the walk: a walk by cursor lists no row twice and by its end every row that matched from its first page to its last, newest first; a walk by offset does while the table stands still; every membership names a label that exists.

A page knows nothing of the page before it but one key.  `Browsed` says what that key
is worth.  `Divided`: no listed row is below the cursor, and a row that matched all
along is below it or was listed; the next page, which holds only rows below, can
therefore repeat none, and the last one leaves none out.  An offset is worth something
only while nothing moves: then the newest rows are the listed ones (`Newest`), as many as
the offset, so that each stands at its own rank (`NewestAreRanked`).  A row's key does
not change while it is visible, and labels go with their memberships, whatever else a
change does (`ChangeStep`).  The order of a result is a fact about finite sets: each of
its places is taken by exactly one row (`EveryRankIsTaken`, `SequenceIsOrdered`), and a
page is a stretch of it (`PageIsCut`).

### Retention

- `DocumentRetentionProofs!RetentionKeepsPolicy` (`PolicyIsKept`). For any number of architects, workers and holds: the gates a purge was claimed under stand until its tombstone, a hold and a pending purge exclude each other, and a current epoch means current facts.
- `DocumentRetentionProofs!TombstoneStaysFinal` (`TombstoneIsFinal`). Nothing writes the row of a purged document again.

`Kept` ties the purge worker to the row: the lock is held exactly while it removes
(`LockIsRun`), and what its gates found then still stands (`GatesStandWhileRemoving`),
because holds, policies and archives take the same lock; no page a client holds is
newer than the epoch it shows (`PagesNotNewer`), so that a stale page is refused and
a fresh one tells the truth.

### Sources

- `FilesProofs!SourcesAnswerTruly` (`StorageAnswers`). For any number of overlapping and failing processes and any contents: what publication, reading and purge of a source answer is so.
- `FilesProofs!SourcesStayImmutable` (`SourceIsImmutable`). A source appears whole and is never replaced or rewritten; only a purge takes it away.

No call sees another's memory, so `Stored` says of each what it knows of the
storage, and for how long: an object keeps its body and, once whole, stays whole;
each has one author, who alone writes it; while the number of purges has not
changed since a call looked, the name stands for the object it saw.  Purges count,
directories and objects are fresh, and every call's knowledge (`PublisherFits`,
`ReaderFits`, `PurgerFits`) is bounded by what it has seen of both.

### Who asks

- `IdentityProofs!RequestsKeepTheirTenant` (`RequestsStayInTheirTenant`). For any number of subjects, tenants, requests and pooled connections, what a request reads is of its own tenant, no two requests hold one connection, one that nobody holds carries no context, and a browser's tenant was routed in the course of its request.
- `IdentityProofs!LoginsOpenOneSession` (`SessionsKeepTheirLogin`). For any logins, calls and bounds of the two stores, a login opens at most one session, the session is its own and ends with its identity, a logged-out one does not come back, and neither store exceeds its bound.
- `IdentityProofs!AccountsAlwaysAgree` (`AccountsAgree`). For any number of members, accounts, approvals and assertions, any clocks and any delay between the start of a statement and its writes: at most one credential of an account is live and it is of the present revision, a redeemed approval bought exactly one credential, every approval is decided once, an assertion works once before its expiry, and what is offered was redeemable at the statement's own time.
- `IdentityProofs!AuthorityStaysRecent` (`AuthorityIsRecent`). The statement of a redemption by a member who has lost his authority began less than an assertion's life and the tolerance of the clocks after the loss.

- `Tenanted`: a connection is with its one carrier or in the pool; in the pool it
  is clean; in a handler's body its valid context is its carrier's tenant or none,
  whatever was committed or rolled back; the code that runs on leaving the body
  ends the transaction before it clears the setting, and clears it before it gives
  the connection back; the tenant a browser is routed to was offered to it.
- `LoggedIn`: a login that was begun is in one place: in the store, with the one call
  that took it out, or spent on its session.  The stores are finite because only
  begun logins are in them, so `Login` itself may be infinite.
- `Accounted`: the active credential of an account is its last, and its version the
  account's revision; what an approval bought carries its number; a nonce that was used
  is there until its assertion has expired, so that a second use comes after that
  (`Authorised`); whoever had an assertion signed had the
  authority then, so one who has none now lost it no earlier than the assertion was
  issued.  `AuthorityStaysRecent` follows from the last and from the assertion's life.
  Each SQL function compares its dates with the time its statement began and may then
  wait, so that a step takes any stamp from the past (`StampsSince`); nothing is proved
  of how soon after its stamp a redemption commits, and nothing but its own row orders
  two statements that carry one assertion: consumption locks neither account nor approval.

### A tenant's records

- `TenantRecordsProofs!TenantRecordsAgree` (`RecordsAgree`). For any members, structures, answers, versions and tickets: a case stands for a verdict or a guarded answer and is decided by one event, the versions of a dataset form one line, a preview shows its passage once, a download sends what was measured.
- `TenantRecordsProofs!RecordsAreClosedByRight` (`ClosedByRight`). A case that closes is decided by a member who stands above its subject at that moment and is not the subject; a version is published by one who may write the dataset, as its editor last read it; what is published or retired never changes again.

What a client was shown may be of an older structure, so nothing is inferred from it: each
write looks again under its lock, and `Kept` says what the rows promise that look.
`Reviewed`: a case that a transaction has locked is open and locked by that one
(`CasesLocked`), and a closed one agrees with the one event that names it
(`DecidedOnce`).  `Sealed`: all versions but the last are published, as `1 .. current`,
and their cases are those of the day they were sealed, whoever holds a text of them.
`Shown` and `Sent`: a ticket row knows its token, a token that was carried was minted
once, and a download is in flight or has been answered, not both.  The four kinds of
records share only the structure, which is why a step of one leaves the others alone
(`KeptStays`).

### Answers

- `TenantRecordsProofs!RetrievalStaysCurrent` (`RetrievalIsCurrent`). For any documents, editions, pages and changes under a question, while the rows of its scope are locked what it has found are the served editions of active documents of its own tenant, one edition of each, and an index that answers it holds every edition it may be answered from.
- `TenantRecordsProofs!AnswersKeepTheirEvidence` (`AnswersStandOnEvidence`). An answer that was told cites passages that were found, has no figure outside its quotes and no page that a cited passage contradicts, and a browser can open each passage it cites.

The library moves under a question at any time, so `Answered` says how long what the
question saw stays true.  `Snapped`: the rows it has locked are as its snapshot shows
them, and the policy epoch is the one it was scoped under until it leaves its
transaction.  `Found`: while the rows are locked, what was found are the served
editions of locked documents, and later, when anything may have changed, still one
edition of each.  `Told`: the evidence of an answer is kept from the guard to the
delivery, and references and citations are the same set when a browser gets it.  Each
lemma is about the next value of the question, so that a step of the library, which
leaves the question alone, and a step of the question are argued separately.

### The runs of the agent loop

- `FilesProofs!RecordsAlwaysTellTheTree` (`RecordsTellTheTree`). For any processes, candidates, runs, faults and outside edits: every workspace on disk is named by the ledger, an approval on file is of a candidate that was moved, and what comes into the checkout is what this run's last acceptance passed and its last verdict approved.
- `FilesProofs!RunsKeepTheRecord` (`RunsKeepTheirRecord`). A run opens over nothing half applied and nothing unfinished, is the only one to write its record, ends with a terminal one unless it dies or its workspace cannot be built, and loses it only to a finished archive that holds the same documents.

None of this is inductive: a run writes its record from what it has in memory, and a
process may die between any two writes.  `Walked` ties memory and files by the lock.
One process is inside a call (`Locked`), so that what its place says of the documents
stays true until it steps, and nothing is asked of the others.  `FitsPlace` says what it
may rely on: the state document is of its run, stored twice, in the phase of its place
(`Records`); a second acceptance follows a repair (`Rounds`); its workspace is there
until it is dropped (`Houses`); the receipt is pending while it measures, and the
verdict is an approval, on the candidate the receipt names, when it moves it
(`Judges`); a finalization has a run that ended and, once it removes, a complete
archive (`Finalizes`).  Crashes, recovery and outside edits need only what survives
them: the ledger is written ahead, and an approval, in the document or in the backup a
damaged one is replaced from, is of a candidate that was moved (`Vouched`).

`AgentRunAssumption` takes `MaxRepair` from 0 to 1, as the task schema does
(`schemas.py` 396).  The theorem needs it: the runner does not look at what the final
audit asks for, because the one repair is spent by then; with two repairs TLC finds a
candidate in the checkout whose last verdict asks for changes.

### Readings of a moving tree

- `FilesProofs!EvidenceAlwaysHolds` (`EvidenceHolds`). For any tree and layout and whatever others do to it: a manifest holds bytes of no object but the one that was listed and of nothing outside; what is called unmoved is, and a difference that is described names every file whose bytes were read and changed, if nobody moved anything under a scan; a holder answers with its own marker and root.

Three things of different age meet in an entry: what the directory listed, what the
name leads to by now, and what the two timestamps around the bytes say.  `Evidenced`
keeps them apart.  What stands whatever others do: times do not lie ahead, nothing
outside moves, and a directory that nobody changed is as it was (`Grounded`); a record
that would be a way out was listed outside (`Fences`), since nobody moves a directory
there and a file of the checkout that is also outside has two names, of which the scan
refuses both (`WaysOutAreCounted`); two versions under one descriptor have two
timestamps or were written twice in one (`Hashing`); the directory a holder was opened
on has its names (`Opened`).  What stands while nobody moves anything under a scan is
`Exact`: a view has one thing at a place (`Clear`), every entry is of the view
(`Sound`), and everything in the view is described or still to be asked for, by the
directory that is open or the one above it (`Current`, `ToCome`), so that a reading that
ends has described it all (`Whole`).  The bytes of a file between two readings are known
by its timestamp only because the first reading waits until every timestamp is past
(`Waited`, `Dated`).

`HolderAnswersForItself` speaks of directories whose names were not changed, rather than
of a layout that is as at first: a marker that is removed and planted again between two
reads leaves the same layout and another answer.  `Truth` counts files and links:
two directories that change places with all alike beneath them are no difference, and
`main_difference` reports none.
What is said of differences is said of the first two levels of a tree, which is as far
as the history `Shown` looks; what is said of single entries, of all.

### Applying a candidate

- `AgentLoopProofs!NothingIsEverLost` (`NothingIsLost`). For any candidate, files, edits at any moment, crashes and failing steps: the operator's bytes are at their name or in a backup, save those of a file they wrote while a move that had proved it was taking it away; what a commit gives up is what the plan read, and no object has moved beyond the index of the journal on disk.
- `AgentLoopProofs!ReportsAreTrue` (`ReturnedTreeIsWhole`). A call that reports success has left the whole candidate, but for edits made after its verification, and one that reports a rollback the operator's checkout, edits made meanwhile included; with the same exception for a file saved under a move.

The one exception in both is `mishap.late`: nothing in the code looks at a file again
between its proof and its unlink, so what is saved there is not claimed (section 6).
`NothingIsLost` is not inductive, since a step that moves a file trusts the journal, the
plan and its own place at once.  `Guarded` ties them together.  `Course`: the index of
the process and of the journal agree wherever a file can move.  `Planned`, for every
file: a name that carries the candidate's bytes was given them by an announced move,
whatever else is at a name is the operator's, a backup that is filled was filled by an
announced displacement, and one that holds other bytes than the plan's (saved under the
move) means that the plan's have left their name for good.  `Kept`: what the operator
has is at its name or in its backup, and at its name when no journal is active.
`Moving`: between link and unlink the object is under both names, or the operator has
saved or deleted it meanwhile (`LeavesLate`); and after a verification that passed every
changed name carries the candidate, or what the operator saved since.  With these a move
is argued once for both directions and both kinds of object, by where it leads from and
to (`Here`, `There`), and the other files are untouched (`OneFile`).  What a call
reports follows: a rollback that came to index 0 leaves no name between the two, and a
commit rests on what the verification read, not on what the commit records (`Returned`).

`MovesAssumption` is a fact about the move table, which is put together by the
recursive `FlattenSeq` of the library and so cannot be reasoned about here: its moves
are of changed files, an added file has nothing to displace, no move is listed twice.
TLC evaluates it on the run of the component.

### What the agent loop believes

- `AgentLoopProofs!ReceiptsAreEarned` (`GateAgrees`). For any files, commands, attempts and foreign writes at any moment, a passed receipt is of an attempt whose commands started on exactly the files it names and all exited zero, and whose mirror is gone; an attempt with a mirror stands on its own pending receipt, and the corpus it is scanned over lay there at one moment.
- `AgentLoopProofs!AnswersAreHonest` (`CallsAreHonest`). For each of the five callers, on either host, with any streams, limits and pipes and any program: an answer is everything the program said (except to the implementer's caller), to the prompt it was given, within its limits; no call that reports a missing container ran its program, and whoever is left inside is told of, unless an exception travels out as it came.

A phase of an acceptance trusts the one before it, and between any two of them somebody
may write.  `Earned` says what is handed on: from the first byte of the mirror the
receipt on disk is the pending one of this attempt (`Pended`); the zeros that were
counted are those of this attempt, up to the next command (`Counted`); the mirror holds
the claimed files as far as they were copied, and what was measured is what was claimed
(`Claimed`).  The corpus is copied and compared, not locked; `CorpusAges` orders its
contents by the write that made them, so that a file found as it was before the copy
cannot have been changed and changed back meanwhile.

A call is judged when its threads have ended or the grace has passed, by a ladder of
conditions whose order differs between the callers.  `Trusted` says what each condition
is worth: a stream that was completed was read to its end and nobody holds it, so that
nothing is written to it afterwards (`ReadOut`); what was delivered and not read fits the
pipe (`Handed`); a container once found empty stays empty, and one that was not is no
clean call (`PipesEmptied`); a call that drains once more has told already (`Unjudged`).  For
each caller a lemma then says what is left when its ladder answers
(`ImplementerVerdict` and its fellows, all by `FirstRung`: some condition is the first
that holds), and `Believed` puts both together.  The implementer's ladder does not ask
for its streams, which is why `AnswerIsWhole` excludes it (section 6).

### The evaluation

- `EvaluationProofs!EvaluationStaysHonest` (`EvaluationIsHonest`). For any cases, rows, targets, owner's statement and guard, and any edits of the files, the contract and the tree between any two steps: no case is opened before the chain and the commit are the ones stated; a report speaks of the stated sources and counts their locked cases, and the gate report counts the mutants of those cases by the code each class expects; an edit of any derived number of a report is refused; a review is of one load of the sources, and its stopping rule stops where the target is reached or out of reach, and not later.

The inductive invariant is `Evaluated`.  `Archived` is about what is kept: a package or a
report that is whole was made of the sources it names (`Packaged`, `Aggregated`), the
reviewer's verdicts are of a prefix of what his package lists (`Judged`), and what was
decided is decisive.  `Screened` is about the order of a screening: up to the head
nothing is loaded (`Opening`), from the chain on what was verified is the stated chain
(`Chained`), from the head on the stated commit (`Dated`), from the source check on the
stated bytes; a report, in memory or on the disk, speaks of what was stated.  `Unedited`
carries the tree the run was started from, while nobody edits.  `Filed` are the types.

Two arguments carry the rest.  A stopping rule asks for the first position at which one
of two counters equals its target.  The counters grow by one or not at all and start
below their targets, so before that position they are below them, and a counter that has
reached its target has equalled it somewhere (`FirstStopIsFirst`, `NothingStoppedYet`,
`ReviewedClassIsDecisive`).  That is an induction over positions, which the provers do
not do here; it is had from the least element of a set of numbers (`LeastOfNaturals`, by
the well-foundedness of `<`): the least position at which the counter is past its
target, and the one before it.  And a report is found out because every number in it is
tied to another: `Measures` says how a cell and its counters agree, `ChangedCellsFall`,
`ChangedBoundsFall` and `ChangedCountersFall` that one of the ties breaks whichever of
the two is changed.  The sum of the flags of a replay is not among these ties: it is
defined by a recursive fold, and a theorem that needed it would be out of reach.

### Left to TLC

The installed provers do not reach liveness (`RunsEnd`, `JobsEnd`, `PurgeIsDecided`,
`CrashedApplyIsUndone`, `CallEnds`), anything about `ENABLED`, and what recursively
defined operators compute (`ProgramReplies`).  `SpeechHolds` has no theorem either: the
module packs its hotwords with folds of the library, which are defined recursively.
Every other invariant that
the runs check is a theorem.

## 6. What the runs found

Runs that are expected to fail state something the repository says of itself and
show an execution of the code that contradicts it.

- **SharedChunkReuse** (`ReuseCompletesManifest`, `src/pipeline/index/db.py:4384`). existing_content_keys (src/pipeline/index/db.py:4394-4407) reports a key stored under ANY version, so ingest_attempt skips embedding it, but _copy_rows only copies from a row with version_id = this candidate (db.py:4384): no row is copied, promote_generation refuses the manifest, and a corrected edition that shares one chunk with a stored edition can never be promoted. The docstring at src/pipeline/index/db.py:4396 says 'Content keys with a reusable stored row in any generation -- what a new attempt can COPY instead of re-embedding'.
- **InventedPage** (`PagesWereSupplied`, `src/pipeline/validation/rag/answer_guard.py:424`). check_structured compares the pages an answer names with the pages of the passages it quotes only when those passages have one (`stray = ... if pages else []`): a structured answer that quotes a passage without a trusted page may name page 99, is `answered`, and _page_citations publishes PageCitation(99, "model"). The docstring at src/pipeline/validation/rag/answer_guard.py:8 says 'every PAGE the answer cites is a page that was actually supplied'.

Other disagreements are in the models, and an instance shows each of them, but
they have no run of their own:

- a worker that has lost its claim still publishes: `job_worker.py:57-58` says "Fail
  closed; never publish on an assumed lease", and `lost` is read only at
  `job_worker.py:147`, after `ingest_version_source` has returned.  The attempt's own
  lease is what protects the index (`OnlyTheHolderStages`);
- `eligible_at` (`db.py:2487`) survives a restore, so a document archived again is
  purged by the old clock (`README.md:516-518` describes a retention period that
  starts with the archive);
- a command-line run whose promotion is refused ends without abandoning its attempt
  (`ingest.py:898`), where `attempt_contract.py:249-250` says "a run that is over must
  not hold anything"; the lease blocks the document until it expires;
- a crash during a rollback or a recovery leaves `rolling_back`, from which
  `ALLOWED_JOURNAL_TRANSITIONS` has no way back into a rollback, and a crash between
  the journal and the slot directory leaves a record that recovery cannot open.
  `recover_application` then refuses at the start of every later run (`result` is
  "blocked"), where `application.py:21` promises "a findable recovery record if the
  process dies mid-flight";
- a move interrupted between link and unlink leaves the file under both names, and
  its undoing refuses the occupied one: nothing is lost, and a human has to finish;
- bytes saved over a file between its proof and its unlink (`application.py:1023-1037`)
  are unlinked, or carried into the holder and removed with it, where
  `application.py:25` says that no observer sees "a file of theirs overwritten, a file
  of theirs deleted".  The model makes such edits (`Late`) and the properties except
  them; without the exception `OwnBytesSurvive` fails in the `Application` run;
- the slots are opened inside the `try` of the application (`application.py:1219`), and the
  handler of a failure names them (`application.py:1250`): when they were made and
  cannot be opened the name is unbound, nothing is undone, and the holder stays until
  the next run recovers (`SlotsUnbound`);
- a rollback removes every planned directory that is empty, also one the operator has
  made since the plan (`application.py:1094`, against the comment at 574-577).  The
  model does the same (`OperatorMakesDirectory`, `RemoveDirectory`); the properties
  speak of files.

Publication, ingest and retention:

- a process request whose `abandon_attempt` is refused logs it and answers 500 with its
  lease held (`app.py:2302-2305`), also against `attempt_contract.py:249-250`: the
  document is blocked until the lease expires (`ReleaseFails`);
- a purge removes its objects one by one and cannot roll them back: a worker that dies
  after some of them leaves a document that a hold may then be placed on, a hold on
  bytes that are gone (`purge_worker.py:4-7` says that a concurrent hold "happens
  wholly before the purge (and cancels it) or wholly after the terminal tombstone");
- an upload to an archived document can write its source after a purge has removed
  the versions it listed; finalization is refused and the object stays
  (`publication.py:721`; `README.md:523-529` says that source bytes and chunk text do not remain).  The
  comparison index keeps a copy of purged text until it is built again;
- a publication that fails, or loses the race, after creating its temporary leaves
  `source-*.tmp`; a later purge takes the source away, cannot remove the directory and
  fails for good, where `purge_version_source` says "Idempotently";
- the claim's `attempt_count` is rolled back with a worker that dies, and a purge that
  fails is terminal (`db.py:2486`);
- `enqueue_ingest_job` refuses while an attempt id is on the row, an expired lease
  included (`db.py:3698`), where `ingest.py:370-371` lets a new attempt take over;
- the signed context of an ingest connection is issued once (`ingest.py:501`) and stands
  for 120 seconds, the lease for 300; heartbeats renew only the lease, where
  `db.py:176-178` says that worker connections are "short-lived and closed after one
  operation".

The agent loop:

- finalization unlinks `state.json` first; a second call after a crash there answers
  ALREADY_FINALIZED with the other files left, and new runs are refused
  (`finalization.py:787`); errors raised inside `_cleanup` are refusals, whose caller
  "has been told that NOTHING was removed" (`finalization.py:149-154`); `_cleanup` removes the workspace without
  measuring the candidate again (`finalization.py:781`);
- a crash between the journal's APPLIED and the state's APPROVED strands the run
  (`runner.py:1314`); an error of `_open_workspace` (`runner.py:697`) leaves a PREFLIGHT
  state without a binding; the tree before the evaluator is not compared with the one
  that was verified (`runner.py:1170`, against the comment at 620-624); `spent_usd` is
  never updated;
- `_rollback` counts planned directories that were never made as failures
  (`application.py:1094`, against the docstring at 543-545);
- `run_implementer` believes an answer without asking whether its streams were read to
  their end or its threads joined (`execution.py:1040-1107`); the four other callers
  ask, as the comment at `process.py:420-424` demands.  What the prompt writer could
  not deliver is noticed only beyond the pipe's capacity (`execution.py:304`), and
  `ContainmentEscaped` is never told from other containment errors;
- a mirror whose process died is collected by nobody, and a command can remove its
  marker, after which `remove` refuses; the final write of a passed receipt may raise
  after the bytes are in place;
- the projection that compares two readings of the checkout leaves out identity and
  time (`changes.py:80`), and a file described by its metadata has no digest: a
  rewrite of the same size there is invisible, against `fs_evidence.py:56-59`.  A file
  written twice within one timestamp can be read torn, where `_hash_descriptor` says
  "the mixture is refused rather than recorded";
- the schema issue CONDITIONAL cannot occur, since the validator reports the leaves of
  a conditional; an undeclared key is reported at the root and not as `unknown`, as
  `_schema_diagnosis` says; several failures have no code of their own.

Identities and records:

- an assertion can be answered twice at its expiry: `_consume_service_account_assertion`
  compares its dates with the start of the statement, and removes the nonces that have
  expired before it inserts its own (`control/schema.sql:1394-1443`), so that a replay
  that began in time and comes after such a removal finds no nonce.  Two reads
  of a list are then both answered; what a redemption bought is bought once (`ApprovalBuysOneCredential`);
- a redemption may commit long after its administrator lost his authority: its stamp is
  taken before it waits for the tenant, the account and the approval
  (`control/schema.sql:1639-1644`, `1759-1764`), and neither a lock nor a statement
  timeout is set.  `AuthorityIsRecent` bounds the stamp;
- an approval is still offered when the end it carries has passed, and its redemption
  then fails in the table's check; a pending approval outlives a direct issue, and an
  expired one is closed only by the next approval;
- a refresh of the signing keys that is not locked may install an older document, and
  retirement counts from the first refresh that misses a key
  (`docs/enterprise_identity.md:32` says "keys disappear after the configured overlap window"); an identity within the
  tolerance past its end is verified and then refused a session;
- `decide_review_case` reads the epoch without locking the tenant, a case whose subject
  is no longer active cannot be decided, and `replace_org_topology` does not compare the
  policy epoch;
- an interaction is recorded although its references are then refused and the answer is
  never delivered;
- a dictation that is queued when the engine closes is cancelled and its upload stays,
  as do staged files of a crash and those whose removal the system refuses
  (`speech_service.py:338-340`), where the docstring (`speech_service.py:11-13`) promises
  "the length of one request".

Offline evaluation:

- not every counter of a report is derived again (comment at `locked_runner.py:394`):
  the expected diagnostic of a class without one can be changed up to the number
  caught, the two controls shifted against each other, and the sums of flags are only
  bounded;
- code is imported before the tree is found clean, so that a tree committed meanwhile
  lets a report name code that did not run; files swapped between the load and the
  count pass the count, where a comment (`locked_runner.py:583`) says that a count "IS
  set equality"; two runs with one output path overwrite each other;
- `eligible_sets` speaks of lower and upper bounds: the inventory compares a figure
  with the cited passages, the mutator with the whole context, so that
  `arithmetic_restatement` and `corrupted_quote` may have fewer mutants than
  confirmed, and `wrong_row` more than candidates, since only the detector asks for a
  question about tables; one class without an active plan refuses the decisions on
  all three.

## 7. Not modelled

- Candidate publication (`pipeline/index/db.py`, `pipeline/index/publication.py`, `pipeline/api/app.py`): Staging, the immutable source write, finalization, the session lock and their crash windows; the legacy upsert_document gate and the legacy-source migration are left out.
- Document versions and lifecycle (`pipeline/index/db.py`, `pipeline/api/app.py`, `pipeline/index/schema.sql`): Archive, restore and revision-checked activation of a retained version; listings are LibraryListing. The version file itself is VersionSources.
- Control plane and service accounts (`pipeline/control/db.py`, `pipeline/control/schema.sql`): Approval, cancellation, expiry, issue, rotation, revocation and redemption of machine credentials, the assertions that carry a tenant administrator's authority between the two databases, and the nonces that make them single-use, under two clocks. Tenant routes, operator proofs and the rotation of the assertion key are not modelled.
- Tenant binding of requests (`pipeline/api/app.py`, `pipeline/index/db.py`, `pipeline/api/auth.py`, `pipeline/index/schema.sql`, `pipeline/control/db.py`): The control route, the membership and the comparison of the two; the signed context of a pooled connection under commits, rollbacks, lost sessions and age. The service context of workers and the long-lived connection of an ingest run are not modelled.
- OIDC sessions and identity (`pipeline/api/oidc_session.py`, `pipeline/api/oidc.py`, `pipeline/api/app.py`): Pending logins, competing callbacks, the token's nonce and end, sessions, logout and the limits of both stores. The signing keys and their rotation are left open: any token may or may not verify.
- Extraction and table consensus (`pipeline/extraction/table_pipeline.py`, `pipeline/extraction/router.py`): Pure transformations over model output; no state across calls.
- API surface and chat bridge (`pipeline/api/app.py`, `pipeline/api/owui_chat.py`): Request validation and formatting around the operations modelled elsewhere.
- Evaluation tools and scripts (`eval/quality_gate.py`, `scripts/db_snapshot.py`): Batch tools that read results; nothing concurrent, no state of the service. The eligibility inventory, its review and the locked screening are modelled.

In `ApplicationJournal` each of the two readings of the checkout and the verification
is one instant; modes are not part of a content, and a directory is not part of the
difference that is verified, so that the model commits where the code would refuse a
directory of the operator's: it allows more than the code does.

Row-level locks are not modelled where the code takes all of them at the start of
a transaction: such a transaction is one step.  The two lock orders over
`attempts` and `documents` can deadlock; PostgreSQL aborts one side, which is the
failure alternative that every step has.

## 8. Plan

Done: publication, attempts, promotion and lifecycle; the queue; retention; the
immutable sources; the agent loop from its run through calls, replies, acceptance,
evidence, application and finalization; the control plane; the structure with
reviews, datasets and tickets; tenant binding and browser sessions; retrieval and
answering; the speech service; eligibility, review and locked
screening; the listings and labels of the library.

Left, in order: the start of the service and its schema migration (`db.py`
337-500, `control/db.py` 376-660); tenant routes, operator proofs and the rotation of
the assertion key; the upload of legacy sources; the Windows transport of the
application; the development harness of the screening; the table consensus as
functions checked against their definition.

Abstract specifications: `ServedIndex` (done); a queue that hands each job to one
owner and decides it, refined by `IngestJobs`; an atomic multi-file replace, refined
by `ApplicationJournal`; a register written once, refined by `VersionSources`.

Theorems still to prove: the refinements of the abstract specifications above.
