-------------------------- MODULE IngestJobsProofs --------------------------
(* Theorems about IngestJobs, for every number of workers, requests, jobs, *)
(* candidates and attempts; and, after them, about LibraryListing, for any *)
(* rows, labels and page size.                                             *)
EXTENDS IngestJobs, LibraryListing, FiniteSetTheorems, TLAPS

-----------------------------------------------------------------------------
(* The inductive invariant.  That a succeeded job was promoted depends on  *)
(* what its worker knows between the promotion and finish_ingest_job, and  *)
(* that again on attempts and jobs keeping the candidate they were made    *)
(* for.                                                                    *)

DocRow == [cand : Candidate \cup {0}, published : BOOLEAN,
           att : Attempt \cup {0}, live : BOOLEAN, gen : Nat,
           archived : BOOLEAN]

AttemptRow == [status : {"unborn", "running", "done", "error", "partial",
                         "superseded"},
               cand : Candidate \cup {0}, observed : Nat]

JobRow == [status : {"unborn", "queued", "running"} \cup Terminal,
           cand : Candidate \cup {0}, key : IdempotencyKey \cup {0},
           worker : Worker \cup {0}, live : BOOLEAN, tries : 0..MaxTries]

RunState == [pc : {"idle", "begin", "ensure", "ingest", "check", "finish",
                   "fail", "retry", "disown", "failing", "requeue", "crashed"},
             job : Job \cup {0}, att : Attempt \cup {0}, stale : BOOLEAN,
             lost : BOOLEAN, verdict : {"none", "succeeded", "partial"}]

\* The attempt named on the row is the open attempt of the current candidate.
LeaseHeld ==
    doc.att # 0 => /\ attempt[doc.att].status = "running"
                   /\ attempt[doc.att].cand = doc.cand

\* What the local state r of the actor w refers to exists, and is what w was
\* told of it.
Fits(w, r) ==
    /\ w \in Direct => r.job = 0 /\ r.pc \in {"idle", "ingest", "crashed"}
    /\ w \in Worker => (r.job = 0 <=> r.pc \in {"idle", "crashed"})
    /\ r.job # 0 => job[r.job].status # "unborn"
    /\ r.att # 0 => attempt[r.att].status # "unborn"
    /\ r.pc \in {"ensure", "ingest", "check", "finish"} => r.att # 0
    /\ (w \in Worker /\ r.pc \in {"ingest", "check", "finish"}) =>
          attempt[r.att].cand = job[r.job].cand
    /\ r.pc \in {"check", "finish"} =>
          /\ r.verdict # "none"
          /\ r.verdict = "succeeded" => attempt[r.att].status = "done"

Locals == \A w \in Actor : Fits(w, run[w])

OneJob == \A i, j \in Job : Active(i) /\ Active(j) => i = j

\* A process request that holds the lease is alone.
DirectAlone ==
    \A p \in Direct : (run[p].att # 0 /\ doc.att = run[p].att)
                         => ActiveJobs = {}

Queued ==
    /\ TypeOK /\ LeaseHeld /\ Locals
    /\ OneJob /\ DirectAlone /\ SucceededWasPromoted
-----------------------------------------------------------------------------
(* Local states, and the parts of TypeOK.                                  *)

Pc == {"idle", "begin", "ensure", "ingest", "check", "finish", "fail",
       "retry", "disown", "failing", "requeue", "crashed"}

LEMMA MovePc ==
    ASSUME NEW r \in RunState, NEW p \in Pc, NEW s, s = [r EXCEPT !.pc = p]
    PROVE  /\ s \in RunState
           /\ s.pc = p /\ s.job = r.job /\ s.att = r.att
           /\ s.verdict = r.verdict
BY DEF RunState, Pc

LEMMA MoveLost ==
    ASSUME NEW r \in RunState, NEW s, s = [r EXCEPT !.lost = TRUE]
    PROVE  /\ s \in RunState
           /\ s.pc = r.pc /\ s.job = r.job /\ s.att = r.att
           /\ s.verdict = r.verdict
BY DEF RunState

LEMMA IdleTyped ==
    /\ Idle \in RunState
    /\ Idle.pc = "idle" /\ Idle.job = 0 /\ Idle.att = 0 /\ Idle.verdict = "none"
BY DEF RunState, Idle

LEMMA MoveIdle ==
    ASSUME NEW p \in Pc, NEW s, s = [Idle EXCEPT !.pc = p]
    PROVE  /\ s \in RunState
           /\ s.pc = p /\ s.job = 0 /\ s.att = 0 /\ s.verdict = "none"
BY DEF RunState, Pc, Idle

\* The tables and the local states of a typed state.
LEMMA TypeParts ==
    TypeOK <=> /\ doc \in DocRow
               /\ attempt \in [Attempt -> AttemptRow]
               /\ job \in [Job -> JobRow]
               /\ run \in [Actor -> RunState]
BY DEF TypeOK, DocRow, AttemptRow, JobRow, RunState

-----------------------------------------------------------------------------
(* The lease and the attempts.                                             *)

\* An attempt that was begun keeps its candidate, and its promotion.
AttemptsKeep ==
    \A a \in Attempt : attempt[a].status # "unborn" =>
        /\ attempt'[a].status # "unborn"
        /\ attempt'[a].cand = attempt[a].cand
        /\ attempt[a].status = "done" => attempt'[a].status = "done"

\* What every step leaves of the document and its attempts.
LeaseStep ==
    /\ doc' \in DocRow
    /\ attempt' \in [Attempt -> AttemptRow]
    /\ LeaseHeld'
    /\ AttemptsKeep

\* The ways in which a step reaches the document or its attempts.
LEMMA LeaseSteps ==
    ASSUME Next
    PROVE  \/ UNCHANGED <<doc, attempt>>
           \/ StageCandidate \/ FinalizePublication \/ SetArchived
           \/ AttemptLeaseExpires
           \/ \E w \in Actor : TakeLease(w)
           \/ \E w \in Actor, v \in {"partial", "error"} : Record(w, v)
           \/ \E w \in Actor : run[w].pc = "ingest" /\ Promotes(w)
<1>1. ASSUME NEW w \in Worker, RunOne(w)
      PROVE  \/ UNCHANGED <<doc, attempt>>
             \/ TakeLease(w) \/ (run[w].pc = "ingest" /\ Promotes(w))
             \/ Record(w, "partial") \/ Record(w, "error")
    BY <1>1 DEF RunOne, BeginForJob, EnsureSource, IngestDone, IngestPartial,
                PromotedThenRaises, IngestRaises, CheckLost, Finish, Abandon,
                CloseFailed, Requeue
<1>2. ASSUME NEW w \in Worker, Poll(w) \/ HeartbeatLost(w)
      PROVE  UNCHANGED <<doc, attempt>>
    BY <1>2 DEF Poll, Claim, CloseExhausted, HeartbeatLost
<1>3. ASSUME NEW p \in Direct,
             BeginDirect(p) \/ IngestDone(p) \/ IngestPartial(p) \/ DirectFails(p)
      PROVE  \/ TakeLease(p) \/ (run[p].pc = "ingest" /\ Promotes(p))
             \/ Record(p, "partial") \/ Record(p, "error")
    BY <1>3 DEF BeginDirect, IngestDone, IngestPartial, DirectFails
<1>4. ASSUME NEW w \in Actor, Crash(w) \/ Restart(w)
      PROVE  UNCHANGED <<doc, attempt>>
    BY <1>4 DEF Crash, Restart
<1>5. ASSUME NEW j \in Job, Cancel(j) \/ JobLeaseExpires(j)
      PROVE  UNCHANGED <<doc, attempt>>
    BY <1>5 DEF Cancel, JobLeaseExpires
<1>6. Worker \subseteq Actor /\ Direct \subseteq Actor
    BY DEF Actor
<1>7. Enqueue => UNCHANGED <<doc, attempt>>
    BY DEF Enqueue
<1> QED BY <1>1, <1>2, <1>3, <1>4, <1>5, <1>6, <1>7 DEF Next

LEMMA TakeLeaseKeeps ==
    ASSUME TypeOK, LeaseHeld, NEW w \in Actor, TakeLease(w)
    PROVE  /\ LeaseStep
           /\ \E a \in Attempt : /\ attempt[a].status = "unborn"
                                 /\ attempt'[a].status = "running"
                                 /\ attempt'[a].cand = doc.cand
                                 /\ doc' = [doc EXCEPT !.att = a, !.live = TRUE]
                                 /\ LocalState(w, [run[w] EXCEPT !.att = a,
                                      !.pc = IF w \in Worker THEN "ensure"
                                                             ELSE "ingest"])
<1>1. PICK a \in Attempt :
         /\ attempt[a].status = "unborn"
         /\ attempt' = [b \in Attempt |->
               IF b = a THEN [status |-> "running", cand |-> doc.cand,
                              observed |-> doc.gen]
               ELSE IF b = doc.att /\ attempt[b].status = "running"
               THEN [attempt[b] EXCEPT !.status = "superseded"]
               ELSE attempt[b]]
         /\ doc' = [doc EXCEPT !.att = a, !.live = TRUE]
         /\ LocalState(w, [run[w] EXCEPT !.att = a,
              !.pc = IF w \in Worker THEN "ensure" ELSE "ingest"])
    BY DEF TakeLease
<1>2. doc \in DocRow /\ attempt \in [Attempt -> AttemptRow]
    BY TypeParts
<1>3. doc' \in DocRow /\ doc'.att = a /\ doc'.cand = doc.cand
    BY <1>1, <1>2 DEF DocRow
<1>4. /\ attempt'[a] \in AttemptRow
      /\ attempt'[a].status = "running" /\ attempt'[a].cand = doc.cand
    BY <1>1, <1>2 DEF DocRow, AttemptRow
<1>5. ASSUME NEW b \in Attempt, b # a
      PROVE  /\ attempt'[b] \in AttemptRow
             /\ attempt'[b].cand = attempt[b].cand
             /\ attempt[b].status # "unborn" => attempt'[b].status # "unborn"
             /\ attempt[b].status = "done" => attempt'[b].status = "done"
  <2>1. attempt[b] \in AttemptRow
      BY <1>2
  <2>2. \/ attempt'[b] = attempt[b]
        \/ /\ attempt[b].status = "running"
           /\ attempt'[b] = [attempt[b] EXCEPT !.status = "superseded"]
      BY <1>1, <1>5
  <2> QED BY <2>1, <2>2 DEF AttemptRow
<1>6. attempt' \in [Attempt -> AttemptRow]
  <2>1. attempt' = [b \in Attempt |-> attempt'[b]]
      BY <1>1
  <2> QED BY <2>1, <1>4, <1>5
<1>7. LeaseHeld'
    BY <1>3, <1>4 DEF LeaseHeld
<1>8. AttemptsKeep
    BY <1>1, <1>5 DEF AttemptsKeep
<1> QED BY <1>1, <1>3, <1>4, <1>6, <1>7, <1>8 DEF LeaseStep

\* Closing the attempt that holds the lease, with any verdict.
LEMMA CloseKeeps ==
    ASSUME TypeOK, LeaseHeld, NEW a \in Attempt, a = doc.att,
           NEW v \in {"partial", "error", "done"},
           attempt' = [attempt EXCEPT ![a].status = v],
           doc' \in DocRow, doc'.att = 0
    PROVE  LeaseStep /\ attempt'[a].status = v
<1>1. attempt \in [Attempt -> AttemptRow] /\ a # 0
    BY TypeParts DEF Attempt
<1>2. attempt[a].status = "running"
    BY <1>1 DEF LeaseHeld
<1>3. \A b \in Attempt \ {a} : attempt'[b] = attempt[b]
    BY <1>1
<1>4. /\ attempt'[a] \in AttemptRow
      /\ attempt'[a].status = v /\ attempt'[a].cand = attempt[a].cand
  <2>1. attempt[a] \in AttemptRow /\ attempt'[a] = [attempt[a] EXCEPT !.status = v]
      BY <1>1
  <2> QED BY <2>1 DEF AttemptRow
<1>5. attempt' \in [Attempt -> AttemptRow]
  <2>1. attempt' = [b \in Attempt |-> attempt'[b]]
      BY <1>1
  <2>2. \A b \in Attempt : attempt'[b] \in AttemptRow
      BY <1>1, <1>3, <1>4
  <2> QED BY <2>1, <2>2
<1>6. AttemptsKeep
    BY <1>2, <1>3, <1>4 DEF AttemptsKeep
<1>7. LeaseHeld'
    BY DEF LeaseHeld
<1> QED BY <1>4, <1>5, <1>6, <1>7 DEF LeaseStep

LEMMA RecordKeeps ==
    ASSUME TypeOK, LeaseHeld, NEW w \in Actor, NEW v \in {"partial", "error"},
           Record(w, v)
    PROVE  LeaseStep /\ doc'.att \in {doc.att, 0}
<1>1. doc \in DocRow /\ attempt \in [Attempt -> AttemptRow] /\ run[w] \in RunState
    BY TypeParts
<1>2. CASE run[w].att # 0 /\ Authority(w)
  <2>1. /\ run[w].att \in Attempt /\ run[w].att = doc.att
        /\ attempt' = [attempt EXCEPT ![run[w].att].status = v]
        /\ doc' = [doc EXCEPT !.att = 0, !.live = FALSE]
      BY <1>1, <1>2 DEF Record, Authority, RunState
  <2>2. doc' \in DocRow /\ doc'.att = 0
      BY <1>1, <2>1 DEF DocRow
  <2> QED BY <2>1, <2>2, CloseKeeps
<1>3. CASE ~(run[w].att # 0 /\ Authority(w))
  <2>1. UNCHANGED <<attempt, doc>>
      BY <1>3 DEF Record
  <2> QED BY <2>1, <1>1 DEF LeaseStep, LeaseHeld, AttemptsKeep
<1> QED BY <1>2, <1>3

LEMMA PromotesKeeps ==
    ASSUME TypeOK, LeaseHeld, NEW w \in Actor, Promotes(w), run[w].att # 0
    PROVE  /\ LeaseStep /\ doc'.att = 0
           /\ attempt'[run[w].att].status = "done"
<1>1. doc \in DocRow /\ attempt \in [Attempt -> AttemptRow] /\ run[w] \in RunState
    BY TypeParts
<1>2. /\ run[w].att \in Attempt /\ run[w].att = doc.att
      /\ attempt' = [attempt EXCEPT ![run[w].att].status = "done"]
      /\ doc' = [doc EXCEPT !.gen = @ + 1, !.att = 0, !.live = FALSE]
    BY <1>1 DEF Promotes, Authority, RunState
<1>3. doc' \in DocRow /\ doc'.att = 0
  <2>1. PICK g \in Nat : doc' = [doc EXCEPT !.gen = g, !.att = 0, !.live = FALSE]
    <3>1. doc.gen + 1 \in Nat
        BY <1>1 DEF DocRow
    <3> QED BY <3>1, <1>2
  <2> QED BY <1>1, <2>1 DEF DocRow
<1> QED BY <1>2, <1>3, CloseKeeps

LEMMA StageKeeps ==
    ASSUME TypeOK, StageCandidate
    PROVE  LeaseStep /\ doc'.att = 0
<1>1. doc \in DocRow /\ attempt \in [Attempt -> AttemptRow]
    BY TypeParts
<1>2. doc' \in DocRow /\ doc'.att = 0
  <2>1. PICK c \in Candidate : doc' = [doc EXCEPT !.cand = c, !.published = FALSE,
                                          !.att = 0, !.live = FALSE]
    <3>1. doc.cand \in 0..MaxCandidate /\ doc.cand < MaxCandidate
        BY <1>1, JobsAssumption DEF StageCandidate, DocRow, Candidate
    <3>2. doc.cand + 1 \in Candidate
        BY <3>1, JobsAssumption DEF Candidate
    <3> QED BY <3>2 DEF StageCandidate
  <2> QED BY <1>1, <2>1 DEF DocRow
<1>3. ASSUME NEW a \in Attempt
      PROVE  /\ attempt'[a] \in AttemptRow
             /\ attempt'[a].cand = attempt[a].cand
             /\ attempt[a].status # "unborn" => attempt'[a].status # "unborn"
             /\ attempt[a].status = "done" => attempt'[a].status = "done"
  <2>1. attempt[a] \in AttemptRow
      BY <1>1
  <2>2. \/ attempt'[a] = attempt[a]
        \/ /\ attempt[a].status = "running"
           /\ attempt'[a] = [attempt[a] EXCEPT !.status = "superseded"]
      BY DEF StageCandidate
  <2> QED BY <2>1, <2>2 DEF AttemptRow
<1>4. attempt' \in [Attempt -> AttemptRow]
  <2>1. attempt' = [a \in Attempt |-> attempt'[a]]
      BY DEF StageCandidate
  <2> QED BY <2>1, <1>3
<1> QED BY <1>2, <1>3, <1>4 DEF LeaseStep, LeaseHeld, AttemptsKeep
LEMMA DocumentKeeps ==
    ASSUME TypeOK, LeaseHeld,
           FinalizePublication \/ SetArchived \/ AttemptLeaseExpires
    PROVE  LeaseStep /\ doc'.att = doc.att
<1>1. doc \in DocRow /\ attempt \in [Attempt -> AttemptRow]
    BY TypeParts
<1>2. UNCHANGED attempt
    BY DEF FinalizePublication, SetArchived, AttemptLeaseExpires
<1>3. doc' \in DocRow /\ doc'.att = doc.att /\ doc'.cand = doc.cand
  <2>1. CASE FinalizePublication
      BY <1>1, <2>1 DEF FinalizePublication, DocRow
  <2>2. CASE SetArchived
    <3>1. PICK b \in BOOLEAN : doc' = [doc EXCEPT !.archived = b]
        BY <2>2 DEF SetArchived
    <3> QED BY <1>1, <3>1 DEF DocRow
  <2>3. CASE AttemptLeaseExpires
      BY <1>1, <2>3 DEF AttemptLeaseExpires, DocRow
  <2> QED BY <2>1, <2>2, <2>3
<1> QED BY <1>1, <1>2, <1>3 DEF LeaseStep, LeaseHeld, AttemptsKeep

\* Whoever moves it, the lease stays with the open attempt of the candidate.
\* The row comes to name an attempt only when that attempt is taken.
LEMMA LeaseKept ==
    ASSUME TypeOK, LeaseHeld, Locals, [Next]_vars
    PROVE  /\ LeaseStep
           /\ \/ doc'.att \in {doc.att, 0}
              \/ attempt[doc'.att].status = "unborn"
<1>1. CASE UNCHANGED <<doc, attempt>>
  <2>1. doc' \in DocRow /\ attempt' \in [Attempt -> AttemptRow]
      BY <1>1, TypeParts
  <2> QED BY <1>1, <2>1 DEF LeaseStep, LeaseHeld, AttemptsKeep
<1>2. CASE StageCandidate
    BY <1>2, StageKeeps
<1>3. CASE FinalizePublication \/ SetArchived \/ AttemptLeaseExpires
    BY <1>3, DocumentKeeps
<1>4. ASSUME NEW w \in Actor, TakeLease(w)
      PROVE  LeaseStep /\ attempt[doc'.att].status = "unborn"
  <2>1. doc \in DocRow
      BY TypeParts
  <2>2. PICK a \in Attempt : attempt[a].status = "unborn"
                             /\ doc' = [doc EXCEPT !.att = a, !.live = TRUE]
      BY <1>4, TakeLeaseKeeps
  <2>3. doc'.att = a
      BY <2>1, <2>2 DEF DocRow
  <2> QED BY <1>4, <2>2, <2>3, TakeLeaseKeeps
<1>5. ASSUME NEW w \in Actor, NEW v \in {"partial", "error"}, Record(w, v)
      PROVE  LeaseStep /\ doc'.att \in {doc.att, 0}
    BY <1>5, RecordKeeps
<1>6. ASSUME NEW w \in Actor, run[w].pc = "ingest", Promotes(w)
      PROVE  LeaseStep /\ doc'.att = 0
  <2>1. run[w].att # 0
      BY <1>6 DEF Locals, Fits
  <2> QED BY <1>6, <2>1, PromotesKeeps
<1>7. CASE UNCHANGED vars
    BY <1>1, <1>7 DEF vars
<1> QED BY <1>1, <1>2, <1>3, <1>4, <1>5, <1>6, <1>7, LeaseSteps

-----------------------------------------------------------------------------
(* The queue.                                                              *)

\* A job that was enqueued keeps the candidate it was enqueued for.
JobsKeep ==
    \A j \in Job : job[j].status # "unborn" =>
        job'[j].status # "unborn" /\ job'[j].cand = job[j].cand

\* The owner of a claim writes the outcome s and forgets the job.
Closes(w, s) ==
    /\ Owns(w)
    /\ run[w].job # 0
    /\ s = "succeeded" => run[w].pc = "finish" /\ run[w].verdict = "succeeded"
    /\ job' = [job EXCEPT ![run[w].job] = Released(run[w].job, s)]
    /\ LocalState(w, Idle)

\* The ways in which a step reaches the jobs.
LEMMA JobSteps ==
    ASSUME TypeOK, Locals, Next
    PROVE  \/ UNCHANGED job
           \/ Enqueue
           \/ \E j \in Job : Cancel(j) \/ JobLeaseExpires(j)
           \/ \E w \in Worker : Claim(w) \/ CloseExhausted(w)
           \/ \E w \in Worker, s \in {"queued", "succeeded", "partial", "failed"} :
                 Closes(w, s)
<1>1. \A w \in Worker : run[w] \in RunState /\ Fits(w, run[w])
    BY TypeParts DEF Locals, Actor
<1>2. ASSUME NEW w \in Worker, RunOne(w)
      PROVE  \/ UNCHANGED job
             \/ \E s \in {"queued", "succeeded", "partial", "failed"} : Closes(w, s)
  <2>1. CASE Finish(w)
    <3>1. CASE Owns(w)
      <4>1. /\ run[w].pc = "finish" /\ LocalState(w, Idle)
            /\ job' = [job EXCEPT ![run[w].job] = Released(run[w].job,
                                                           run[w].verdict)]
          BY <2>1, <3>1 DEF Finish
      <4>2. run[w].verdict \in {"succeeded", "partial"} /\ run[w].job # 0
          BY <1>1, <4>1 DEF Fits, RunState
      <4> QED BY <3>1, <4>1, <4>2 DEF Closes
    <3>2. CASE ~Owns(w)
        BY <2>1, <3>2 DEF Finish
    <3> QED BY <3>1, <3>2
  <2>2. CASE CloseFailed(w)
    <3>1. CASE Owns(w)
      <4>1. /\ run[w].pc = "failing" /\ LocalState(w, Idle)
            /\ job' = [job EXCEPT ![run[w].job] = Released(run[w].job, "failed")]
          BY <2>2, <3>1 DEF CloseFailed
      <4>2. run[w].job # 0
          BY <1>1, <4>1 DEF Fits
      <4> QED BY <3>1, <4>1, <4>2 DEF Closes
    <3>2. CASE ~Owns(w)
        BY <2>2, <3>2 DEF CloseFailed
    <3> QED BY <3>1, <3>2
  <2>3. CASE Requeue(w)
    <3>1. CASE Owns(w)
      <4>1. PICK s \in {"queued", "failed"} :
               /\ run[w].pc = "requeue" /\ LocalState(w, Idle)
               /\ job' = [job EXCEPT ![run[w].job] = Released(run[w].job, s)]
          BY <2>3, <3>1 DEF Requeue
      <4>2. run[w].job # 0
          BY <1>1, <4>1 DEF Fits
      <4> QED BY <3>1, <4>1, <4>2 DEF Closes
    <3>2. CASE ~Owns(w)
        BY <2>3, <3>2 DEF Requeue
    <3> QED BY <3>1, <3>2
  <2>4. CASE ~Finish(w) /\ ~CloseFailed(w) /\ ~Requeue(w)
      BY <1>2, <2>4 DEF RunOne, BeginForJob, EnsureSource, IngestDone,
                        IngestPartial, PromotedThenRaises, IngestRaises,
                        CheckLost, Abandon
  <2> QED BY <2>1, <2>2, <2>3, <2>4
<1>3. ASSUME NEW p \in Direct,
             BeginDirect(p) \/ IngestDone(p) \/ IngestPartial(p) \/ DirectFails(p)
      PROVE  UNCHANGED job
    BY <1>3 DEF BeginDirect, IngestDone, IngestPartial, DirectFails
<1>4. ASSUME NEW w \in Actor, Crash(w) \/ Restart(w) \/ HeartbeatLost(w)
      PROVE  UNCHANGED job
    BY <1>4 DEF Crash, Restart, HeartbeatLost
<1>5. ASSUME StageCandidate \/ FinalizePublication \/ SetArchived
             \/ AttemptLeaseExpires
      PROVE  UNCHANGED job
    BY <1>5 DEF StageCandidate, FinalizePublication, SetArchived,
                AttemptLeaseExpires
<1>6. Worker \subseteq Actor
    BY DEF Actor
<1> QED BY <1>2, <1>3, <1>4, <1>5, <1>6 DEF Next, Poll

\* What every step leaves of the jobs.
JobStep ==
    /\ job' \in [Job -> JobRow]
    /\ JobsKeep
    /\ OneJob'
    /\ ClaimIsExclusive

\* A step after which no job is active that was not active before.
NoneAdded == \A j \in Job : Active(j)' => Active(j)

LEMMA NoneAddedKeepsOne ==
    ASSUME OneJob, NoneAdded
    PROVE  OneJob'
BY DEF OneJob, NoneAdded

LEMMA EnqueueKeeps ==
    ASSUME TypeOK, Enqueue
    PROVE  JobStep /\ doc.att = 0 /\ UNCHANGED <<doc, attempt, run>>
<1>1. PICK key \in IdempotencyKey, j \in Job :
         /\ job[j].status = "unborn"
         /\ job' = [job EXCEPT ![j] = [@ EXCEPT !.status = "queued",
                                                !.cand = doc.cand, !.key = key]]
    BY DEF Enqueue
<1>2. job \in [Job -> JobRow] /\ job[j] \in JobRow
      /\ doc.cand \in Candidate \cup {0}
    BY TypeParts DEF DocRow
<1>3. job'[j] = [job[j] EXCEPT !.status = "queued", !.cand = doc.cand, !.key = key]
      /\ \A i \in Job \ {j} : job'[i] = job[i]
    BY <1>1, <1>2
<1>4. job'[j] \in JobRow
    BY <1>2, <1>3 DEF JobRow
<1>5. job' \in [Job -> JobRow]
  <2>1. job' = [i \in Job |-> job'[i]]
      BY <1>1, <1>2
  <2> QED BY <2>1, <1>2, <1>3, <1>4
<1>6. \A i \in Job : ~Active(i)
    BY DEF Enqueue, EnqueueAdmits, ActiveJobs
<1>7. JobsKeep
    BY <1>1, <1>3 DEF JobsKeep
<1>8. OneJob'
    BY <1>3, <1>6 DEF OneJob, Active
<1>9. ClaimIsExclusive
    BY <1>1, <1>3 DEF ClaimIsExclusive
<1> QED BY <1>5, <1>7, <1>8, <1>9 DEF JobStep, Enqueue, EnqueueAdmits

LEMMA CancelKeeps ==
    ASSUME TypeOK, OneJob, NEW j \in Job, Cancel(j) \/ JobLeaseExpires(j)
    PROVE  JobStep /\ NoneAdded /\ UNCHANGED <<doc, attempt, run>>
           /\ \A i \in Job : job'[i].status \in {job[i].status, "cancelled"}
<1>1. job \in [Job -> JobRow] /\ job[j] \in JobRow
    BY TypeParts
<1>2. /\ \A i \in Job \ {j} : job'[i] = job[i]
      /\ job' = [i \in Job |-> job'[i]]
      /\ \/ /\ job[j].status = "queued"
            /\ job'[j] = [job[j] EXCEPT !.status = "cancelled"]
         \/ /\ job[j].status = "running"
            /\ job'[j] = [job[j] EXCEPT !.live = FALSE]
    BY <1>1 DEF Cancel, JobLeaseExpires
<1>3. /\ job'[j] \in JobRow /\ job'[j].cand = job[j].cand
      /\ \/ job[j].status = "queued" /\ job'[j].status = "cancelled"
         \/ job[j].status = "running" /\ job'[j].status = "running"
    BY <1>1, <1>2 DEF JobRow, Terminal
<1>4. job' \in [Job -> JobRow]
    BY <1>1, <1>2, <1>3
<1>5. JobsKeep
    BY <1>2, <1>3 DEF JobsKeep
<1>6. NoneAdded
    BY <1>2, <1>3 DEF NoneAdded, Active
<1>7. ClaimIsExclusive
    BY <1>2, <1>3 DEF ClaimIsExclusive
<1> QED BY <1>2, <1>3, <1>4, <1>5, <1>6, <1>7, NoneAddedKeepsOne
        DEF JobStep, Cancel, JobLeaseExpires

\* The row of a job that was released.
LEMMA ReleasedRow ==
    ASSUME TypeOK, NEW j \in Job,
           NEW s \in {"queued", "succeeded", "partial", "failed"}
    PROVE  /\ Released(j, s) \in JobRow
           /\ Released(j, s).status = s
           /\ Released(j, s).cand = job[j].cand
<1>1. job[j] \in JobRow
    BY TypeParts
<1>2. PICK r : r = [job[j] EXCEPT !.status = s, !.worker = 0, !.live = FALSE]
    OBVIOUS
<1>3. r \in JobRow /\ r.status = s /\ r.cand = job[j].cand
    BY <1>1, <1>2 DEF JobRow, Terminal
<1> QED BY <1>2, <1>3 DEF Released

LEMMA PollKeeps ==
    ASSUME TypeOK, OneJob, NEW w \in Worker, Claim(w) \/ CloseExhausted(w)
    PROVE  JobStep /\ NoneAdded
           /\ \A j \in Job : job'[j].status = "succeeded" =>
                                job[j].status = "succeeded"
<1>1. job \in [Job -> JobRow]
    BY TypeParts
<1>2. ASSUME NEW j \in Job
      PROVE  \/ job'[j] = job[j]
             \/ Exhausted(j) /\ job'[j] = Released(j, "failed")
             \/ Claimable(j) /\ job'[j] = [job[j] EXCEPT !.status = "running",
                                   !.worker = w, !.live = TRUE, !.tries = @ + 1]
    BY DEF Claim, CloseExhausted
<1>3. ASSUME NEW j \in Job
      PROVE  /\ job'[j] \in JobRow
             /\ job'[j].cand = job[j].cand
             /\ job'[j] = job[j]
                \/ (Active(j) /\ job'[j].status \in {"running", "failed"})
             /\ job[j].status = "running" /\ job'[j] # job[j] => ~job[j].live
  <2>1. CASE job'[j] = job[j]
      BY <1>1, <2>1
  <2>2. CASE Exhausted(j) /\ job'[j] = Released(j, "failed")
      BY <2>2, ReleasedRow DEF Exhausted, Active
  <2>3. CASE Claimable(j) /\ job'[j] = [job[j] EXCEPT !.status = "running",
                                   !.worker = w, !.live = TRUE, !.tries = @ + 1]
    <3>1. job[j] \in JobRow /\ Active(j)
          /\ (job[j].status = "running" => ~job[j].live)
        BY <1>1, <2>3 DEF Claimable, Active
    <3>2. PICK n \in 0..MaxTries : n = job[j].tries + 1
        BY <3>1, <2>3, JobsAssumption DEF Claimable, JobRow
    <3>3. job'[j] = [job[j] EXCEPT !.status = "running", !.worker = w,
                                   !.live = TRUE, !.tries = n]
        BY <2>3, <3>2
    <3>4. job'[j] \in JobRow /\ job'[j].cand = job[j].cand
          /\ job'[j].status = "running"
        BY <3>1, <3>3 DEF JobRow
    <3> QED BY <3>1, <3>4
  <2> QED BY <1>2, <2>1, <2>2, <2>3
<1>4. job' \in [Job -> JobRow]
  <2>1. job' = [j \in Job |-> job'[j]]
      BY DEF Claim, CloseExhausted
  <2> QED BY <2>1, <1>3
<1>5. JobsKeep
    BY <1>3 DEF JobsKeep
<1>6. NoneAdded
    BY <1>3 DEF NoneAdded, Active
<1>7. ClaimIsExclusive
    BY <1>3 DEF ClaimIsExclusive
<1> QED BY <1>3, <1>4, <1>5, <1>6, <1>7, NoneAddedKeepsOne DEF JobStep

\* A worker that closes its job writes one row, which it owned.
LEMMA ClosesKeeps ==
    ASSUME TypeOK, OneJob, NEW w \in Worker,
           NEW s \in {"queued", "succeeded", "partial", "failed"}, Closes(w, s)
    PROVE  JobStep /\ NoneAdded /\ run[w].job \in Job
           /\ \A j \in Job : job'[j].status = "succeeded" =>
                  job[j].status = "succeeded" \/ (j = run[w].job /\ s = "succeeded")
<1>1. job \in [Job -> JobRow] /\ run[w] \in RunState /\ w \in Actor
    BY TypeParts DEF Actor
<1>2. PICK k \in Job : k = run[w].job
    BY <1>1 DEF Closes, RunState
<1>3. /\ job'[k] = Released(k, s)
      /\ \A j \in Job \ {k} : job'[j] = job[j]
      /\ job' = [j \in Job |-> job'[j]]
      /\ job[k].status = "running" /\ job[k].worker = w
    BY <1>1, <1>2 DEF Closes, Owns
<1>4. job'[k] \in JobRow /\ job'[k].status = s /\ job'[k].cand = job[k].cand
    BY <1>3, ReleasedRow
<1>5. job' \in [Job -> JobRow]
    BY <1>1, <1>3, <1>4
<1>6. JobsKeep
    BY <1>3, <1>4 DEF JobsKeep
<1>7. NoneAdded
    BY <1>3, <1>4 DEF NoneAdded, Active
<1>8. ClaimIsExclusive
  <2>1. run'[w] = Idle
      BY <1>1, TypeParts DEF Closes, LocalState
  <2> QED BY <1>2, <1>3, <2>1 DEF ClaimIsExclusive
<1> QED BY <1>2, <1>3, <1>4, <1>5, <1>6, <1>7, <1>8, NoneAddedKeepsOne
        DEF JobStep
-----------------------------------------------------------------------------
(* What workers and requests know.                                         *)

\* What every step leaves of the local states.
RunStep == run' \in [Actor -> RunState] /\ Locals'

\* What an actor knows of the tables stays true under the steps of others.
LEMMA FitsKept ==
    ASSUME NEW w \in Actor, NEW r \in RunState, Fits(w, r),
           AttemptsKeep, JobsKeep
    PROVE  Fits(w, r)'
<1>1. r.att \in Attempt \cup {0} /\ r.job \in Job \cup {0}
    BY DEF RunState
<1>2. r.att # 0 => /\ attempt'[r.att].status # "unborn"
                   /\ attempt'[r.att].cand = attempt[r.att].cand
                   /\ attempt[r.att].status = "done" =>
                         attempt'[r.att].status = "done"
    BY <1>1 DEF AttemptsKeep, Fits
<1>3. r.job # 0 => /\ job'[r.job].status # "unborn"
                   /\ job'[r.job].cand = job[r.job].cand
    BY <1>1 DEF JobsKeep, Fits
<1>4. (w \in Worker /\ r.pc \in {"ingest", "check", "finish"}) =>
          r.att # 0 /\ r.job # 0
    BY DEF Fits
<1> QED BY <1>2, <1>3, <1>4 DEF Fits

\* A step that moves one actor to a local state that fits.
LEMMA OneMoves ==
    ASSUME TypeOK, Locals, AttemptsKeep, JobsKeep, NEW w \in Actor,
           NEW r \in RunState, LocalState(w, r), Fits(w, r)'
    PROVE  RunStep
<1>1. run \in [Actor -> RunState]
    BY TypeParts
<1>2. /\ run' \in [Actor -> RunState]
      /\ run'[w] = r
      /\ \A v \in Actor \ {w} : run'[v] = run[v]
    BY <1>1 DEF LocalState
<1>3. ASSUME NEW v \in Actor PROVE Fits(v, run[v])'
  <2>1. CASE v = w
      BY <2>1, <1>2 DEF Fits
  <2>2. CASE v # w
    <3>1. PICK q \in RunState : q = run[v] /\ q = run'[v]
        BY <2>2, <1>1, <1>2
    <3>2. Fits(v, q)
        BY <3>1 DEF Locals, Fits
    <3>3. Fits(v, q)'
        BY <3>2, FitsKept
    <3> QED BY <3>1, <3>3 DEF Fits
  <2> QED BY <2>1, <2>2
<1> QED BY <1>2, <1>3 DEF RunStep, Locals

\* The same when the new local state fits the tables as they were.
LEMMA OneMovesOn ==
    ASSUME TypeOK, Locals, AttemptsKeep, JobsKeep, NEW w \in Actor,
           NEW r \in RunState, LocalState(w, r), Fits(w, r)
    PROVE  RunStep
BY FitsKept, OneMoves

LEMMA NoneMoves ==
    ASSUME TypeOK, Locals, AttemptsKeep, JobsKeep, UNCHANGED run
    PROVE  RunStep
<1>1. run \in [Actor -> RunState]
    BY TypeParts
<1>2. ASSUME NEW v \in Actor PROVE Fits(v, run[v])'
  <2>1. PICK q \in RunState : q = run[v] /\ q = run'[v]
      BY <1>1
  <2>2. Fits(v, q)
      BY <2>1 DEF Locals, Fits
  <2>3. Fits(v, q)'
      BY <2>2, FitsKept
  <2> QED BY <2>1, <2>3 DEF Fits
<1> QED BY <1>1, <1>2 DEF RunStep, Locals

\* An actor that has forgotten what it did fits any tables.
LEMMA Forgets ==
    ASSUME TypeOK, Locals, AttemptsKeep, JobsKeep, NEW w \in Actor,
           LocalState(w, Idle) \/ Dies(w)
    PROVE  RunStep
<1>1. PICK r \in RunState : /\ LocalState(w, r)
                            /\ r.pc \in {"idle", "crashed"}
                            /\ r.job = 0 /\ r.att = 0
  <2>1. CASE LocalState(w, Idle)
      BY <2>1, IdleTyped
  <2>2. CASE Dies(w)
    <3>1. PICK r : r = [Idle EXCEPT !.pc = "crashed"]
        OBVIOUS
    <3>2. r \in RunState /\ r.pc = "crashed" /\ r.job = 0 /\ r.att = 0
        BY <3>1, MoveIdle DEF Pc
    <3> QED BY <2>2, <3>1, <3>2 DEF Dies
  <2> QED BY <2>1, <2>2
<1>2. Fits(w, r)
    BY <1>1 DEF Fits
<1> QED BY <1>1, <1>2, OneMovesOn

\* A worker in one of its handlers knows its job and nothing more.
LEMMA ToHandler ==
    ASSUME TypeOK, Locals, AttemptsKeep, JobsKeep, NEW w \in Worker,
           run[w].pc \notin {"idle", "crashed"},
           NEW p \in {"fail", "retry", "disown"}, At(w, p)
    PROVE  RunStep
<1>1. w \in Actor /\ run[w] \in RunState /\ Fits(w, run[w])
    BY TypeParts DEF Actor, Locals
<1>2. PICK r : r = [run[w] EXCEPT !.pc = p]
    OBVIOUS
<1>3. r \in RunState /\ r.pc = p /\ r.job = run[w].job /\ r.att = run[w].att
    BY <1>1, <1>2, MovePc DEF Pc
<1>4. w \notin Direct
    BY JobsAssumption
<1>5. Fits(w, r)
    BY <1>1, <1>3, <1>4 DEF Fits
<1> QED BY <1>1, <1>2, <1>3, <1>5, OneMovesOn DEF At

\* The statements of run_one.
LEMMA RunOneKeeps ==
    ASSUME TypeOK, LeaseHeld, Locals, AttemptsKeep, JobsKeep, NEW w \in Worker,
           RunOne(w)
    PROVE  RunStep
<1>1. /\ w \in Actor /\ run[w] \in RunState /\ Fits(w, run[w])
      /\ w \notin Direct
    BY TypeParts, JobsAssumption DEF Actor, Locals
<1>2. CASE BeginForJob(w)
  <2>1. run[w].pc = "begin"
      BY <1>2 DEF BeginForJob
  <2>2. CASE At(w, "fail") \/ At(w, "disown") \/ At(w, "retry")
      BY <2>1, <2>2, ToHandler
  <2>3. CASE TakeLease(w)
    <3>1. PICK a \in Attempt :
             /\ attempt'[a].status = "running"
             /\ LocalState(w, [run[w] EXCEPT !.att = a, !.pc = "ensure"])
        BY <1>1, <2>3, TakeLeaseKeeps
    <3>2. PICK r : r = [run[w] EXCEPT !.att = a, !.pc = "ensure"]
        OBVIOUS
    <3>3. r \in RunState /\ r.pc = "ensure" /\ r.job = run[w].job /\ r.att = a
        BY <1>1, <3>2 DEF RunState, Pc
    <3>4. r.job # 0 /\ job'[r.job].status # "unborn"
        BY <1>1, <2>1, <3>3 DEF Fits, JobsKeep, RunState
    <3>5. a # 0
        BY DEF Attempt
    <3>6. Fits(w, r)'
        BY <1>1, <3>1, <3>3, <3>4, <3>5 DEF Fits
    <3> QED BY <1>1, <3>1, <3>2, <3>3, <3>6, OneMoves
  <2> QED BY <1>2, <2>2, <2>3 DEF BeginForJob
<1>3. CASE EnsureSource(w)
  <2>1. run[w].pc = "ensure" /\ At(w, IF BoundToJob(w) THEN "ingest" ELSE "fail")
      BY <1>3 DEF EnsureSource
  <2>2. CASE ~BoundToJob(w)
      BY <2>1, <2>2, ToHandler
  <2>3. CASE BoundToJob(w)
    <3>1. PICK r : r = [run[w] EXCEPT !.pc = "ingest"]
        OBVIOUS
    <3>2. r \in RunState /\ r.pc = "ingest" /\ r.job = run[w].job
          /\ r.att = run[w].att
        BY <1>1, <3>1, MovePc DEF Pc
    <3>3. attempt[r.att].cand = job[r.job].cand
        BY <2>3, <3>2 DEF BoundToJob
    <3>4. Fits(w, r)
        BY <1>1, <2>1, <3>2, <3>3 DEF Fits
    <3> QED BY <1>1, <2>1, <2>3, <3>1, <3>2, <3>4, OneMovesOn DEF At
  <2> QED BY <2>2, <2>3
<1>4. CASE IngestDone(w) \/ IngestPartial(w)
  <2>1. PICK v \in {"succeeded", "partial"} :
           /\ run[w].pc = "ingest"
           /\ LocalState(w, [run[w] EXCEPT !.pc = "check", !.verdict = v])
           /\ v = "succeeded" => Promotes(w)
      BY <1>4 DEF IngestDone, IngestPartial
  <2>2. PICK r : r = [run[w] EXCEPT !.pc = "check", !.verdict = v]
      OBVIOUS
  <2>3. r \in RunState /\ r.pc = "check" /\ r.job = run[w].job
        /\ r.att = run[w].att /\ r.verdict = v
      BY <1>1, <2>2 DEF RunState, Pc
  <2>4. r.att # 0 /\ r.job # 0
      BY <1>1, <2>1, <2>3 DEF Fits
  <2>5. v = "succeeded" => attempt'[r.att].status = "done"
      BY <1>1, <2>1, <2>3, <2>4, PromotesKeeps
  <2>6. /\ attempt'[r.att].status # "unborn"
        /\ job'[r.job].status # "unborn"
        /\ attempt'[r.att].cand = job'[r.job].cand
    <3>1. r.att \in Attempt /\ r.job \in Job
        BY <2>3, <2>4 DEF RunState
    <3>2. /\ attempt[r.att].status # "unborn" /\ job[r.job].status # "unborn"
          /\ attempt[r.att].cand = job[r.job].cand
        BY <1>1, <2>1, <2>3, <2>4 DEF Fits
    <3> QED BY <3>1, <3>2 DEF AttemptsKeep, JobsKeep
  <2>7. Fits(w, r)'
      BY <1>1, <2>3, <2>4, <2>5, <2>6 DEF Fits
  <2> QED BY <1>1, <2>1, <2>2, <2>3, <2>7, OneMoves
<1>5. CASE PromotedThenRaises(w) \/ IngestRaises(w)
  <2>1. run[w].pc = "ingest" /\ (At(w, "retry") \/ At(w, "fail"))
      BY <1>5 DEF PromotedThenRaises, IngestRaises
  <2> QED BY <2>1, ToHandler
<1>6. CASE CheckLost(w)
  <2>1. run[w].pc = "check" /\ (At(w, "disown") \/ At(w, "finish"))
      BY <1>6 DEF CheckLost
  <2>2. CASE At(w, "disown")
      BY <2>1, <2>2, ToHandler
  <2>3. CASE At(w, "finish")
    <3>1. PICK r : r = [run[w] EXCEPT !.pc = "finish"]
        OBVIOUS
    <3>2. r \in RunState /\ r.pc = "finish" /\ r.job = run[w].job
          /\ r.att = run[w].att /\ r.verdict = run[w].verdict
        BY <1>1, <3>1, MovePc DEF Pc
    <3>3. Fits(w, r)
        BY <1>1, <2>1, <3>2 DEF Fits
    <3> QED BY <1>1, <2>3, <3>1, <3>2, <3>3, OneMovesOn DEF At
  <2> QED BY <2>1, <2>2, <2>3
<1>7. CASE Finish(w)
  <2>1. run[w].pc = "finish" /\ (LocalState(w, Idle) \/ At(w, "disown"))
      BY <1>7 DEF Finish
  <2> QED BY <1>1, <2>1, ToHandler, Forgets
<1>8. CASE Abandon(w)
  <2>1. run[w].pc \in {"fail", "retry", "disown"}
        /\ (Closing(w, "failing") \/ Closing(w, "requeue") \/ LocalState(w, Idle))
      BY <1>8 DEF Abandon
  <2>2. ASSUME NEW p \in {"failing", "requeue"}, Closing(w, p)
        PROVE  RunStep
    <3>1. PICK r : r = [Idle EXCEPT !.pc = p, !.job = run[w].job]
        OBVIOUS
    <3>2. run[w].job \in Job \cup {0}
        BY <1>1 DEF RunState
    <3>3. r \in RunState /\ r.pc = p /\ r.job = run[w].job /\ r.att = 0
        BY <3>1, <3>2 DEF RunState, Pc, Idle
    <3>4. Fits(w, r)
        BY <1>1, <2>1, <3>3 DEF Fits
    <3> QED BY <1>1, <2>2, <3>1, <3>3, <3>4, OneMovesOn DEF Closing
  <2> QED BY <1>1, <2>1, <2>2, Forgets
<1>9. CASE CloseFailed(w) \/ Requeue(w)
  <2>1. LocalState(w, Idle) \/ Dies(w)
      BY <1>9 DEF CloseFailed, Requeue
  <2> QED BY <1>1, <2>1, Forgets
<1> QED BY <1>2, <1>3, <1>4, <1>5, <1>6, <1>7, <1>8, <1>9 DEF RunOne

LEMMA ClaimRuns ==
    ASSUME TypeOK, Locals, AttemptsKeep, JobsKeep, NEW w \in Worker, Claim(w)
    PROVE  RunStep
<1>1. PICK j \in Job :
         /\ Claimable(j)
         /\ LocalState(w, [Idle EXCEPT !.pc = "begin", !.job = j,
                              !.stale = doc.archived \/ doc.cand # job[j].cand])
    BY DEF Claim
<1>2. (doc.archived \/ doc.cand # job[j].cand) \in BOOLEAN
  <2>1. doc.archived \in BOOLEAN
      BY TypeParts DEF DocRow
  <2> QED BY <2>1
<1>3. PICK b \in BOOLEAN :
         LocalState(w, [Idle EXCEPT !.pc = "begin", !.job = j, !.stale = b])
    BY <1>1, <1>2
<1>4. PICK r : r = [Idle EXCEPT !.pc = "begin", !.job = j, !.stale = b]
    OBVIOUS
<1>5. r \in RunState /\ r.pc = "begin" /\ r.job = j /\ r.att = 0
    BY <1>4 DEF RunState, Pc, Idle
<1>6. j # 0 /\ job[j].status # "unborn"
    BY <1>1 DEF Claimable, Job
<1>7. w \in Actor /\ w \notin Direct
    BY JobsAssumption DEF Actor
<1>8. Fits(w, r)
    BY <1>5, <1>6, <1>7 DEF Fits
<1> QED BY <1>3, <1>4, <1>5, <1>7, <1>8, OneMovesOn

LEMMA HeartbeatRuns ==
    ASSUME TypeOK, Locals, AttemptsKeep, JobsKeep, NEW w \in Worker,
           HeartbeatLost(w)
    PROVE  RunStep
<1>1. w \in Actor /\ run[w] \in RunState /\ Fits(w, run[w])
    BY TypeParts DEF Actor, Locals
<1>2. PICK r : r = [run[w] EXCEPT !.lost = TRUE]
    OBVIOUS
<1>3. r \in RunState /\ r.pc = run[w].pc /\ r.job = run[w].job
      /\ r.att = run[w].att /\ r.verdict = run[w].verdict
    BY <1>1, <1>2, MoveLost
<1>4. Fits(w, r)
    BY <1>1, <1>3 DEF Fits
<1> QED BY <1>1, <1>2, <1>3, <1>4, OneMovesOn DEF HeartbeatLost

LEMMA DirectRuns ==
    ASSUME TypeOK, LeaseHeld, Locals, AttemptsKeep, JobsKeep, NEW p \in Direct,
           BeginDirect(p) \/ IngestDone(p) \/ IngestPartial(p) \/ DirectFails(p)
    PROVE  RunStep
<1>1. /\ p \in Actor /\ run[p] \in RunState /\ Fits(p, run[p])
      /\ p \notin Worker
    BY TypeParts, JobsAssumption DEF Actor, Locals
<1>2. CASE BeginDirect(p)
  <2>1. TakeLease(p)
      BY <1>2 DEF BeginDirect
  <2>2. PICK a \in Attempt :
           /\ attempt'[a].status = "running"
           /\ LocalState(p, [run[p] EXCEPT !.att = a, !.pc = "ingest"])
      BY <1>1, <2>1, TakeLeaseKeeps
  <2>3. PICK r : r = [run[p] EXCEPT !.att = a, !.pc = "ingest"]
      OBVIOUS
  <2>4. r \in RunState /\ r.pc = "ingest" /\ r.job = run[p].job /\ r.att = a
      BY <1>1, <2>3 DEF RunState, Pc
  <2>5. a # 0
      BY DEF Attempt
  <2>6. Fits(p, r)'
      BY <1>1, <2>2, <2>4, <2>5 DEF Fits
  <2> QED BY <1>1, <2>2, <2>3, <2>4, <2>6, OneMoves
<1>3. CASE IngestDone(p) \/ IngestPartial(p) \/ DirectFails(p)
  <2>1. LocalState(p, Idle)
      BY <1>1, <1>3 DEF IngestDone, IngestPartial, DirectFails
  <2> QED BY <1>1, <2>1, Forgets
<1> QED BY <1>2, <1>3

\* Every step leaves its actors with local states that fit.
LEMMA RunsKept ==
    ASSUME TypeOK, LeaseHeld, Locals, AttemptsKeep, JobsKeep, [Next]_vars
    PROVE  RunStep
<1>1. CASE UNCHANGED vars
    BY <1>1, NoneMoves DEF vars
<1>2. CASE StageCandidate \/ FinalizePublication \/ SetArchived
           \/ AttemptLeaseExpires \/ Enqueue
    BY <1>2, NoneMoves DEF StageCandidate, FinalizePublication, SetArchived,
                           AttemptLeaseExpires, Enqueue
<1>3. ASSUME NEW j \in Job, Cancel(j) \/ JobLeaseExpires(j)
      PROVE  RunStep
    BY <1>3, NoneMoves DEF Cancel, JobLeaseExpires
<1>4. ASSUME NEW w \in Worker, Poll(w) \/ RunOne(w) \/ HeartbeatLost(w)
      PROVE  RunStep
    BY <1>4, ClaimRuns, RunOneKeeps, HeartbeatRuns, NoneMoves
       DEF Poll, CloseExhausted
<1>5. ASSUME NEW p \in Direct,
             BeginDirect(p) \/ IngestDone(p) \/ IngestPartial(p) \/ DirectFails(p)
      PROVE  RunStep
    BY <1>5, DirectRuns
<1>6. ASSUME NEW w \in Actor, Crash(w) \/ Restart(w)
      PROVE  RunStep
    BY <1>6, Forgets DEF Crash, Restart
<1> QED BY <1>1, <1>2, <1>3, <1>4, <1>5, <1>6 DEF Next
-----------------------------------------------------------------------------
(* The invariant.                                                          *)

\* Jobs become active only while nobody holds the document, and succeed only
\* by the worker that was told of the promotion.
LEMMA JobKept ==
    ASSUME TypeOK, Locals, OneJob, [Next]_vars
    PROVE  /\ JobStep
           /\ NoneAdded \/ (doc.att = 0 /\ UNCHANGED <<doc, attempt, run>>)
           /\ \A j \in Job : job'[j].status = "succeeded" =>
                 \/ job[j].status = "succeeded"
                 \/ \E w \in Worker : /\ run[w].job = j /\ run[w].pc = "finish"
                                      /\ run[w].verdict = "succeeded"
<1> DEFINE Told == \A j \in Job : job'[j].status = "succeeded" =>
                      \/ job[j].status = "succeeded"
                      \/ \E w \in Worker : /\ run[w].job = j /\ run[w].pc = "finish"
                                           /\ run[w].verdict = "succeeded"
<1>1. CASE UNCHANGED job
  <2>1. job' \in [Job -> JobRow]
      BY <1>1, TypeParts
  <2> QED BY <1>1, <2>1
        DEF JobStep, JobsKeep, OneJob, Active, ClaimIsExclusive, NoneAdded
<1>2. CASE Enqueue
  <2>1. ASSUME NEW j \in Job, job'[j].status = "succeeded"
        PROVE  job[j].status = "succeeded"
    <3>1. PICK i \in Job, key \in IdempotencyKey :
             job' = [job EXCEPT ![i] = [@ EXCEPT !.status = "queued",
                                          !.cand = doc.cand, !.key = key]]
        BY <1>2 DEF Enqueue
    <3>2. job \in [Job -> JobRow]
        BY TypeParts
    <3>3. CASE j # i
        BY <2>1, <3>1, <3>2, <3>3
    <3>4. CASE j = i
      <4>1. job'[j] = [job[j] EXCEPT !.status = "queued", !.cand = doc.cand,
                                     !.key = key] /\ job[j] \in JobRow
          BY <3>1, <3>2, <3>4
      <4>2. job'[j].status = "queued"
          BY <4>1 DEF JobRow
      <4> QED BY <2>1, <4>2
    <3> QED BY <3>3, <3>4
  <2> QED BY <1>2, <2>1, EnqueueKeeps
<1>3. ASSUME NEW j \in Job, Cancel(j) \/ JobLeaseExpires(j)
      PROVE  JobStep /\ NoneAdded /\ Told
    BY <1>3, CancelKeeps
<1>4. ASSUME NEW w \in Worker, Claim(w) \/ CloseExhausted(w)
      PROVE  JobStep /\ NoneAdded /\ Told
    BY <1>4, PollKeeps
<1>5. ASSUME NEW w \in Worker,
             NEW s \in {"queued", "succeeded", "partial", "failed"}, Closes(w, s)
      PROVE  JobStep /\ NoneAdded /\ Told
  <2>1. s = "succeeded" => run[w].pc = "finish" /\ run[w].verdict = "succeeded"
      BY <1>5 DEF Closes
  <2> QED BY <1>5, <2>1, ClosesKeeps
<1>6. CASE UNCHANGED vars
    BY <1>1, <1>6 DEF vars
<1> QED BY <1>1, <1>2, <1>3, <1>4, <1>5, <1>6, JobSteps

\* A process request takes the lease only where no job is active, and no job
\* becomes active under it.
LEMMA DirectKept ==
    ASSUME Queued, [Next]_vars
    PROVE  DirectAlone'
<1> SUFFICES ASSUME NEW p \in Direct, run'[p].att # 0, doc'.att = run'[p].att
             PROVE  ActiveJobs' = {}
    BY DEF DirectAlone
<1>1. /\ run \in [Actor -> RunState] /\ p \in Actor /\ p \notin Worker
      /\ run[p] \in RunState /\ doc \in DocRow
    BY TypeParts, JobsAssumption DEF Queued, Actor
<1>2. NoneAdded \/ (doc.att = 0 /\ UNCHANGED <<doc, attempt, run>>)
    BY JobKept DEF Queued
<1>3. NoneAdded
    BY <1>2
<1>4. CASE run'[p].att = run[p].att
  <2>1. attempt[run[p].att].status # "unborn"
      BY <1>1, <1>4 DEF Queued, Locals, Fits
  <2>2. doc'.att \in {doc.att, 0} \/ attempt[doc'.att].status = "unborn"
      BY LeaseKept DEF Queued
  <2>3. doc.att = run[p].att /\ run[p].att # 0
      BY <1>4, <2>1, <2>2
  <2>4. ActiveJobs = {}
      BY <2>3 DEF Queued, DirectAlone
  <2> QED BY <1>3, <2>4 DEF ActiveJobs, NoneAdded
<1>5. CASE run'[p].att # run[p].att
  <2>1. ASSUME NEW w \in Actor, w # p, NEW r, LocalState(w, r)
        PROVE  FALSE
      BY <1>1, <1>5, <2>1 DEF LocalState
  <2>2. LocalState(p, Idle) \/ Dies(p) => FALSE
    <3>1. ASSUME LocalState(p, Idle) \/ Dies(p)
          PROVE  run'[p].att = 0
      <4>1. LocalState(p, Idle) => run'[p].att = 0
          BY <1>1, IdleTyped DEF LocalState
      <4>2. PICK r : r = [Idle EXCEPT !.pc = "crashed"]
          OBVIOUS
      <4>3. r.att = 0
          BY <4>2, MoveIdle DEF Pc
      <4>4. Dies(p) => run'[p].att = 0
          BY <1>1, <4>2, <4>3 DEF Dies, LocalState
      <4> QED BY <3>1, <4>1, <4>4
    <3> QED BY <3>1
  <2>3. ~UNCHANGED run
      BY <1>5
  <2>4. ASSUME NEW w \in Worker PROVE ~Poll(w) /\ ~RunOne(w) /\ ~HeartbeatLost(w)
    <3>1. w \in Actor /\ w # p
        BY <1>1 DEF Actor
    <3>2. \A r : ~LocalState(w, r)
        BY <2>1, <3>1
    <3>3. ~Poll(w) /\ ~HeartbeatLost(w)
        BY <2>3, <3>2 DEF Poll, Claim, CloseExhausted, HeartbeatLost
    <3>4. ~TakeLease(w) /\ (\A pc : ~At(w, pc) /\ ~Closing(w, pc)) /\ ~Dies(w)
        BY <3>2 DEF TakeLease, At, Closing, Dies
    <3>5. ~RunOne(w)
        BY <3>2, <3>4 DEF RunOne, BeginForJob, EnsureSource, IngestDone,
              IngestPartial, PromotedThenRaises, IngestRaises, CheckLost, Finish,
              Abandon, CloseFailed, Requeue
    <3> QED BY <3>3, <3>5
  <2>5. ASSUME NEW w \in Actor PROVE ~Crash(w) /\ ~Restart(w)
    <3>1. CASE w = p
        BY <2>2, <3>1 DEF Crash, Restart
    <3>2. CASE w # p
        BY <2>1, <3>2 DEF Crash, Restart, Dies
    <3> QED BY <3>1, <3>2
  <2>6. PICK q \in Direct : BeginDirect(q) \/ IngestDone(q) \/ IngestPartial(q)
                            \/ DirectFails(q)
      BY <2>3, <2>4, <2>5 DEF Next, vars, StageCandidate, FinalizePublication,
         SetArchived, AttemptLeaseExpires, Enqueue, Cancel, JobLeaseExpires
  <2>7. q = p
    <3>1. q \in Actor /\ q \notin Worker
        BY JobsAssumption DEF Actor
    <3>2. \E r : LocalState(q, r)
        BY <2>6 DEF BeginDirect, TakeLease, IngestDone, IngestPartial, DirectFails
    <3> QED BY <2>1, <3>1, <3>2
  <2>8. BeginDirect(p)
      BY <1>1, <2>2, <2>6, <2>7 DEF IngestDone, IngestPartial, DirectFails
  <2>9. ActiveJobs = {}
      BY <2>8 DEF BeginDirect
  <2> QED BY <1>3, <2>9 DEF ActiveJobs, NoneAdded
<1> QED BY <1>4, <1>5

\* What a client is told of its job happened to the index.
LEMMA SuccessKept ==
    ASSUME Queued, LeaseStep, JobStep, [Next]_vars
    PROVE  SucceededWasPromoted'
<1> SUFFICES ASSUME NEW j \in Job, job'[j].status = "succeeded"
             PROVE  \E a \in Attempt : attempt'[a].cand = job'[j].cand
                                       /\ attempt'[a].status = "done"
    BY DEF SucceededWasPromoted
<1>1. job[j].status # "unborn"
      /\ \E a \in Attempt : attempt[a].cand = job[j].cand
                            /\ attempt[a].status = "done"
  <2>1. CASE job[j].status = "succeeded"
      BY <2>1 DEF Queued, SucceededWasPromoted
  <2>2. ASSUME NEW w \in Worker, run[w].job = j, run[w].pc = "finish",
               run[w].verdict = "succeeded"
        PROVE  job[j].status # "unborn"
               /\ \E a \in Attempt : attempt[a].cand = job[j].cand
                                     /\ attempt[a].status = "done"
    <3>1. run[w] \in RunState /\ Fits(w, run[w])
        BY TypeParts DEF Queued, Locals, Actor
    <3>2. /\ run[w].att # 0 /\ attempt[run[w].att].status = "done"
          /\ attempt[run[w].att].cand = job[j].cand
        BY <2>2, <3>1 DEF Fits
    <3>3. run[w].att \in Attempt /\ j # 0
        BY <3>1, <3>2 DEF RunState, Job
    <3>4. job[j].status # "unborn"
        BY <2>2, <3>1, <3>3 DEF Fits
    <3> QED BY <3>2, <3>3, <3>4
  <2> QED BY <2>1, <2>2, JobKept DEF Queued
<1>2. PICK a \in Attempt : attempt[a].cand = job[j].cand
                           /\ attempt[a].status = "done"
    BY <1>1
<1>3. job'[j].cand = job[j].cand
    BY <1>1 DEF JobStep, JobsKeep
<1>4. attempt'[a].cand = attempt[a].cand /\ attempt'[a].status = "done"
    BY <1>2 DEF LeaseStep, AttemptsKeep
<1> QED BY <1>2, <1>3, <1>4

LEMMA QueuedInit == Init => Queued
<1> SUFFICES ASSUME Init PROVE Queued
    OBVIOUS
<1>1. TypeOK
  <2>1. doc \in DocRow
      BY DEF Init, DocRow
  <2>2. attempt \in [Attempt -> AttemptRow]
      BY DEF Init, AttemptRow
  <2>3. job \in [Job -> JobRow]
      BY JobsAssumption DEF Init, JobRow
  <2>4. run \in [Actor -> RunState]
      BY IdleTyped DEF Init
  <2> QED BY <2>1, <2>2, <2>3, <2>4, TypeParts
<1>2. LeaseHeld
    BY DEF Init, LeaseHeld
<1>3. Locals
    BY IdleTyped DEF Init, Locals, Fits
<1>4. \A j \in Job : ~Active(j) /\ job[j].status # "succeeded"
    BY DEF Init, Active
<1>5. OneJob /\ DirectAlone /\ SucceededWasPromoted
    BY <1>4 DEF OneJob, DirectAlone, ActiveJobs, SucceededWasPromoted
<1> QED BY <1>1, <1>2, <1>3, <1>5 DEF Queued

LEMMA QueuedStep == Queued /\ [Next]_vars => Queued'
<1> SUFFICES ASSUME Queued, [Next]_vars PROVE Queued'
    OBVIOUS
<1>1. LeaseStep
    BY LeaseKept DEF Queued
<1>2. JobStep
    BY JobKept DEF Queued
<1>3. RunStep
    BY <1>1, <1>2, RunsKept DEF Queued, LeaseStep, JobStep
<1>4. TypeOK'
  <2>1. TypeOK' <=> /\ doc' \in DocRow
                    /\ attempt' \in [Attempt -> AttemptRow]
                    /\ job' \in [Job -> JobRow]
                    /\ run' \in [Actor -> RunState]
      BY DEF TypeOK, DocRow, AttemptRow, JobRow, RunState
  <2> QED BY <1>1, <1>2, <1>3, <2>1 DEF LeaseStep, JobStep, RunStep
<1>5. DirectAlone' /\ SucceededWasPromoted'
    BY <1>1, <1>2, DirectKept, SuccessKept
<1> QED BY <1>1, <1>2, <1>3, <1>4, <1>5 DEF Queued, LeaseStep, JobStep, RunStep

THEOREM QueueInvariant == Spec => []Queued
BY QueuedInit, QueuedStep, PTL DEF Spec

\* Jobs of which no two differ are at most one.
LEMMA OneJobCounted ==
    ASSUME OneJob
    PROVE  Cardinality(ActiveJobs) <= 1
<1>1. CASE ActiveJobs = {}
    BY <1>1, FS_EmptySet
<1>2. ASSUME NEW j \in ActiveJobs
      PROVE  Cardinality(ActiveJobs) <= 1
  <2>1. ActiveJobs = {j}
      BY DEF OneJob, ActiveJobs
  <2>2. Cardinality({j}) = 1
      BY FS_Singleton
  <2> QED BY <2>1, <2>2
<1> QED BY <1>1, <1>2

\* enqueue_ingest_job, begin_attempt, finish_ingest_job: one owner at a time,
\* and a job reported as succeeded was promoted, however many workers and
\* requests compete and however claims expire.
THEOREM OneOwnerAndHonestJobs == Spec => []JobsAgree
<1>1. Queued => JobsAgree
    BY OneJobCounted DEF Queued, JobsAgree, OneOwner, DirectAlone
<1> QED BY <1>1, QueueInvariant, PTL

\* _lock_owned_ingest_job, ensure_bound_version_source: a live claim moves only
\* by its worker or by its expiry, and what is promoted for a job is the
\* candidate it was enqueued for.
THEOREM ClaimsStayHonoured == Spec => ClaimsAreHonoured
<1>1. Queued /\ [Next]_vars => [ClaimIsExclusive /\ PromotesBoundCandidate]_vars
  <2> SUFFICES ASSUME Queued, [Next]_vars
               PROVE  ClaimIsExclusive /\ PromotesBoundCandidate
      OBVIOUS
  <2>1. ClaimIsExclusive
      BY JobKept DEF Queued, JobStep
  <2>2. PromotesBoundCandidate
      BY DEF Queued, Locals, Fits, PromotesBoundCandidate, Actor
  <2> QED BY <2>1, <2>2
<1> QED BY <1>1, QueueInvariant, PTL DEF Spec, ClaimsAreHonoured

-----------------------------------------------------------------------------
(* LibraryListing: rows and their order.                                      *)

Rows == [state : {"none", "begun", "in"}, at : Nat, archived : BOOLEAN,
         purged : BOOLEAN, labels : SUBSET (Collection \cup Tag)]

Tabled ==
    /\ entry \in [Entry -> Rows] /\ instant \in Nat
    /\ label \subseteq Collection \cup Tag /\ LabelsExist

Cursors == (Nat \X Nat) \cup {Top}

LEMMA KeysAreNumbers ==
    ASSUME Tabled, NEW r \in Entry
    PROVE  /\ KeyOf(r) \in Nat \X Nat /\ KeyOf(r) # Top
           /\ KeyOf(r)[1] = entry[r].at /\ KeyOf(r)[2] = r
           /\ r \in Nat /\ entry[r].at \in Nat
<1>1. r \in Nat /\ entry[r].at \in Nat
    BY ListingAssumption DEF Tabled, Rows
<1>2. KeyOf(r) \in Nat \X Nat /\ KeyOf(r)[1] = entry[r].at /\ KeyOf(r)[2] = r
    BY <1>1 DEF KeyOf
<1> QED
    BY <1>1, <1>2, ListingAssumption

LEMMA BelowOrders ==
    ASSUME NEW k \in Nat \X Nat, NEW l \in Nat \X Nat, NEW m \in Nat \X Nat
    PROVE  /\ ~Below(k, k)
           /\ Below(k, l) /\ Below(l, m) => Below(k, m)
           /\ Below(k, l) \/ Below(l, k) \/ (k[1] = l[1] /\ k[2] = l[2])
           /\ Below(k, l) => ~Below(l, k)
BY DEF Below

LEMMA NewerOrders ==
    ASSUME Tabled, NEW r \in Entry, NEW s \in Entry, NEW t \in Entry
    PROVE  /\ ~Newer(r, r)
           /\ Newer(r, s) /\ Newer(s, t) => Newer(r, t)
           /\ r = s \/ Newer(r, s) \/ Newer(s, r)
BY KeysAreNumbers DEF Newer, Below

-----------------------------------------------------------------------------
(* A finite set of rows has one order.                                        *)

Rank(rows, r) == Cardinality({s \in rows : Newer(s, r)})

LEMMA RankGrows ==
    ASSUME Tabled, NEW rows \in SUBSET Entry, NEW r \in rows, NEW s \in rows,
           Newer(r, s)
    PROVE  Rank(rows, r) < Rank(rows, s)
<1> DEFINE R == {t \in rows : Newer(t, r)}
           S == {t \in rows : Newer(t, s)}
<1>1. IsFiniteSet(S)
    BY FS_Subset, ListingAssumption
<1>2. R \in SUBSET S
    BY NewerOrders
<1>3. r \in S /\ r \notin R
    BY NewerOrders
<1>4. Cardinality(R) \in Nat /\ Cardinality(S) \in Nat
    BY <1>1, <1>2, FS_Subset, FS_CardinalityType
<1>5. Cardinality(R) <= Cardinality(S) /\ Cardinality(R) # Cardinality(S)
    BY <1>1, <1>2, <1>3, FS_Subset
<1> QED
    BY <1>4, <1>5 DEF Rank

LEMMA RankInside ==
    ASSUME Tabled, NEW rows \in SUBSET Entry, NEW r \in rows
    PROVE  Cardinality(rows) \in Nat /\ Rank(rows, r) \in 0..(Cardinality(rows) - 1)
<1> DEFINE R == {t \in rows : Newer(t, r)}
<1>1. IsFiniteSet(rows)
    BY FS_Subset, ListingAssumption
<1>2. R \in SUBSET rows /\ r \notin R
    BY NewerOrders
<1>3. Cardinality(R) \in Nat /\ Cardinality(rows) \in Nat
    BY <1>1, <1>2, FS_Subset, FS_CardinalityType
<1>4. Cardinality(R) <= Cardinality(rows) /\ Cardinality(R) # Cardinality(rows)
    BY <1>1, <1>2, FS_Subset
<1> QED
    BY <1>3, <1>4 DEF Rank

LEMMA EveryRankIsTaken ==
    ASSUME Tabled, NEW rows \in SUBSET Entry
    PROVE  \A i \in 1..Cardinality(rows) : \E r \in rows : Rank(rows, r) = i - 1
<1> DEFINE n == Cardinality(rows)
           f == [r \in rows |-> Rank(rows, r)]
<1>1. IsFiniteSet(rows) /\ n \in Nat
    BY FS_Subset, FS_CardinalityType, ListingAssumption
<1>2. \A r \in rows : Rank(rows, r) \in 0..(n - 1)
    BY RankInside
<1>3. \A r, s \in rows : r # s => Rank(rows, r) # Rank(rows, s)
  <2> SUFFICES ASSUME NEW r \in rows, NEW s \in rows, r # s
               PROVE  Rank(rows, r) # Rank(rows, s)
      OBVIOUS
  <2>1. Newer(r, s) \/ Newer(s, r)
      BY NewerOrders
  <2>2. Rank(rows, r) \in Nat /\ Rank(rows, s) \in Nat
      BY <1>2
  <2> QED
      BY <2>1, <2>2, RankGrows
<1>4. f \in Injection(rows, 0..(n - 1))
    BY <1>2, <1>3 DEF Injection, IsInjective
<1>5. IsFiniteSet(0..(n - 1)) /\ Cardinality(0..(n - 1)) = n
    BY <1>1, FS_Interval
<1>6. f \in Surjection(rows, 0..(n - 1))
    BY <1>1, <1>4, <1>5, FS_Injection
<1>7. \A k \in 0..(n - 1) : \E r \in rows : f[r] = k
    BY <1>6 DEF Surjection
<1> QED
    BY <1>1, <1>7

-----------------------------------------------------------------------------
(* What a statement returns, and the page that is cut from it.                *)

LEMMA ArraysAreSequences ==
    ASSUME NEW n \in Nat, NEW S, NEW f \in [1..n -> S]
    PROVE  f \in Seq(S) /\ Len(f) = n
OBVIOUS

RowsOf(kind, filter, cursor) ==
    {r \in Entry : /\ Matches(entry, kind, filter, r)
                   /\ cursor # Top => Below(KeyOf(r), cursor)}

LEMMA SequenceIsOrdered ==
    ASSUME Tabled, NEW kind, NEW filter, NEW cursor
    PROVE  \E q \in Seq(Entry) :
              /\ q = Sequence(kind, filter, cursor)
              /\ \A i \in 1..Len(q) :
                    /\ q[i] \in RowsOf(kind, filter, cursor)
                    /\ Rank(RowsOf(kind, filter, cursor), q[i]) = i - 1
              /\ \A i, j \in 1..Len(q) : i < j => Newer(q[i], q[j])
              /\ \A r \in RowsOf(kind, filter, cursor) : \E i \in 1..Len(q) : q[i] = r
<1> DEFINE rows == RowsOf(kind, filter, cursor)
           n == Cardinality(rows)
           q == [i \in 1..n |-> CHOOSE r \in rows : Rank(rows, r) = i - 1]
<1>1. rows \in SUBSET Entry
    BY DEF RowsOf
<1>2. n \in Nat
    BY <1>1, FS_Subset, FS_CardinalityType, ListingAssumption
<1>3. q = Sequence(kind, filter, cursor)
    BY DEF Sequence, RowsOf, Rank
<1> HIDE DEF rows
<1>4. \A i \in 1..n : q[i] \in rows /\ Rank(rows, q[i]) = i - 1
    BY <1>1, EveryRankIsTaken
<1>5. q \in Seq(Entry) /\ Len(q) = n
  <2>1. q \in [1..n -> Entry]
      BY <1>1, <1>4
  <2> HIDE DEF q
  <2> QED
      BY <1>2, <2>1, ArraysAreSequences
<1>6. \A r \in rows : Rank(rows, r) \in 0..(n - 1)
    BY <1>1, RankInside
<1> HIDE DEF n, q
<1>7. ASSUME NEW i \in 1..n, NEW j \in 1..n, i < j
      PROVE  Newer(q[i], q[j])
  <2>1. q[i] # q[j]
      BY <1>2, <1>4, <1>7
  <2>2. Newer(q[i], q[j]) \/ Newer(q[j], q[i])
      BY <1>1, <1>4, <2>1, NewerOrders
  <2>3. ~Newer(q[j], q[i])
      BY <1>1, <1>2, <1>4, <1>7, RankGrows
  <2> QED
      BY <2>2, <2>3
<1>8. ASSUME NEW r \in rows
      PROVE  \E i \in 1..n : q[i] = r
  <2>1. PICK i \in 1..n : i - 1 = Rank(rows, r)
      BY <1>2, <1>6, <1>8
  <2>2. q[i] \in rows /\ Rank(rows, q[i]) = Rank(rows, r)
      BY <1>4, <2>1
  <2>3. q[i] \in Entry /\ r \in Entry
      BY <1>1, <1>8, <2>2
  <2>4. Rank(rows, r) \in Int
      BY <1>2, <1>6, <1>8
  <2>5. ~Newer(q[i], r) /\ ~Newer(r, q[i])
      BY <1>1, <1>8, <2>2, <2>4, RankGrows
  <2> QED
      BY <2>3, <2>5, NewerOrders
<1> QED
    BY <1>3, <1>4, <1>5, <1>7, <1>8 DEF rows

\* Whoever has listed the newest rows in their order has listed them by rank.
LEMMA NewestAreRanked ==
    ASSUME Tabled, NEW rows \in SUBSET Entry, NEW l \in Seq(rows),
           \A i, j \in 1..Len(l) : i < j => Newer(l[i], l[j]),
           \A r \in rows : \/ \E i \in 1..Len(l) : l[i] = r
                           \/ \A i \in 1..Len(l) : Newer(l[i], r),
           NEW k \in 1..Len(l)
    PROVE  Rank(rows, l[k]) = k - 1
<1> DEFINE above == {s \in rows : Newer(s, l[k])}
           f == [j \in 1..(k - 1) |-> l[j]]
<1>1. \A i \in 1..Len(l) : l[i] \in rows /\ l[i] \in Entry
    OBVIOUS
<1>2. 1..(k - 1) \subseteq 1..Len(l) /\ Len(l) \in Nat
    OBVIOUS
<1>3. \A j \in 1..(k - 1) : f[j] = l[j] /\ f[j] \in above
    BY <1>1, <1>2
<1>4. ASSUME NEW i \in 1..(k - 1), NEW j \in 1..(k - 1), f[i] = f[j]
      PROVE  i = j
  <2>1. i \in 1..Len(l) /\ j \in 1..Len(l) /\ l[i] = l[j]
      BY <1>2, <1>4
  <2>2. ~(i < j) /\ ~(j < i)
      BY <1>1, <2>1, NewerOrders
  <2> QED
      BY <2>1, <2>2
<1>5. ASSUME NEW s \in above
      PROVE  \E j \in 1..(k - 1) : f[j] = s
  <2>1. s \in rows /\ s \in Entry /\ Newer(s, l[k]) /\ l[k] \in Entry
      BY <1>1, <1>5
  <2>2. ~Newer(l[k], s)
      BY <2>1, NewerOrders
  <2>3. PICK j \in 1..Len(l) : l[j] = s
      BY <2>1, <2>2
  <2>4. ~(k < j) /\ k # j
      BY <2>1, <2>2, <2>3, NewerOrders
  <2>5. j \in 1..(k - 1)
      BY <1>2, <2>4
  <2> QED
      BY <2>3, <2>5
<1>6. f \in Bijection(1..(k - 1), above)
    BY <1>3, <1>4, <1>5 DEF Bijection, Injection, Surjection, IsInjective
<1>7. IsFiniteSet(1..(k - 1)) /\ Cardinality(1..(k - 1)) = k - 1
  <2>1. k - 1 \in Int /\ (1 > k - 1 => k - 1 = 0) /\ (k - 1) - 1 + 1 = k - 1
      BY <1>2
  <2> QED
      BY <2>1, FS_Interval
<1>8. ExistsBijection(1..(k - 1), above)
    BY <1>6 DEF ExistsBijection
<1> HIDE DEF above
<1>9. Cardinality(above) = k - 1
    BY <1>7, <1>8, FS_Bijection
<1> QED
    BY <1>9 DEF Rank, above

\* The items of a page are those rows that follow the offset, up to the limit.
Cut(page, q, offset, n) ==
    /\ page.items \in Seq(Entry) /\ Len(page.items) = n /\ n <= Limit
    /\ \A i \in 1..n : offset + i \in 1..Len(q) /\ page.items[i] = q[offset + i]
    /\ page.more \in BOOLEAN
    /\ page.more <=> Len(q) > offset + Limit
    /\ page.more => n = Limit /\ page.next = KeyOf(q[offset + Limit])
    /\ ~page.more => page.next = Top /\ offset + n >= Len(q)

LEMMA PageIsCut ==
    ASSUME Tabled, NEW q \in Seq(Entry), NEW w, w.offset \in Nat,
           q = Sequence(w.kind, w.filter, w.cursor),
           NEW page, page = PageWindow(Probe(w))
    PROVE  \E n \in Nat : Cut(page, q, w.offset, n)
<1> DEFINE L == IF w.offset < Len(q) THEN Len(q) - w.offset ELSE 0
           rest == After(w.offset, q)
           rows == First(Limit + 1, rest)
           items == First(Limit, rows)
<1>1. Len(q) \in Nat /\ L \in Nat /\ Limit \in Nat \ {0}
    BY ListingAssumption
<1>2. /\ rest \in Seq(Entry) /\ Len(rest) = L
      /\ \A i \in 1..L : rest[i] = q[i + w.offset] /\ i + w.offset \in 1..Len(q)
  <2>1. rest = [i \in 1..L |-> q[i + w.offset]]
      BY <1>1 DEF After, Least
  <2>2. \A i \in 1..L : i + w.offset \in 1..Len(q)
      BY <1>1
  <2>3. rest \in [1..L -> Entry]
      BY <2>1, <2>2
  <2>4. \A i \in 1..L : rest[i] = q[i + w.offset]
      BY <2>1
  <2>5. rest \in Seq(Entry) /\ Len(rest) = L
    <3> HIDE DEF rest, L
    <3> QED
        BY <1>1, <2>3, ArraysAreSequences
  <2> QED
      BY <2>2, <2>4, <2>5
<1> HIDE DEF rest
<1> DEFINE K == IF Limit + 1 < L THEN Limit + 1 ELSE L
<1>3. /\ rows \in Seq(Entry) /\ Len(rows) = K
      /\ \A i \in 1..K : rows[i] = rest[i] /\ i \in 1..L
  <2>1. rows = [i \in 1..K |-> rest[i]]
      BY <1>2 DEF First, Least
  <2>2. K \in Nat /\ 1..K \subseteq 1..L
      BY <1>1
  <2>3. rows \in [1..K -> Entry]
      BY <1>2, <2>1, <2>2
  <2> QED
      BY <2>1, <2>2, <2>3
<1> HIDE DEF rows
<1> DEFINE n == IF Limit < K THEN Limit ELSE K
<1>4. /\ items \in Seq(Entry) /\ Len(items) = n /\ n \in Nat
      /\ \A i \in 1..n : items[i] = rows[i] /\ i \in 1..K
  <2>1. items = [i \in 1..n |-> rows[i]]
      BY <1>3 DEF First, Least
  <2>2. n \in Nat /\ 1..n \subseteq 1..K
      BY <1>1
  <2>3. items \in [1..n -> Entry]
      BY <1>3, <2>1, <2>2
  <2> QED
      BY <2>1, <2>2, <2>3
<1> HIDE DEF items
<1>5. Probe(w) = rows
    BY DEF Probe, rows, rest
<1>6. PageWindow(Probe(w)) =
         [items |-> items, more |-> Len(rows) > Limit,
          next |-> IF Len(rows) > Limit THEN KeyOf(items[Len(items)]) ELSE Top]
    BY <1>5 DEF PageWindow, items
<1>7. ASSUME NEW i \in 1..n
      PROVE  w.offset + i \in 1..Len(q) /\ items[i] = q[w.offset + i]
  <2>1. items[i] = rows[i] /\ i \in 1..K
      BY <1>4
  <2>2. rows[i] = rest[i] /\ i \in 1..L
      BY <1>3, <2>1
  <2>3. rest[i] = q[i + w.offset] /\ i + w.offset \in 1..Len(q)
      BY <1>2, <2>2
  <2>4. i + w.offset = w.offset + i
      BY <1>1, <2>2
  <2> QED
      BY <2>1, <2>2, <2>3, <2>4
<1>8. Len(rows) > Limit <=> Len(q) > w.offset + Limit
    BY <1>1, <1>3
<1>9. Len(rows) > Limit => n = Limit /\ items[Len(items)] = q[w.offset + Limit]
  <2>1. Len(rows) > Limit => n = Limit
      BY <1>1, <1>3
  <2>2. Len(rows) > Limit => Len(items) = Limit /\ Limit \in 1..n
      BY <1>1, <1>4, <2>1
  <2> HIDE DEF n
  <2> QED
      BY <1>7, <2>1, <2>2
<1>10. ~(Len(rows) > Limit) => w.offset + n >= Len(q)
    BY <1>1, <1>3
<1>11. n <= Limit
    BY <1>1
<1> HIDE DEF n
<1>12. /\ page.items = items /\ page.more = (Len(rows) > Limit)
       /\ page.next = IF Len(rows) > Limit THEN KeyOf(items[Len(items)]) ELSE Top
    BY <1>6
<1>13. /\ page.items \in Seq(Entry) /\ Len(page.items) = n /\ n \in Nat /\ n <= Limit
       /\ \A i \in 1..n : w.offset + i \in 1..Len(q)
                          /\ page.items[i] = q[w.offset + i]
    BY <1>4, <1>7, <1>11, <1>12
<1>14. /\ page.more \in BOOLEAN
       /\ page.more <=> Len(q) > w.offset + Limit
       /\ page.more => /\ n = Limit /\ page.next = KeyOf(q[w.offset + Limit])
       /\ ~page.more => /\ page.next = Top
                        /\ w.offset + n >= Len(q)
  <2>1. page.more \in BOOLEAN
      BY <1>12
  <2>2. page.more <=> Len(q) > w.offset + Limit
      BY <1>8, <1>12
  <2>3. page.more => /\ n = Limit /\ page.next = KeyOf(q[w.offset + Limit])
      BY <1>9, <1>12
  <2>4. ~page.more => /\ page.next = Top
                      /\ w.offset + n >= Len(q)
      BY <1>10, <1>12
  <2> QED
      BY <2>1, <2>2, <2>3, <2>4
<1> QED
    BY <1>13, <1>14 DEF Cut

-----------------------------------------------------------------------------
(* What a client has read, and what it will.                                  *)

Readings == [pc : {"idle", "walking", "done"}, kind : Kinds \cup {"documents"},
             filter : Filter \cup {Unread.filter}, by : {"cursor", "offset"},
             cursor : Cursors, offset : Nat, listed : Seq(Entry),
             steady : SUBSET Entry, still : BOOLEAN]

\* Rows that were listed are there, rows that matched all along match, and while
\* nothing changes these are the rows there are.
Placed(w) == \A i \in 1..Len(w.listed) : entry[w.listed[i]].state = "in"
Held(w)   == \A r \in w.steady : Matches(entry, w.kind, w.filter, r)
Still(w)  == w.still /\ w.pc # "idle" =>
    /\ \A r \in Entry : Matches(entry, w.kind, w.filter, r) => r \in w.steady
    /\ \A i \in 1..Len(w.listed) : w.listed[i] \in w.steady

Descends(w) ==
    \A i, j \in 1..Len(w.listed) : i < j => Newer(w.listed[i], w.listed[j])

\* The cursor divides what was listed from what is to come.
Divided(w) ==
    /\ \A i \in 1..Len(w.listed) :
          w.cursor # Top /\ ~Below(KeyOf(w.listed[i]), w.cursor)
    /\ w.cursor # Top =>
          \A r \in w.steady : \/ Below(KeyOf(r), w.cursor)
                              \/ \E i \in 1..Len(w.listed) : w.listed[i] = r

ByCursor(w) == w.by = "cursor" =>
    /\ w.offset = 0 /\ Descends(w)
    /\ w.pc = "walking" => Divided(w)
    /\ w.pc = "done" =>
          \A r \in w.steady : \E i \in 1..Len(w.listed) : w.listed[i] = r

\* The newest of what stands still were listed, and an offset counts them.
Newest(w) ==
    \A r \in w.steady : \/ \E i \in 1..Len(w.listed) : w.listed[i] = r
                       \/ /\ w.pc = "walking"
                          /\ \A i \in 1..Len(w.listed) : Newer(w.listed[i], r)

ByOffset(w) == w.by = "offset" /\ w.still /\ w.pc # "idle" =>
    /\ w.cursor = Top /\ Descends(w) /\ Newest(w)
    /\ w.pc = "walking" => Len(w.listed) = w.offset

Fresh(w) == w.pc = "idle" => w.listed = <<>>

Reads(w) == Fresh(w) /\ Placed(w) /\ Held(w) /\ Still(w) /\ ByCursor(w) /\ ByOffset(w)

Browsed == Tabled /\ reading \in Readings /\ Reads(reading)

LEMMA ReadsOn ==
    ASSUME Tabled, Tabled', NEW w \in Readings, Reads(w),
           \A r \in Entry : entry[r].state = "in" =>
               entry'[r].state = "in" /\ entry'[r].at = entry[r].at,
           \A r \in w.steady : Matches(entry, w.kind, w.filter, r)',
           w.still => entry' = entry
    PROVE  Reads(w)'
<1>1. \A i \in 1..Len(w.listed) : w.listed[i] \in Entry
    BY DEF Readings
<1>2. \A r \in w.steady : r \in Entry /\ entry[r].state = "in"
    BY DEF Readings, Reads, Held, Matches
<1>3. \A i \in 1..Len(w.listed) :
          KeyOf(w.listed[i])' = KeyOf(w.listed[i])
    BY <1>1 DEF Reads, Placed, KeyOf
<1>4. \A r \in w.steady : KeyOf(r)' = KeyOf(r)
    BY <1>2 DEF KeyOf
<1>5. Placed(w)'
    BY <1>1 DEF Reads, Placed
<1>6. Held(w)'
    BY DEF Held
<1>7. Still(w)'
    BY DEF Reads, Still, Matches
<1>8. Descends(w) => Descends(w)'
    BY <1>3 DEF Descends, Newer
<1>9. Divided(w) => Divided(w)'
    BY <1>3, <1>4 DEF Divided
<1>10. ByCursor(w)'
    BY <1>8, <1>9 DEF Reads, ByCursor
<1>11. ByOffset(w)'
  <2>1. Newest(w) => Newest(w)'
      BY <1>3, <1>4 DEF Newest, Newer
  <2> QED
      BY <1>8, <2>1 DEF Reads, ByOffset
<1> QED
    BY <1>5, <1>6, <1>7, <1>10, <1>11 DEF Reads, Fresh

\* Less is steady, and nothing stands still.
LEMMA ReadsLess ==
    ASSUME Browsed, NEW steady \in SUBSET reading.steady
    PROVE  LET w == [reading EXCEPT !.steady = steady, !.still = FALSE] IN
           w \in Readings /\ Reads(w)
<1>1. reading \in Readings /\ Reads(reading)
    BY DEF Browsed
<1> DEFINE w == [reading EXCEPT !.steady = steady, !.still = FALSE]
<1>2. w \in Readings
    BY <1>1 DEF Readings
<1>3. /\ w.pc = reading.pc /\ w.kind = reading.kind /\ w.filter = reading.filter
      /\ w.by = reading.by /\ w.cursor = reading.cursor /\ w.offset = reading.offset
      /\ w.listed = reading.listed /\ w.steady = steady /\ w.still = FALSE
    BY <1>1 DEF Readings
<1> HIDE DEF w
<1>4. Fresh(w) /\ Placed(w) /\ Held(w) /\ Still(w) /\ ByOffset(w)
    BY <1>1, <1>3 DEF Reads, Fresh, Placed, Held, Still, ByOffset
<1>5. ByCursor(w)
  <2>1. Descends(reading) => Descends(w)
      BY <1>3 DEF Descends
  <2>2. Divided(reading) => Divided(w)
      BY <1>3 DEF Divided
  <2> QED
      BY <1>1, <1>3, <2>1, <2>2 DEF Reads, ByCursor
<1> QED
    BY <1>2, <1>4, <1>5 DEF Reads, w

-----------------------------------------------------------------------------
(* The steps.                                                                 *)

LEMMA ChangeStep ==
    ASSUME Browsed, NEW table \in [Entry -> Rows], Becomes(table),
           \A r \in Entry : entry[r].state = "in" =>
               table[r].state = "in" /\ table[r].at = entry[r].at,
           label' \subseteq Collection \cup Tag,
           \A r \in Entry : table[r].labels \subseteq label'
    PROVE  Browsed'
<1> DEFINE steady == {r \in reading.steady :
                         Matches(table, reading.kind, reading.filter, r)}
<1>1. PICK w \in Readings :
          w = [reading EXCEPT !.steady = steady, !.still = FALSE] /\ Reads(w)
    BY ReadsLess
<1>2. entry' = table /\ reading' = w /\ instant' = instant
    BY <1>1 DEF Becomes
<1>3. Tabled /\ Tabled'
    BY <1>2 DEF Browsed, Tabled, LabelsExist
<1>4. w.steady = steady /\ w.kind = reading.kind /\ w.filter = reading.filter
      /\ w.still = FALSE
    BY <1>1 DEF Browsed, Readings
<1>5. \A r \in w.steady : Matches(table, w.kind, w.filter, r)
    BY <1>4
<1> HIDE DEF steady
<1>6. \A r \in w.steady : Matches(entry, w.kind, w.filter, r)'
    BY <1>2, <1>5
<1>7. Reads(w)'
    BY <1>2, <1>3, <1>1, <1>4, <1>6, ReadsOn
<1> QED
    BY <1>2, <1>3, <1>1, <1>7 DEF Browsed

\* A row that comes, and one that commits.
LEMMA InsertStep ==
    ASSUME Browsed, NEW r \in Entry, BeginInsert(r) \/ CommitInsert(r)
    PROVE  Browsed'
<1>1. CASE BeginInsert(r)
  <2> DEFINE table == [entry EXCEPT ![r] = [NoEntry EXCEPT !.state = "begun",
                                                            !.at = instant]]
  <2>1. r \in Free /\ Becomes(table) /\ label' = label
      BY <1>1 DEF BeginInsert
  <2>2. table \in [Entry -> Rows] /\ \A s \in Entry \ {r} : table[s] = entry[s]
      BY DEF Browsed, Tabled, Rows, NoEntry
  <2>3. table[r].labels = {} /\ entry[r].state # "in"
      BY <2>1 DEF Browsed, Tabled, Rows, NoEntry, Free
  <2>4. \A s \in Entry : table[s].labels \subseteq label'
      BY <2>1, <2>2, <2>3 DEF Browsed, Tabled, LabelsExist
  <2> HIDE DEF table
  <2> QED
      BY <2>1, <2>2, <2>3, <2>4, ChangeStep DEF Browsed, Tabled
<1>2. CASE CommitInsert(r)
  <2>1. PICK w \in Readings :
            /\ w = [reading EXCEPT !.steady = reading.steady, !.still = FALSE]
            /\ Reads(w)
      BY ReadsLess
  <2>2. /\ entry[r].state = "begun" /\ entry' = [entry EXCEPT ![r].state = "in"]
        /\ UNCHANGED <<instant, label>>
      BY <1>2 DEF CommitInsert
  <2>3. reading' = w
      BY <1>2, <2>1 DEF CommitInsert, Browsed, Readings
  <2>4. /\ entry' \in [Entry -> Rows] /\ entry'[r].labels = entry[r].labels
        /\ \A s \in Entry \ {r} : entry'[s] = entry[s]
      BY <2>2 DEF Browsed, Tabled, Rows
  <2>5. Tabled /\ Tabled'
      BY <2>2, <2>4 DEF Browsed, Tabled, LabelsExist
  <2>6. w.still = FALSE
      BY <2>1 DEF Browsed, Readings
  <2>7. \A s \in w.steady : s \in Entry \ {r} /\ Matches(entry, w.kind, w.filter, s)
      BY <2>2, <2>1 DEF Reads, Held, Matches, Readings
  <2>8. \A s \in w.steady : Matches(entry, w.kind, w.filter, s)'
      BY <2>4, <2>7 DEF Matches
  <2>9. \A s \in Entry : entry[s].state = "in" =>
            entry'[s].state = "in" /\ entry'[s].at = entry[s].at
      BY <2>2, <2>4
  <2>10. Reads(w)'
      BY <2>5, <2>1, <2>6, <2>8, <2>9, ReadsOn
  <2> QED
      BY <2>3, <2>5, <2>1, <2>10 DEF Browsed
<1> QED
    BY <1>1, <1>2

\* A row that is archived, purged or labelled keeps its place.
LEMMA RowStep ==
    ASSUME Browsed, NEW r \in Entry, NEW row \in Rows,
           Becomes([entry EXCEPT ![r] = row]), row.state = entry[r].state,
           row.at = entry[r].at, label' \subseteq Collection \cup Tag,
           label \subseteq label', row.labels \subseteq label'
    PROVE  Browsed'
<1> DEFINE table == [entry EXCEPT ![r] = row]
<1>1. /\ table \in [Entry -> Rows] /\ table[r] = row
      /\ \A s \in Entry \ {r} : table[s] = entry[s]
    BY DEF Browsed, Tabled
<1>2. \A s \in Entry : table[s].labels \subseteq label'
    BY <1>1 DEF Browsed, Tabled, LabelsExist
<1>3. Becomes(table)
    OBVIOUS
<1> HIDE DEF table
<1> QED
    BY <1>1, <1>2, <1>3, ChangeStep

LEMMA DocumentStep ==
    ASSUME Browsed, NEW r \in Entry, SetDocumentArchived(r) \/ PurgeRow(r)
    PROVE  Browsed'
<1>1. PICK row \in {[entry[r] EXCEPT !.archived = ~@],
                    [entry[r] EXCEPT !.purged = TRUE, !.labels = {}]} :
          Becomes([entry EXCEPT ![r] = row]) /\ label' = label
    BY DEF SetDocumentArchived, PurgeRow, Browsed, Tabled, Rows
<1>2. entry[r] \in Rows
    BY DEF Browsed, Tabled
<1>3. /\ row \in Rows /\ row.state = entry[r].state /\ row.at = entry[r].at
      /\ row.labels \subseteq entry[r].labels
    BY <1>1, <1>2 DEF Rows
<1>4. row.labels \subseteq label' /\ label' \subseteq Collection \cup Tag
    BY <1>1, <1>3 DEF Browsed, Tabled, LabelsExist
<1> QED
    BY <1>1, <1>3, <1>4, RowStep

LEMMA LabelStep == ASSUME Browsed, Labelling PROVE Browsed'
<1>1. ASSUME NEW r \in Entry, NEW labels \in SUBSET (Collection \cup Tag),
             Becomes([entry EXCEPT ![r].labels = labels]),
             label \subseteq label', labels \subseteq label',
             label' \subseteq Collection \cup Tag
      PROVE  Browsed'
  <2>1. entry[r] \in Rows
      BY DEF Browsed, Tabled
  <2>2. PICK row \in Rows : row = [entry[r] EXCEPT !.labels = labels]
      BY <2>1 DEF Rows
  <2>3. row.state = entry[r].state /\ row.at = entry[r].at /\ row.labels = labels
      BY <2>1, <2>2 DEF Rows
  <2>4. Becomes([entry EXCEPT ![r] = row])
      BY <1>1, <2>2
  <2> QED
      BY <1>1, <2>3, <2>4, RowStep
<1>2. ASSUME NEW c \in Collection, NEW r \in Entry, NEW present \in BOOLEAN,
             SetCollectionDocument(c, r, present)
      PROVE  Browsed'
  <2>1. PICK labels : labels = IF present THEN entry[r].labels \cup {c}
                                          ELSE entry[r].labels \ {c}
      OBVIOUS
  <2>2. /\ Becomes([entry EXCEPT ![r].labels = labels])
        /\ c \in label /\ label' = label
      BY <1>2, <2>1 DEF SetCollectionDocument
  <2>3. labels \subseteq label /\ label \subseteq Collection \cup Tag
      BY <2>1, <2>2 DEF Browsed, Tabled, LabelsExist
  <2> QED
      BY <1>1, <2>2, <2>3
<1>3. ASSUME NEW r \in Entry, NEW tags \in SUBSET Tag, ReplaceDocumentTags(r, tags)
      PROVE  Browsed'
  <2>1. PICK labels : labels = (entry[r].labels \ Tag) \cup tags
      OBVIOUS
  <2>2. Becomes([entry EXCEPT ![r].labels = labels]) /\ label' = label \cup tags
      BY <1>3, <2>1 DEF ReplaceDocumentTags
  <2>3. entry[r].labels \subseteq label /\ label \subseteq Collection \cup Tag
      BY DEF Browsed, Tabled, LabelsExist
  <2> QED
      BY <1>1, <2>1, <2>2, <2>3
<1>4. ASSUME NEW c \in Collection, CreateCollection(c) PROVE Browsed'
    BY <1>4, ChangeStep DEF CreateCollection, Browsed, Tabled, LabelsExist
<1>5. ASSUME NEW l \in Collection \cup Tag, DeleteLabel(l) PROVE Browsed'
  <2> DEFINE table == [r \in Entry |-> [entry[r] EXCEPT !.labels = @ \ {l}]]
  <2>1. Becomes(table) /\ label' = label \ {l}
      BY <1>5 DEF DeleteLabel
  <2>2. \A r \in Entry : /\ table[r] \in Rows /\ table[r].state = entry[r].state
                         /\ table[r].at = entry[r].at
                         /\ table[r].labels = entry[r].labels \ {l}
      BY DEF Browsed, Tabled, Rows
  <2>3. table \in [Entry -> Rows]
      BY <2>2
  <2> HIDE DEF table
  <2>4. \A r \in Entry : table[r].labels \subseteq label'
      BY <2>1, <2>2 DEF Browsed, Tabled, LabelsExist
  <2> QED
      BY <2>1, <2>2, <2>3, <2>4, ChangeStep DEF Browsed, Tabled
<1> QED
    BY <1>2, <1>3, <1>4, <1>5 DEF Labelling

LEMMA AskStep ==
    ASSUME Browsed, NEW kind \in Kinds, NEW filter \in Filter,
           NEW by \in {"cursor", "offset"}, Ask(kind, filter, by)
    PROVE  Browsed'
<1> DEFINE steady == {r \in Entry : Matches(entry, kind, filter, r)}
<1>1. PICK w : w = [Unread EXCEPT !.pc = "walking", !.kind = kind, !.filter = filter,
                                  !.by = by, !.steady = steady]
    OBVIOUS
<1>2. reading' = w /\ UNCHANGED <<instant, entry, label>>
    BY <1>1 DEF Ask
<1>3. /\ w.pc = "walking" /\ w.kind = kind /\ w.filter = filter /\ w.by = by
      /\ w.cursor = Top /\ w.offset = 0 /\ w.listed = <<>> /\ w.steady = steady
      /\ w.still = TRUE
    BY <1>1 DEF Unread
<1>4. w \in Readings
  <2>1. /\ "walking" \in {"idle", "walking", "done"} /\ Top \in Cursors /\ 0 \in Nat
        /\ <<>> \in Seq(Entry) /\ steady \in SUBSET Entry /\ TRUE \in BOOLEAN
      BY DEF Cursors
  <2>2. w = [pc |-> "walking", kind |-> kind, filter |-> filter, by |-> by,
             cursor |-> Top, offset |-> 0, listed |-> <<>>, steady |-> steady,
             still |-> TRUE]
      BY <1>1 DEF Unread
  <2> HIDE DEF steady
  <2> QED
      BY <2>1, <2>2 DEF Readings
<1>5. Tabled'
    BY <1>2 DEF Browsed, Tabled, LabelsExist
<1>6. Len(w.listed) = 0
    BY <1>3
<1>7. Placed(w) /\ Held(w) /\ Still(w) /\ Descends(w) /\ Divided(w) /\ Newest(w)
    BY <1>3, <1>6 DEF Placed, Held, Still, Descends, Divided, Newest
<1>8. Reads(w)
    BY <1>3, <1>6, <1>7 DEF Reads, Fresh, ByCursor, ByOffset
<1>9. \A r \in w.steady : Matches(entry, w.kind, w.filter, r)'
    BY <1>2, <1>7 DEF Held
<1>10. Reads(w)'
    BY <1>2, <1>4, <1>5, <1>8, <1>9, ReadsOn DEF Browsed
<1> QED
    BY <1>2, <1>4, <1>5, <1>10 DEF Browsed

\* What a client has after its next page, of the table that it read.
LEMMA PageReads ==
    ASSUME Browsed, reading.pc = "walking",
           NEW page, page = PageWindow(Probe(reading)),
           NEW w, w = [reading EXCEPT
               !.listed = @ \o page.items,
               !.cursor = IF reading.by = "cursor" THEN page.next ELSE Top,
               !.offset = IF reading.by = "offset" THEN @ + Limit ELSE 0,
               !.still = @ /\ reading.kind # "events",
               !.pc = IF page.more THEN "walking" ELSE "done"]
    PROVE  w \in Readings /\ Reads(w)
<1>1. PICK v \in Readings : v = reading
    BY DEF Browsed
<1>2. Tabled /\ Reads(v) /\ v.pc = "walking" /\ Limit \in Nat \ {0}
    BY <1>1, ListingAssumption DEF Browsed
<1> DEFINE rows == RowsOf(v.kind, v.filter, v.cursor)
<1>3. PICK q \in Seq(Entry) :
          /\ q = Sequence(v.kind, v.filter, v.cursor)
          /\ \A i \in 1..Len(q) : q[i] \in rows /\ Rank(rows, q[i]) = i - 1
          /\ \A i, j \in 1..Len(q) : i < j => Newer(q[i], q[j])
          /\ \A r \in rows : \E i \in 1..Len(q) : q[i] = r
    BY <1>2, SequenceIsOrdered
<1>4. PICK m \in Nat : m = Len(v.listed)
    BY DEF Readings
<1>5. v.offset \in Nat /\ v.listed \in Seq(Entry) /\ m \in Nat /\ Len(q) \in Nat
    BY DEF Readings
<1>6. PICK n \in Nat : Cut(page, q, v.offset, n)
    BY <1>1, <1>2, <1>3, <1>5, PageIsCut
<1>7. /\ page.items \in Seq(Entry) /\ Len(page.items) = n /\ n <= Limit
      /\ \A i \in 1..n : /\ v.offset + i \in 1..Len(q)
                         /\ page.items[i] = q[v.offset + i]
    BY <1>6 DEF Cut
<1>8. /\ page.more \in BOOLEAN
      /\ page.more <=> Len(q) > v.offset + Limit
    BY <1>6 DEF Cut
<1>9. page.more => n = Limit /\ page.next = KeyOf(q[v.offset + Limit])
    BY <1>6 DEF Cut
<1>10. ~page.more => page.next = Top /\ v.offset + n >= Len(q)
    BY <1>6 DEF Cut
<1>11. page.next \in Cursors
  <2>1. page.more => v.offset + Limit \in 1..Len(q)
      BY <1>2, <1>5, <1>8
  <2>2. page.more => q[v.offset + Limit] \in Entry
      BY <2>1
  <2> QED
      BY <1>2, <1>8, <1>9, <1>10, <2>2, KeysAreNumbers DEF Cursors
<1>12. PICK l \in Seq(Entry) : /\ l = v.listed \o page.items /\ Len(l) = m + n
                               /\ \A i \in 1..m : l[i] = v.listed[i]
                               /\ \A i \in 1..n : l[m + i] = page.items[i]
  <2>1. PICK a \in Seq(Entry), b \in Seq(Entry) : a = v.listed /\ b = page.items
      BY <1>5, <1>7
  <2>2. a \o b \in Seq(Entry)
      OBVIOUS
  <2>3. PICK l \in Seq(Entry) : l = a \o b
      BY <2>2
  <2>4. Len(l) = Len(a) + Len(b) /\ Len(a) = m /\ Len(b) = n
      BY <1>4, <1>7, <2>1, <2>3
  <2>5. \A i \in 1..Len(a) : l[i] = a[i]
      BY <2>3
  <2>6. \A i \in 1..Len(b) : l[Len(a) + i] = b[i]
      BY <2>3
  <2> QED
      BY <2>1, <2>3, <2>4, <2>5, <2>6
<1>13. /\ w.listed = l
       /\ w.cursor = IF v.by = "cursor" THEN page.next ELSE Top
       /\ w.offset = IF v.by = "offset" THEN v.offset + Limit ELSE 0
       /\ w.still = (v.still /\ v.kind # "events")
       /\ w.pc = IF page.more THEN "walking" ELSE "done"
       /\ w.kind = v.kind /\ w.filter = v.filter /\ w.by = v.by /\ w.steady = v.steady
    BY <1>1, <1>12 DEF Readings
<1>14. w.listed = l /\ w.steady = v.steady
    BY <1>13
<1>15. Fresh(w)
    BY <1>13 DEF Fresh
<1>16. w \in Readings
  <2>1. w.pc \in {"idle", "walking", "done"} /\ w.cursor \in Cursors /\ w.offset \in Nat
      BY <1>2, <1>5, <1>11, <1>13 DEF Cursors
  <2>2. v.offset + Limit \in Nat /\ (v.still /\ v.kind # "events") \in BOOLEAN
      BY <1>2, <1>5
  <2>3. w = [v EXCEPT !.listed = l, !.cursor = w.cursor, !.offset = w.offset,
                      !.still = w.still, !.pc = w.pc]
      BY <1>1, <1>12, <1>13 DEF Readings
  <2> QED
      BY <1>1, <1>12, <1>13, <2>1, <2>2, <2>3 DEF Readings
<1>17. \A k \in 1..Len(l) : \/ k \in 1..m /\ l[k] = v.listed[k]
                            \/ \E i \in 1..n : k = m + i /\ l[k] = q[v.offset + i]
                                               /\ v.offset + i \in 1..Len(q)
  <2> SUFFICES ASSUME NEW k \in 1..Len(l), k \notin 1..m
               PROVE  \E i \in 1..n : k = m + i /\ l[k] = q[v.offset + i]
                                               /\ v.offset + i \in 1..Len(q)
      BY <1>12
  <2>1. k - m \in 1..n /\ k = m + (k - m)
      BY <1>5, <1>12
  <2> QED
      BY <1>7, <1>12, <2>1
<1>18. /\ \A i \in 1..m : i \in 1..Len(l) /\ l[i] = v.listed[i]
       /\ \A i \in 1..n : m + i \in 1..Len(l) /\ l[m + i] = page.items[i]
  <2>1. Len(l) = m + n
      BY <1>12
  <2>2. \A i \in 1..m : i \in 1..Len(l)
      BY <2>1
  <2>3. \A i \in 1..n : m + i \in 1..Len(l)
      BY <2>1
  <2> QED
      BY <1>12, <2>2, <2>3
<1>19. \A i \in 1..Len(q) : /\ q[i] \in Entry /\ Matches(entry, v.kind, v.filter, q[i])
                            /\ v.cursor # Top => Below(KeyOf(q[i]), v.cursor)
    BY <1>3 DEF RowsOf
<1>20. Placed(w)
  <2>1. \A k \in 1..Len(l) : entry[l[k]].state = "in"
      BY <1>2, <1>4, <1>5, <1>17, <1>19 DEF Reads, Placed, Matches
  <2> QED
      BY <1>13, <2>1 DEF Placed
<1>21. Held(w)
    BY <1>2, <1>13 DEF Reads, Held
<1>22. Still(w)
  <2>1. v.still => \A k \in 1..Len(l) : l[k] \in v.steady
      BY <1>2, <1>4, <1>17, <1>19 DEF Reads, Still
  <2> QED
      BY <1>2, <1>13, <2>1 DEF Reads, Still
<1>23. \A r \in v.steady : r \in Entry /\ Matches(entry, v.kind, v.filter, r)
    BY <1>2 DEF Reads, Held, Readings
<1>24. \A k \in 1..Len(l) : l[k] \in Entry
    OBVIOUS
<1>25. ByCursor(w)
  <2> SUFFICES ASSUME v.by = "cursor"
               PROVE  /\ w.offset = 0 /\ Descends(w)
                      /\ w.pc = "walking" => Divided(w)
                      /\ w.pc = "done" =>
                            \A r \in w.steady : \E i \in 1..Len(w.listed) : w.listed[i] = r
      BY <1>13 DEF ByCursor
  <2>1. v.offset = 0 /\ w.offset = 0 /\ Descends(v) /\ Divided(v)
      BY <1>2, <1>13 DEF Reads, ByCursor
  <2>2. \A i \in 1..n : i \in 1..Len(q) /\ l[m + i] = q[i]
    <3>1. \A i \in 1..n : v.offset + i = i
        BY <2>1
    <3> QED
        BY <1>7, <1>18, <3>1
  <2>3. \A r \in Entry : KeyOf(r) \in Nat \X Nat
      BY <1>2, KeysAreNumbers
  <2>4. v.cursor # Top => v.cursor \in Nat \X Nat
      BY DEF Readings, Cursors
  <2>5. Descends(w)
    <3> SUFFICES ASSUME NEW i \in 1..Len(l), NEW j \in 1..Len(l), i < j
                 PROVE  Newer(l[i], l[j])
        BY <1>13 DEF Descends
    <3>1. CASE j \in 1..m
      <4>1. i \in 1..m /\ l[i] = v.listed[i] /\ l[j] = v.listed[j]
          BY <1>18, <3>1
      <4> QED
          BY <1>4, <2>1, <3>1, <4>1 DEF Descends
    <3>2. CASE j \notin 1..m /\ i \in 1..m
      <4>1. PICK b \in 1..n : j = m + b /\ l[j] = q[b] /\ b \in 1..Len(q)
          BY <1>17, <2>1, <3>2
      <4>2. v.cursor # Top /\ ~Below(KeyOf(l[i]), v.cursor)
          BY <1>4, <1>12, <2>1, <3>2 DEF Divided
      <4>3. Below(KeyOf(l[j]), v.cursor)
          BY <1>19, <4>1, <4>2
      <4>4. KeyOf(l[i]) \in Nat \X Nat /\ KeyOf(l[j]) \in Nat \X Nat
            /\ v.cursor \in Nat \X Nat
          BY <1>24, <2>3, <2>4, <4>2
      <4>5. Below(KeyOf(l[j]), KeyOf(l[i]))
          BY <4>2, <4>3, <4>4 DEF Below
      <4> QED
          BY <4>5 DEF Newer
    <3>3. CASE j \notin 1..m /\ i \notin 1..m
      <4>1. PICK b \in 1..n : j = m + b /\ l[j] = q[b] /\ b \in 1..Len(q)
          BY <1>17, <2>1, <3>3
      <4>2. PICK a \in 1..n : i = m + a /\ l[i] = q[a] /\ a \in 1..Len(q)
          BY <1>17, <2>1, <3>3
      <4>3. a < b
          BY <1>4, <1>5, <4>1, <4>2
      <4> QED
          BY <1>3, <4>1, <4>2, <4>3
    <3> QED
        BY <3>1, <3>2, <3>3
  \* Every steady row was listed, or is below the cursor and so among the rows.
  <2>6. \A r \in v.steady : \/ \E i \in 1..Len(l) : l[i] = r
                            \/ \E i \in 1..Len(q) : q[i] = r
    <3> SUFFICES ASSUME NEW r \in v.steady
                 PROVE  \/ \E i \in 1..Len(l) : l[i] = r
                        \/ \E i \in 1..Len(q) : q[i] = r
        OBVIOUS
    <3>1. CASE v.cursor # Top => Below(KeyOf(r), v.cursor)
      <4>1. r \in rows
          BY <1>23, <3>1 DEF RowsOf
      <4> QED
          BY <1>3, <4>1
    <3>2. CASE v.cursor # Top /\ ~Below(KeyOf(r), v.cursor)
      <4>1. PICK i \in 1..m : v.listed[i] = r
          BY <1>4, <2>1, <3>2 DEF Divided
      <4>2. i \in 1..Len(l) /\ l[i] = r
          BY <1>18, <4>1
      <4> QED
          BY <4>2
    <3> QED
        BY <3>1, <3>2
  <2>7. \A i \in 1..Len(q) : i \in 1..n => \E k \in 1..Len(l) : l[k] = q[i]
    <3> SUFFICES ASSUME NEW i \in 1..n PROVE \E k \in 1..Len(l) : l[k] = q[i]
        OBVIOUS
    <3>1. m + i \in 1..Len(l) /\ l[m + i] = q[i]
        BY <1>18, <2>2
    <3> QED
        BY <3>1
  <2>8. ASSUME page.more PROVE Divided(w)
    <3>1. /\ n = Limit /\ w.cursor = KeyOf(q[Limit]) /\ Limit \in 1..Len(q)
          /\ Limit \in Nat
        BY <1>2, <1>8, <1>9, <1>13, <2>1, <2>8
    <3>2. KeyOf(q[Limit]) \in Nat \X Nat /\ KeyOf(q[Limit]) # Top /\ q[Limit] \in Entry
        BY <1>2, <1>19, <3>1, KeysAreNumbers
    <3>3. ASSUME NEW k \in 1..Len(l) PROVE ~Below(KeyOf(l[k]), KeyOf(q[Limit]))
      <4>1. KeyOf(l[k]) \in Nat \X Nat
          BY <1>24, <2>3
      <4>2. CASE k \in 1..m
        <5>1. v.cursor # Top /\ ~Below(KeyOf(l[k]), v.cursor)
            BY <1>4, <1>12, <2>1, <4>2 DEF Divided
        <5>2. Below(KeyOf(q[Limit]), v.cursor) /\ v.cursor \in Nat \X Nat
            BY <1>19, <2>4, <3>1, <5>1
        <5> QED
            BY <3>2, <4>1, <5>1, <5>2, BelowOrders
      <4>3. CASE k \notin 1..m
        <5>1. PICK a \in 1..n : l[k] = q[a] /\ a \in 1..Len(q)
            BY <1>17, <2>1, <4>3
        <5>2. a = Limit \/ a < Limit
            BY <3>1
        <5>3. a = Limit \/ Newer(q[a], q[Limit])
            BY <1>3, <3>1, <5>1, <5>2
        <5> QED
            BY <3>2, <4>1, <5>1, <5>3, BelowOrders DEF Newer
      <4> QED
          BY <4>2, <4>3
    <3>4. ASSUME NEW r \in v.steady
          PROVE  \/ Below(KeyOf(r), KeyOf(q[Limit]))
                 \/ \E k \in 1..Len(l) : l[k] = r
      <4>1. CASE \E k \in 1..Len(l) : l[k] = r
          BY <4>1
      <4>2. CASE \E i \in 1..Len(q) : q[i] = r
        <5>1. PICK i \in 1..Len(q) : q[i] = r
            BY <4>2
        <5>2. i \in 1..n \/ Limit < i
            BY <3>1
        <5>3. Limit < i => Newer(q[Limit], q[i])
            BY <1>3, <3>1
        <5> QED
            BY <2>7, <5>1, <5>2, <5>3 DEF Newer
      <4> QED
          BY <2>6, <4>1, <4>2
    <3>5. w.cursor # Top
        BY <3>1, <3>2
    <3>6. \A i \in 1..Len(w.listed) :
             w.cursor # Top /\ ~Below(KeyOf(w.listed[i]), w.cursor)
        BY <1>13, <3>1, <3>3, <3>5
    <3>7. \A r \in w.steady : \/ Below(KeyOf(r), w.cursor)
                             \/ \E i \in 1..Len(w.listed) : w.listed[i] = r
      <4> SUFFICES ASSUME NEW r \in w.steady, ~Below(KeyOf(r), w.cursor)
                   PROVE  \E i \in 1..Len(w.listed) : w.listed[i] = r
          OBVIOUS
      <4>1. r \in v.steady /\ ~Below(KeyOf(r), KeyOf(q[Limit]))
          BY <1>14, <3>1
      <4>2. PICK k \in 1..Len(l) : l[k] = r
          BY <3>4, <4>1
      <4> QED
          BY <1>14, <4>2
    <3> QED
        BY <3>6, <3>7 DEF Divided
  <2>9. ASSUME ~page.more
        PROVE  \A r \in v.steady : \E k \in 1..Len(l) : l[k] = r
    <3>1. 1..Len(q) \subseteq 1..n
        BY <1>5, <1>10, <2>1, <2>9
    <3> QED
        BY <2>6, <2>7, <3>1
  <2>10. w.pc = "walking" => page.more
      BY <1>13
  <2>11. w.pc = "done" => ~page.more
      BY <1>13
  <2>12. w.pc = "done" =>
            \A r \in w.steady : \E i \in 1..Len(w.listed) : w.listed[i] = r
    <3> SUFFICES ASSUME w.pc = "done", NEW r \in w.steady
                 PROVE  \E i \in 1..Len(w.listed) : w.listed[i] = r
        OBVIOUS
    <3>1. ~page.more /\ r \in v.steady
        BY <1>14, <2>11
    <3>2. PICK k \in 1..Len(l) : l[k] = r
        BY <2>9, <3>1
    <3> QED
        BY <1>14, <3>2
  <2> QED
      BY <2>1, <2>5, <2>8, <2>10, <2>12
<1>26. ByOffset(w)
  <2> SUFFICES ASSUME v.by = "offset", v.still
               PROVE  /\ w.cursor = Top /\ Descends(w) /\ Newest(w)
                      /\ w.pc = "walking" => Len(w.listed) = w.offset
      BY <1>13 DEF ByOffset
  <2>1. v.cursor = Top /\ Descends(v) /\ Newest(v) /\ m = v.offset
      BY <1>2, <1>4 DEF Reads, ByOffset
  <2>2. rows \in SUBSET Entry /\ \A r \in Entry : r \in rows <=> r \in v.steady
      BY <1>2, <1>23, <2>1 DEF RowsOf, Reads, Still
  <2> HIDE DEF rows
  <2>3. \A k \in 1..m : v.listed[k] \in rows
      BY <1>2, <1>4, <1>5, <2>2 DEF Reads, Still
  <2>4. PICK h \in Seq(rows) : h = v.listed
    <3>1. v.listed \in [1..m -> rows]
        BY <1>4, <1>5, <2>3
    <3> QED
        BY <1>5, <3>1, ArraysAreSequences
  <2>5. \A i, j \in 1..Len(h) : i < j => Newer(h[i], h[j])
      BY <2>1, <2>4 DEF Descends
  <2>6. \A r \in rows : \/ \E i \in 1..Len(h) : h[i] = r
                        \/ \A i \in 1..Len(h) : Newer(h[i], r)
      BY <2>1, <2>2, <2>4 DEF Newest
  <2>7. ASSUME NEW k \in 1..m PROVE k \in 1..Len(q) /\ v.listed[k] = q[k]
    <3>1. Rank(rows, v.listed[k]) = k - 1 /\ k \in Nat
      <4>1. k \in 1..Len(h) /\ Len(h) = m
          BY <1>4, <2>4
      <4>2. Rank(rows, h[k]) = k - 1
          BY <1>2, <2>2, <2>5, <2>6, <4>1, NewestAreRanked
      <4> QED
          BY <2>4, <4>2
    <3>2. PICK j \in 1..Len(q) : q[j] = v.listed[k]
        BY <1>3, <2>3
    <3>3. Rank(rows, q[j]) = j - 1
        BY <1>3
    <3>4. j = k
        BY <1>5, <3>1, <3>2, <3>3
    <3> QED
        BY <3>2, <3>4
  <2>8. ASSUME NEW k \in 1..Len(l) PROVE k \in 1..Len(q) /\ l[k] = q[k]
    <3>1. CASE k \in 1..m /\ l[k] = v.listed[k]
        BY <2>7, <3>1
    <3>2. CASE \E i \in 1..n : /\ k = m + i /\ l[k] = q[v.offset + i]
                               /\ v.offset + i \in 1..Len(q)
        BY <2>1, <3>2
    <3> QED
        BY <1>17, <3>1, <3>2
  <2>9. Descends(w)
      BY <1>3, <1>13, <2>8 DEF Descends
  <2>10. Len(l) = v.offset + n
      BY <1>12, <2>1
  <2>11. ASSUME NEW r \in v.steady
         PROVE  \/ \E i \in 1..Len(l) : l[i] = r
                \/ page.more /\ \A i \in 1..Len(l) : Newer(l[i], r)
    <3>1. PICK j \in 1..Len(q) : q[j] = r
        BY <1>3, <1>23, <2>2
    <3>2. CASE j \in 1..Len(l)
        BY <2>8, <3>1, <3>2
    <3>3. CASE j \notin 1..Len(l)
      <4>1. Len(l) < j /\ Len(l) \in Nat
          BY <1>5, <3>3
      <4>2. page.more
          BY <1>5, <1>8, <1>10, <2>10, <4>1
      <4>3. ASSUME NEW i \in 1..Len(l) PROVE Newer(l[i], r)
        <5>1. i \in 1..Len(q) /\ l[i] = q[i] /\ i < j
            BY <2>8, <4>1
        <5> QED
            BY <1>3, <3>1, <5>1
      <4> QED
          BY <4>2, <4>3
    <3> QED
        BY <3>2, <3>3
  <2>12. Newest(w)
      BY <1>13, <2>11 DEF Newest
  <2>13. page.more => Len(l) = v.offset + Limit
      BY <1>9, <2>10
  <2>14. w.cursor = Top
      BY <1>13
  <2>15. w.pc = "walking" => Len(w.listed) = w.offset
    <3>1. w.pc = "walking" => page.more
        BY <1>13
    <3>2. w.offset = v.offset + Limit
        BY <1>13
    <3> QED
        BY <1>14, <2>13, <3>1, <3>2
  <2> QED
      BY <2>9, <2>12, <2>14, <2>15
<1> QED
    BY <1>15, <1>16, <1>20, <1>21, <1>22, <1>25, <1>26 DEF Reads

LEMMA ReadPageStep == ASSUME Browsed, ReadPage PROVE Browsed'
<1>1. PICK page : page = PageWindow(Probe(reading))
    OBVIOUS
<1>2. PICK w : w = [reading EXCEPT
          !.listed = @ \o page.items,
          !.cursor = IF reading.by = "cursor" THEN page.next ELSE Top,
          !.offset = IF reading.by = "offset" THEN @ + Limit ELSE 0,
          !.still = @ /\ reading.kind # "events",
          !.pc = IF page.more THEN "walking" ELSE "done"]
    OBVIOUS
<1>3. reading' = w /\ UNCHANGED <<instant, label>> /\ reading.pc = "walking"
    BY <1>1, <1>2 DEF ReadPage
<1>4. w \in Readings /\ Reads(w)
    BY <1>1, <1>2, <1>3, PageReads
<1>5. w.still => reading.kind # "events"
    BY <1>2 DEF Browsed, Readings
<1>6. IF reading.kind = "events" THEN Viewed ELSE entry' = entry
    BY DEF ReadPage
<1>7. /\ Tabled'
      /\ \A s \in Entry : entry[s].state = "in" => entry'[s] = entry[s]
  <2>1. CASE entry' = entry
      BY <1>3, <2>1 DEF Browsed, Tabled, LabelsExist
  <2>2. CASE Viewed
    <3>1. PICK r \in Free : entry' = [entry EXCEPT ![r] =
                               [NoEntry EXCEPT !.state = "in", !.at = instant]]
        BY <2>2 DEF Viewed
    <3>2. PICK row : row = [NoEntry EXCEPT !.state = "in", !.at = instant]
        OBVIOUS
    <3>3. row \in Rows /\ row.labels = {}
        BY <3>2 DEF Browsed, Tabled, Rows, NoEntry
    <3>4. r \in Entry /\ entry[r].state # "in"
        BY DEF Free
    <3>5. /\ entry' \in [Entry -> Rows] /\ entry'[r] = row
          /\ \A s \in Entry \ {r} : entry'[s] = entry[s]
        BY <3>1, <3>2, <3>3, <3>4 DEF Browsed, Tabled
    <3>6. LabelsExist'
        BY <1>3, <3>3, <3>5 DEF Browsed, Tabled, LabelsExist
    <3> QED
        BY <1>3, <3>4, <3>5, <3>6 DEF Browsed, Tabled
  <2> QED
      BY <1>6, <2>1, <2>2
<1>8. \A r \in w.steady : r \in Entry /\ Matches(entry, w.kind, w.filter, r)
    BY <1>4 DEF Reads, Held, Readings
<1>9. \A r \in w.steady : Matches(entry, w.kind, w.filter, r)'
    BY <1>7, <1>8 DEF Matches
<1>10. Reads(w)'
    BY <1>4, <1>5, <1>6, <1>7, <1>9, ReadsOn DEF Browsed
<1> QED
    BY <1>3, <1>4, <1>7, <1>10 DEF Browsed

LEMMA BrowsedAtFirst == ASSUME ListingInit PROVE Browsed
<1>1. reading = Unread
    BY DEF ListingInit
<1>2. Tabled
  <2> DEFINE Filled(some, at, full) ==
               [r \in Entry |->
                  IF r \in some
                  THEN [NoEntry EXCEPT
                          !.state = "in", !.at = at[r],
                          !.labels = IF r \in full THEN Collection \cup Tag ELSE {}]
                  ELSE NoEntry]
  <2>5. PICK some \in SUBSET Entry :
           \E at \in [some -> {1, 2}], full \in SUBSET some :
              entry = Filled(some, at, full)
      BY DEF ListingInit
  <2>1. PICK at \in [some -> {1, 2}], full \in SUBSET some :
           entry = Filled(some, at, full)
      BY <2>5
  <2>2. instant \in Nat /\ label = Collection \cup Tag
      BY DEF ListingInit
  <2>3. ASSUME NEW r \in Entry PROVE entry[r] \in Rows
    <3>1. CASE r \in some
      <4>1. at[r] \in Nat /\ (IF r \in full THEN Collection \cup Tag ELSE {})
                                \in SUBSET (Collection \cup Tag)
          BY <3>1
      <4> QED
          BY <2>1, <3>1, <4>1 DEF Rows, NoEntry
    <3>2. CASE r \notin some
        BY <2>1, <3>2 DEF Rows, NoEntry
    <3> QED
        BY <3>1, <3>2
  <2>4. entry \in [Entry -> Rows]
      BY <2>1, <2>3
  <2> QED
      BY <2>2, <2>3, <2>4 DEF Tabled, LabelsExist, Rows
<1>3. reading \in Readings
  <2>1. /\ Top \in Cursors /\ <<>> \in Seq(Entry) /\ {} \in SUBSET Entry
        /\ Unread.filter \in Filter \cup {Unread.filter}
      BY DEF Cursors
  <2>2. Unread.filter = [archived |-> FALSE, labels |-> {}]
      BY DEF Unread
  <2> QED
      BY <1>1, <2>1, <2>2 DEF Unread, Readings
<1>4. /\ reading.pc = "idle" /\ reading.offset = 0 /\ Len(reading.listed) = 0
      /\ reading.steady = {}
    BY <1>1 DEF Unread
<1>5. Placed(reading) /\ Held(reading) /\ Descends(reading)
    BY <1>4 DEF Placed, Held, Descends
<1> QED
    BY <1>1, <1>2, <1>3, <1>4, <1>5
    DEF Browsed, Reads, Fresh, Still, ByCursor, ByOffset, Unread

\* What Browsed says is written of the table and of the reading.
LEMMA Unbrowsed ==
    ASSUME Browsed, UNCHANGED <<entry, label, reading>>, instant' \in Nat
    PROVE  Browsed'
<1>1. Tabled /\ Tabled'
    BY DEF Browsed, Tabled, LabelsExist
<1>2. PICK w \in Readings : w = reading /\ Reads(w)
    BY DEF Browsed
<1>3. \A r \in w.steady : Matches(entry, w.kind, w.filter, r)'
    BY <1>2 DEF Reads, Held
<1>4. Reads(w)'
    BY <1>1, <1>2, <1>3, ReadsOn
<1> QED
    BY <1>1, <1>2, <1>4 DEF Browsed

LEMMA BrowsedStays == ASSUME Browsed, [ListingNext]_listing PROVE Browsed'
<1>1. CASE Client
    BY <1>1, AskStep, ReadPageStep DEF Client
<1>2. CASE InstantPasses
    BY <1>2, Unbrowsed DEF InstantPasses, Browsed, Tabled
<1>3. CASE \E r \in Entry : BeginInsert(r) \/ CommitInsert(r)
    BY <1>3, InsertStep
<1>4. CASE \E r \in Entry : SetDocumentArchived(r) \/ PurgeRow(r)
    BY <1>4, DocumentStep
<1>5. CASE Labelling
    BY <1>5, LabelStep
<1>6. CASE UNCHANGED listing
    BY <1>6, Unbrowsed DEF listing, Browsed, Tabled
<1> QED
    BY <1>1, <1>2, <1>3, <1>4, <1>5, <1>6 DEF ListingNext

\* list_documents, page_window: a client that follows the cursor lists no row
\* twice and by the end every row that matched from its first page to its last,
\* newest first, whatever is inserted, archived, labelled or purged between; one
\* that counts an offset does while the table stands still; and a membership
\* names a collection or a tag that exists.
THEOREM ListingsStayWhole == ListingSpec => []ListingsAreWhole
<1>1. Browsed => ListingsAreWhole
  <2> SUFFICES ASSUME Browsed PROVE LabelsExist /\ PagesAreExact
      BY DEF ListingsAreWhole
  <2>1. PICK w \in Readings : w = reading /\ Reads(w)
      BY DEF Browsed
  <2>2. DOMAIN w.listed = 1..Len(w.listed)
      BY DEF Readings
  <2>3. w.by = "cursor" \/ w.still =>
            /\ \A i, j \in DOMAIN w.listed :
                  i < j => Newer(w.listed[i], w.listed[j])
            /\ w.pc = "done" => w.steady \subseteq Listed(w)
    <3>1. CASE w.by = "cursor"
        BY <2>1, <2>2, <3>1 DEF Reads, ByCursor, Descends, Listed
    <3>2. CASE w.by = "offset" /\ w.still /\ w.pc # "idle"
        BY <2>1, <2>2, <3>2 DEF Reads, ByOffset, Descends, Newest, Listed
    <3>3. CASE w.pc = "idle"
      <4>1. w.listed = <<>> /\ DOMAIN w.listed = {}
          BY <2>1, <3>3 DEF Reads, Fresh
      <4> QED
          BY <3>3, <4>1
    <3>4. w.by \in {"cursor", "offset"}
        BY DEF Readings
    <3> QED
        BY <3>1, <3>2, <3>3, <3>4
  <2>4. w.pc = "done" /\ w.still => Listed(w) = w.steady
    <3> SUFFICES ASSUME w.pc = "done", w.still
                 PROVE  Listed(w) \subseteq w.steady
        BY <2>3
    <3> QED
        BY <2>1, <2>2 DEF Reads, Still, Listed
  <2>5. LabelsExist
      BY DEF Browsed, Tabled
  <2> QED
      BY <2>1, <2>3, <2>4, <2>5 DEF PagesAreExact
<1>2. ListingInit => Browsed
    BY BrowsedAtFirst
<1>3. Browsed /\ [ListingNext]_listing => Browsed'
    BY BrowsedStays
<1> QED
    BY <1>1, <1>2, <1>3, PTL DEF ListingSpec
=============================================================================
