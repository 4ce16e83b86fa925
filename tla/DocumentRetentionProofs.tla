----------------------- MODULE DocumentRetentionProofs -----------------------
(* Theorems about DocumentRetention, for every number of architects, purge  *)
(* workers, holds, versions and purge jobs.                                 *)
EXTENDS DocumentRetention, TLAPS

-----------------------------------------------------------------------------
(* The inductive invariant.  The gates stand during a purge because every   *)
(* statement that could close one waits for the row, which the worker holds *)
(* exactly while it removes; and an architect's page is never newer than    *)
(* the epoch.                                                               *)

DocRow == [archived : BOOLEAN, since : Time, purged : BOOLEAN,
           cand : Version \cup {0}, published : BOOLEAN, busy : BOOLEAN,
           served : Version \cup {0}, rev : Nat]

HoldTable == [Hold -> {"unborn", "active", "released"}]

JobRow == [state : {"unborn", "pending", "completed", "failed", "cancelled"},
           eligible : Nat, tries : 0..MaxAttempts]

PageTyped == view \in [Architect -> [epoch : 1..MaxEpoch, days : Days,
                                     hold : HoldTable, rev : Nat]]

PagesNotNewer == \A a \in Architect : view[a].epoch <= policy.epoch

\* The row is locked by the worker that removes, and by nobody else.
LockIsRun ==
    \A w \in PurgeWorker : worker[w].pc = "remove" <=> rowlock = w

\* A removing worker has a job of which a try is left.
JobInHand ==
    \A w \in PurgeWorker : worker[w].pc = "remove" =>
        /\ worker[w].job \in Purge
        /\ purge[worker[w].job].tries < MaxAttempts

UploadBound == upload.pc # "idle" => upload.version # 0

\* What the tombstone leaves of the row.
TombstoneIsEmpty ==
    doc.purged => doc.cand = 0 /\ ~doc.published /\ ~doc.busy

Kept ==
    /\ TypeOK /\ PageTyped
    /\ PagesNotNewer /\ EpochCoversPolicy
    /\ LockIsRun /\ JobInHand /\ GatesStandWhileRemoving
    /\ HoldsExcludePurge
    /\ UploadBound /\ TombstoneIsEmpty
-----------------------------------------------------------------------------
(* The document row.                                                        *)

\* The statements that write the row.
LEMMA RowSteps ==
    ASSUME Next
    PROVE  \/ UNCHANGED doc
           \/ StageUpload \/ FinalizeUpload \/ IngestBegins \/ IngestEnds
           \/ SetArchived
           \/ \E w \in PurgeWorker : CompletePurge(w)
<1>1. ASSUME NEW a \in Architect,
             \/ Look(a) \/ UpdatePolicy(a) \/ CreateHold(a) \/ ReleaseHold(a)
             \/ SchedulePurge(a)
      PROVE  UNCHANGED doc
    BY <1>1 DEF Look, UpdatePolicy, CreateHold, ReleaseHold, SchedulePurge
<1>2. ASSUME NEW w \in PurgeWorker, PurgeRun(w) \/ WorkerDies(w), ~CompletePurge(w)
      PROVE  UNCHANGED doc
    BY <1>2 DEF PurgeRun, WorkerDies, Claim, RemoveSource, StorageRefuses
<1>3. Tick \/ WriteSource \/ UploadDies => UNCHANGED doc
    BY DEF Tick, WriteSource, UploadDies
<1> QED BY <1>1, <1>2, <1>3 DEF Next

\* A change of one column of the row, or of the columns a statement writes
\* together.
LEMMA RowColumns ==
    ASSUME NEW d \in DocRow
    PROVE  /\ \A b \in BOOLEAN : [d EXCEPT !.published = b] \in DocRow
           /\ \A b \in BOOLEAN : [d EXCEPT !.busy = b] \in DocRow
           /\ \A b \in BOOLEAN, t \in Time :
                 [d EXCEPT !.archived = b, !.since = t] \in DocRow
           /\ \A c \in Version, b \in BOOLEAN :
                 [d EXCEPT !.cand = c, !.published = FALSE, !.busy = b] \in DocRow
           /\ \A n \in Nat :
                 [d EXCEPT !.purged = TRUE, !.cand = 0, !.served = 0,
                           !.published = FALSE, !.rev = n] \in DocRow
BY DEF DocRow

LEMMA RowTyped ==
    ASSUME Kept, Next
    PROVE  doc' \in DocRow
<1>1. doc \in DocRow /\ now \in Time /\ 0 \in Time /\ versions \in 0..MaxVersion
    BY RetentionAssumption DEF Kept, TypeOK, DocRow, Time, Version
<1>2. doc.rev + 1 \in Nat /\ doc.busy \in BOOLEAN /\ doc.published \in BOOLEAN
      /\ doc.archived \in BOOLEAN /\ doc.cand \in Version \cup {0}
    BY <1>1 DEF DocRow
<1>3. CASE UNCHANGED doc
    BY <1>1, <1>3
<1>4. CASE StageUpload
  <2>1. CASE UNCHANGED doc
      BY <1>1, <2>1
  <2>2. CASE versions < MaxVersion /\ ~UNCHANGED doc
    <3>1. versions + 1 \in Version
        BY <1>1, <2>2, RetentionAssumption DEF Version
    <3>2. PICK b \in BOOLEAN : doc' = [doc EXCEPT !.cand = versions + 1,
                                          !.published = FALSE, !.busy = b]
        BY <1>2, <1>4, <2>2 DEF StageUpload
    <3> QED BY <1>1, <3>1, <3>2, RowColumns
  <2> QED BY <1>4, <2>1, <2>2 DEF StageUpload
<1>5. CASE FinalizeUpload
  <2>1. PICK b \in BOOLEAN : doc' = [doc EXCEPT !.published = b]
      BY <1>2, <1>5 DEF FinalizeUpload
  <2> QED BY <1>1, <2>1, RowColumns
<1>6. CASE IngestBegins
  <2>1. doc' = [doc EXCEPT !.busy = TRUE]
      BY <1>6 DEF IngestBegins
  <2> QED BY <1>1, <2>1, RowColumns
<1>7. CASE IngestEnds
  <2>1. \/ doc' = [doc EXCEPT !.busy = FALSE, !.served = doc.cand,
                              !.rev = doc.rev + 1]
        \/ doc' = [doc EXCEPT !.busy = FALSE]
      BY <1>7 DEF IngestEnds
  <2>2. [doc EXCEPT !.busy = FALSE, !.served = doc.cand, !.rev = doc.rev + 1]
           \in DocRow
      BY <1>1, <1>2 DEF DocRow
  <2>3. [doc EXCEPT !.busy = FALSE] \in DocRow
      BY <1>1, RowColumns
  <2> QED BY <2>1, <2>2, <2>3
<1>8. CASE SetArchived
  <2>1. PICK b \in BOOLEAN, t \in Time :
           doc' = [doc EXCEPT !.archived = b, !.since = t]
    <3>1. (~doc.archived) \in BOOLEAN /\ (IF doc.archived THEN 0 ELSE now) \in Time
        BY <1>1, <1>2
    <3> QED BY <1>8, <3>1 DEF SetArchived
  <2> QED BY <1>1, <2>1, RowColumns
<1>9. ASSUME NEW w \in PurgeWorker, CompletePurge(w)
      PROVE  doc' \in DocRow
  <2>1. \/ UNCHANGED doc
        \/ doc' = [doc EXCEPT !.purged = TRUE, !.cand = 0, !.served = 0,
                              !.published = FALSE, !.rev = doc.rev + 1]
      BY <1>9 DEF CompletePurge
  <2> QED BY <1>1, <1>2, <2>1, RowColumns
<1> QED BY <1>3, <1>4, <1>5, <1>6, <1>7, <1>8, <1>9, RowSteps

\* A row that a worker holds is written by that worker only.
LEMMA RowWaits ==
    ASSUME Next, rowlock # None
    PROVE  UNCHANGED doc \/ \E w \in PurgeWorker : CompletePurge(w)
BY RowSteps DEF StageUpload, FinalizeUpload, IngestBegins, IngestEnds, SetArchived

\* No statement writes the row of a purged document.
LEMMA TombstoneStands ==
    ASSUME Kept, Next, doc.purged
    PROVE  doc' = doc
<1>1. doc \in DocRow /\ doc.cand = 0 /\ ~doc.published /\ ~doc.busy
    BY DEF Kept, TypeOK, DocRow, TombstoneIsEmpty
<1>2. CASE FinalizeUpload
  <2>1. upload.version # 0
      BY <1>2 DEF FinalizeUpload, Kept, UploadBound
  <2>2. doc' = [doc EXCEPT !.published = FALSE] /\ doc.published = FALSE
      BY <1>1, <1>2, <2>1 DEF FinalizeUpload, DocRow
  <2> QED BY <1>1, <2>2 DEF DocRow
<1>3. ASSUME NEW w \in PurgeWorker, CompletePurge(w)
      PROVE  doc' = doc
    BY <1>3 DEF CompletePurge, PurgeGates
<1>4. ~StageUpload /\ ~IngestBegins /\ ~IngestEnds /\ ~SetArchived
    BY <1>1 DEF StageUpload, IngestBegins, IngestEnds, SetArchived
<1> QED BY <1>2, <1>3, <1>4, RowSteps

LEMMA TombstoneKept ==
    ASSUME Kept, Next
    PROVE  TombstoneIsEmpty'
<1> SUFFICES ASSUME doc'.purged
             PROVE  doc'.cand = 0 /\ ~doc'.published /\ ~doc'.busy
    BY DEF TombstoneIsEmpty
<1>1. CASE doc.purged
    BY <1>1, TombstoneStands DEF Kept, TombstoneIsEmpty
<1>2. CASE ~doc.purged
  <2>1. doc \in DocRow
      BY DEF Kept, TypeOK, DocRow
  <2>2. ASSUME StageUpload \/ FinalizeUpload \/ IngestBegins \/ IngestEnds
               \/ SetArchived
        PROVE  doc'.purged = doc.purged
    <3>1. CASE StageUpload
        BY <2>1, <3>1 DEF StageUpload, DocRow
    <3>2. CASE FinalizeUpload
        BY <2>1, <3>2 DEF FinalizeUpload, DocRow
    <3>3. CASE IngestBegins
        BY <2>1, <3>3 DEF IngestBegins, DocRow
    <3>4. CASE IngestEnds
        BY <2>1, <3>4 DEF IngestEnds, DocRow
    <3>5. CASE SetArchived
        BY <2>1, <3>5 DEF SetArchived, DocRow
    <3> QED BY <2>2, <3>1, <3>2, <3>3, <3>4, <3>5
  <2>3. PICK w \in PurgeWorker : CompletePurge(w)
      BY <1>2, <2>2, RowSteps
  <2>4. PurgeGates
      BY <1>2, <2>3 DEF CompletePurge
  <2>5. PICK n : doc' = [doc EXCEPT !.purged = TRUE, !.cand = 0, !.served = 0,
                                    !.published = FALSE, !.rev = n]
      BY <2>3, <2>4 DEF CompletePurge
  <2>6. ~doc.busy
      BY <2>4 DEF PurgeGates
  <2> QED BY <2>1, <2>5, <2>6 DEF DocRow
<1> QED BY <1>1, <1>2
-----------------------------------------------------------------------------
(* The purge worker holds the row.                                          *)

\* Only a purge run, or its death, moves the lock and the workers.
LEMMA WorkerSteps ==
    ASSUME Next
    PROVE  \/ UNCHANGED <<rowlock, worker>>
           \/ \E w \in PurgeWorker : PurgeRun(w) \/ WorkerDies(w)
<1>1. ASSUME NEW a \in Architect,
             \/ Look(a) \/ UpdatePolicy(a) \/ CreateHold(a) \/ ReleaseHold(a)
             \/ SchedulePurge(a)
      PROVE  UNCHANGED <<rowlock, worker>>
    BY <1>1 DEF Look, UpdatePolicy, CreateHold, ReleaseHold, SchedulePurge
<1> QED BY <1>1 DEF Next, Tick, StageUpload, WriteSource, FinalizeUpload,
        UploadDies, IngestBegins, IngestEnds, SetArchived

RunState == [pc : {"idle", "remove"}, job : Purge \cup {0},
             todo : SUBSET Version]

LEMMA RestingTyped == Resting \in RunState /\ Resting.pc = "idle"
BY DEF Resting, RunState

\* One worker moves; the others, and who holds the row, stay as they are.
LEMMA LockKept ==
    ASSUME Kept, Next
    PROVE  /\ worker' \in [PurgeWorker -> RunState]
           /\ rowlock' \in PurgeWorker \cup {None}
           /\ LockIsRun'
<1>1. /\ worker \in [PurgeWorker -> RunState]
      /\ rowlock \in PurgeWorker \cup {None}
      /\ LockIsRun
      /\ versions \in 0..MaxVersion
    BY RetentionAssumption DEF Kept, TypeOK, RunState, Version
<1>2. CASE UNCHANGED <<rowlock, worker>>
    BY <1>1, <1>2 DEF LockIsRun
<1>3. ASSUME NEW w \in PurgeWorker, NEW r \in RunState,
             worker' = [worker EXCEPT ![w] = r],
             rowlock \in {None, w},
             rowlock' = IF r.pc = "remove" THEN w ELSE None
      PROVE  /\ worker' \in [PurgeWorker -> RunState]
             /\ rowlock' \in PurgeWorker \cup {None}
             /\ LockIsRun'
  <2>1. worker'[w] = r /\ \A v \in PurgeWorker \ {w} : worker'[v] = worker[v]
      BY <1>1, <1>3
  <2>2. ASSUME NEW v \in PurgeWorker
        PROVE  worker'[v].pc = "remove" <=> rowlock' = v
    <3>1. CASE v = w
        BY <1>3, <2>1, <3>1, RetentionAssumption
    <3>2. CASE v # w
      <4>1. worker[v].pc # "remove" /\ worker'[v] = worker[v]
          BY <1>1, <1>3, <2>1, <3>2, RetentionAssumption DEF LockIsRun
      <4> QED BY <1>3, <3>2, <4>1, RetentionAssumption
    <3> QED BY <3>1, <3>2
  <2> QED BY <1>1, <1>3, <2>2 DEF LockIsRun
<1>4. ASSUME NEW w \in PurgeWorker, PurgeRun(w) \/ WorkerDies(w)
      PROVE  \E r \in RunState :
                /\ worker' = [worker EXCEPT ![w] = r]
                /\ rowlock \in {None, w}
                /\ rowlock' = IF r.pc = "remove" THEN w ELSE None
  <2>1. worker[w] \in RunState
      BY <1>1
  <2>2. worker[w].pc # "idle" => worker[w].pc = "remove" /\ rowlock = w
      BY <1>1, <2>1 DEF LockIsRun, RunState
  <2>3. CASE Claim(w)
    <3>1. PICK j \in Purge :
             worker' = [worker EXCEPT ![w] =
                [pc |-> "remove", job |-> j, todo |-> 1..versions]]
        BY <2>3 DEF Claim
    <3>2. PICK r : r = [pc |-> "remove", job |-> j, todo |-> 1..versions]
        OBVIOUS
    <3>3. 1..versions \subseteq Version
        BY <1>1, RetentionAssumption DEF Version
    <3>4. r \in RunState /\ r.pc = "remove"
        BY <3>2, <3>3 DEF RunState
    <3> QED BY <2>3, <3>1, <3>2, <3>4 DEF Claim
  <2>4. CASE RemoveSource(w)
    <3>1. PICK v \in worker[w].todo :
             worker' = [worker EXCEPT ![w].todo = @ \ {v}]
        BY <2>4 DEF RemoveSource
    <3>2. PICK r : r = [worker[w] EXCEPT !.todo = @ \ {v}]
        OBVIOUS
    <3>3. r \in RunState /\ r.pc = worker[w].pc
        BY <2>1, <3>2 DEF RunState
    <3>4. worker[w].pc = "remove" /\ UNCHANGED rowlock
        BY <2>4 DEF RemoveSource
    <3>5. worker' = [worker EXCEPT ![w] = r]
        BY <1>1, <3>1, <3>2
    <3> QED BY <2>2, <3>3, <3>4, <3>5
  <2>5. CASE StorageRefuses(w) \/ CompletePurge(w) \/ WorkerDies(w)
    <3>1. /\ worker[w].pc # "idle"
          /\ worker' = [worker EXCEPT ![w] = Resting] /\ rowlock' = None
        BY <2>5 DEF StorageRefuses, CompletePurge, WorkerDies, LockReleased
    <3> QED BY <2>2, <3>1, RestingTyped
  <2> QED BY <1>4, <2>3, <2>4, <2>5 DEF PurgeRun
<1> QED BY <1>2, <1>3, <1>4, WorkerSteps

-----------------------------------------------------------------------------
(* Purge jobs and holds.                                                    *)

LEMMA PurgeSteps ==
    ASSUME Next
    PROVE  \/ UNCHANGED purge
           \/ \E a \in Architect : CreateHold(a) \/ SchedulePurge(a)
           \/ \E w \in PurgeWorker : StorageRefuses(w) \/ CompletePurge(w)
<1>1. ASSUME NEW a \in Architect, Look(a) \/ UpdatePolicy(a) \/ ReleaseHold(a)
      PROVE  UNCHANGED purge
    BY <1>1 DEF Look, UpdatePolicy, ReleaseHold
<1>2. ASSUME NEW w \in PurgeWorker, Claim(w) \/ RemoveSource(w) \/ WorkerDies(w)
      PROVE  UNCHANGED purge
    BY <1>2 DEF WorkerDies, Claim, RemoveSource
<1> QED BY <1>1, <1>2 DEF Next, PurgeRun, Tick, StageUpload, WriteSource,
        FinalizeUpload, UploadDies, IngestBegins, IngestEnds, SetArchived

\* A removing worker knows its job, and the job is its own to close.
LEMMA ClosedTyped ==
    ASSUME Kept, NEW w \in PurgeWorker, worker[w].pc = "remove",
           NEW s \in {"failed", "completed"}
    PROVE  /\ worker[w].job \in Purge
           /\ Closed(worker[w].job, s) \in JobRow
           /\ Closed(worker[w].job, s).state = s
<1>1. /\ worker[w].job \in Purge /\ purge[worker[w].job] \in JobRow
      /\ purge[worker[w].job].tries < MaxAttempts
    BY DEF Kept, TypeOK, JobRow, JobInHand
<1>2. PICK n \in 0..MaxAttempts : n = purge[worker[w].job].tries + 1
    BY <1>1, RetentionAssumption DEF JobRow
<1>3. PICK r : r = [purge[worker[w].job] EXCEPT !.state = s, !.tries = n]
    OBVIOUS
<1>4. r \in JobRow /\ r.state = s
    BY <1>1, <1>3 DEF JobRow
<1> QED BY <1>1, <1>2, <1>3, <1>4 DEF Closed

LEMMA PurgeTyped ==
    ASSUME Kept, Next
    PROVE  purge' \in [Purge -> JobRow]
<1>1. purge \in [Purge -> JobRow] /\ doc \in DocRow /\ policy.days \in Nat
    BY RetentionAssumption DEF Kept, TypeOK, JobRow, DocRow
<1>2. ASSUME NEW a \in Architect, CreateHold(a)
      PROVE  purge' \in [Purge -> JobRow]
  <2>1. ASSUME NEW j \in Purge
        PROVE  (IF j \in Pending THEN [purge[j] EXCEPT !.state = "cancelled"]
                                 ELSE purge[j]) \in JobRow
    <3>1. purge[j] \in JobRow
        BY <1>1
    <3> QED BY <3>1 DEF JobRow
  <2> QED BY <1>2, <2>1 DEF CreateHold, PendingCancelled
<1>3. ASSUME NEW a \in Architect, SchedulePurge(a)
      PROVE  purge' \in [Purge -> JobRow]
  <2>1. PICK j \in Purge : purge' = [purge EXCEPT ![j] =
           [state |-> "pending", eligible |-> doc.since + policy.days, tries |-> 0]]
      BY <1>3 DEF SchedulePurge
  <2>2. doc.since + policy.days \in Nat
      BY <1>1, RetentionAssumption DEF DocRow, Time
  <2>3. [state |-> "pending", eligible |-> doc.since + policy.days, tries |-> 0]
           \in JobRow
      BY <2>2, RetentionAssumption DEF JobRow
  <2> QED BY <1>1, <2>1, <2>3
<1>4. ASSUME NEW w \in PurgeWorker, StorageRefuses(w) \/ CompletePurge(w)
      PROVE  purge' \in [Purge -> JobRow]
  <2>1. worker[w].pc = "remove"
      BY <1>4 DEF StorageRefuses, CompletePurge
  <2>2. \/ UNCHANGED purge
        \/ \E s \in {"failed", "completed"} :
              purge' = [purge EXCEPT ![worker[w].job] = Closed(worker[w].job, s)]
      BY <1>4 DEF StorageRefuses, CompletePurge
  <2> QED BY <1>1, <2>1, <2>2, ClosedTyped
<1> QED BY <1>1, <1>2, <1>3, <1>4, PurgeSteps

LEMMA HoldSteps ==
    ASSUME Next
    PROVE  \/ UNCHANGED hold
           \/ \E a \in Architect : CreateHold(a) \/ ReleaseHold(a)
<1>1. ASSUME NEW a \in Architect, Look(a) \/ UpdatePolicy(a) \/ SchedulePurge(a)
      PROVE  UNCHANGED hold
    BY <1>1 DEF Look, UpdatePolicy, SchedulePurge
<1>2. ASSUME NEW w \in PurgeWorker, PurgeRun(w) \/ WorkerDies(w)
      PROVE  UNCHANGED hold
    BY <1>2 DEF PurgeRun, WorkerDies, Claim, RemoveSource, StorageRefuses,
                CompletePurge
<1> QED BY <1>1, <1>2 DEF Next, Tick, StageUpload, WriteSource,
        FinalizeUpload, UploadDies, IngestBegins, IngestEnds, SetArchived

\* A hold is placed while nobody holds the row.
LEMMA HeldWaits ==
    ASSUME Kept, Next, ~Held, rowlock # None
    PROVE  ~Held'
<1>1. ASSUME NEW a \in Architect, ReleaseHold(a)
      PROVE  ~Held'
  <2>1. PICK h \in Hold : hold' = [hold EXCEPT ![h] = "released"]
      BY <1>1 DEF ReleaseHold
  <2> QED BY <2>1 DEF Held, Kept, TypeOK
<1>2. \A a \in Architect : ~CreateHold(a)
    BY DEF CreateHold, RowIsFree
<1> QED BY <1>1, <1>2, HoldSteps DEF Held

\* No hold stands beside a pending purge: whichever is made looks at the other.
LEMMA HoldsKeptApart ==
    ASSUME Kept, Next
    PROVE  HoldsExcludePurge'
<1>1. /\ hold \in HoldTable /\ purge \in [Purge -> JobRow]
      /\ HoldsExcludePurge
    BY DEF Kept, TypeOK, HoldTable, JobRow
<1>2. CASE Pending' \subseteq Pending /\ (Held' => Held)
    BY <1>1, <1>2 DEF HoldsExcludePurge
<1>3. ASSUME NEW a \in Architect, CreateHold(a)
      PROVE  Pending' = {}
  <2>1. ASSUME NEW j \in Purge PROVE purge'[j].state # "pending"
    <3>1. purge[j] \in JobRow
        BY <1>1
    <3>2. purge'[j] = IF j \in Pending THEN [purge[j] EXCEPT !.state = "cancelled"]
                                       ELSE purge[j]
        BY <1>3 DEF CreateHold, PendingCancelled
    <3> QED BY <3>1, <3>2 DEF JobRow, Pending
  <2> QED BY <2>1 DEF Pending
<1>4. ASSUME NEW a \in Architect, SchedulePurge(a)
      PROVE  ~Held'
    BY <1>4 DEF SchedulePurge, PurgeGates, Held
<1>5. ASSUME \A a \in Architect : ~CreateHold(a) /\ ~SchedulePurge(a)
      PROVE  Pending' \subseteq Pending /\ (Held' => Held)
  <2>1. Held' => Held
    <3>1. ASSUME NEW a \in Architect, ReleaseHold(a) PROVE Held' => Held
      <4>1. PICK h \in Hold : hold' = [hold EXCEPT ![h] = "released"]
          BY <3>1 DEF ReleaseHold
      <4> QED BY <1>1, <4>1 DEF Held, HoldTable
    <3> QED BY <1>5, <3>1, HoldSteps DEF Held
  <2>2. ASSUME NEW w \in PurgeWorker, StorageRefuses(w) \/ CompletePurge(w)
        PROVE  Pending' \subseteq Pending
    <3>1. worker[w].pc = "remove"
        BY <2>2 DEF StorageRefuses, CompletePurge
    <3>2. \/ UNCHANGED purge
          \/ \E s \in {"failed", "completed"} :
                purge' = [purge EXCEPT ![worker[w].job] = Closed(worker[w].job, s)]
        BY <2>2 DEF StorageRefuses, CompletePurge
    <3>3. ASSUME NEW s \in {"failed", "completed"},
                 purge' = [purge EXCEPT ![worker[w].job] = Closed(worker[w].job, s)]
          PROVE  Pending' \subseteq Pending
      <4>1. Closed(worker[w].job, s).state # "pending"
          BY <3>1, ClosedTyped
      <4> QED BY <1>1, <3>3, <4>1 DEF Pending
    <3> QED BY <3>2, <3>3 DEF Pending
  <2>3. Pending' \subseteq Pending
      BY <1>5, <2>2, PurgeSteps DEF Pending
  <2> QED BY <2>1, <2>3
<1> QED BY <1>2, <1>3, <1>4, <1>5 DEF HoldsExcludePurge

\* From the claim to the tombstone nothing that the claim read is changed.
LEMMA GatesKept ==
    ASSUME Kept, Next
    PROVE  GatesStandWhileRemoving' /\ JobInHand'
<1> SUFFICES ASSUME NEW w \in PurgeWorker, worker'[w].pc = "remove"
             PROVE  /\ PurgeGates' /\ purge'[worker'[w].job].state = "pending"
                    /\ worker'[w].job \in Purge
                    /\ purge'[worker'[w].job].tries < MaxAttempts
    BY DEF GatesStandWhileRemoving, JobInHand
<1>1. /\ worker \in [PurgeWorker -> RunState] /\ worker[w] \in RunState
      /\ LockIsRun /\ rowlock \in PurgeWorker \cup {None}
    BY DEF Kept, TypeOK, RunState
<1>2. CASE worker[w].pc = "remove"
  <2>1. rowlock = w /\ rowlock # None
      BY <1>1, <1>2, RetentionAssumption DEF LockIsRun
  <2>2. /\ PurgeGates /\ purge[worker[w].job].state = "pending"
        /\ worker[w].job \in Purge /\ purge[worker[w].job].tries < MaxAttempts
      BY <1>2 DEF Kept, GatesStandWhileRemoving, JobInHand
  <2>3. ASSUME NEW v \in PurgeWorker, worker[v].pc # "idle"
        PROVE  v = w
    <3>1. worker[v] \in RunState
        BY <1>1
    <3> QED BY <1>1, <2>1, <2>3, <3>1 DEF LockIsRun, RunState
  <2>4. ASSUME NEW v \in PurgeWorker,
               StorageRefuses(v) \/ CompletePurge(v) \/ WorkerDies(v)
        PROVE  FALSE
    <3>1. worker[v].pc # "idle" /\ worker' = [worker EXCEPT ![v] = Resting]
        BY <2>4 DEF StorageRefuses, CompletePurge, WorkerDies
    <3>2. worker'[w].pc = "idle"
        BY <1>1, <2>3, <3>1, RestingTyped
    <3> QED BY <3>2
  <2>5. ASSUME NEW v \in PurgeWorker PROVE ~Claim(v)
      BY <2>1 DEF Claim
  <2>6. worker'[w].job = worker[w].job
    <3>1. ASSUME NEW v \in PurgeWorker, RemoveSource(v)
          PROVE  worker'[w].job = worker[w].job
      <4>1. PICK u : worker' = [worker EXCEPT ![v].todo = @ \ {u}]
          BY <3>1 DEF RemoveSource
      <4>2. CASE v = w
        <5>1. worker'[w] = [worker[w] EXCEPT !.todo = @ \ {u}]
            BY <1>1, <4>1, <4>2
        <5> QED BY <1>1, <5>1 DEF RunState
      <4>3. CASE v # w
          BY <1>1, <4>1, <4>3
      <4> QED BY <4>2, <4>3
    <3> QED BY <2>4, <2>5, <3>1, WorkerSteps DEF PurgeRun
  <2>7. UNCHANGED doc
      BY <2>1, <2>4, RowWaits
  <2>8. UNCHANGED purge
      BY <2>1, <2>4, PurgeSteps DEF CreateHold, RowIsFree, SchedulePurge
  <2>9. ~Held'
      BY <2>1, <2>2, HeldWaits DEF PurgeGates
  <2> QED BY <2>2, <2>6, <2>7, <2>8, <2>9 DEF PurgeGates
<1>3. CASE worker[w].pc # "remove"
  <2>1. ASSUME NEW v \in PurgeWorker, NEW r \in RunState,
               worker' = [worker EXCEPT ![v] = r], r.pc = "idle" \/ r.pc = worker[v].pc
        PROVE  FALSE
      BY <1>1, <1>3, <2>1
  <2>2. ASSUME NEW v \in PurgeWorker,
               StorageRefuses(v) \/ CompletePurge(v) \/ WorkerDies(v)
        PROVE  FALSE
      BY <2>1, <2>2, RestingTyped DEF StorageRefuses, CompletePurge, WorkerDies
  <2>3. ASSUME NEW v \in PurgeWorker, RemoveSource(v)
        PROVE  FALSE
    <3>1. worker[v] \in RunState
        BY <1>1
    <3>2. PICK u : worker' = [worker EXCEPT ![v].todo = @ \ {u}]
        BY <2>3 DEF RemoveSource
    <3>3. PICK r : r = [worker[v] EXCEPT !.todo = @ \ {u}]
        OBVIOUS
    <3>4. r \in RunState /\ r.pc = worker[v].pc
        BY <3>1, <3>3 DEF RunState
    <3>5. worker' = [worker EXCEPT ![v] = r]
        BY <1>1, <3>2, <3>3
    <3> QED BY <2>1, <3>4, <3>5
  <2>4. PICK v \in PurgeWorker : Claim(v)
      BY <1>3, <2>2, <2>3, WorkerSteps DEF PurgeRun
  <2>5. PICK j \in Purge :
           /\ Claimable(j)
           /\ worker' = [worker EXCEPT ![v] =
                 [pc |-> "remove", job |-> j, todo |-> 1..versions]]
      BY <2>4 DEF Claim
  <2>6. v = w /\ worker'[w].job = j
      BY <1>1, <1>3, <2>5
  <2>7. UNCHANGED <<doc, purge, hold>>
      BY <2>4 DEF Claim
  <2>8. PurgeGates'
      BY <2>5, <2>7 DEF Claimable, PurgeGates, Held
  <2> QED BY <2>5, <2>6, <2>7, <2>8 DEF Claimable
<1> QED BY <1>2, <1>3
-----------------------------------------------------------------------------
(* Architects and their pages.                                              *)

LEMMA PolicySteps ==
    ASSUME Next
    PROVE  \/ UNCHANGED <<policy, hold>>
           \/ /\ \E a \in Architect : UpdatePolicy(a) \/ CreateHold(a)
                                      \/ ReleaseHold(a)
              /\ UNCHANGED view
<1>1. ASSUME NEW a \in Architect, Look(a) \/ SchedulePurge(a)
      PROVE  UNCHANGED <<policy, hold>>
    BY <1>1 DEF Look, SchedulePurge
<1>2. ASSUME NEW w \in PurgeWorker, PurgeRun(w) \/ WorkerDies(w)
      PROVE  UNCHANGED <<policy, hold>>
    BY <1>2 DEF PurgeRun, WorkerDies, Claim, RemoveSource, StorageRefuses,
                CompletePurge
<1>3. ASSUME NEW a \in Architect, UpdatePolicy(a) \/ CreateHold(a) \/ ReleaseHold(a)
      PROVE  UNCHANGED view
    BY <1>3 DEF UpdatePolicy, CreateHold, ReleaseHold
<1> QED BY <1>1, <1>2, <1>3 DEF Next, Tick, StageUpload, WriteSource,
        FinalizeUpload, UploadDies, IngestBegins, IngestEnds, SetArchived

\* A change of the period or of a hold moves the epoch.
LEMMA EpochMoves ==
    ASSUME Kept, NEW a \in Architect,
           UpdatePolicy(a) \/ CreateHold(a) \/ ReleaseHold(a)
    PROVE  /\ policy' \in [days : Days, epoch : 1..MaxEpoch]
           /\ policy'.epoch = policy.epoch + 1
<1>1. policy \in [days : Days, epoch : 1..MaxEpoch]
    BY DEF Kept, TypeOK
<1>2. policy.epoch < MaxEpoch
      /\ \E d \in Days : policy' = [policy EXCEPT !.days = d, !.epoch = policy.epoch + 1]
  <2>1. CASE UpdatePolicy(a)
      BY <2>1 DEF UpdatePolicy
  <2>2. CASE CreateHold(a) \/ ReleaseHold(a)
    <3>1. policy.epoch < MaxEpoch /\ policy' = [policy EXCEPT !.epoch = @ + 1]
        BY <2>2 DEF CreateHold, ReleaseHold, HoldChanged, NextEpoch
    <3>2. policy.days \in Days
        BY <1>1
    <3>3. policy' = [policy EXCEPT !.days = policy.days, !.epoch = policy.epoch + 1]
        BY <1>1, <3>1
    <3> QED BY <3>1, <3>2, <3>3
  <2> QED BY <2>1, <2>2
<1>3. policy.epoch + 1 \in 1..MaxEpoch
    BY <1>1, <1>2, RetentionAssumption
<1>4. PICK d \in Days, n \in 1..MaxEpoch :
         n = policy.epoch + 1 /\ policy' = [policy EXCEPT !.days = d, !.epoch = n]
    BY <1>2, <1>3
<1> QED BY <1>1, <1>4

\* What a page showed of the current epoch is the case: a page that a change
\* overtook carries an older epoch.
LEMMA PagesKept ==
    ASSUME Kept, Next
    PROVE  /\ policy' \in [days : Days, epoch : 1..MaxEpoch]
           /\ hold' \in HoldTable
           /\ PageTyped' /\ PagesNotNewer' /\ EpochCoversPolicy'
<1> DEFINE Page == [epoch : 1..MaxEpoch, days : Days, hold : HoldTable, rev : Nat]
<1>1. /\ policy \in [days : Days, epoch : 1..MaxEpoch] /\ hold \in HoldTable
      /\ view \in [Architect -> Page] /\ doc \in DocRow
      /\ PagesNotNewer /\ EpochCoversPolicy
    BY DEF Kept, TypeOK, PageTyped, HoldTable, DocRow
<1>2. Snapshot \in Page
    BY <1>1 DEF Snapshot, DocRow
<1>3. CASE UNCHANGED <<policy, hold>>
  <2>1. \/ UNCHANGED view
        \/ \E a \in Architect : view' = [view EXCEPT ![a] = Snapshot]
    <3>1. ASSUME NEW a \in Architect, UpdatePolicy(a) \/ CreateHold(a)
                 \/ ReleaseHold(a) \/ SchedulePurge(a)
          PROVE  UNCHANGED view
        BY <3>1 DEF UpdatePolicy, CreateHold, ReleaseHold, SchedulePurge
    <3>2. ASSUME NEW w \in PurgeWorker, PurgeRun(w) \/ WorkerDies(w)
          PROVE  UNCHANGED view
        BY <3>2 DEF PurgeRun, WorkerDies, Claim, RemoveSource, StorageRefuses,
                    CompletePurge
    <3> QED BY <3>1, <3>2 DEF Next, Look, Tick, StageUpload, WriteSource,
            FinalizeUpload, UploadDies, IngestBegins, IngestEnds, SetArchived
  <2>2. ASSUME NEW a \in Architect
        PROVE  /\ view'[a] \in Page
               /\ view'[a] \in {view[a], Snapshot}
    <3>1. view[a] \in Page
        BY <1>1
    <3>2. view'[a] \in {view[a], Snapshot}
        BY <1>1, <2>1
    <3> QED BY <1>2, <3>1, <3>2
  <2>3. view' = [a \in Architect |-> view'[a]]
      BY <1>1, <2>1
  <2>4. /\ Snapshot.epoch = policy.epoch
        /\ Snapshot.hold = hold /\ Snapshot.days = policy.days
      BY DEF Snapshot
  <2>5. PageTyped'
      BY <2>2, <2>3 DEF PageTyped, HoldTable
  <2>6. PagesNotNewer'
      BY <1>1, <1>3, <2>2, <2>4 DEF PagesNotNewer
  <2>7. EpochCoversPolicy'
      BY <1>1, <1>3, <2>2, <2>4 DEF EpochCoversPolicy
  <2> QED BY <1>1, <1>3, <2>5, <2>6, <2>7
<1>4. ASSUME NEW a \in Architect,
             UpdatePolicy(a) \/ CreateHold(a) \/ ReleaseHold(a), UNCHANGED view
      PROVE  /\ policy' \in [days : Days, epoch : 1..MaxEpoch]
             /\ hold' \in HoldTable
             /\ PageTyped' /\ PagesNotNewer' /\ EpochCoversPolicy'
  <2>1. /\ policy' \in [days : Days, epoch : 1..MaxEpoch]
        /\ policy'.epoch = policy.epoch + 1
      BY <1>4, EpochMoves
  <2>2. hold' \in HoldTable
      BY <1>1, <1>4 DEF UpdatePolicy, CreateHold, ReleaseHold, HoldTable
  <2>3. \A b \in Architect : view'[b].epoch < policy'.epoch
    <3>1. ASSUME NEW b \in Architect
          PROVE  view'[b].epoch < policy'.epoch
      <4>1. view[b].epoch \in Nat /\ policy.epoch \in Nat
            /\ view[b].epoch <= policy.epoch
        <5>1. view[b] \in Page
            BY <1>1
        <5> QED BY <1>1, <5>1 DEF PagesNotNewer
      <4> QED BY <1>4, <2>1, <4>1
    <3> QED BY <3>1
  <2>4. PagesNotNewer' /\ EpochCoversPolicy'
    <3>1. ASSUME NEW b \in Architect
          PROVE  view'[b].epoch <= policy'.epoch /\ view'[b].epoch # policy'.epoch
      <4>1. view'[b].epoch \in Nat /\ policy'.epoch \in Nat
        <5>1. view'[b] \in Page
            BY <1>1, <1>4
        <5> QED BY <2>1, <5>1
      <4> QED BY <2>3, <4>1
    <3> QED BY <3>1 DEF PagesNotNewer, EpochCoversPolicy
  <2>5. PageTyped'
      BY <1>1, <1>4 DEF PageTyped, HoldTable
  <2> QED BY <2>1, <2>2, <2>4, <2>5
<1> QED BY <1>3, <1>4, PolicySteps

-----------------------------------------------------------------------------
(* The rest of the state, and the invariant.                                *)

LEMMA UploadKept ==
    ASSUME Kept, Next
    PROVE  /\ upload' \in [pc : {"idle", "write", "finalize"},
                           version : Version \cup {0}]
           /\ UploadBound'
           /\ versions' \in Version \cup {0}
           /\ source' \subseteq Version
<1>1. /\ upload \in [pc : {"idle", "write", "finalize"}, version : Version \cup {0}]
      /\ upload.pc # "idle" => upload.version # 0
      /\ versions \in 0..MaxVersion /\ source \subseteq Version
      /\ doc \in DocRow
    BY RetentionAssumption DEF Kept, TypeOK, UploadBound, Version, DocRow
<1>2. CASE StageUpload
  <2>1. versions' \in Version \cup {0} /\ doc'.cand \in Version
    <3>1. ASSUME NEW b, versions < MaxVersion, versions' = versions + 1,
                 doc' = [doc EXCEPT !.cand = versions + 1, !.published = FALSE,
                                    !.busy = b]
          PROVE  versions' \in Version \cup {0} /\ doc'.cand \in Version
      <4>1. versions + 1 \in Version
          BY <1>1, <3>1, RetentionAssumption DEF Version
      <4> QED BY <1>1, <3>1, <4>1 DEF DocRow
    <3>2. CASE doc.cand # 0 /\ UNCHANGED <<doc, versions>>
        BY <1>1, <3>2, RetentionAssumption DEF DocRow, Version
    <3> QED BY <1>2, <3>1, <3>2 DEF StageUpload
  <2>2. upload' = [pc |-> "write", version |-> doc'.cand] /\ UNCHANGED source
      BY <1>2 DEF StageUpload
  <2>3. doc'.cand # 0
      BY <2>1 DEF Version
  <2> QED BY <1>1, <2>1, <2>2, <2>3 DEF UploadBound
<1>3. CASE WriteSource
  <2>1. /\ upload.version \in Version
        /\ source' = source \cup {upload.version}
        /\ upload' = [upload EXCEPT !.pc = "finalize"] /\ UNCHANGED versions
      BY <1>1, <1>3 DEF WriteSource
  <2> QED BY <1>1, <2>1, RetentionAssumption DEF UploadBound, Version
<1>4. CASE FinalizeUpload \/ UploadDies
  <2>1. upload' = NoUpload /\ UNCHANGED <<versions, source>>
      BY <1>4 DEF FinalizeUpload, UploadDies
  <2> QED BY <1>1, <2>1, RetentionAssumption DEF NoUpload, UploadBound, Version
<1>5. ASSUME ~StageUpload, ~WriteSource, ~FinalizeUpload, ~UploadDies
      PROVE  UNCHANGED <<upload, versions>> /\ source' \subseteq source
  <2>1. ASSUME NEW a \in Architect,
               \/ Look(a) \/ UpdatePolicy(a) \/ CreateHold(a) \/ ReleaseHold(a)
               \/ SchedulePurge(a)
        PROVE  UNCHANGED <<upload, versions, source>>
      BY <2>1 DEF Look, UpdatePolicy, CreateHold, ReleaseHold, SchedulePurge
  <2>2. ASSUME NEW w \in PurgeWorker, PurgeRun(w) \/ WorkerDies(w)
        PROVE  UNCHANGED <<upload, versions>> /\ source' \subseteq source
      BY <2>2 DEF PurgeRun, WorkerDies, Claim, RemoveSource, StorageRefuses,
                  CompletePurge
  <2> QED BY <1>5, <2>1, <2>2 DEF Next, Tick, IngestBegins, IngestEnds, SetArchived
<1>6. CASE UNCHANGED <<upload, versions>> /\ source' \subseteq source
    BY <1>1, <1>6, RetentionAssumption DEF UploadBound, Version
<1> QED BY <1>2, <1>3, <1>4, <1>5, <1>6

LEMMA ClocksTyped ==
    ASSUME Kept, Next
    PROVE  now' \in Time /\ crashes' \in 0..MaxCrash
<1>1. now \in Time /\ crashes \in 0..MaxCrash
    BY DEF Kept, TypeOK
<1>2. CASE Tick
    BY <1>1, <1>2, RetentionAssumption DEF Tick, Time
<1>3. ASSUME NEW w \in PurgeWorker, WorkerDies(w)
      PROVE  now' \in Time /\ crashes' \in 0..MaxCrash
    BY <1>1, <1>3, RetentionAssumption DEF WorkerDies
<1>4. ASSUME NEW w \in PurgeWorker, PurgeRun(w)
      PROVE  UNCHANGED <<now, crashes>>
    BY <1>4 DEF PurgeRun, Claim, RemoveSource, StorageRefuses, CompletePurge
<1>5. ASSUME NEW a \in Architect,
             \/ Look(a) \/ UpdatePolicy(a) \/ CreateHold(a) \/ ReleaseHold(a)
             \/ SchedulePurge(a)
      PROVE  UNCHANGED <<now, crashes>>
    BY <1>5 DEF Look, UpdatePolicy, CreateHold, ReleaseHold, SchedulePurge
<1> QED BY <1>1, <1>2, <1>3, <1>4, <1>5 DEF Next, StageUpload, WriteSource,
        FinalizeUpload, UploadDies, IngestBegins, IngestEnds, SetArchived

LEMMA KeptInit == Init => Kept
<1> SUFFICES ASSUME Init PROVE Kept
    OBVIOUS
<1>1. doc \in DocRow
    BY RetentionAssumption DEF Init, DocRow, Time
<1>2. hold \in HoldTable /\ purge \in [Purge -> JobRow]
    BY RetentionAssumption DEF Init, HoldTable, JobRow
<1>3. policy \in [days : Days, epoch : 1..MaxEpoch] /\ policy.epoch = 1
    BY RetentionAssumption DEF Init
<1>4. worker \in [PurgeWorker -> RunState]
      /\ \A w \in PurgeWorker : worker[w].pc = "idle"
    BY RestingTyped DEF Init
<1>5. upload \in [pc : {"idle", "write", "finalize"}, version : Version \cup {0}]
      /\ upload.pc = "idle"
    BY DEF Init, NoUpload
<1>6. TypeOK
  <2>1. now \in Time /\ crashes \in 0..MaxCrash
      BY RetentionAssumption DEF Init, Time
  <2>2. versions \in Version \cup {0} /\ source \subseteq Version
        /\ rowlock \in PurgeWorker \cup {None}
      BY DEF Init
  <2> QED BY <1>1, <1>2, <1>3, <1>4, <1>5, <2>1, <2>2
          DEF TypeOK, DocRow, HoldTable, JobRow, RunState
<1>7. Snapshot \in [epoch : 1..MaxEpoch, days : Days, hold : HoldTable, rev : Nat]
    BY <1>1, <1>2, <1>3 DEF Snapshot, DocRow
<1>8. PageTyped
    BY <1>7 DEF Init, PageTyped
<1>9. PagesNotNewer /\ EpochCoversPolicy
    BY <1>3 DEF Init, Snapshot, PagesNotNewer, EpochCoversPolicy
<1>10. LockIsRun /\ JobInHand /\ GatesStandWhileRemoving
    BY <1>4, RetentionAssumption
       DEF Init, LockIsRun, JobInHand, GatesStandWhileRemoving
<1>11. HoldsExcludePurge
    BY DEF Init, HoldsExcludePurge, Held
<1>12. UploadBound /\ TombstoneIsEmpty
    BY <1>5 DEF Init, UploadBound, TombstoneIsEmpty
<1> QED BY <1>6, <1>8, <1>9, <1>10, <1>11, <1>12 DEF Kept

LEMMA KeptStep == Kept /\ [Next]_vars => Kept'
<1> SUFFICES ASSUME Kept, [Next]_vars PROVE Kept'
    OBVIOUS
<1>1. CASE Next
  <2>1. TypeOK'
    <3>1. TypeOK' <=>
             /\ now' \in Time /\ doc' \in DocRow
             /\ versions' \in Version \cup {0}
             /\ rowlock' \in PurgeWorker \cup {None}
             /\ policy' \in [days : Days, epoch : 1..MaxEpoch]
             /\ hold' \in HoldTable /\ purge' \in [Purge -> JobRow]
             /\ source' \subseteq Version
             /\ worker' \in [PurgeWorker -> RunState]
             /\ upload' \in [pc : {"idle", "write", "finalize"},
                             version : Version \cup {0}]
             /\ crashes' \in 0..MaxCrash
        BY DEF TypeOK, DocRow, HoldTable, JobRow, RunState
    <3> QED BY <1>1, <3>1, RowTyped, LockKept, PurgeTyped, PagesKept, UploadKept,
               ClocksTyped
  <2> QED BY <1>1, <2>1, LockKept, GatesKept, HoldsKeptApart, PagesKept,
             UploadKept, TombstoneKept DEF Kept
<1>2. CASE UNCHANGED vars
    BY <1>2 DEF vars, Kept, TypeOK, PageTyped, PagesNotNewer, EpochCoversPolicy,
       LockIsRun, JobInHand, GatesStandWhileRemoving, HoldsExcludePurge,
       UploadBound, TombstoneIsEmpty, PurgeGates, Held, Pending
<1> QED BY <1>1, <1>2

THEOREM RetentionInvariant == Spec => []Kept
BY KeptInit, KeptStep, PTL DEF Spec

\* purge_one_document, create_document_legal_hold, schedule_document_purge: the
\* gates a purge was claimed under stand until its tombstone, a hold and a
\* pending purge exclude each other, and whoever decides at the current epoch
\* has seen the current holds and period.
THEOREM RetentionKeepsPolicy == Spec => []PolicyIsKept
<1>1. Kept => PolicyIsKept
    BY DEF Kept, PolicyIsKept
<1> QED BY <1>1, RetentionInvariant, PTL

\* complete_document_purge: no statement that was under way when the document
\* was purged, or comes later, writes its row again.
THEOREM TombstoneStaysFinal == Spec => TombstoneIsFinal
<1>1. Kept /\ [Next]_vars => [doc.purged => doc' = doc]_vars
    BY TombstoneStands
<1> QED BY <1>1, RetentionInvariant, PTL DEF Spec, TombstoneIsFinal
=============================================================================
