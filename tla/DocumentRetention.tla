-------------------------- MODULE DocumentRetention --------------------------
(***************************************************************************)
(* Retention of one document: architects who change the tenant's retention *)
(* period, place and release legal holds and schedule a purge, each against *)
(* the policy epoch and revision they read; the purge worker, whose whole   *)
(* run is one database transaction holding the document row; and an upload  *)
(* that may offer bytes for the same document meanwhile.  Object storage    *)
(* takes no part in the transaction: what the worker removed stays removed  *)
(* when the transaction rolls back.                                         *)
(***************************************************************************)
EXTENDS Naturals, FiniteSets

CONSTANTS
    Architect, PurgeWorker,
    None,
    Days,               \* retention periods a tenant may choose
    MaxVersion, MaxHold, MaxPurge, MaxEpoch, MaxTime, MaxCrash,     \* bounds
    MaxAttempts         \* attempt budget the worker is started with

Version == 1..MaxVersion
Hold    == 1..MaxHold
Purge   == 1..MaxPurge
Time    == 0..MaxTime

ASSUME RetentionAssumption ==
    /\ None \notin PurgeWorker
    /\ Days \subseteq Nat \ {0} /\ Days # {}
    /\ MaxVersion \in Nat /\ MaxHold \in Nat /\ MaxPurge \in Nat
    /\ MaxEpoch \in Nat \ {0} /\ MaxTime \in Nat /\ MaxCrash \in Nat
    /\ MaxAttempts \in Nat \ {0}

VARIABLES
    now,        \* the database clock, in days
    doc,        \* the documents row
    versions,   \* how many document_versions rows there are
    rowlock,    \* the purge worker whose transaction holds the document row
    policy,     \* [days, revision] of the tenant and its policy epoch
    hold,       \* document_legal_holds
    purge,      \* document_purge_jobs, as committed
    source,     \* versions whose bytes are in object storage
    worker, upload, view,   \* local state of workers, the upload, architects
    crashes

vars == <<now, doc, versions, rowlock, policy, hold, purge, source, worker,
          upload, view, crashes>>

Resting    == [pc |-> "idle", job |-> 0, todo |-> {}]
NoUpload   == [pc |-> "idle", version |-> 0]
Snapshot   == [epoch |-> policy.epoch, days |-> policy.days, hold |-> hold,
               rev |-> doc.rev]
Held       == \E h \in Hold : hold[h] = "active"
Pending    == {j \in Purge : purge[j].state = "pending"}

Init ==
    /\ now = 0
    /\ doc = [archived |-> FALSE, since |-> 0, purged |-> FALSE, cand |-> 0,
              published |-> FALSE, busy |-> FALSE, served |-> 0, rev |-> 0]
    /\ versions = 0
    /\ rowlock = None
    /\ policy \in [days : Days, epoch : {1}]
    /\ hold = [h \in Hold |-> "unborn"]
    /\ purge = [j \in Purge |-> [state |-> "unborn", eligible |-> 0, tries |-> 0]]
    /\ source = {}
    /\ worker = [w \in PurgeWorker |-> Resting]
    /\ upload = NoUpload
    /\ view = [a \in Architect |-> Snapshot]
    /\ crashes = 0

Tick ==
    /\ now < MaxTime
    /\ now' = now + 1
    /\ UNCHANGED <<doc, versions, rowlock, policy, hold, purge, source, worker,
                   upload, view, crashes>>

-----------------------------------------------------------------------------
(* The document: uploads, ingest, archive and restore.  Each statement that *)
(* writes the row waits for a purge transaction that holds it.              *)

\* A purged row has another filename, so no later upload finds it.  The bytes
\* of the current candidate may be offered again.
StageUpload ==
    /\ upload.pc = "idle"
    /\ rowlock = None /\ ~doc.purged
    /\ \/ /\ versions < MaxVersion
          /\ versions' = versions + 1
          /\ \E busy \in {FALSE, doc.busy} :
                doc' = [doc EXCEPT !.cand = versions + 1, !.published = FALSE,
                                   !.busy = busy]
       \/ doc.cand # 0 /\ UNCHANGED <<doc, versions>>
    /\ upload' = [pc |-> "write", version |-> doc'.cand]
    /\ UNCHANGED <<now, rowlock, policy, hold, purge, source, worker, view,
                   crashes>>

\* The object write asks the database nothing.
WriteSource ==
    /\ upload.pc = "write"
    /\ source' = source \cup {upload.version}
    /\ upload' = [upload EXCEPT !.pc = "finalize"]
    /\ UNCHANGED <<now, doc, versions, rowlock, policy, hold, purge, worker,
                   view, crashes>>

\* Wrong: the row is marked published whatever candidate it carries.
FinalizeAny ==
    /\ upload.pc = "finalize"
    /\ rowlock = None
    /\ upload' = NoUpload
    /\ doc' = [doc EXCEPT !.published = TRUE]
    /\ UNCHANGED <<now, versions, rowlock, policy, hold, purge, source, worker,
                   view, crashes>>

FinalizeUpload ==
    /\ upload.pc = "finalize"
    /\ rowlock = None
    /\ upload' = NoUpload
    /\ doc' = [doc EXCEPT !.published = @ \/ doc.cand = upload.version]
    /\ UNCHANGED <<now, versions, rowlock, policy, hold, purge, source, worker,
                   view, crashes>>

UploadDies ==
    /\ upload.pc # "idle"
    /\ upload' = NoUpload
    /\ UNCHANGED <<now, doc, versions, rowlock, policy, hold, purge, source,
                   worker, view, crashes>>

\* An ingest job is queued or an attempt takes the lease.
IngestBegins ==
    /\ rowlock = None
    /\ doc.published /\ ~doc.archived /\ ~doc.busy
    /\ doc' = [doc EXCEPT !.busy = TRUE]
    /\ UNCHANGED <<now, versions, rowlock, policy, hold, purge, source, worker,
                   upload, view, crashes>>

\* The activity ends with a promotion, which needs the candidate's bytes, or
\* without one.
IngestEnds ==
    /\ rowlock = None /\ doc.busy
    /\ \/ /\ doc.published /\ doc.cand \in source
          /\ doc' = [doc EXCEPT !.busy = FALSE, !.served = doc.cand,
                                !.rev = @ + 1]
       \/ doc' = [doc EXCEPT !.busy = FALSE]
    /\ doc'.rev <= MaxEpoch
    /\ UNCHANGED <<now, versions, rowlock, policy, hold, purge, source, worker,
                   upload, view, crashes>>

\* set_document_archived: nothing is asked of, or done to, a pending purge.
SetArchived ==
    /\ rowlock = None
    /\ doc.cand # 0 /\ ~doc.purged /\ ~doc.busy
    /\ doc' = [doc EXCEPT !.archived = ~@, !.since = IF doc.archived THEN 0 ELSE now]
    /\ UNCHANGED <<now, versions, rowlock, policy, hold, purge, source, worker,
                   upload, view, crashes>>

-----------------------------------------------------------------------------
(* Architects.  Each write locks the tenant and compares the policy epoch.  *)

Look(a) ==
    /\ view[a] # Snapshot
    /\ view' = [view EXCEPT ![a] = Snapshot]
    /\ UNCHANGED <<now, doc, versions, rowlock, policy, hold, purge, source,
                   worker, upload, crashes>>

NextEpoch == policy.epoch < MaxEpoch /\ policy' = [policy EXCEPT !.epoch = @ + 1]

\* The change of a legal hold advances the tenant's epoch in its transaction.
HoldChanged == NextEpoch

UpdatePolicy(a) ==
    /\ view[a].epoch = policy.epoch
    /\ policy.epoch < MaxEpoch
    /\ \E days \in Days :
          policy' = [policy EXCEPT !.days = days, !.epoch = @ + 1]
    /\ UNCHANGED <<now, doc, versions, rowlock, hold, purge, source, worker,
                   upload, view, crashes>>

\* Wrong: the hold does not wait for the document row.
HoldsWithoutRow == TRUE

RowIsFree == rowlock = None

PendingCancelled ==
    [j \in Purge |-> IF j \in Pending THEN [purge[j] EXCEPT !.state = "cancelled"]
                                      ELSE purge[j]]

\* A hold cancels the purge that is pending.
CreateHold(a) ==
    /\ view[a].epoch = policy.epoch /\ view[a].rev = doc.rev
    /\ RowIsFree
    /\ doc.cand # 0 /\ ~doc.purged
    /\ \E h \in Hold :
          /\ hold[h] = "unborn"
          /\ hold' = [hold EXCEPT ![h] = "active"]
    /\ purge' = PendingCancelled
    /\ HoldChanged
    /\ UNCHANGED <<now, doc, versions, rowlock, source, worker, upload, view,
                   crashes>>

\* The document row is not locked here, only the tenant and the hold.
ReleaseHold(a) ==
    /\ view[a].epoch = policy.epoch
    /\ \E h \in Hold :
          /\ view[a].hold[h] = "active" /\ hold[h] = "active"
          /\ hold' = [hold EXCEPT ![h] = "released"]
    /\ HoldChanged
    /\ UNCHANGED <<now, doc, versions, rowlock, purge, source, worker, upload,
                   view, crashes>>

\* What a purge asks of the document, when it is scheduled and ever after.
PurgeGates == doc.archived /\ ~doc.purged /\ ~doc.busy /\ ~Held

SchedulePurge(a) ==
    /\ view[a].epoch = policy.epoch /\ view[a].rev = doc.rev
    /\ rowlock = None
    /\ PurgeGates
    /\ now >= doc.since + policy.days
    /\ Pending = {}
    /\ \E j \in Purge :
          /\ purge[j].state = "unborn"
          /\ \A i \in Purge : i < j => purge[i].state # "unborn"
          /\ purge' = [purge EXCEPT ![j] =
                [state |-> "pending", eligible |-> doc.since + policy.days,
                 tries |-> 0]]
    /\ UNCHANGED <<now, doc, versions, rowlock, policy, hold, source, worker,
                   upload, view, crashes>>

-----------------------------------------------------------------------------
(* The purge worker: claim, removal of the bytes and tombstone in one       *)
(* transaction, so that other connections see none of its writes before.    *)

Claimable(j) ==
    /\ purge[j].state = "pending"
    /\ purge[j].eligible <= now /\ purge[j].tries < MaxAttempts
    /\ PurgeGates

Claim(w) ==
    /\ worker[w].pc = "idle"
    /\ rowlock = None
    /\ \E j \in Purge :
          /\ Claimable(j)
          /\ worker' = [worker EXCEPT ![w] =
                [pc |-> "remove", job |-> j, todo |-> 1..versions]]
    /\ rowlock' = w
    /\ UNCHANGED <<now, doc, versions, policy, hold, purge, source, upload,
                   view, crashes>>

\* Removing what is not there succeeds.
RemoveSource(w) ==
    /\ worker[w].pc = "remove"
    /\ \E v \in worker[w].todo :
          /\ \A u \in worker[w].todo : v <= u
          /\ source' = source \ {v}
          /\ worker' = [worker EXCEPT ![w].todo = @ \ {v}]
    /\ UNCHANGED <<now, doc, versions, rowlock, policy, hold, purge, upload,
                   view, crashes>>

Closed(j, state) == [purge[j] EXCEPT !.state = state, !.tries = @ + 1]

\* A removal is refused: the job is closed as failed, and committed.
StorageRefuses(w) ==
    /\ worker[w].pc = "remove" /\ worker[w].todo # {}
    /\ purge' = [purge EXCEPT ![worker[w].job] = Closed(worker[w].job, "failed")]
    /\ worker' = [worker EXCEPT ![w] = Resting]
    /\ rowlock' = None
    /\ UNCHANGED <<now, doc, versions, policy, hold, source, upload, view,
                   crashes>>

\* The tombstone, unless a gate has closed again: then all is rolled back.
CompletePurge(w) ==
    /\ worker[w].pc = "remove" /\ worker[w].todo = {}
    /\ IF PurgeGates
       THEN /\ doc' = [doc EXCEPT !.purged = TRUE, !.cand = 0, !.served = 0,
                                  !.published = FALSE, !.rev = @ + 1]
            /\ purge' = [purge EXCEPT ![worker[w].job] =
                            Closed(worker[w].job, "completed")]
       ELSE UNCHANGED <<doc, purge>>
    /\ worker' = [worker EXCEPT ![w] = Resting]
    /\ rowlock' = None
    /\ UNCHANGED <<now, versions, policy, hold, source, upload, view, crashes>>

\* Wrong: a row lock that outlives its connection.
LockAfterCrash == rowlock

LockReleased == None

\* The worker dies, or loses the database: the claim is rolled back.
WorkerDies(w) ==
    /\ worker[w].pc # "idle"
    /\ crashes < MaxCrash /\ crashes' = crashes + 1
    /\ worker' = [worker EXCEPT ![w] = Resting]
    /\ rowlock' = LockReleased
    /\ UNCHANGED <<now, doc, versions, policy, hold, purge, source, upload, view>>

-----------------------------------------------------------------------------
PurgeRun(w) ==
    Claim(w) \/ RemoveSource(w) \/ StorageRefuses(w) \/ CompletePurge(w)

Next ==
    \/ Tick
    \/ StageUpload \/ WriteSource \/ FinalizeUpload \/ UploadDies
    \/ IngestBegins \/ IngestEnds \/ SetArchived
    \/ \E a \in Architect : \/ Look(a) \/ UpdatePolicy(a) \/ CreateHold(a)
                            \/ ReleaseHold(a) \/ SchedulePurge(a)
    \/ \E w \in PurgeWorker : PurgeRun(w) \/ WorkerDies(w)

Spec == Init /\ [][Next]_vars

\* A purge worker that can take a step of its run eventually does.
FairSpec == Spec /\ \A w \in PurgeWorker : WF_vars(PurgeRun(w))

-----------------------------------------------------------------------------
(* Properties.                                                              *)

TypeOK ==
    /\ now \in Time
    /\ doc \in [archived : BOOLEAN, since : Time, purged : BOOLEAN,
                cand : Version \cup {0}, published : BOOLEAN, busy : BOOLEAN,
                served : Version \cup {0}, rev : Nat]
    /\ versions \in Version \cup {0}
    /\ rowlock \in PurgeWorker \cup {None}
    /\ policy \in [days : Days, epoch : 1..MaxEpoch]
    /\ hold \in [Hold -> {"unborn", "active", "released"}]
    /\ purge \in [Purge -> [state : {"unborn", "pending", "completed", "failed",
                                     "cancelled"},
                            eligible : Nat, tries : 0..MaxAttempts]]
    /\ source \subseteq Version
    /\ worker \in [PurgeWorker -> [pc : {"idle", "remove"}, job : Purge \cup {0},
                                   todo : SUBSET Version]]
    /\ upload \in [pc : {"idle", "write", "finalize"}, version : Version \cup {0}]
    /\ crashes \in 0..MaxCrash

\* purge_worker.py: a concurrent hold lands wholly before the purge or wholly
\* after the tombstone.  From the claim to the tombstone the gates the claim
\* read still stand, although nothing is committed in between.
GatesStandWhileRemoving ==
    \A w \in PurgeWorker : worker[w].pc = "remove" =>
        PurgeGates /\ purge[worker[w].job].state = "pending"

\* The tombstone is terminal: no upload, finalization or ingest that was under
\* way when the document was purged writes its row again.
TombstoneIsFinal == [][doc.purged => doc' = doc]_vars

\* An architect whose epoch is current decides on current facts: every change
\* of a hold or of the period since the page was read has moved the epoch.
EpochCoversPolicy ==
    \A a \in Architect : view[a].epoch = policy.epoch =>
        view[a].hold = hold /\ view[a].days = policy.days

\* README: an active hold cancels a pending purge and prevents another from being
\* scheduled, in whatever order holds, releases and schedules arrive.
HoldsExcludePurge == Held => Pending = {}

\* Policy, holds and purge jobs agree in every state, those between a claim and
\* its tombstone included.
PolicyIsKept ==
    TypeOK /\ GatesStandWhileRemoving /\ EpochCoversPolicy /\ HoldsExcludePurge

\* With a worker that runs and dies only finitely often, a purge job does not
\* stay claimable for ever: it is completed, fails, or a gate closes.
PurgeIsDecided == \A j \in Purge : ~<>[]Claimable(j)
=============================================================================
