------------------------------ MODULE AgentRun ------------------------------
(***************************************************************************)
(* One repository worked on by the agent loop: run walks a task from       *)
(* preflight to an applied candidate or a stop, resume repairs what a      *)
(* damaged or crashed run left, finalize archives a terminal run and       *)
(* removes it.  The three calls exclude each other by a lock the operating *)
(* system returns when a process dies; everything else is files.           *)
(*                                                                         *)
(* A candidate is one value: its files and its fingerprint.  Applying it   *)
(* is two steps here, ApplicationJournal opens them.  The operator may     *)
(* edit a workspace, damage the state document, or settle the checkout     *)
(* and write the next task.                                                *)
(***************************************************************************)
EXTENDS Naturals, Sequences, FiniteSets

CONSTANTS
    Proc,           \* processes that call the loop
    Cand,           \* candidates other than the untouched baseline
    Base,           \* the tree of the baseline
    None,
    MaxRepair, MaxEval,         \* MAX_REPAIR_ROUNDS, MAX_EVALUATOR_ROUNDS
    MaxRun, MaxTask,            \* bounds on runs and on tasks
    MaxFault, MaxTouch          \* bounds on faults and on outside edits

ASSUME AgentRunAssumption ==
    /\ Base \notin Cand /\ None \notin Cand \cup {Base} \cup Proc
    /\ {MaxEval, MaxRun, MaxFault, MaxTouch} \subseteq Nat /\ MaxTask \in Nat \ {0}
    \* "max_repair_rounds": minimum 0, maximum 1.
    /\ MaxRepair \in 0..1

VARIABLES
    disk,       \* the documents of the state directory, by name
    ledger,     \* the status of each run's workspace record
    holder,     \* the candidate tree of each run's workspace, None if gone
    checkout,   \* the operator's tree: Base, or a candidate moved into it
    pending,    \* the application journal that is not closed
    archive,    \* each run's archive
    task,       \* the task on file: its number, and whether it is still there
    lock,       \* the process that holds run.lock
    mem,        \* what each process has in memory
    runs, mishap,   \* run ids minted; faults (crashes, failing storage) and
                    \* outside edits so far
    applied     \* history: whether a run's candidate was moved

vars == <<disk, ledger, holder, checkout, pending, archive, task, lock, mem,
          runs, mishap, applied>>

Run     == 1..MaxRun
Tree    == Cand \cup {Base}
\* REMOVABLE_STATE_FILES, in the order they are unlinked.
Removable == <<"state", "backup", "binding", "events", "receipt", "findings">>
Doc     == {Removable[i] : i \in 1..Len(Removable)}
\* BLOCKED and FAILED differ in the reason shown and are one state here; so
\* are the two answers by which an evaluator ends a run.
Terminal == {"approved", "stopped"}
Judged   == {"approved", "changes_requested", "stopped"}

Phases == {"preflight", "implementing", "acceptance", "auditing", "repairing",
           "acceptance_2", "final_auditing"} \cup Terminal

\* ALLOWED_TRANSITIONS
Allowed(from) ==
    CASE from = "preflight"      -> {"implementing", "stopped"}
      [] from = "implementing"   -> {"acceptance", "stopped"}
      [] from = "acceptance"     -> {"auditing", "repairing", "stopped"}
      [] from = "auditing"       -> {"repairing"} \cup Terminal
      [] from = "repairing"      -> {"acceptance_2", "stopped"}
      [] from = "acceptance_2"   -> {"final_auditing", "stopped"}
      [] from = "final_auditing" -> Terminal
      [] OTHER                   -> {}

\* A document that is not there; the events file is its set of runs.
Absent(d) == IF d = "events" THEN {} ELSE None

NoCopy    == [disk |-> [d \in Doc |-> Absent(d)], ledger |-> "none", tree |-> None]
NoArchive == [state |-> "none", copy |-> NoCopy]

Idle == [pc |-> "idle", call |-> "none", run |-> 0, task |-> 0,
         verified |-> None, before |-> None, repairs |-> 0, evals |-> 0,
         index |-> 0, copy |-> NoCopy]


Init ==
    /\ disk = [d \in Doc |-> Absent(d)]
    /\ ledger = [r \in Run |-> "none"]
    /\ holder = [r \in Run |-> None]
    /\ checkout = Base /\ pending = None
    /\ archive = [r \in Run |-> NoArchive]
    /\ task = [number |-> 1, present |-> TRUE]
    /\ lock = None /\ mem = [p \in Proc |-> Idle]
    /\ runs = 0 /\ mishap = [faults |-> 0, edits |-> 0]
    /\ applied = [r \in Run |-> FALSE]

At(p, pc)   == mem[p].pc = pc
Goto(p, pc) == mem' = [mem EXCEPT ![p].pc = pc] /\ UNCHANGED lock
Left(p)     == mem' = [mem EXCEPT ![p] = Idle] /\ lock' = None
\* The call returns or raises; the lock is released on the way out.
End(p)      == Left(p) /\ UNCHANGED mishap
\* The process dies, or a storage call fails under it.
Fault       == /\ mishap.faults < MaxFault
               /\ mishap' = [mishap EXCEPT !.faults = @ + 1]

World == <<ledger, holder, checkout, pending, archive, task, runs, applied>>

-----------------------------------------------------------------------------
(* The lock, and the three calls.                                          *)

\* single_instance_lock: a second caller is refused and changes nothing.
Call(p, call, r) ==
    /\ lock = None /\ At(p, "idle")
    /\ lock' = p
    /\ mem' = [mem EXCEPT ![p].call = call, ![p].run = r,
                          ![p].pc = IF call = "finalize" THEN "bind_run"
                                    ELSE "recover"]
    /\ UNCHANGED <<World, disk, mishap>>

StartRun(p)      == runs < MaxRun /\ Call(p, "run", 0)
StartResume(p)   == Call(p, "resume", 0)
StartFinalize(p) == \E r \in 1..runs : Call(p, "finalize", r)

\* A process dies and the operating system releases its lock; or a removal
\* fails (StateCleanupFailed, WorkspaceCleanupFailed) and the call raises with
\* the rest in place.
Crash(p) ==
    /\ ~At(p, "idle") /\ Fault /\ Left(p)
    /\ UNCHANGED <<World, disk>>

-----------------------------------------------------------------------------
(* The state document.                                                     *)

\* state.json, then its backup and the event; a process may die in between.
Save(p, doc, next) ==
    \/ /\ disk' = [disk EXCEPT !["state"] = doc, !["backup"] = doc,
                               !["events"] = @ \cup {doc.run}]
       /\ mem' = [mem EXCEPT ![p] = next]
       /\ lock' = IF next = Idle THEN None ELSE lock
       /\ UNCHANGED mishap
    \/ /\ disk' = [disk EXCEPT !["state"] = doc]
       /\ Fault /\ Left(p)

\* _advance: the table decides, from the document on disk.
Advance(p, phase, next) ==
    IF phase \in Allowed(disk["state"].phase)
    THEN Save(p, [disk["state"] EXCEPT !.phase = phase], next)
    ELSE End(p) /\ UNCHANGED disk

\* A typed refusal ends the run in a terminal state.
Stop(p) == Advance(p, "stopped", Idle) /\ UNCHANGED World

-----------------------------------------------------------------------------
(* What a run starts with.                                                 *)

\* _recover_applications: whatever was half moved is moved back, or the call
\* ends because the checkout can no longer be moved back.
Recover(p) ==
    /\ At(p, "recover")
    /\ IF pending = None
       THEN UNCHANGED <<checkout, pending>>
       ELSE checkout' = Base /\ pending' = None
    /\ Goto(p, IF mem[p].call = "run" THEN "preflight" ELSE "reread")
    /\ UNCHANGED <<disk, ledger, holder, archive, task, runs, mishap, applied>>

RecoverFails(p) ==
    /\ At(p, "recover") /\ pending # None
    /\ Fault /\ Left(p) /\ UNCHANGED <<World, disk>>

\* Wrong: a pair that matches is enough, ended or not.
StateDirectoryMatches ==
    LET state == disk["state"]  binding == disk["binding"] IN
    \/ state = None /\ binding = None
    \/ /\ state # None /\ binding # None
       /\ binding.task = task.number
       /\ state.run = binding.run

\* assert_state_directory: nothing, or a matching pair of a run that ended.
StateDirectoryAllows ==
    LET state == disk["state"]  binding == disk["binding"] IN
    \/ state = None /\ binding = None
    \/ /\ state # None /\ binding # None
       /\ binding.task = task.number
       /\ state.run = binding.run
       /\ state.phase \in Terminal

Gates == checkout = Base /\ task.present /\ StateDirectoryAllows

\* _open_state: the first thing a run writes, and only behind the gates.
Preflight(p) ==
    /\ At(p, "preflight") /\ Gates
    /\ runs' = runs + 1
    /\ Save(p, [run |-> runs + 1, task |-> task.number, phase |-> "preflight"],
            [mem[p] EXCEPT !.pc = "register", !.run = runs + 1,
                           !.task = task.number])
    /\ UNCHANGED <<ledger, holder, checkout, pending, archive, task, applied>>

\* A gate, a missing binary or a session that is not a plan: nothing written.
PreflightRefuses(p) ==
    /\ At(p, "preflight")
    /\ End(p) /\ UNCHANGED <<World, disk>>

\* resume: a damaged state document is replaced by the backup.
Reread(p) ==
    /\ At(p, "reread")
    /\ IF disk["state"] # None /\ disk["state"].phase = "damaged"
       THEN disk' = [disk EXCEPT !["state"] =
                        IF disk["backup"] = None THEN @ ELSE disk["backup"]]
       ELSE UNCHANGED disk
    /\ End(p) /\ UNCHANGED World

-----------------------------------------------------------------------------
(* The workspace.                                                          *)

\* Wrong: the first directory is made before the record.
RegisterLate(p) ==
    /\ At(p, "register")
    /\ holder' = [holder EXCEPT ![mem[p].run] = Base]
    /\ Goto(p, "make")
    /\ UNCHANGED <<disk, ledger, checkout, pending, archive, task, runs,
                   mishap, applied>>

\* create: the record is on disk before the first directory is.
Register(p) ==
    /\ At(p, "register")
    /\ ledger' = [ledger EXCEPT ![mem[p].run] = "registered"]
    /\ Goto(p, "make")
    /\ UNCHANGED <<disk, holder, checkout, pending, archive, task, runs,
                   mishap, applied>>

\* The budget or the clock is spent before anything is built.
NothingLeft(p) == At(p, "register") /\ Stop(p)

Materialise(p) ==
    /\ At(p, "make")
    /\ ledger' = [ledger EXCEPT ![mem[p].run] = "materializing"]
    /\ holder' = [holder EXCEPT ![mem[p].run] = Base]
    /\ Goto(p, "ready")
    /\ UNCHANGED <<disk, checkout, pending, archive, task, runs, mishap,
                   applied>>

\* _after_failure: the record goes only if nothing of ours is left.  The
\* refusal is not one the run translates, so its state document stays.
MaterialiseFails(p) ==
    LET r == mem[p].run IN
    /\ At(p, "make") \/ At(p, "ready")
    /\ \/ /\ holder' = [holder EXCEPT ![r] = None]
          /\ ledger' = [ledger EXCEPT ![r] = "none"]
       \/ /\ holder[r] # None /\ UNCHANGED holder
          /\ ledger' = [ledger EXCEPT ![r] = "failed"]
    /\ Fault /\ Left(p)
    /\ UNCHANGED <<disk, checkout, pending, archive, task, runs, applied>>

\* READY, and the binding that names the workspace.
Bind(p) ==
    LET r == mem[p].run IN
    /\ \/ /\ At(p, "ready")
          /\ ledger' = [ledger EXCEPT ![r] = "ready"]
          /\ Goto(p, "bind") /\ UNCHANGED disk
       \/ /\ At(p, "bind")
          /\ disk' = [disk EXCEPT !["binding"] = [run |-> r,
                                                  task |-> mem[p].task]]
          /\ Goto(p, "enter") /\ UNCHANGED ledger
    /\ UNCHANGED <<holder, checkout, pending, archive, task, runs, mishap,
                   applied>>

Enter(p) ==
    /\ At(p, "enter")
    /\ Advance(p, "implementing", [mem[p] EXCEPT !.pc = "implement"])
    /\ UNCHANGED World

-----------------------------------------------------------------------------
(* Implementation, acceptance, audit, repair.                              *)

Workspace(p) == holder[mem[p].run]
\* derive_candidate_changes finds the candidate the run verified.
Unmoved(p)   == Workspace(p) = mem[p].verified

\* run_verified_implementation starts from two equal trees and believes only
\* the difference it finds afterwards.
Implement(p) ==
    \E c \in Tree :
        /\ At(p, "implement") /\ Workspace(p) = Base
        /\ holder' = [holder EXCEPT ![mem[p].run] = c]
        /\ Advance(p, "acceptance",
                   [mem[p] EXCEPT !.pc = "derive", !.verified = c])
        /\ UNCHANGED <<ledger, checkout, pending, archive, task, runs, applied>>

\* run_verified_repair starts from the candidate that was judged.
Repair(p) ==
    \E c \in Tree :
        /\ At(p, "repair") /\ Unmoved(p)
        /\ holder' = [holder EXCEPT ![mem[p].run] = c]
        /\ Advance(p, "acceptance_2",
                   [mem[p] EXCEPT !.pc = "derive", !.verified = c,
                                  !.repairs = @ + 1])
        /\ UNCHANGED <<ledger, checkout, pending, archive, task, runs, applied>>

\* A call that fails may have edited first.
ModelFails(p) ==
    /\ At(p, "implement") \/ At(p, "repair")
    /\ \E c \in Tree : holder' = [holder EXCEPT ![mem[p].run] = c]
    /\ Advance(p, "stopped", Idle)
    /\ UNCHANGED <<ledger, checkout, pending, archive, task, runs, applied>>

\* The receipt is pending before a command runs: a green one is not inherited.
Derive(p) ==
    /\ At(p, "derive") /\ Unmoved(p)
    /\ disk' = [disk EXCEPT !["receipt"] = [run |-> mem[p].run,
                                            cand |-> mem[p].verified,
                                            status |-> "pending"]]
    /\ Goto(p, "measure") /\ UNCHANGED <<World, mishap>>

Receipt(status) == disk' = [disk EXCEPT !["receipt"].status = status]

\* The mirror is built from the workspace and must be the candidate.
Measure(p) ==
    /\ At(p, "measure")
    /\ \/ Unmoved(p) /\ Receipt("passed") /\ Goto(p, "accepted")
       \/ Receipt("failed") /\ Goto(p, "rejected")
    /\ UNCHANGED <<World, mishap>>

\* _accept and _walk: a first red gate may buy the one repair.
Accepted(p) ==
    /\ At(p, "accepted")
    /\ Advance(p, IF disk["state"].phase = "acceptance" THEN "auditing"
                  ELSE "final_auditing", [mem[p] EXCEPT !.pc = "audit"])
    /\ UNCHANGED World

\* Wrong: one repair more than the budget.
MayRepairAgain(p) == mem[p].repairs <= MaxRepair

MayRepair(p) == mem[p].repairs < MaxRepair

Rejected(p) ==
    /\ At(p, "rejected")
    /\ \/ Stop(p)
       \/ /\ disk["state"].phase = "acceptance" /\ MayRepair(p)
          /\ Advance(p, "repairing", [mem[p] EXCEPT !.pc = "repair"])
          /\ UNCHANGED World

\* The candidate as the evaluator is about to find it.
Audit(p) ==
    /\ At(p, "audit") /\ mem[p].evals < MaxEval
    /\ mem' = [mem EXCEPT ![p].pc = "judge", ![p].before = Workspace(p)]
    /\ UNCHANGED <<World, disk, lock, mishap>>

\* _record_findings: before the verdict is acted on.
Findings(p, verdict) ==
    [disk EXCEPT !["findings"] = [run |-> mem[p].run, verdict |-> verdict]]

\* _assert_read_only: the evaluator, or anybody, moved the candidate.
Judge(p) ==
    /\ At(p, "judge") /\ Workspace(p) = mem[p].before
    /\ \E verdict \in Judged :
          /\ disk' = Findings(p, verdict)
          /\ mem' = [mem EXCEPT ![p].pc = verdict, ![p].before = None,
                                ![p].evals = @ + 1]
    /\ UNCHANGED <<World, lock, mishap>>

ReadOnlyViolated(p) ==
    /\ At(p, "judge") /\ Workspace(p) # mem[p].before
    /\ Stop(p)

\* A repair is owed while one is left; the answer of the final audit is not
\* looked at, because the budget is spent by then.
ChangesRequested(p) ==
    /\ At(p, "changes_requested")
    /\ \/ Stop(p)
       \/ /\ MayRepair(p)
          /\ IF disk["state"].phase = "auditing"
             THEN Advance(p, "repairing", [mem[p] EXCEPT !.pc = "repair"])
             ELSE /\ Goto(p, "approved") /\ UNCHANGED <<disk, mishap>>
          /\ UNCHANGED World

EvaluatorStops(p) == At(p, "stopped") /\ Stop(p)

\* No round, no budget, no time, no plan session, or a call that failed.
PhaseRefuses(p) ==
    /\ \E pc \in {"implement", "derive", "audit", "judge", "repair",
                  "approved"} : At(p, pc)
    /\ Stop(p)
-----------------------------------------------------------------------------
(* The candidate reaches the checkout.                                     *)

\* _assert_receipt: the receipt on disk, and not the report, is the authority.
Receipted(p) ==
    disk["receipt"] = [run |-> mem[p].run, cand |-> mem[p].verified,
                       status |-> "passed"]

\* Every gate is settled before the journal exists.
Apply(p) ==
    /\ At(p, "approved") /\ Unmoved(p) /\ Receipted(p)
    /\ mem[p].verified # Base /\ checkout = Base
    /\ pending' = [run |-> mem[p].run, cand |-> mem[p].verified]
    /\ Goto(p, "move")
    /\ UNCHANGED <<disk, ledger, holder, checkout, archive, task, runs, mishap,
                   applied>>

Move(p) ==
    /\ At(p, "move")
    /\ checkout' = mem[p].verified
    /\ applied' = [applied EXCEPT ![mem[p].run] = TRUE]
    /\ Goto(p, "close")
    /\ UNCHANGED <<disk, ledger, holder, pending, archive, task, runs, mishap>>

Close(p) ==
    /\ At(p, "close")
    /\ pending' = None /\ Goto(p, "record")
    /\ UNCHANGED <<disk, ledger, holder, checkout, archive, task, runs, mishap,
                   applied>>

\* Moved back on the way out, or left to the next call's recovery.
ApplyFails(p) ==
    /\ At(p, "move") \/ At(p, "close")
    /\ \/ /\ checkout' = Base /\ pending' = None
          /\ applied' = [applied EXCEPT ![mem[p].run] = FALSE]
       \/ UNCHANGED <<checkout, pending, applied>>
    /\ Advance(p, "stopped", Idle)
    /\ UNCHANGED <<ledger, holder, archive, task, runs>>

Approve(p) ==
    /\ At(p, "record")
    /\ Advance(p, "approved", [mem[p] EXCEPT !.pc = "drop"])
    /\ UNCHANGED World

\* flat_workspace.remove: the record goes once the holder is proven gone.
RemoveHolder(p, r, pc) ==
    /\ ledger[r] # "none" /\ holder[r] # None
    /\ holder' = [holder EXCEPT ![r] = None]
    /\ Goto(p, pc)
    /\ UNCHANGED <<disk, ledger, checkout, pending, archive, task, runs,
                   mishap, applied>>

RemoveRecord(r) ==
    /\ ledger' = [ledger EXCEPT ![r] = "none"]
    /\ UNCHANGED <<disk, holder, checkout, pending, archive, task, runs,
                   mishap, applied>>

\* _release_workspace, on a successful end only.
Release(p) ==
    \/ At(p, "drop") /\ RemoveHolder(p, mem[p].run, "dropped")
    \/ At(p, "dropped") /\ Left(p) /\ RemoveRecord(mem[p].run)

-----------------------------------------------------------------------------
(* Finalization.                                                           *)

\* _bind_run: the state document and the binding, and the run the caller named.
RunBound(p) ==
    LET state == disk["state"]  binding == disk["binding"] IN
    /\ state # None
    /\ state.phase \in Terminal
    /\ state.run = mem[p].run
    /\ binding # None => binding.run = mem[p].run

\* _bind_workspace: both halves of the workspace, or neither.
WorkspaceBound(p) ==
    LET r == mem[p].run IN
    IF disk["binding"] = None
    THEN \A q \in Run : ledger[q] = "none"
    ELSE \/ ledger[r] = "none" /\ holder[r] = None
         \/ ledger[r] = "ready" /\ holder[r] # None

\* _bind_task: the manifest is the one this run was issued.
TaskBound ==
    /\ task.present
    /\ disk["binding"] # None /\ disk["binding"].task = task.number

\* index 1 stands for a call that was given the task, 0 for one that was not.
Finalizable(p, given) ==
    LET r == mem[p].run IN
    /\ RunBound(p) /\ pending = None /\ WorkspaceBound(p)
    /\ given => TaskBound
    /\ disk["binding"] # None /\ holder[r] # None => given

\* _build_archive: every document is copied.
Copied(r) == [disk |-> disk, ledger |-> ledger[r], tree |-> holder[r]]

\* A finished archive of this run is verified and cleaned up against.
Recovered(r) == archive[r].state = "complete"

BindRun(p) ==
    \E given \in BOOLEAN :
        LET r == mem[p].run IN
        /\ At(p, "bind_run") /\ Finalizable(p, given)
        /\ \/ /\ archive[r].state = "none"
              /\ archive' = [archive EXCEPT ![r].state = "partial"]
              /\ mem' = [mem EXCEPT ![p].pc = "verify", ![p].copy = Copied(r),
                                    ![p].task = IF given THEN 1 ELSE 0]
           \/ /\ Recovered(r) /\ UNCHANGED archive
              /\ mem' = [mem EXCEPT ![p].pc = "clean",
                                    ![p].task = IF given THEN 1 ELSE 0]
        /\ UNCHANGED <<disk, ledger, holder, checkout, pending, task, lock,
                       runs, mishap, applied>>

\* Nothing to finalize, finalized already, a gate, or half an archive.
FinalizeRefuses(p) ==
    /\ \/ At(p, "bind_run")
       \/ At(p, "verify") /\ mem[p].copy # Copied(mem[p].run)
    /\ End(p) /\ UNCHANGED <<World, disk>>

\* _verify_sources_unchanged, then the completion record, written last.
Verify(p) ==
    LET r == mem[p].run IN
    /\ At(p, "verify")
    /\ mem[p].copy = Copied(r)
    /\ archive' = [archive EXCEPT ![r] = [state |-> "complete",
                                          copy |-> mem[p].copy]]
    /\ mem' = [mem EXCEPT ![p].pc = "clean", ![p].copy = NoCopy]
    /\ UNCHANGED <<disk, ledger, holder, checkout, pending, task, lock, runs,
                   mishap, applied>>

\* _cleanup: the workspace first, and through its own authority.
CleanWorkspace(p) ==
    LET r == mem[p].run IN
    \/ /\ At(p, "clean")
       /\ IF holder[r] = None \/ disk["binding"] = None
          THEN Goto(p, "unlink") /\ UNCHANGED <<World, disk, mishap>>
          ELSE RemoveHolder(p, r, "cleaned")
    \/ /\ At(p, "cleaned") /\ Goto(p, "unlink") /\ RemoveRecord(r)

\* _unlink_verified: one name at a time, each still what was archived.
StillArchived(r, d) == disk[d] = archive[r].copy.disk[d]

Unlink(p) ==
    LET r == mem[p].run
        d == Removable[mem[p].index + 1] IN
    /\ At(p, "unlink") /\ mem[p].index < Len(Removable)
    /\ \/ archive[r].copy.disk[d] = Absent(d) /\ UNCHANGED disk
       \/ /\ archive[r].copy.disk[d] # Absent(d)
          /\ StillArchived(r, d) \/ disk[d] = Absent(d)
          /\ disk' = [disk EXCEPT ![d] = Absent(d)]
    /\ mem' = [mem EXCEPT ![p].index = @ + 1]
    /\ UNCHANGED <<World, lock, mishap>>

\* The task manifest goes last, if the caller handed it over.  The copies of
\* a run that is gone are not looked at again and are forgotten here.
CleanTask(p) ==
    /\ At(p, "unlink") /\ mem[p].index = Len(Removable)
    /\ task' = [task EXCEPT !.present = @ /\ mem[p].task = 0]
    /\ archive' = [archive EXCEPT ![mem[p].run].copy = NoCopy]
    /\ End(p)
    /\ UNCHANGED <<disk, ledger, holder, checkout, pending, runs, applied>>

-----------------------------------------------------------------------------
(* The operator.                                                           *)

\* Somebody edits the tree of a workspace.
Touch ==
    \E r \in Run, c \in Tree :
        /\ mishap.edits < MaxTouch /\ holder[r] \notin {None, c}
        /\ holder' = [holder EXCEPT ![r] = c]
        /\ mishap' = [mishap EXCEPT !.edits = @ + 1]
        /\ UNCHANGED <<disk, ledger, checkout, pending, archive, task, lock,
                       mem, runs, applied>>

\* The state document is damaged while nothing runs.
Damage ==
    /\ mishap.edits < MaxTouch /\ lock = None /\ disk["state"] # None
    /\ disk' = [disk EXCEPT !["state"].phase = "damaged"]
    /\ mishap' = [mishap EXCEPT !.edits = @ + 1]
    /\ UNCHANGED <<World, lock, mem>>

\* The checkout is committed or restored, and the next task is written.
NextTask ==
    /\ lock = None /\ pending = None /\ task.number < MaxTask
    /\ task' = [number |-> task.number + 1, present |-> TRUE]
    /\ checkout' = Base
    /\ UNCHANGED <<disk, ledger, holder, pending, archive, lock, mem, runs,
                   mishap, applied>>

-----------------------------------------------------------------------------
(* The specification.                                                      *)

RunStep(p) ==
    \/ Preflight(p) \/ PreflightRefuses(p)
    \/ Register(p) \/ NothingLeft(p) \/ Materialise(p) \/ MaterialiseFails(p)
    \/ Bind(p) \/ Enter(p) \/ Implement(p) \/ Repair(p) \/ ModelFails(p)
    \/ Derive(p) \/ Measure(p) \/ Accepted(p) \/ Rejected(p)
    \/ Audit(p) \/ Judge(p) \/ ReadOnlyViolated(p) \/ ChangesRequested(p)
    \/ EvaluatorStops(p) \/ PhaseRefuses(p)
    \/ Apply(p) \/ Move(p) \/ Close(p) \/ ApplyFails(p) \/ Approve(p)
    \/ Release(p)

FinalizeStep(p) ==
    \/ BindRun(p) \/ FinalizeRefuses(p) \/ Verify(p) \/ CleanWorkspace(p)
    \/ Unlink(p) \/ CleanTask(p)

Step(p) == Recover(p) \/ RecoverFails(p) \/ Reread(p) \/ RunStep(p)
           \/ FinalizeStep(p)

Next ==
    \/ \E p \in Proc : \/ StartRun(p) \/ StartResume(p) \/ StartFinalize(p)
                       \/ Step(p) \/ Crash(p)
    \/ Touch \/ Damage \/ NextTask

Spec == Init /\ [][Next]_vars
-----------------------------------------------------------------------------
(* Properties.                                                             *)

StateDoc == [run : Run, task : 1..MaxTask, phase : Phases \cup {"damaged"}]

\* TypeOK: every document holds what the code writes to it, and the lock is
\* held by the one process that is inside a call (single_instance_lock).
TypeOK ==
    /\ {disk["state"], disk["backup"]} \subseteq StateDoc \cup {None}
    /\ disk["binding"] \in [run : Run, task : 1..MaxTask] \cup {None}
    /\ disk["events"] \subseteq Run
    /\ disk["receipt"] \in {None} \cup
          [run : Run, cand : Tree, status : {"pending", "passed", "failed"}]
    /\ disk["findings"] \in {None} \cup
          [run : Run, verdict : Judged]
    /\ ledger \in [Run -> {"none", "registered", "materializing", "ready",
                           "failed"}]
    /\ holder \in [Run -> Tree \cup {None}]
    /\ checkout \in Tree
    /\ \A p \in Proc : (lock = p) <=> ~At(p, "idle")
    /\ \A p \in Proc : mem[p].repairs <= MaxRepair /\ mem[p].evals <= MaxEval

\* HoldersAreRecorded: a workspace on disk is named by the ledger in every
\* crash window of create, of the failure path and of remove, so a residue is
\* always findable (flat_workspace: the record is written ahead).
HoldersAreRecorded == \A r \in Run : holder[r] # None => ledger[r] # "none"

\* ApprovedMeansApplied: a run says approved only if its candidate was moved
\* into the checkout and not moved back (_approve).
ApprovedMeansApplied ==
    disk["state"] # None /\ disk["state"].phase = "approved"
        => applied[disk["state"].run]

\* AppliedWasAccepted: when a candidate reaches the checkout, this run's last
\* acceptance passed on it and this run's last verdict is an approval; neither
\* is inherited from an earlier round or an earlier run (_accept, _verdict).
AppliedWasAccepted ==
    [][\A r \in Run :
          ~applied[r] /\ applied'[r] =>
              /\ disk["receipt"] = [run |-> r, cand |-> checkout',
                                    status |-> "passed"]
              /\ disk["findings"].run = r
              /\ disk["findings"].verdict = "approved"]_vars

\* RecordsTellTheTree: what the state directory says of workspaces and of an
\* approval is what lies in the holders and in the checkout, and what came into
\* the checkout was accepted and approved there.
RecordsTellTheTree ==
    [](TypeOK /\ HoldersAreRecorded /\ ApprovedMeansApplied) /\ AppliedWasAccepted

\* RunsStartWhole: no run opens its state while a crashed application is half
\* in the checkout or while another run is unfinished (_recover_applications,
\* assert_state_directory).
RunsStartWhole ==
    [][runs' # runs => /\ pending = None /\ checkout = Base
                       /\ disk["state"] = None
                          \/ disk["state"].phase \in Terminal]_vars

\* UnfinishedIsKept: the record of a run that has not ended is changed by the
\* process that runs it and by nobody else, through crashes, other runs,
\* resume and finalize.
UnfinishedIsKept ==
    [][LET s == disk["state"] IN
          s # None /\ s.phase \in Phases \ Terminal /\ disk'["state"] # s =>
              \/ disk'["state"] = [s EXCEPT !.phase = "damaged"]
              \/ \E p \in Proc : /\ lock = p /\ mem[p].call = "run"
                                 /\ mem[p].run = s.run]_vars

\* EveryStopIsRecorded: a run that opened its state and returns without dying
\* leaves a terminal state behind, unless its workspace could not be built.
EveryStopIsRecorded ==
    [][\A p \in Proc :
          /\ ~At(p, "idle") /\ mem'[p].pc = "idle" /\ mishap' = mishap
          /\ mem[p].call = "run" /\ mem[p].run # 0 /\ ~MaterialiseFails(p)
          => disk'["state"].phase \in Terminal]_vars

\* CleanupFollowsArchive: what finalize removes from the state directory, and
\* the workspace, has a finished archive that holds the same document.
CleanupFollowsArchive ==
    [][\A p \in Proc :
          lock = p /\ mem[p].call = "finalize" =>
              LET a == archive[mem[p].run] IN
              /\ \A d \in Doc : disk'[d] # disk[d] =>
                                   a.state = "complete" /\ a.copy.disk[d] = disk[d]
              /\ holder'[mem[p].run] = None /\ holder[mem[p].run] # None
                    => a.state = "complete"]_vars

\* RunsKeepTheirRecord: a run starts over nothing unfinished, keeps its record
\* to itself, does not return without a terminal one, and loses it only to
\* its archive.
RunsKeepTheirRecord ==
    RunsStartWhole /\ UnfinishedIsKept /\ EveryStopIsRecorded
        /\ CleanupFollowsArchive
=============================================================================
