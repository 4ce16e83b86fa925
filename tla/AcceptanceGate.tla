--------------------------- MODULE AcceptanceGate ---------------------------
(* One acceptance of a candidate after another: the receipt that is pending   *)
(* before anything runs, the disposable mirror built from the baseline, the   *)
(* candidate and the operator's corpus, the commands that run in it, its      *)
(* removal and the status the receipt ends with.  Meanwhile the workspace,    *)
(* the corpus and the task file belong to others, and the process may die.    *)
EXTENDS Integers

CONSTANTS
    File,        \* files of the candidate, and of the corpus
    Commands,    \* commands the task names, in order
    MaxAttempt,  \* acceptances observed
    MaxEdit      \* writes of others observed

ASSUME GateAssumption == Commands \in Nat /\ MaxAttempt \in Nat /\ MaxEdit \in Nat

VARIABLES
    edits,    \* writes of others so far; the number of a write is its content
    tree,     \* the implementer's workspace; 0 is the baseline
    corpus,   \* the operator's ignored directories the scanner reads
    task,     \* the task file
    gate,     \* the acceptance under way
    mirror,   \* the holder it owns
    receipt,  \* acceptance-receipt.json
    measured  \* of each attempt, the tree its commands started on and their exits

gateVars == <<edits, tree, corpus, task, gate, mirror, receipt, measured>>

EditCount == 0..MaxEdit
Attempt == 1..MaxAttempt
Contents == [File -> EditCount]
Untouched == [f \in File |-> 0]

Phases == {"idle", "derive", "receipt", "holder", "marker", "baseline", "copy",
           "compare", "corpus", "recheck", "git", "walk", "remove", "conclude"}

GateTypeOK ==
    /\ edits \in EditCount /\ tree \in Contents /\ corpus \in Contents /\ task \in EditCount
    /\ gate \in [pc : Phases, attempt : 0..MaxAttempt, claimed : Contents,
                 issued : EditCount, todo : SUBSET File, before : Contents,
                 next : 1..Commands + 1, error : BOOLEAN]
    /\ mirror \in [attempt : 0..MaxAttempt, marked : BOOLEAN, tree : Contents,
                   corpus : Contents]
    /\ receipt \in [attempt : 0..MaxAttempt, candidate : Contents, task : EditCount,
                    status : {"none", "pending", "passed", "failed"}]
    /\ measured \in [Attempt -> [tree : Contents, corpus : Contents, zeros : 0..Commands]]

Idle == [pc |-> "idle", attempt |-> 0, claimed |-> Untouched, issued |-> 0,
         todo |-> {}, before |-> Untouched, next |-> 1, error |-> FALSE]
NoMirror == [attempt |-> 0, marked |-> FALSE, tree |-> Untouched, corpus |-> Untouched]

GateInit ==
    /\ edits = 0 /\ tree = Untouched /\ corpus = Untouched /\ task = 0
    /\ gate = Idle /\ mirror = NoMirror
    /\ receipt = [attempt |-> 0, candidate |-> Untouched, task |-> 0, status |-> "none"]
    /\ measured = [a \in Attempt |->
                     [tree |-> Untouched, corpus |-> Untouched, zeros |-> 0]]

-----------------------------------------------------------------------------
(* The others.                                                                *)

SomeoneWrites ==
    /\ edits < MaxEdit /\ edits' = edits + 1
    /\ \/ /\ \E f \in File : tree' = [tree EXCEPT ![f] = edits']
          /\ UNCHANGED <<corpus, task>>
       \/ /\ \E f \in File : corpus' = [corpus EXCEPT ![f] = edits']
          /\ UNCHANGED <<tree, task>>
       \/ /\ task' = edits'
          /\ UNCHANGED <<tree, corpus>>
    /\ UNCHANGED <<gate, mirror, receipt, measured>>

-----------------------------------------------------------------------------
(* run_acceptance.                                                            *)

Went(pc) == gate' = [gate EXCEPT !.pc = pc]
Others == <<edits, tree, corpus, task>>

\* The caller measured the candidate and the task some time before the call.
Begin ==
    /\ gate.pc = "idle" /\ gate.attempt < MaxAttempt
    /\ gate' = [Idle EXCEPT !.pc = "derive", !.attempt = gate.attempt + 1,
                            !.claimed = tree, !.issued = task]
    /\ UNCHANGED <<Others, mirror, receipt, measured>>

Return == gate' = [Idle EXCEPT !.attempt = gate.attempt]

\* The fresh derivation is the gate: it must be the claim, under the same task.
Derive ==
    /\ gate.pc = "derive"
    /\ IF tree = gate.claimed /\ task = gate.issued THEN Went("receipt") ELSE Return
    /\ UNCHANGED <<Others, mirror, receipt, measured>>

Receipt(status) ==
    [attempt |-> gate.attempt, candidate |-> gate.claimed, task |-> gate.issued,
     status |-> status]

\* _persist_receipt: replaced atomically and read back; either may fail.
Persisted(status) == receipt' \in {receipt, Receipt(status)}

WritePending ==
    /\ gate.pc = "receipt"
    /\ Persisted("pending")
    /\ Return \/ (receipt' = Receipt("pending") /\ Went("holder"))
    /\ UNCHANGED <<Others, mirror, measured>>

\* Building the mirror, one step at a time.  What fails before the mirror is
\* handed out removes it at once; what fails later leaves that to remove.
CreateHolder ==
    /\ gate.pc = "holder"
    /\ \/ /\ mirror' = [NoMirror EXCEPT !.attempt = gate.attempt]
          /\ Went("marker")
       \/ /\ gate' = [gate EXCEPT !.pc = "conclude", !.error = TRUE]
          /\ UNCHANGED mirror
    /\ UNCHANGED <<Others, receipt, measured>>

WriteMarker ==
    /\ gate.pc = "marker"
    /\ mirror' = [mirror EXCEPT !.marked = TRUE]
    /\ gate' = [gate EXCEPT !.pc = "copy", !.todo = File]
    /\ UNCHANGED <<Others, receipt, measured>>

\* _apply_changes: each file is read once and must be what the evidence hashed.
CopyFile(f) ==
    /\ gate.pc = "copy" /\ f \in gate.todo /\ tree[f] = gate.claimed[f]
    /\ mirror' = [mirror EXCEPT !.tree[f] = tree[f]]
    /\ gate' = [gate EXCEPT !.todo = @ \ {f}]
    /\ UNCHANGED <<Others, receipt, measured>>

CompareRoots ==
    /\ gate.pc = "copy" /\ gate.todo = {} /\ mirror.tree = tree
    /\ gate' = [gate EXCEPT !.pc = "corpus", !.todo = File, !.before = corpus]
    /\ UNCHANGED <<Others, mirror, receipt, measured>>

CopyCorpus(f) ==
    /\ gate.pc = "corpus" /\ f \in gate.todo
    /\ mirror' = [mirror EXCEPT !.corpus[f] = corpus[f]]
    /\ gate' = [gate EXCEPT !.todo = @ \ {f}]
    /\ UNCHANGED <<Others, receipt, measured>>

\* The evidence of the corpus is taken on both sides of the copy.
CorpusUnmoved == corpus = gate.before

RecheckCorpus ==
    /\ gate.pc = "corpus" /\ gate.todo = {} /\ CorpusUnmoved
    /\ Went("git")
    /\ UNCHANGED <<Others, mirror, receipt, measured>>

\* A refusal or an error while the mirror is built: _remove_tree may fail, and
\* the error travels on either way.
BuildFails ==
    /\ gate.pc \in {"marker", "copy", "corpus"}
    /\ gate' = [gate EXCEPT !.pc = "conclude", !.error = TRUE]
    /\ mirror' \in {NoMirror, mirror, [mirror EXCEPT !.marked = FALSE]}
    /\ UNCHANGED <<Others, receipt, measured>>

\* _prepare_git: the mirror's own metadata, made by the first contained call.
PrepareGit ==
    /\ gate.pc = "git"
    /\ \/ /\ Went("walk")
          /\ measured' = [measured EXCEPT ![gate.attempt] =
                            [@ EXCEPT !.tree = mirror.tree, !.corpus = mirror.corpus]]
       \/ /\ gate' = [gate EXCEPT !.pc = "remove", !.error = TRUE]
          /\ UNCHANGED measured
    /\ UNCHANGED <<Others, mirror, receipt>>

More == gate.next <= Commands

\* _walk: the task is asked again before each command; a command exits zero, or
\* not, or is refused; it may write what it likes into the mirror.
RunCommand ==
    /\ gate.pc = "walk" /\ More
    /\ \/ /\ task = gate.issued
          /\ \/ /\ gate' = [gate EXCEPT !.next = @ + 1]
                /\ measured' = [measured EXCEPT ![gate.attempt].zeros = @ + 1]
             \/ Went("remove") /\ UNCHANGED measured
          /\ mirror' \in {mirror, [mirror EXCEPT !.marked = FALSE],
                          [mirror EXCEPT !.tree = Untouched]}
       \/ /\ gate' = [gate EXCEPT !.pc = "remove", !.error = TRUE]
          /\ UNCHANGED <<mirror, measured>>
    /\ UNCHANGED <<Others, receipt>>

WalkEnds ==
    /\ gate.pc = "walk" /\ ~More
    /\ Went("remove")
    /\ UNCHANGED <<Others, mirror, receipt, measured>>

\* remove deletes the holder that carries this acceptance's marker; a mirror
\* that is not proven gone is an error of the whole measurement.
RemoveMirror ==
    /\ gate.pc = "remove"
    /\ \/ /\ mirror.marked /\ mirror' = NoMirror
          /\ Went("conclude")
       \/ /\ mirror' \in {mirror, [mirror EXCEPT !.marked = FALSE]}
          /\ gate' = [gate EXCEPT !.pc = "conclude", !.error = TRUE]
    /\ UNCHANGED <<Others, receipt, measured>>

\* Mutant: a command that passed stands for all of them.
PassedSoFar == gate.next > 1

Passed == gate.next = Commands + 1

\* The status is on disk before the report exists.
Conclude ==
    /\ gate.pc = "conclude"
    /\ Persisted(IF Passed /\ ~gate.error THEN "passed" ELSE "failed")
    /\ Return
    /\ UNCHANGED <<Others, mirror, measured>>

\* The process dies: what is on disk stays.
GateDies ==
    /\ gate.pc # "idle"
    /\ Return
    /\ UNCHANGED <<Others, mirror, receipt, measured>>

GateNext ==
    \/ SomeoneWrites \/ Begin \/ Derive \/ WritePending \/ CreateHolder
    \/ WriteMarker \/ (\E f \in File : CopyFile(f) \/ CopyCorpus(f))
    \/ CompareRoots \/ RecheckCorpus \/ BuildFails \/ PrepareGit \/ RunCommand
    \/ WalkEnds \/ RemoveMirror \/ Conclude \/ GateDies

GateSpec == GateInit /\ [][GateNext]_gateVars

-----------------------------------------------------------------------------
\* acceptance.py: a green receipt names a candidate this run had in front of it.
\* Its commands all exited zero, they started on exactly the files the receipt
\* fingerprints, and the mirror of that attempt is gone.
PassedIsEarned ==
    receipt.status = "passed" =>
        /\ measured[receipt.attempt].zeros = Commands
        /\ measured[receipt.attempt].tree = receipt.candidate
        /\ mirror.attempt # receipt.attempt

\* A green result is never inherited: from its first mirror byte on, an attempt
\* stands on its own receipt, and that one is pending.
AttemptOwnsReceipt ==
    mirror.attempt = gate.attempt /\ gate.pc \notin {"idle", "derive", "receipt"}
        => receipt = Receipt("pending")

\* _corpus_evidence: the scanner reads the corpus of one moment, never a mixture of
\* two that never existed together.
CorpusIsOneMoment ==
    gate.pc = "walk" => measured[gate.attempt].corpus = gate.before

\* The receipt, the mirror and the corpus of an attempt belong together.
GateAgrees ==
    GateTypeOK /\ PassedIsEarned /\ AttemptOwnsReceipt /\ CorpusIsOneMoment
=============================================================================
