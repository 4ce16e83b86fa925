------------------------- MODULE ApplicationJournal -------------------------
(***************************************************************************)
(* Applying an accepted candidate to the operator's checkout: a table of   *)
(* file moves between the repository and a holder beside it, executed      *)
(* behind a write-ahead journal, verified, and undone in reverse on every  *)
(* failure; and the recovery that the next run starts with.  The operator  *)
(* keeps working in the checkout meanwhile, and the process may die        *)
(* between any two steps.                                                  *)
(*                                                                         *)
(* A POSIX move is a link to the new name followed by an unlink of the old *)
(* one.  New directories are not nested in one another.                    *)
(***************************************************************************)
EXTENDS Naturals, Sequences, SequencesExt

CONSTANTS
    Path, Dir,  \* files of the checkout, directories the candidate may need
    Parent,     \* the directory of a path, None for one that always exists
    Change,     \* the candidate: a sequence of [path, kind]
    Base,       \* working-tree forms that git cleans to the baseline's blob
    New,        \* the candidate's content of the path it stands at
    Mine,       \* identities of the operator's edits, one for each
    None,       \* a free name
    MaxCrash, MaxFault  \* bounds on crashes and on failing steps

ASSUME ApplicationAssumption ==
    /\ Parent \in [Path -> Dir \cup {None}]
    /\ Change \in Seq([path : Path, kind : {"added", "modified", "deleted"}])
    /\ \A i, j \in 1..Len(Change) :
          i # j => Change[i].path # Change[j].path
    /\ New \notin Base \cup Mine \cup {None} /\ None \notin Base \cup Mine
    /\ Base \cap Mine = {} /\ None \notin Dir
    /\ MaxCrash \in Nat /\ MaxFault \in Nat

VARIABLES
    at,         \* the content at every place, repository and holder
    dirs,       \* directories that exist
    holder,     \* "none", "made", or "slots" once its slot directory exists
    journal,    \* the journal on disk
    plan,       \* the move plan: checkout read, bytes displaced, directories
    proc,       \* the running application or recovery
    result,     \* how the last one ended
    own,        \* the checkout as its operator left it, the candidate included
                \* once it has been applied
    mishap      \* edits, crashes and faults so far; files saved too late for
                \* the proof of a move, and since the checkout was verified

vars == <<at, dirs, holder, journal, plan, proc, result, own, mishap>>

Content == Base \cup Mine \cup {New, None}
Place   == {"repo", "staged", "backup"} \X Path
Repo(p)   == <<"repo", p>>
Staged(p) == <<"staged", p>>
Backup(p) == <<"backup", p>>

Changed == {Change[i].path : i \in 1..Len(Change)}
Kind(p) == IF p \in Changed
           THEN (CHOOSE c \in {Change[i] : i \in 1..Len(Change)} :
                    c.path = p).kind
           ELSE "untouched"

\* A modified file is displaced and then replaced; its bytes are never written.
MovesOf(c) ==
    (IF c.kind = "added" THEN <<>> ELSE <<[path |-> c.path, way |-> "out"]>>)
    \o (IF c.kind = "deleted" THEN <<>> ELSE <<[path |-> c.path, way |-> "in"]>>)

Moves == FlattenSeq([i \in 1..Len(Change) |-> MovesOf(Change[i])])

\* The table is of changed files, an added one has nothing to displace, and no
\* move is listed twice.
ASSUME MovesAssumption ==
    /\ Moves \in Seq([path : Path, way : {"out", "in"}])
    /\ \A i \in 1..Len(Moves) :
          /\ Moves[i].path \in Changed
          /\ Moves[i].way = "out" => Kind(Moves[i].path) # "added"
    /\ \A i, j \in 1..Len(Moves) :
          Moves[i].path = Moves[j].path /\ Moves[i].way = Moves[j].way => i = j

Source(m) == IF m.way = "out" THEN Repo(m.path) ELSE Staged(m.path)
Target(m) == IF m.way = "out" THEN Backup(m.path) ELSE Repo(m.path)
Expected(m) == IF m.way = "out" THEN plan.sha[m.path] ELSE New

Down == [pc |-> "idle", state |-> "none", index |-> 0, back |-> FALSE,
         left |-> {}]

\* The move the process is at, and its two ends in the direction it works in.
Current == Moves[proc.index]
Here    == IF proc.back THEN Target(Current) ELSE Source(Current)
There   == IF proc.back THEN Source(Current) ELSE Target(Current)

Init ==
    /\ dirs \in SUBSET Dir
    /\ own \in [Path -> Base \cup {None}]
    /\ \A p \in Path : own[p] # None <=> Kind(p) \in {"modified", "deleted"}
    /\ at = [l \in Place |-> IF l[1] = "repo" THEN own[l[2]] ELSE None]
    /\ holder = "none"
    /\ journal = [state |-> "none", index |-> 0]
    /\ plan = [before |-> own, sha |-> own, dirs |-> {}]
    /\ proc = Down
    /\ result = "none"
    /\ mishap = [edits |-> {}, crashes |-> 0, faults |-> 0,
                 late |-> {}, since |-> {}]

\* The process goes on at pc.
Goto(pc) == proc' = [proc EXCEPT !.pc = pc]

\* The call ends, by returning or by raising.
End(outcome) == proc' = Down /\ result' = outcome

-----------------------------------------------------------------------------
(* The journal.                                                            *)

\* ALLOWED_JOURNAL_TRANSITIONS; "failed" is written without consulting it.
Allowed(s) ==
    CASE s = "registered"   -> {"prepared", "rolling_back"}
      [] s = "prepared"     -> {"applying", "rolling_back"}
      [] s = "applying"     -> {"applied", "rolling_back"}
      [] s = "rolling_back" -> {"rolled_back"}
      [] OTHER              -> {}

\* One legal step, durable before the process goes on at pc.
Advance(s, pc) ==
    /\ s \in Allowed(proc.state)
    /\ journal' = [state |-> s, index |-> proc.index]
    /\ proc' = [proc EXCEPT !.state = s, !.pc = pc]

Pending ==
    /\ holder # "none"
    /\ journal.state \notin {"none", "applied", "rolled_back"}

-----------------------------------------------------------------------------
(* Applying.                                                               *)

\* _plan: an added name is free, the others still clean to the baseline.
Plannable ==
    \A p \in Changed : IF Kind(p) = "added" THEN at[Repo(p)] = None
                                            ELSE at[Repo(p)] \in Base

MissingDirs == {Parent[p] : p \in {q \in Changed : Kind(q) = "added"}}
                    \ (dirs \cup {None})

\* main_projection reads the checkout, for the difference verify will take.
Start ==
    /\ proc.pc = "idle" /\ ~Pending
    /\ plan' = [plan EXCEPT !.before = [p \in Path |-> at[Repo(p)]]]
    /\ Goto("plan")
    /\ result' = "none"
    /\ UNCHANGED <<at, dirs, holder, journal, own, mishap>>

\* The targets are read again, for the moves.
Plan ==
    /\ proc.pc = "plan" /\ Plannable
    /\ plan' = [plan EXCEPT !.sha = [p \in Path |-> at[Repo(p)]],
                            !.dirs = MissingDirs]
    /\ Goto("holder")
    /\ UNCHANGED <<at, dirs, holder, journal, result, own, mishap>>

PlanRefused ==
    /\ proc.pc = "plan" /\ ~Plannable
    /\ End("refused")
    /\ UNCHANGED <<at, dirs, holder, journal, plan, own, mishap>>

\* A fresh holder under a fresh id; an older one is residue nobody reads.
MakeHolder ==
    /\ proc.pc = "holder"
    /\ holder' = "made"
    /\ journal' = [state |-> "none", index |-> 0]
    /\ at' = [l \in Place |-> IF l[1] = "repo" THEN at[l] ELSE None]
    /\ Goto("journal")
    /\ UNCHANGED <<dirs, plan, result, own, mishap>>

WriteJournal ==
    /\ proc.pc = "journal"
    /\ journal' = [state |-> "registered", index |-> 0]
    /\ proc' = [proc EXCEPT !.state = "registered", !.pc = "slots"]
    /\ UNCHANGED <<at, dirs, holder, plan, result, own, mishap>>

MakeSlots ==
    /\ proc.pc = "slots"
    /\ holder' = "slots"
    /\ Goto("stage")
    /\ UNCHANGED <<at, dirs, journal, plan, result, own, mishap>>

\* The accepted bytes are copied into the slots, flushed and read back.
Stage ==
    /\ proc.pc = "stage"
    /\ at' = [l \in Place |->
                 IF l[1] = "staged" /\ Kind(l[2]) \in {"added", "modified"}
                 THEN New ELSE at[l]]
    /\ Goto("prepare")
    /\ UNCHANGED <<dirs, holder, journal, plan, result, own, mishap>>

Prepare ==
    /\ proc.pc = "prepare"
    /\ Advance("prepared", "dirs")
    /\ UNCHANGED <<at, dirs, holder, plan, result, own, mishap>>

MakeDirectory ==
    /\ proc.pc = "dirs"
    /\ \E d \in plan.dirs \ dirs : dirs' = dirs \cup {d}
    /\ UNCHANGED <<at, holder, journal, plan, proc, result, own, mishap>>

BeginMoves ==
    /\ proc.pc = "dirs" /\ plan.dirs \subseteq dirs
    /\ Advance("applying", "next")
    /\ UNCHANGED <<at, dirs, holder, plan, result, own, mishap>>

MovesRemain == proc.index < Len(Moves)

\* The intent of a move is durable before the move.
Intent ==
    /\ proc.pc = "next" /\ MovesRemain
    /\ proc' = [proc EXCEPT !.index = @ + 1, !.pc = "prove"]
    /\ journal' = [journal EXCEPT !.index = proc.index + 1]
    /\ UNCHANGED <<at, dirs, holder, plan, result, own, mishap>>

\* verify reads the whole checkout again: what differs from the first reading
\* is the candidate, kind by kind, and nothing else.
Difference(p) ==
    LET before == plan.before[p]  after == at[Repo(p)] IN
    CASE before = after -> "untouched"
      [] before = None  -> "added"
      [] after = None   -> "deleted"
      [] OTHER          -> "modified"

Applied(p) == IF Kind(p) = "deleted" THEN None ELSE New

\* Wrong: the candidate's own files are taken to be as they were moved.
OthersVerified == \A p \in Path \ Changed : Difference(p) = "untouched"

Verified ==
    /\ \A p \in Path : Difference(p) = Kind(p)
    /\ \A p \in Changed : at[Repo(p)] = Applied(p)

Verify ==
    /\ proc.pc = "next" /\ ~MovesRemain
    /\ Goto(IF Verified THEN "commit" ELSE "back")
    /\ mishap' = [mishap EXCEPT !.since = {}]
    /\ UNCHANGED <<at, dirs, holder, journal, plan, result, own>>

\* From here on the candidate is the operator's, but for what they saved after
\* the verification.
Delivered == Changed \ mishap.since

Commit ==
    /\ proc.pc = "commit"
    /\ Advance("applied", "remove")
    /\ own' = [p \in Path |-> IF p \in Delivered THEN Applied(p) ELSE own[p]]
    /\ mishap' = [mishap EXCEPT !.late = @ \ Delivered]
    /\ UNCHANGED <<at, dirs, holder, plan, result>>

-----------------------------------------------------------------------------
(* One move, in either direction.                                          *)

\* What a failing step leads to: undoing, or a rollback that is not proven.
OnFailure == IF proc.back THEN "broken" ELSE "back"

\* _execute proves the bytes it is about to move.
Prove ==
    /\ proc.pc = "prove"
    /\ Goto(IF at[Here] = Expected(Current) THEN "link" ELSE OnFailure)
    /\ UNCHANGED <<at, dirs, holder, journal, plan, result, own, mishap>>

\* Wrong: rename semantics, an occupied name is replaced.
NameIsReplaced == TRUE

\* link refuses an occupied name.
NameIsFree == at[There] = None

CanLink ==
    /\ at[Here] # None
    /\ NameIsFree
    /\ There[1] = "repo" => Parent[There[2]] \in dirs \cup {None}

Link ==
    /\ proc.pc = "link"
    /\ IF CanLink
       THEN at' = [at EXCEPT ![There] = at[Here]] /\ Goto("unlink")
       ELSE at' = at /\ Goto(OnFailure)
    /\ UNCHANGED <<dirs, holder, journal, plan, result, own, mishap>>

Unlink ==
    /\ proc.pc = "unlink"
    /\ at' = [at EXCEPT ![Here] = None]
    /\ Goto(IF at[Here] = None THEN OnFailure
            ELSE IF proc.back THEN "retreat" ELSE "next")
    /\ UNCHANGED <<dirs, holder, journal, plan, result, own, mishap>>

-----------------------------------------------------------------------------
(* Undoing.                                                                *)

BeginRollback ==
    /\ proc.pc = "back" /\ "rolling_back" \in Allowed(proc.state)
    /\ journal' = [state |-> "rolling_back", index |-> proc.index]
    /\ proc' = [proc EXCEPT !.state = "rolling_back", !.back = TRUE,
                            !.left = plan.dirs, !.pc = "undo"]
    /\ UNCHANGED <<at, dirs, holder, plan, result, own, mishap>>

\* The transition table has no way on from the state the journal is in.
RollbackRefused ==
    /\ proc.pc = "back" /\ "rolling_back" \notin Allowed(proc.state)
    /\ End("blocked")
    /\ UNCHANGED <<at, dirs, holder, journal, plan, own, mishap>>

\* Wrong: an announced move is taken for a finished one.
LocateAsDone ==
    /\ proc.pc = "undo" /\ proc.index > 0
    /\ Goto(IF at[Target(Current)] = Expected(Current) THEN "prove"
            ELSE "broken")
    /\ UNCHANGED <<at, dirs, holder, journal, plan, result, own, mishap>>

\* _undo locates the object first: at the target, the move is undone; at its
\* source, it never happened; anywhere else, somebody has been in the tree.
Locate ==
    /\ proc.pc = "undo" /\ proc.index > 0
    /\ Goto(CASE at[Target(Current)] = Expected(Current) -> "prove"
              [] /\ at[Target(Current)] # Expected(Current)
                 /\ at[Source(Current)] = Expected(Current) -> "retreat"
              [] OTHER -> "broken")
    /\ UNCHANGED <<at, dirs, holder, journal, plan, result, own, mishap>>

Retreat ==
    /\ proc.pc = "retreat"
    /\ proc' = [proc EXCEPT !.index = @ - 1, !.pc = "undo"]
    /\ journal' = [journal EXCEPT !.index = proc.index - 1]
    /\ UNCHANGED <<at, dirs, holder, plan, result, own, mishap>>

Empty(d) == \A p \in Path : Parent[p] = d => at[Repo(p)] = None

\* Every directory the plan found missing, whoever has made it since: removed
\* when empty, kept when it is not, a failed rollback when it was never made.
RemoveDirectory ==
    /\ proc.pc = "undo" /\ proc.index = 0
    /\ \E d \in proc.left :
          IF d \in dirs
          THEN /\ dirs' = IF Empty(d) THEN dirs \ {d} ELSE dirs
               /\ proc' = [proc EXCEPT !.left = @ \ {d}]
          ELSE dirs' = dirs /\ Goto("broken")
    /\ UNCHANGED <<at, holder, journal, plan, result, own, mishap>>

Settle ==
    /\ proc.pc = "undo" /\ proc.index = 0 /\ proc.left = {}
    /\ Advance("rolled_back", "remove")
    /\ UNCHANGED <<at, dirs, holder, plan, result, own, mishap>>

\* The journal is left FAILED with its backups, and RollbackFailed raised.
Break ==
    /\ proc.pc = "broken"
    /\ journal' = [state |-> "failed", index |-> proc.index]
    /\ End("unknown")
    /\ UNCHANGED <<at, dirs, holder, plan, own, mishap>>

\* The holder goes, with everything that is left in its slots.
RemoveHolder ==
    /\ proc.pc \in {"remove", "discard"}
    /\ holder' = "none"
    /\ journal' = [state |-> "none", index |-> 0]
    /\ at' = [l \in Place |-> IF l[1] = "repo" THEN at[l] ELSE None]
    /\ End(IF proc.pc = "discard" THEN "refused"
           ELSE IF proc.state = "applied" THEN "applied" ELSE "restored")
    /\ UNCHANGED <<dirs, plan, own, mishap>>

-----------------------------------------------------------------------------
(* Failures, crashes and recovery.                                         *)

CountFault ==
    /\ mishap.faults < MaxFault
    /\ mishap' = [mishap EXCEPT !.faults = @ + 1]

\* A step before the slots are open fails: nothing moved, nothing to undo.
EarlyStepFails ==
    /\ proc.pc \in {"plan", "holder", "journal", "slots"}
    /\ CountFault
    /\ IF proc.pc \in {"plan", "holder"} THEN End("refused")
                                        ELSE Goto("discard") /\ UNCHANGED result
    /\ UNCHANGED <<at, dirs, holder, journal, plan, own>>

\* The slots exist but cannot be opened: the handler names `slots`, which is not
\* bound yet, so nothing is undone and the holder stays.
SlotsUnbound ==
    /\ proc.pc = "slots"
    /\ CountFault
    /\ holder' = "slots"
    /\ End("refused")
    /\ UNCHANGED <<at, dirs, journal, plan, own>>

\* Any later step of the application or of a rollback fails before its effect.
StepFails ==
    /\ \/ proc.pc \in {"stage", "prepare", "dirs", "next", "commit", "prove",
                       "link", "unlink", "retreat"}
       \/ proc.pc = "undo" /\ (proc.index > 0 \/ proc.left # {})
    /\ CountFault
    /\ Goto(OnFailure)
    /\ UNCHANGED <<at, dirs, holder, journal, plan, result, own>>

\* The index is raised in memory, its write fails.
IntentFails ==
    /\ proc.pc = "next" /\ MovesRemain
    /\ CountFault
    /\ proc' = [proc EXCEPT !.index = @ + 1, !.pc = "back"]
    /\ UNCHANGED <<at, dirs, holder, journal, plan, result, own>>

\* A journal write of _rollback outside its try block, or the write of FAILED,
\* is refused: an ordinary refusal leaves the call and the holder stays.
JournalFails ==
    /\ \/ proc.pc \in {"back", "broken"}
       \/ proc.pc = "undo" /\ proc.index = 0 /\ proc.left = {}
    /\ CountFault
    /\ End("refused")
    /\ UNCHANGED <<at, dirs, holder, journal, plan, own>>

\* The holder cannot be removed; its terminal journal stays with it.
RemovalFails ==
    /\ proc.pc \in {"remove", "discard"}
    /\ CountFault
    /\ End(IF proc.pc = "discard" THEN "refused"
           ELSE IF proc.state = "applied" THEN "applied" ELSE "restored")
    /\ UNCHANGED <<at, dirs, holder, journal, plan, own>>

Crash ==
    /\ proc.pc # "idle" /\ mishap.crashes < MaxCrash
    /\ mishap' = [mishap EXCEPT !.crashes = @ + 1]
    /\ End("crashed")
    /\ UNCHANGED <<at, dirs, holder, journal, plan, own>>

\* The next run starts by rolling back what is pending; a record whose slots
\* were never made cannot be opened.
Recover ==
    /\ proc.pc = "idle" /\ Pending
    /\ IF holder = "slots"
       THEN /\ proc' = [Down EXCEPT !.pc = "back", !.index = journal.index,
                            !.state = IF journal.state = "failed"
                                      THEN "applying" ELSE journal.state]
            /\ result' = "none"
       ELSE End("blocked")
    /\ UNCHANGED <<at, dirs, holder, journal, plan, own, mishap>>

-----------------------------------------------------------------------------
(* The operator, who saves by replacing a file and knows no lock.          *)

\* The file under the operator's hands has been proved and is about to leave.
Leaving(p) == proc.pc \in {"link", "unlink"} /\ Here = Repo(p)

\* A save that nobody looks at again: the bytes proved are not those moved.
Late(p, c) == c # None /\ Leaving(p)

\* Edits are told apart by nothing but their identity, taken in one order.
ThisEdit == CHOOSE e \in Mine \ mishap.edits : TRUE

Edit(p, c) ==
    /\ mishap.edits # Mine
    /\ c \in {ThisEdit, None} /\ c # at[Repo(p)]
    /\ mishap' = [mishap EXCEPT
          !.edits = @ \cup {ThisEdit},
          !.late = IF Late(p, c) THEN @ \cup {p} ELSE @ \ {p},
          !.since = IF proc.pc = "commit" THEN @ \cup {p} ELSE @]
    /\ Parent[p] \in dirs \cup {None}
    /\ at' = [at EXCEPT ![Repo(p)] = c]
    /\ own' = [own EXCEPT ![p] = c]
    /\ UNCHANGED <<dirs, holder, journal, plan, proc, result>>

OperatorMakesDirectory ==
    /\ \E d \in Dir \ dirs : dirs' = dirs \cup {d}
    /\ mishap.edits # Mine
    /\ mishap' = [mishap EXCEPT !.edits = @ \cup {ThisEdit}]
    /\ UNCHANGED <<at, holder, journal, plan, proc, result, own>>

-----------------------------------------------------------------------------
Applying ==
    \/ Plan \/ PlanRefused \/ MakeHolder \/ WriteJournal \/ MakeSlots \/ Stage \/ Prepare
    \/ MakeDirectory \/ BeginMoves \/ Intent \/ Verify \/ Commit

Undoing ==
    \/ BeginRollback \/ RollbackRefused \/ Locate \/ Retreat
    \/ RemoveDirectory \/ Settle \/ Break

Working == Applying \/ Undoing \/ Prove \/ Link \/ Unlink \/ RemoveHolder

Next ==
    \/ Start \/ Working
    \/ EarlyStepFails \/ SlotsUnbound \/ StepFails \/ IntentFails \/ JournalFails
    \/ RemovalFails \/ Crash \/ Recover
    \/ \E p \in Path, c \in Mine \cup {None} : Edit(p, c)
    \/ OperatorMakesDirectory

Spec == Init /\ [][Next]_vars

\* A call runs to its end unless its process dies, and there is a next run.
FairSpec == Spec /\ WF_vars(Working) /\ WF_vars(Recover)

-----------------------------------------------------------------------------
(* Properties.                                                             *)

JournalState == {"none", "registered", "prepared", "applying", "applied",
                 "rolling_back", "rolled_back", "failed"}
Pc == {"idle", "plan", "holder", "journal", "slots", "stage", "prepare", "dirs", "next",
       "prove", "link", "unlink", "commit", "back", "undo", "retreat",
       "broken", "remove", "discard"}

TypeOK ==
    /\ at \in [Place -> Content]
    /\ dirs \subseteq Dir
    /\ holder \in {"none", "made", "slots"}
    /\ journal \in [state : JournalState, index : 0..Len(Moves)]
    /\ plan \in [before : [Path -> Content], sha : [Path -> Content],
                 dirs : SUBSET Dir]
    /\ proc \in [pc : Pc, state : JournalState, index : 0..Len(Moves),
                 back : BOOLEAN, left : SUBSET Dir]
    /\ result \in {"none", "refused", "applied", "restored", "unknown",
                   "blocked", "crashed"}
    /\ own \in [Path -> Content]
    /\ mishap \in [edits : SUBSET Mine, crashes : 0..MaxCrash,
                   faults : 0..MaxFault, late : SUBSET Path,
                   since : SUBSET Path]

\* What the operator saves stops existing only in one way: saved while a move
\* that has proved the file is taking it away.  Any other bytes of theirs are,
\* whatever fails or dies, at their name or in a slot of a holder that stays.
OwnBytesSurvive ==
    \A p \in Path \ mishap.late : own[p] # None =>
        own[p] \in {at[Repo(p)], at[Staged(p)], at[Backup(p)]}

\* An application about to be committed replaces what its plan has read: an
\* edit made since is not among the bytes that go with the holder.
OnlyPlannedBytesGo ==
    proc.pc = "commit" =>
        \A p \in Delivered \ mishap.late : own[p] \in {plan.sha[p], None}

\* An application that reported success, or a rollback that reported a proof,
\* left the whole candidate or the whole checkout of the operator, in their
\* own line endings, with the edits they made meanwhile.  (A file they delete
\* while a failed unlink has left it under two names may come back.)
ReturnedTreeIsWhole ==
    result \in {"applied", "restored"} =>
        \A p \in Path \ mishap.late :
            \/ at[Repo(p)] = own[p]
            \/ own[p] = None /\ at[Repo(p)] = plan.sha[p]

\* Recovery believes the journal: no object has moved beyond the index on
\* disk, in either direction, at any crash.
IntentIsDurable ==
    journal.state \in {"registered", "prepared", "applying", "rolling_back",
                       "failed"} =>
        \A i \in journal.index + 1 .. Len(Moves) :
            at[Target(Moves[i])] # Expected(Moves[i])

\* At every crash the journal on disk and the two places of every file suffice
\* to give each of the operator's bytes back, and a commit gives up only bytes
\* that were planned to go.
NothingIsLost ==
    TypeOK /\ OwnBytesSurvive /\ OnlyPlannedBytesGo /\ IntentIsDurable

\* A process that died once while it moved files, between two moves' names,
\* in a checkout nobody touched: the next run gives the checkout back.
HalfRenamed == \E i \in 1..Len(Moves) : LET m == Moves[i] IN
                  at[Source(m)] # None /\ at[Target(m)] = at[Source(m)]
Undisturbed == mishap.edits = {} /\ mishap.faults = 0 /\ mishap.crashes = 1

CrashedApplyIsUndone ==
    (result = "crashed" /\ journal.state = "applying" /\ Undisturbed
        /\ ~HalfRenamed) ~> (result = "restored" \/ ~Undisturbed)
=============================================================================
