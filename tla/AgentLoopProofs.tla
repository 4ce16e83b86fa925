--------------------------- MODULE AgentLoopProofs ---------------------------
(***************************************************************************)
(* Theorems about the agent loop: about ApplicationJournal, for any        *)
(* candidate, any files and any number of crashes, failing steps and       *)
(* edits: nothing of the operator's is lost, and what a call reports is    *)
(* what it has left; and about what the loop believes: AcceptanceGate, for *)
(* any files, commands, attempts and writes of others, and ContainedCall,  *)
(* for any callers, hosts, streams and limits.                             *)
(***************************************************************************)
EXTENDS ApplicationJournal, ContainedCall, AcceptanceGate, TLAPS

-----------------------------------------------------------------------------
(* The inductive invariant.  Of the objects of a changed file only what the *)
(* journal has announced can be away from home: a displaced file is in its  *)
(* backup, with the bytes of the plan, and a name that carries the          *)
(* candidate's bytes was given them by an announced move.                   *)

Active == journal.state \in {"registered", "prepared", "applying",
                             "rolling_back", "failed"}

\* The last move that may have happened.
Announced == IF Active THEN journal.index ELSE 0

\* An application or its undoing is under way, or waits for recovery.
Busy == Active \/ proc.pc \notin {"idle", "plan", "remove"}

\* How far process and journal are, at each place.
Course ==
    /\ Active => holder # "none"
    /\ proc.pc \in {"idle", "plan", "holder", "journal", "slots", "stage",
                    "prepare", "dirs"} => proc.index = 0 /\ ~proc.back
    /\ proc.pc \in {"plan", "holder", "journal", "remove"} => ~Active
    /\ proc.pc = "journal" =>
          holder # "none" /\ journal.state = "none" /\ journal.index = 0
    /\ proc.pc \in {"slots", "stage", "prepare", "dirs"} => Active /\ journal.index = 0
    /\ proc.pc = "slots" => journal.state = "registered"
    /\ proc.pc = "discard" =>
          journal.state \in {"none", "registered"} /\ journal.index = 0
    /\ proc.pc \in {"next", "commit", "prove", "link", "unlink",
                    "undo", "retreat", "broken"} =>
          Active /\ journal.index = proc.index
    /\ proc.pc \in {"next", "commit"} => ~proc.back
    /\ proc.pc \in {"undo", "retreat", "broken"} => proc.back
    /\ proc.pc \in {"prove", "link", "unlink", "retreat"} => proc.index # 0
    /\ proc.pc = "back" => Active /\ ~proc.back /\ journal.index <= proc.index

\* A file of the operator's is at its name or displaced; with no move
\* outstanding it is at its name.  This is not so for a file saved too late.
Kept ==
    /\ \A p \in Path \ mishap.late : own[p] # None =>
          /\ own[p] \in {at[Repo(p)], at[Backup(p)]}
          /\ ~Active => own[p] = at[Repo(p)]
    /\ \A p \in Path \ Changed : at[Repo(p)] = own[p] /\ own[p] # New
    /\ \A p \in mishap.late : own[p] # New

\* The move table has the move of p that way among the first n.
Moved(p, way, n) == \E i \in 1..n : Moves[i].path = p /\ Moves[i].way = way

\* What may be at the name and in the backup of a file while the plan is in
\* force.  Bytes that are not of the plan get into a backup only when they have
\* taken the place of those that are, and these never come back.
Planned(p) ==
    /\ p \in Changed =>
          IF Kind(p) = "added" THEN plan.sha[p] = None
          ELSE /\ plan.sha[p] \in Base
               /\ proc.pc # "holder" /\ at[Backup(p)] \notin {None, plan.sha[p]} =>
                     at[Repo(p)] # plan.sha[p]
    /\ own[p] # New
    /\ p \notin mishap.late => own[p] \in {None, at[Repo(p)], plan.sha[p]}
    /\ at[Repo(p)] \in {own[p], None, plan.sha[p], New}
    /\ at[Repo(p)] = New => Moved(p, "in", Announced)
    /\ proc.pc # "holder" /\ at[Backup(p)] # None => Moved(p, "out", Announced)

Plans == Busy => \A p \in Path : Planned(p)

\* What the process has seen and is about to act on.  The operator may have
\* saved or deleted the file under a move, but only where it leaves its name, or
\* where it has come back to it; and any file once the tree has been verified.
LeavesLate == LET p == Current.path IN
    Here = Repo(p) /\ (p \in mishap.late \/ at[Here] = None)

Moving ==
    /\ proc.pc = "link" => at[Here] = Expected(Current) \/ LeavesLate
    /\ proc.pc = "unlink" =>
          \/ LeavesLate
          \/ /\ at[Here] = Expected(Current)
             /\ \/ at[There] = at[Here]
                \/ There = Repo(Current.path) /\ at[There] = own[Current.path]
    /\ proc.pc = "retreat" =>
          /\ at[Target(Current)] # Expected(Current)
          /\ Current.way = "out" => at[Target(Current)] = None
    /\ proc.pc = "commit" => \A p \in Changed :
          at[Repo(p)] = IF p \in mishap.since THEN own[p] ELSE Applied(p)

\* The operator's tree, when a call is about to report success or has done so.
Settled == \A p \in Path \ mishap.late :
              \/ at[Repo(p)] = own[p]
              \/ own[p] = None /\ at[Repo(p)] = plan.sha[p]

Returned ==
    /\ proc.pc = "remove" => Settled
    /\ result \in {"applied", "restored"} => Settled /\ proc.pc = "idle"

Guarded == TypeOK /\ Course /\ Kept /\ Plans /\ Moving /\ Returned

-----------------------------------------------------------------------------
(* Names and moves.                                                        *)

Processes == [pc : Pc, state : JournalState, index : 0..Len(Moves),
              back : BOOLEAN, left : SUBSET Dir]
Journals  == [state : JournalState, index : 0..Len(Moves)]
Mishaps   == [edits : SUBSET Mine, crashes : 0..MaxCrash, faults : 0..MaxFault,
              late : SUBSET Path, since : SUBSET Path]

LEMMA Typing ==
    TypeOK => /\ at \in [Place -> Content] /\ dirs \subseteq Dir
              /\ holder \in {"none", "made", "slots"}
              /\ journal \in Journals /\ proc \in Processes /\ mishap \in Mishaps
              /\ plan \in [before : [Path -> Content], sha : [Path -> Content],
                           dirs : SUBSET Dir]
              /\ own \in [Path -> Content]
BY DEF TypeOK, Journals, Processes, Mishaps

LEMMA Names ==
    ASSUME NEW p \in Path
    PROVE  /\ Repo(p) \in Place /\ Staged(p) \in Place /\ Backup(p) \in Place
           /\ Repo(p)[1] = "repo" /\ Repo(p)[2] = p
           /\ Staged(p)[1] = "staged" /\ Backup(p)[1] = "backup"
           /\ \A r \in Path : /\ Repo(p) # Staged(r) /\ Repo(p) # Backup(r)
                              /\ Staged(p) # Backup(r)
                              /\ Repo(p) = Repo(r) => p = r
                              /\ Backup(p) = Backup(r) => p = r
BY DEF Repo, Staged, Backup, Place

LEMMA SeqElement ==
    ASSUME NEW S, NEW s \in Seq(S), NEW i \in 1..Len(s)
    PROVE  s[i] \in S
OBVIOUS

LEMMA ChangedIsPath == Changed \subseteq Path
<1> SUFFICES ASSUME NEW i \in 1..Len(Change) PROVE Change[i].path \in Path
    BY DEF Changed
<1>1. Change \in Seq([path : Path, kind : {"added", "modified", "deleted"}])
    BY ApplicationAssumption
<1>2. Change[i] \in [path : Path, kind : {"added", "modified", "deleted"}]
    BY <1>1, SeqElement
<1> QED
    BY <1>2

LEMMA Table ==
    ASSUME NEW i \in 1..Len(Moves)
    PROVE  /\ Moves[i].path \in Changed /\ Moves[i].path \in Path
           /\ Moves[i].way \in {"out", "in"}
           /\ Moves[i].way = "out" => Kind(Moves[i].path) # "added"
<1>1. Moves \in Seq([path : Path, way : {"out", "in"}])
    BY MovesAssumption
<1>2. Moves[i] \in [path : Path, way : {"out", "in"}]
    BY <1>1, SeqElement
<1> QED
    BY <1>2, MovesAssumption, ChangedIsPath

LEMMA LengthIsNat == Len(Moves) \in Nat
BY MovesAssumption

LEMMA MovedUp ==
    ASSUME NEW p, NEW way, NEW m \in Nat, NEW n \in Nat, m <= n, Moved(p, way, m)
    PROVE  Moved(p, way, n)
BY DEF Moved

LEMMA AnnouncedIsNat == TypeOK => Announced \in 0..Len(Moves)
BY Typing, LengthIsNat DEF Announced, Journals

\* A place that is written, and the others.
LEMMA Put ==
    ASSUME at \in [Place -> Content], NEW l \in Place, NEW c,
           at' = [at EXCEPT ![l] = c]
    PROVE  \A k \in Place : at'[k] = IF k = l THEN c ELSE at[k]
OBVIOUS

\* The two ends of the current move: a file leaves its name for its backup, or
\* comes to its name from where it was staged.
LEMMA Ends ==
    ASSUME TypeOK, Course, proc.pc \in {"prove", "link", "unlink", "retreat"}
    PROVE  /\ proc.index \in 1..Len(Moves)
           /\ Current.path \in Changed /\ Current.path \in Path
           /\ \/ /\ Current.way = "out" /\ Kind(Current.path) # "added"
                 /\ Source(Current) = Repo(Current.path)
                 /\ Target(Current) = Backup(Current.path)
                 /\ Expected(Current) = plan.sha[Current.path]
              \/ /\ Current.way = "in"
                 /\ Source(Current) = Staged(Current.path)
                 /\ Target(Current) = Repo(Current.path)
                 /\ Expected(Current) = New
<1>1. proc.index \in 1..Len(Moves)
    BY Typing, LengthIsNat DEF Course, Processes
<1> QED
    BY <1>1, Table DEF Current, Source, Target, Expected

\* The move at the index was announced.
LEMMA CurrentMoved ==
    ASSUME TypeOK, Course, proc.pc \in {"prove", "link", "unlink", "retreat"}
    PROVE  Announced = proc.index /\ Moved(Current.path, Current.way, Announced)
<1>1. Announced = proc.index
    BY DEF Course, Announced
<1>2. proc.index \in 1..Len(Moves)
    BY Ends
<1> QED
    BY <1>1, <1>2, LengthIsNat DEF Moved, Current

-----------------------------------------------------------------------------
(* How a process goes on.                                                  *)

LEMMA Going ==
    ASSUME TypeOK, NEW pc \in Pc, Goto(pc)
    PROVE  /\ proc' \in Processes /\ proc'.pc = pc /\ proc'.index = proc.index
           /\ proc'.back = proc.back
BY Typing DEF Goto, Processes

LEMMA Ending ==
    ASSUME TypeOK, NEW outcome, End(outcome)
    PROVE  /\ proc' \in Processes /\ proc'.pc = "idle" /\ proc'.index = 0
           /\ ~proc'.back /\ result' = outcome
BY Typing, LengthIsNat DEF End, Processes, Down, Pc, JournalState

LEMMA Advancing ==
    ASSUME TypeOK, NEW s \in JournalState, NEW pc \in Pc, Advance(s, pc)
    PROVE  /\ proc' \in Processes /\ proc'.pc = pc /\ proc'.index = proc.index
           /\ proc'.back = proc.back
           /\ journal' \in Journals /\ journal'.state = s /\ journal'.index = proc.index
BY Typing DEF Advance, Processes, Journals

LEMMA Faulty ==
    ASSUME TypeOK, CountFault
    PROVE  mishap' \in Mishaps /\ mishap'.late = mishap.late
<1>1. /\ mishap \in Mishaps /\ mishap.faults < MaxFault
      /\ mishap' = [mishap EXCEPT !.faults = mishap.faults + 1]
    BY Typing DEF CountFault
<1>2. mishap.faults + 1 \in 0..MaxFault
    BY <1>1, ApplicationAssumption DEF Mishaps
<1> QED
    BY <1>1, <1>2 DEF Mishaps

LEMMA Undone == OnFailure \in {"broken", "back"} /\ (OnFailure = "back" <=> ~proc.back)
BY DEF OnFailure

\* A step that leaves the files alone, and closes nothing.
LEMMA QuietStep ==
    ASSUME Guarded, TypeOK', Course', Moving',
           at' = at, own' = own, plan'.sha = plan.sha, mishap'.late = mishap.late,
           Busy' => Busy,
           Busy' /\ proc'.pc # "holder" => proc.pc # "holder",
           Busy' => Announced <= Announced',
           ~Active' => ~Active,
           proc'.pc = "remove" => proc.pc = "remove",
           result' \in {"applied", "restored"} =>
              /\ proc'.pc = "idle"
              /\ result \in {"applied", "restored"} \/ proc.pc = "remove"
    PROVE  Guarded'
<1> USE DEF Guarded
<1>1. Kept'
    BY DEF Kept
<1>2. Plans'
  <2> SUFFICES ASSUME Busy', NEW p \in Path PROVE Planned(p)'
      BY DEF Plans
  <2>1. Planned(p)
      BY DEF Plans
  <2>2. Announced \in Nat /\ Announced' \in Nat
    <3>1. journal.index \in Nat /\ journal'.index \in Nat
        BY LengthIsNat DEF TypeOK
    <3> QED
        BY <3>1 DEF Announced
  <2> QED
      BY <2>1, <2>2, MovedUp DEF Planned
<1>3. Returned'
    BY DEF Returned, Settled
<1> QED
    BY <1>1, <1>2, <1>3

-----------------------------------------------------------------------------
(* The steps that touch no file.                                           *)

Outcomes == {"none", "refused", "applied", "restored", "unknown", "blocked", "crashed"}

\* Only a process at rest has reported.
LEMMA Unreported ==
    Guarded /\ proc.pc # "idle" => result \notin {"applied", "restored"}
BY DEF Guarded, Returned

\* TypeOK of the next state, from what a step that touches no file changes.
LEMMA StillTyped ==
    ASSUME TypeOK, at' = at, own' = own, plan' = plan,
           dirs' \subseteq Dir, holder' \in {"none", "made", "slots"},
           journal' \in Journals, proc' \in Processes, result' \in Outcomes,
           mishap' \in Mishaps
    PROVE  TypeOK'
BY DEF TypeOK, Journals, Processes, Mishaps, Outcomes

\* A step of an application or an undoing fails.
LEMMA Falls ==
    ASSUME Guarded, Goto(OnFailure), mishap' \in Mishaps, mishap'.late = mishap.late,
           proc.pc \in {"stage", "prepare", "dirs", "next", "commit", "prove",
                        "link", "unlink", "retreat", "undo"},
           UNCHANGED <<at, dirs, holder, journal, plan, result, own>>
    PROVE  Guarded'
<1> USE DEF Guarded
<1>1. OnFailure \in Pc
    BY Undone DEF Pc
<1>2. /\ proc' \in Processes /\ proc'.pc = OnFailure /\ proc'.index = proc.index
      /\ proc'.back = proc.back
    BY <1>1, Going
<1>3. proc'.pc \in {"broken", "back"} /\ (proc'.pc = "back" <=> ~proc'.back)
    BY <1>2, Undone
<1>4. TypeOK'
    BY <1>2, Typing, StillTyped DEF Outcomes, TypeOK
<1>5. Active /\ Active' /\ journal.index <= proc.index
      /\ (proc.back => journal.index = proc.index)
    BY Typing, LengthIsNat DEF Course, Active, Processes, Journals
<1>6. Course'
    BY <1>2, <1>3, <1>5 DEF Course, Active
<1>7. Moving'
    BY <1>3 DEF Moving
<1>8. Announced' = Announced /\ Announced \in Nat /\ Busy
    BY <1>5, AnnouncedIsNat, LengthIsNat DEF Announced, Active, Busy
<1>9. result' \notin {"applied", "restored"}
    BY Unreported
<1> QED
    BY <1>3, <1>4, <1>5, <1>6, <1>7, <1>8, <1>9, QuietStep

\* A call ends: it refuses, it dies, or it has nothing more to do.
LEMMA Stops ==
    ASSUME Guarded, NEW outcome \in Outcomes, End(outcome),
           mishap' \in Mishaps, mishap'.late = mishap.late,
           outcome \in {"applied", "restored"} => proc.pc = "remove",
           holder' \in {"slots", holder}, UNCHANGED <<at, dirs, journal, plan, own>>
    PROVE  Guarded'
<1> USE DEF Guarded
<1>1. /\ proc' \in Processes /\ proc'.pc = "idle" /\ proc'.index = 0
      /\ ~proc'.back /\ result' = outcome
    BY Ending
<1>2. TypeOK'
    BY <1>1, Typing, StillTyped
<1>3. Active' = Active /\ (Active => holder' # "none")
    BY DEF Course, Active
<1>4. Course'
    BY <1>1, <1>3 DEF Course, Active
<1>5. Moving'
    BY <1>1 DEF Moving
<1>6. Announced' = Announced /\ Announced \in Nat
    BY <1>3, AnnouncedIsNat, LengthIsNat DEF Announced
<1>7. Busy' => Active /\ Busy /\ proc.pc # "holder"
    BY <1>1, <1>3 DEF Busy, Course
<1> QED
    BY <1>1, <1>2, <1>3, <1>4, <1>5, <1>6, <1>7, QuietStep

\* A call goes on to another place of the application or its undoing.
LEMMA Proceeds ==
    ASSUME Guarded, NEW pc \in Pc \ {"idle", "plan", "holder", "remove"},
           proc' \in Processes, proc'.pc = pc, journal' \in Journals,
           dirs' \subseteq Dir, holder' \in {"made", "slots", holder},
           mishap' \in Mishaps, mishap'.late = mishap.late,
           result' = result, at' = at, own' = own, plan' = plan,
           proc.pc \notin {"idle", "plan", "holder", "remove"}, Active => Active',
           Active => journal.index <= journal'.index,
           Course', Moving'
    PROVE  Guarded'
<1> USE DEF Guarded
<1>1. TypeOK'
    BY Typing, StillTyped DEF TypeOK, Outcomes
<1>2. journal.index \in Nat /\ journal'.index \in Nat
    BY Typing, LengthIsNat DEF Journals
<1>3. Announced <= Announced'
    BY <1>2 DEF Announced
<1>4. Busy
    BY DEF Busy
<1>5. result' \notin {"applied", "restored"}
    BY Unreported
<1> QED
    BY <1>1, <1>3, <1>4, <1>5, QuietStep

LEMMA OpeningSteps ==
    ASSUME Guarded, WriteJournal \/ MakeSlots \/ Prepare \/ MakeDirectory \/ BeginMoves
    PROVE  Guarded'
<1> USE DEF Guarded
<1>0. /\ journal \in Journals /\ proc \in Processes /\ mishap \in Mishaps
      /\ dirs \subseteq Dir /\ holder \in {"none", "made", "slots"}
      /\ plan.dirs \subseteq Dir
    BY Typing
<1>1. CASE WriteJournal
  <2>1. /\ proc' \in Processes /\ proc'.pc = "slots" /\ proc'.index = proc.index
        /\ proc'.back = proc.back
      BY <1>0, <1>1 DEF WriteJournal, Processes, Pc, JournalState
  <2>2. journal' \in Journals /\ journal'.state = "registered" /\ journal'.index = 0
      BY <1>1, LengthIsNat DEF WriteJournal, Journals, JournalState
  <2>3. ~Active /\ Active'
      BY <1>1, <2>2 DEF WriteJournal, Course, Active
  <2>4. Course'
      BY <1>1, <2>1, <2>2, <2>3 DEF WriteJournal, Course
  <2>5. Moving'
      BY <2>1 DEF Moving
  <2> QED
      BY <1>0, <1>1, <2>1, <2>2, <2>3, <2>4, <2>5, Proceeds DEF WriteJournal, Pc
<1>2. CASE MakeSlots
  <2>1. /\ proc' \in Processes /\ proc'.pc = "stage" /\ proc'.index = proc.index
        /\ proc'.back = proc.back
      BY <1>2, Going DEF MakeSlots, Pc
  <2>2. Course'
      BY <1>2, <2>1 DEF MakeSlots, Course, Active
  <2>3. Moving'
      BY <2>1 DEF Moving
  <2> QED
      BY <1>0, <1>2, <2>1, <2>2, <2>3, Proceeds, LengthIsNat DEF MakeSlots, Pc, Active, Journals
<1>3. CASE Prepare
  <2>1. /\ proc' \in Processes /\ proc'.pc = "dirs" /\ proc'.index = proc.index
        /\ proc'.back = proc.back
        /\ journal' \in Journals /\ journal'.state = "prepared"
        /\ journal'.index = proc.index
      BY <1>3, Advancing DEF Prepare, Pc, JournalState
  <2>2. journal.index = 0 /\ proc.index = 0
      BY <1>3 DEF Prepare, Course
  <2>3. Course'
      BY <1>3, <2>1, <2>2 DEF Prepare, Course, Active
  <2>4. Moving'
      BY <2>1 DEF Moving
  <2> QED
      BY <1>0, <1>3, <2>1, <2>2, <2>3, <2>4, Proceeds DEF Prepare, Pc, Active
<1>4. CASE MakeDirectory
  <2>1. proc' = proc /\ journal' = journal /\ dirs' \subseteq Dir /\ proc.pc = "dirs"
      BY <1>0, <1>4 DEF MakeDirectory
  <2>2. Course'
      BY <1>4, <2>1 DEF MakeDirectory, Course, Active
  <2>3. Moving'
      BY <2>1 DEF Moving
  <2> QED
      BY <1>0, <1>4, <2>1, <2>2, <2>3, Proceeds, LengthIsNat DEF MakeDirectory, Pc, Active, Journals
<1>5. CASE BeginMoves
  <2>1. /\ proc' \in Processes /\ proc'.pc = "next" /\ proc'.index = proc.index
        /\ proc'.back = proc.back
        /\ journal' \in Journals /\ journal'.state = "applying"
        /\ journal'.index = proc.index
      BY <1>5, Advancing DEF BeginMoves, Pc, JournalState
  <2>2. journal.index = 0 /\ proc.index = 0
      BY <1>5 DEF BeginMoves, Course
  <2>3. Course'
      BY <1>5, <2>1, <2>2 DEF BeginMoves, Course, Active
  <2>4. Moving'
      BY <2>1 DEF Moving
  <2> QED
      BY <1>0, <1>5, <2>1, <2>2, <2>3, <2>4, Proceeds DEF BeginMoves, Pc, Active
<1> QED
    BY <1>1, <1>2, <1>3, <1>4, <1>5

\* The table of moves, forwards.
LEMMA ForwardSteps ==
    ASSUME Guarded, Intent \/ IntentFails \/ Verify
    PROVE  Guarded'
<1> USE DEF Guarded
<1>0. /\ journal \in Journals /\ proc \in Processes /\ mishap \in Mishaps
      /\ dirs \subseteq Dir /\ holder \in {"none", "made", "slots"}
    BY Typing
<1>1. CASE Intent \/ IntentFails
  <2>1. /\ proc.pc = "next" /\ proc.index < Len(Moves) /\ Active
        /\ journal.index = proc.index /\ ~proc.back
        /\ proc.index \in Nat /\ proc.index + 1 \in 0..Len(Moves)
      BY <1>0, <1>1, LengthIsNat DEF Intent, IntentFails, MovesRemain, Course, Processes
  <2>2. PICK pc \in {"prove", "back"} :
          proc' = [proc EXCEPT !.index = proc.index + 1, !.pc = pc]
      BY <1>1 DEF Intent, IntentFails
  <2>3. /\ proc' \in Processes /\ proc'.pc = pc /\ proc'.index = proc.index + 1
        /\ proc'.back = proc.back
      BY <1>0, <2>1, <2>2 DEF Processes, Pc
  <2>4. /\ journal' \in Journals /\ journal'.state = journal.state
        /\ journal'.index \in {proc.index, proc.index + 1}
        /\ pc = "prove" => journal'.index = proc.index + 1
    <3>1. CASE Intent
      <4>1. journal' = [journal EXCEPT !.index = proc.index + 1]
          BY <3>1 DEF Intent
      <4> QED
          BY <1>0, <2>1, <4>1 DEF Journals
    <3>2. CASE IntentFails
      <4>1. journal' = journal /\ proc'.pc = "back"
          BY <1>0, <3>2 DEF IntentFails, Processes
      <4> QED
          BY <1>0, <2>1, <2>3, <4>1
    <3> QED
        BY <1>1, <3>1, <3>2
  <2>5. /\ UNCHANGED <<at, dirs, holder, plan, result, own>>
        /\ mishap' \in Mishaps /\ mishap'.late = mishap.late
      BY <1>0, <1>1, Faulty DEF Intent, IntentFails
  <2>6. Active'
      BY <2>1, <2>4 DEF Active
  <2>7. Course'
      BY <2>1, <2>3, <2>4, <2>5, <2>6 DEF Course
  <2>8. Moving'
      BY <2>3 DEF Moving
  <2>9. journal.index <= journal'.index
      BY <2>1, <2>4
  <2> QED
      BY <1>0, <2>1, <2>3, <2>4, <2>5, <2>6, <2>7, <2>8, <2>9, Proceeds DEF Pc
<1>2. CASE Verify
  <2>1. PICK pc \in {"commit", "back"} : Goto(pc) /\ (pc = "commit" => Verified)
      BY <1>2 DEF Verify
  <2>2. /\ proc' \in Processes /\ proc'.pc = pc /\ proc'.index = proc.index
        /\ proc'.back = proc.back
      BY <2>1, Going DEF Pc
  <2>3. /\ proc.pc = "next" /\ UNCHANGED <<at, dirs, holder, journal, plan, result, own>>
        /\ mishap' \in Mishaps /\ mishap'.late = mishap.late /\ mishap'.since = {}
      BY <1>0, <1>2 DEF Verify, Mishaps
  <2>4. journal.index \in Nat /\ Active' = Active
      BY <1>0, <2>3, LengthIsNat DEF Journals, Active
  <2>5. Course'
      BY <2>2, <2>3, <2>4 DEF Course
  <2>6. Moving'
    <3>1. pc = "commit" => \A p \in Changed : at'[Repo(p)] = Applied(p)
        BY <2>1, <2>3 DEF Verified
    <3> QED
        BY <2>2, <2>3, <3>1 DEF Moving
  <2> QED
      BY <1>0, <2>2, <2>3, <2>4, <2>5, <2>6, Proceeds DEF Pc
<1> QED
    BY <1>1, <1>2

\* A move is proved before it is made; an undoing first finds its object.
LEMMA LookingSteps ==
    ASSUME Guarded, Prove \/ Locate
    PROVE  Guarded'
<1> USE DEF Guarded
<1>0. /\ journal \in Journals /\ proc \in Processes /\ mishap \in Mishaps
      /\ dirs \subseteq Dir /\ holder \in {"none", "made", "slots"}
      /\ journal.index \in Nat
    BY Typing, LengthIsNat DEF Journals
<1>1. CASE Prove
  <2>1. /\ proc.pc = "prove"
        /\ UNCHANGED <<at, dirs, holder, journal, plan, result, own, mishap>>
      BY <1>1 DEF Prove
  <2>2. CASE at[Here] = Expected(Current)
    <3>1. Goto("link")
        BY <1>1, <2>2 DEF Prove
    <3>2. /\ proc' \in Processes /\ proc'.pc = "link" /\ proc'.index = proc.index
          /\ proc'.back = proc.back
        BY <3>1, Going DEF Pc
    <3>3. Current' = Current /\ Here' = Here /\ Expected(Current)' = Expected(Current)
        BY <2>1, <3>2 DEF Current, Here, Source, Target, Expected
    <3>4. Moving'
        BY <2>1, <2>2, <3>2, <3>3 DEF Moving
    <3>5. Active' = Active
        BY <2>1 DEF Active
    <3>6. Course'
        BY <2>1, <3>2, <3>5 DEF Course
    <3> QED
        BY <1>0, <2>1, <3>2, <3>4, <3>5, <3>6, Proceeds DEF Pc
  <2>3. CASE at[Here] # Expected(Current)
    <3>1. Goto(OnFailure)
        BY <1>1, <2>3 DEF Prove
    <3> QED
        BY <1>0, <2>1, <3>1, Falls
  <2> QED
      BY <2>2, <2>3
<1>2. CASE Locate
  <2>1. /\ proc.pc = "undo" /\ proc.index > 0 /\ Active
        /\ UNCHANGED <<at, dirs, holder, journal, plan, result, own, mishap>>
      BY <1>2 DEF Locate, Course
  <2>2. PICK pc \in {"prove", "retreat", "broken"} :
          /\ Goto(pc)
          /\ pc = "retreat" => /\ at[Target(Current)] # Expected(Current)
                               /\ at[Source(Current)] = Expected(Current)
    <3>1. CASE at[Target(Current)] = Expected(Current)
        BY <1>2, <3>1 DEF Locate
    <3>2. CASE /\ at[Target(Current)] # Expected(Current)
               /\ at[Source(Current)] = Expected(Current)
        BY <1>2, <3>2 DEF Locate
    <3>3. CASE /\ at[Target(Current)] # Expected(Current)
               /\ at[Source(Current)] # Expected(Current)
        BY <1>2, <3>3 DEF Locate
    <3> QED
        BY <3>1, <3>2, <3>3
  <2>3. /\ proc' \in Processes /\ proc'.pc = pc /\ proc'.index = proc.index
        /\ proc'.back = proc.back
      BY <2>2, Going DEF Pc
  <2>4. /\ Current' = Current /\ Target(Current)' = Target(Current)
        /\ Expected(Current)' = Expected(Current)
      BY <2>1, <2>3 DEF Current, Target, Expected
  <2>5. ASSUME pc = "retreat", Current.way = "out"
        PROVE  at[Target(Current)] = None
    <3>1. Current.path \in Changed /\ Current.path \in Path
          /\ Kind(Current.path) # "added"
        BY <1>0, <2>1, <2>5, Table, LengthIsNat DEF Current, Processes
    <3>2. Planned(Current.path)
        BY <2>1, <3>1 DEF Plans, Busy
    <3> QED
        BY <2>1, <2>2, <2>5, <3>1, <3>2 DEF Planned, Target, Source, Expected
  <2>6. Moving'
      BY <2>1, <2>2, <2>3, <2>4, <2>5 DEF Moving
  <2>7. Active' = Active
      BY <2>1 DEF Active
  <2>8. Course'
      BY <2>1, <2>3, <2>7 DEF Course
  <2> QED
      BY <1>0, <2>1, <2>3, <2>6, <2>7, <2>8, Proceeds DEF Pc
<1> QED
    BY <1>1, <1>2

\* An undoing starts, clears directories, or is given up.
LEMMA UndoingSteps ==
    ASSUME Guarded, BeginRollback \/ RollbackRefused \/ RemoveDirectory \/ Break
    PROVE  Guarded'
<1> USE DEF Guarded
<1>0. /\ journal \in Journals /\ proc \in Processes /\ mishap \in Mishaps
      /\ dirs \subseteq Dir /\ holder \in {"none", "made", "slots"}
      /\ plan.dirs \subseteq Dir /\ journal.index \in Nat /\ proc.index \in Nat
    BY Typing, LengthIsNat DEF Journals, Processes
<1>1. CASE BeginRollback
  <2>1. /\ proc.pc = "back" /\ UNCHANGED <<at, dirs, holder, plan, result, own, mishap>>
        /\ journal' = [state |-> "rolling_back", index |-> proc.index]
        /\ proc' = [proc EXCEPT !.state = "rolling_back", !.back = TRUE,
                                !.left = plan.dirs, !.pc = "undo"]
      BY <1>1 DEF BeginRollback
  <2>2. /\ proc' \in Processes /\ proc'.pc = "undo" /\ proc'.index = proc.index
        /\ proc'.back
      BY <1>0, <2>1 DEF Processes, Pc, JournalState
  <2>3. /\ journal' \in Journals /\ journal'.state = "rolling_back"
        /\ journal'.index = proc.index
      BY <1>0, <2>1 DEF Journals, Processes, JournalState
  <2>4. Active /\ journal.index <= proc.index /\ Active'
      BY <2>1, <2>3 DEF Course, Active
  <2>5. Course'
      BY <2>1, <2>2, <2>3, <2>4 DEF Course
  <2>6. Moving'
      BY <2>2 DEF Moving
  <2> QED
      BY <1>0, <2>1, <2>2, <2>3, <2>4, <2>5, <2>6, Proceeds DEF Pc
<1>2. CASE RollbackRefused
    BY <1>0, <1>2, Stops DEF RollbackRefused, Outcomes
<1>3. CASE RemoveDirectory
  <2>1. /\ proc.pc = "undo" /\ UNCHANGED <<at, holder, journal, plan, result, own, mishap>>
      BY <1>3 DEF RemoveDirectory
  <2>2. PICK d \in proc.left :
          IF d \in dirs
          THEN /\ dirs' = IF Empty(d) THEN dirs \ {d} ELSE dirs
               /\ proc' = [proc EXCEPT !.left = @ \ {d}]
          ELSE dirs' = dirs /\ Goto("broken")
      BY <1>3 DEF RemoveDirectory
  <2>3. dirs' \subseteq Dir
      BY <1>0, <2>2
  <2>4. /\ proc' \in Processes /\ proc'.pc \in {"undo", "broken"}
        /\ proc'.index = proc.index /\ proc'.back = proc.back
    <3>1. CASE d \in dirs
        BY <1>0, <2>1, <2>2, <3>1 DEF Processes
    <3>2. CASE d \notin dirs
        BY <2>2, <3>2, Going DEF Pc
    <3> QED
        BY <3>1, <3>2
  <2>5. Active' = Active
      BY <2>1 DEF Active
  <2>6. Course'
      BY <2>1, <2>4, <2>5 DEF Course
  <2>7. Moving'
      BY <2>4 DEF Moving
  <2> QED
      BY <1>0, <2>1, <2>3, <2>4, <2>5, <2>6, <2>7, Proceeds DEF Pc
<1>4. CASE Break
  <2>1. /\ proc.pc = "broken" /\ End("unknown")
        /\ UNCHANGED <<at, dirs, holder, plan, own, mishap>>
        /\ journal' = [state |-> "failed", index |-> proc.index]
      BY <1>4 DEF Break
  <2>2. /\ proc' \in Processes /\ proc'.pc = "idle" /\ proc'.index = 0
        /\ ~proc'.back /\ result' = "unknown"
      BY <2>1, Ending
  <2>3. /\ journal' \in Journals /\ journal'.state = "failed"
        /\ journal'.index = proc.index
      BY <1>0, <2>1 DEF Journals, Processes, JournalState
  <2>4. Active /\ journal.index = proc.index /\ Active'
      BY <2>1, <2>3 DEF Course, Active
  <2>5. TypeOK'
      BY <1>0, <2>1, <2>2, <2>3, StillTyped DEF Outcomes
  <2>6. Course'
      BY <2>1, <2>2, <2>3, <2>4 DEF Course
  <2>7. Moving'
      BY <2>2 DEF Moving
  <2>8. Announced <= Announced' /\ Busy /\ proc.pc # "holder"
      BY <1>0, <2>1, <2>3, <2>4 DEF Announced, Busy
  <2> QED
      BY <2>1, <2>2, <2>4, <2>5, <2>6, <2>7, <2>8, QuietStep
<1> QED
    BY <1>1, <1>2, <1>3, <1>4

\* Failures, the death of the process, and its successor.
LEMMA FailingSteps ==
    ASSUME Guarded,
           \/ EarlyStepFails \/ SlotsUnbound \/ StepFails \/ JournalFails
           \/ RemovalFails \/ Crash \/ Recover
    PROVE  Guarded'
<1> USE DEF Guarded
<1>0. /\ journal \in Journals /\ proc \in Processes /\ mishap \in Mishaps
      /\ dirs \subseteq Dir /\ holder \in {"none", "made", "slots"}
      /\ journal.index \in Nat
    BY Typing, LengthIsNat DEF Journals
<1>1. CASE EarlyStepFails
  <2>1. /\ proc.pc \in {"plan", "holder", "journal", "slots"}
        /\ mishap' \in Mishaps /\ mishap'.late = mishap.late
        /\ UNCHANGED <<at, dirs, holder, journal, plan, own>>
      BY <1>1, Faulty DEF EarlyStepFails
  <2>2. CASE proc.pc \in {"plan", "holder"}
      BY <1>1, <2>1, <2>2, Stops DEF EarlyStepFails, Outcomes
  <2>3. CASE proc.pc \notin {"plan", "holder"}
    <3>1. Goto("discard") /\ result' = result
        BY <1>1, <2>3 DEF EarlyStepFails
    <3>2. /\ proc' \in Processes /\ proc'.pc = "discard" /\ proc'.index = proc.index
          /\ proc'.back = proc.back
        BY <3>1, Going DEF Pc
    <3>3. journal.state \in {"none", "registered"} /\ journal.index = 0
      <4>1. CASE proc.pc = "slots"
          BY <4>1 DEF Course
      <4>2. CASE proc.pc = "journal"
          BY <2>1, <4>2 DEF Course, Active
      <4> QED
          BY <2>1, <2>3, <4>1, <4>2
    <3>4. Active' = Active
        BY <2>1 DEF Active
    <3>5. Course'
        BY <2>1, <3>2, <3>3, <3>4 DEF Course
    <3>6. Moving'
        BY <3>2 DEF Moving
    <3> QED
        BY <1>0, <2>1, <2>3, <3>1, <3>2, <3>4, <3>5, <3>6, Proceeds DEF Pc
  <2> QED
      BY <2>2, <2>3
<1>2. CASE StepFails
    BY <1>2, Faulty, Falls DEF StepFails
<1>3. CASE JournalFails
    BY <1>3, Faulty, Stops DEF JournalFails, Outcomes
<1>4. CASE RemovalFails
  <2>1. PICK o \in {"refused", "applied", "restored"} :
          End(o) /\ (proc.pc = "discard" => o = "refused")
    <3>1. CASE proc.pc = "discard"
        BY <1>4, <3>1 DEF RemovalFails
    <3>2. CASE proc.pc # "discard" /\ proc.state = "applied"
        BY <1>4, <3>2 DEF RemovalFails
    <3>3. CASE proc.pc # "discard" /\ proc.state # "applied"
        BY <1>4, <3>3 DEF RemovalFails
    <3> QED
        BY <3>1, <3>2, <3>3
  <2>2. /\ proc.pc \in {"remove", "discard"}
        /\ mishap' \in Mishaps /\ mishap'.late = mishap.late
        /\ UNCHANGED <<at, dirs, holder, journal, plan, own>>
      BY <1>4, Faulty DEF RemovalFails
  <2> QED
      BY <2>1, <2>2, Stops DEF Outcomes
<1>5. CASE Crash
  <2>1. mishap.crashes + 1 \in 0..MaxCrash
      BY <1>0, <1>5, ApplicationAssumption DEF Crash, Mishaps
  <2>2. mishap' \in Mishaps /\ mishap'.late = mishap.late
      BY <1>0, <1>5, <2>1 DEF Crash, Mishaps
  <2> QED
      BY <1>5, <2>2, Stops DEF Crash, Outcomes
<1>6. CASE Recover
  <2>1. UNCHANGED <<at, dirs, holder, journal, plan, own, mishap>> /\ proc.pc = "idle" /\ Pending
      BY <1>6 DEF Recover
  <2>2. CASE holder # "slots"
      BY <1>0, <1>6, <2>1, <2>2, Stops DEF Recover, Outcomes
  <2>3. CASE holder = "slots"
    <3>1. /\ proc' = [Down EXCEPT !.pc = "back", !.index = journal.index,
                            !.state = IF journal.state = "failed"
                                      THEN "applying" ELSE journal.state]
          /\ result' = "none"
        BY <1>6, <2>3 DEF Recover
    <3>2. /\ proc' \in Processes /\ proc'.pc = "back" /\ proc'.index = journal.index
          /\ ~proc'.back
        BY <1>0, <3>1 DEF Down, Processes, Journals, Pc, JournalState
    <3>3. Active /\ Active'
        BY <1>0, <2>1 DEF Pending, Active, Journals, JournalState
    <3>4. TypeOK'
        BY <1>0, <2>1, <3>1, <3>2, StillTyped DEF Outcomes
    <3>5. Course'
        BY <1>0, <2>1, <3>2, <3>3 DEF Course
    <3>6. Moving'
        BY <3>2 DEF Moving
    <3>7. Announced <= Announced' /\ Busy /\ proc.pc # "holder"
        BY <1>0, <2>1, <3>3 DEF Announced, Busy
    <3> QED
        BY <2>1, <3>1, <3>2, <3>3, <3>4, <3>5, <3>6, <3>7, QuietStep
  <2> QED
      BY <2>2, <2>3
<1>7. CASE SlotsUnbound
    BY <1>7, Faulty, Stops DEF SlotsUnbound, Outcomes
<1> QED
    BY <1>1, <1>2, <1>3, <1>4, <1>5, <1>6, <1>7

\* Steps that leave the process where it is.
LEMMA ForeignSteps ==
    ASSUME Guarded,
           OperatorMakesDirectory \/ UNCHANGED vars
    PROVE  Guarded'
<1> USE DEF Guarded
<1>1. UNCHANGED <<at, holder, journal, plan, proc, result, own>>
    BY DEF OperatorMakesDirectory, vars
<1>2. /\ dirs' \subseteq Dir /\ mishap' \in Mishaps
      /\ mishap'.late = mishap.late /\ mishap'.since = mishap.since
  <2>1. CASE OperatorMakesDirectory
    <3>1. ThisEdit \in Mine
        BY <2>1, Typing DEF OperatorMakesDirectory, ThisEdit, Mishaps
    <3> QED
        BY <2>1, <3>1, Typing DEF OperatorMakesDirectory, Mishaps
  <2>2. CASE UNCHANGED vars
      BY <2>2, Typing DEF vars
  <2> QED
      BY <2>1, <2>2
<1>3. TypeOK'
    BY <1>1, <1>2, Typing, StillTyped DEF Outcomes, TypeOK
<1>4. Active' = Active
    BY <1>1 DEF Active
<1>5. Busy' = Busy /\ Announced' = Announced /\ Announced \in Nat
    BY <1>1, <1>4, AnnouncedIsNat, LengthIsNat DEF Busy, Announced
<1>6. Course'
    BY <1>1, <1>4 DEF Course
<1>7. Moving'
  <2>1. /\ Current' = Current /\ Here' = Here /\ There' = There
        /\ Expected(Current)' = Expected(Current) /\ Target(Current)' = Target(Current)
      BY <1>1 DEF Current, Here, There, Source, Target, Expected
  <2>2. LeavesLate' = LeavesLate
      BY <1>1, <1>2, <2>1 DEF LeavesLate
  <2> QED
      BY <1>1, <1>2, <2>1, <2>2 DEF Moving
<1> QED
    BY <1>1, <1>2, <1>3, <1>4, <1>5, <1>6, <1>7, QuietStep DEF Returned

-----------------------------------------------------------------------------
(* The steps that begin, close and clean up.                               *)

LEMMA StartStep ==
    ASSUME Guarded, Start
    PROVE  Guarded'
<1> USE DEF Guarded
<1> DEFINE now == [p \in Path |-> at[Repo(p)]]
<1>1. /\ journal \in Journals /\ proc \in Processes /\ mishap \in Mishaps
      /\ holder \in {"none", "made", "slots"}
      /\ plan \in [before : [Path -> Content], sha : [Path -> Content],
                   dirs : SUBSET Dir]
    BY Typing
<1>2. /\ proc.pc = "idle" /\ ~Pending /\ Goto("plan") /\ result' = "none"
      /\ UNCHANGED <<at, dirs, holder, journal, own, mishap>>
      /\ plan' = [plan EXCEPT !.before = now]
    BY DEF Start
<1>3. now \in [Path -> Content]
    BY Typing, Names
<1> HIDE DEF now
<1>4. /\ plan' \in [before : [Path -> Content], sha : [Path -> Content],
                    dirs : SUBSET Dir]
      /\ plan'.sha = plan.sha
    BY <1>1, <1>2, <1>3
<1>5. /\ proc' \in Processes /\ proc'.pc = "plan" /\ proc'.index = proc.index
      /\ proc'.back = proc.back
    BY <1>2, Going DEF Pc
<1>6. ~Active /\ ~Active'
    BY <1>1, <1>2 DEF Pending, Course, Active, Journals, JournalState
<1>7. ~Busy'
    BY <1>5, <1>6 DEF Busy
<1>8. TypeOK'
    BY <1>1, <1>2, <1>4, <1>5, Typing DEF TypeOK, Journals, Processes, Mishaps
<1>9. Course'
    BY <1>2, <1>5, <1>6 DEF Course
<1>10. Moving'
    BY <1>5 DEF Moving
<1> QED
    BY <1>2, <1>4, <1>5, <1>6, <1>7, <1>8, <1>9, <1>10, QuietStep

LEMMA PlanStep ==
    ASSUME Guarded, Plan \/ PlanRefused
    PROVE  Guarded'
<1> USE DEF Guarded
<1>0. /\ journal \in Journals /\ proc \in Processes /\ mishap \in Mishaps
      /\ at \in [Place -> Content] /\ own \in [Path -> Content]
      /\ plan \in [before : [Path -> Content], sha : [Path -> Content],
                   dirs : SUBSET Dir]
    BY Typing
<1>1. CASE PlanRefused
    BY <1>0, <1>1, Stops DEF PlanRefused, Outcomes
<1>2. CASE Plan
  <2> DEFINE now == [p \in Path |-> at[Repo(p)]]
  <2>1. /\ proc.pc = "plan" /\ Plannable /\ Goto("holder")
        /\ UNCHANGED <<at, dirs, holder, journal, result, own, mishap>>
        /\ plan' = [plan EXCEPT !.sha = now, !.dirs = MissingDirs]
      BY <1>2 DEF Plan
  <2>2. now \in [Path -> Content] /\ \A p \in Path : now[p] = at[Repo(p)]
      BY <1>0, Names
  <2> HIDE DEF now
  <2>3. MissingDirs \subseteq Dir
    <3>1. Parent \in [Path -> Dir \cup {None}]
        BY ApplicationAssumption
    <3> QED
        BY <3>1, ChangedIsPath DEF MissingDirs
  <2>4. /\ plan'.sha = now
        /\ plan' \in [before : [Path -> Content], sha : [Path -> Content],
                      dirs : SUBSET Dir]
      BY <1>0, <2>1, <2>2, <2>3
  <2>5. /\ proc' \in Processes /\ proc'.pc = "holder" /\ proc'.index = proc.index
        /\ proc'.back = proc.back
      BY <2>1, Going DEF Pc
  <2>6. ~Active /\ ~Active'
      BY <2>1 DEF Course, Active
  <2>7. TypeOK'
      BY <1>0, <2>1, <2>4, <2>5 DEF TypeOK, Journals, Processes, Mishaps
  <2>8. Course'
      BY <2>1, <2>5, <2>6 DEF Course
  <2>9. Kept'
      BY <2>1, <2>6 DEF Kept
  <2>10. Plans'
    <3> SUFFICES ASSUME NEW p \in Path PROVE Planned(p)'
        BY DEF Plans
    <3>1. p \notin mishap.late /\ own[p] # None => own[p] = at[Repo(p)]
        BY <2>6 DEF Kept
    <3>2. CASE p \in Changed
      <4>1. /\ Kind(p) = "added" => at[Repo(p)] = None
            /\ Kind(p) # "added" => at[Repo(p)] \in Base
          BY <2>1, <3>2 DEF Plannable
      <4>2. at[Repo(p)] # New
          BY <4>1, ApplicationAssumption
      <4>3. own[p] # New
        <5>1. CASE p \in mishap.late
            BY <5>1 DEF Kept
        <5>2. CASE p \notin mishap.late
            BY <3>1, <4>2, <5>2, ApplicationAssumption
        <5> QED
            BY <5>1, <5>2
      <4> QED
          BY <2>1, <2>2, <2>4, <2>5, <3>1, <4>1, <4>2, <4>3 DEF Planned
    <3>3. CASE p \notin Changed
      <4>1. at[Repo(p)] = own[p] /\ own[p] # New
          BY <3>3 DEF Kept
      <4> QED
          BY <2>1, <2>2, <2>4, <2>5, <3>3, <4>1 DEF Planned
    <3> QED
        BY <3>2, <3>3
  <2>11. Moving'
      BY <2>5 DEF Moving
  <2>12. Returned'
      BY <2>1, <2>5, Unreported DEF Returned
  <2> QED
      BY <2>7, <2>8, <2>9, <2>10, <2>11, <2>12
<1> QED
    BY <1>1, <1>2

\* The slots are emptied; the checkout is not touched.
LEMMA Emptied ==
    ASSUME at \in [Place -> Content],
           at' = [l \in Place |-> IF l[1] = "repo" THEN at[l] ELSE None]
    PROVE  /\ at' \in [Place -> Content]
           /\ \A p \in Path : at'[Repo(p)] = at[Repo(p)] /\ at'[Backup(p)] = None
<1>1. None \in Content
    BY DEF Content
<1>2. at' \in [Place -> Content]
    BY <1>1
<1>3. ASSUME NEW p \in Path
      PROVE  at'[Repo(p)] = at[Repo(p)] /\ at'[Backup(p)] = None
  <2>1. /\ Repo(p) \in Place /\ Backup(p) \in Place
        /\ Repo(p)[1] = "repo" /\ Backup(p)[1] = "backup"
      BY Names
  <2> QED
      BY <2>1
<1> QED
    BY <1>2, <1>3

LEMMA MakeHolderStep ==
    ASSUME Guarded, MakeHolder
    PROVE  Guarded'
<1> USE DEF Guarded
<1>0. /\ journal \in Journals /\ proc \in Processes /\ mishap \in Mishaps
      /\ at \in [Place -> Content] /\ proc.pc = "holder"
      /\ UNCHANGED <<dirs, plan, result, own, mishap>> /\ holder' = "made"
    BY Typing DEF MakeHolder
<1>1. /\ at' \in [Place -> Content]
      /\ \A p \in Path : at'[Repo(p)] = at[Repo(p)] /\ at'[Backup(p)] = None
    BY <1>0, Emptied DEF MakeHolder
<1>2. /\ proc' \in Processes /\ proc'.pc = "journal" /\ proc'.index = proc.index
      /\ proc'.back = proc.back
    BY Going DEF MakeHolder, Pc
<1>3. journal' \in Journals /\ journal'.state = "none" /\ journal'.index = 0
    BY LengthIsNat DEF MakeHolder, Journals, JournalState
<1>4. ~Active /\ ~Active'
    BY <1>0, <1>3 DEF Course, Active
<1>5. TypeOK'
    BY <1>0, <1>1, <1>2, <1>3 DEF TypeOK, Processes, Journals
<1>6. Course'
    BY <1>0, <1>2, <1>3, <1>4 DEF Course
<1>7. Kept'
    BY <1>0, <1>1, <1>4 DEF Kept
<1>8. Plans'
  <2> SUFFICES ASSUME NEW p \in Path PROVE Planned(p)'
      BY <1>0 DEF Plans
  <2>1. Planned(p)
      BY <1>0 DEF Plans, Busy
  <2> QED
      BY <1>0, <1>1, <1>4, <2>1 DEF Planned, Announced
<1>9. Moving'
    BY <1>2 DEF Moving
<1>10. Returned'
    BY <1>0, <1>2 DEF Returned
<1> QED
    BY <1>5, <1>6, <1>7, <1>8, <1>9, <1>10

LEMMA StageStep ==
    ASSUME Guarded, Stage
    PROVE  Guarded'
<1> USE DEF Guarded
<1>0. /\ journal \in Journals /\ proc \in Processes /\ mishap \in Mishaps
      /\ at \in [Place -> Content] /\ proc.pc = "stage"
      /\ UNCHANGED <<dirs, holder, journal, plan, result, own, mishap>>
      /\ at' = [l \in Place |->
                 IF l[1] = "staged" /\ Kind(l[2]) \in {"added", "modified"}
                 THEN New ELSE at[l]]
    BY Typing DEF Stage
<1>1. at' \in [Place -> Content]
    BY <1>0 DEF Content
<1>2. ASSUME NEW p \in Path
      PROVE  at'[Repo(p)] = at[Repo(p)] /\ at'[Backup(p)] = at[Backup(p)]
  <2>1. /\ Repo(p) \in Place /\ Backup(p) \in Place
        /\ Repo(p)[1] = "repo" /\ Backup(p)[1] = "backup"
      BY Names
  <2> QED
      BY <1>0, <2>1
<1>3. /\ proc' \in Processes /\ proc'.pc = "prepare" /\ proc'.index = proc.index
      /\ proc'.back = proc.back
    BY Going DEF Stage, Pc
<1>4. Active' = Active
    BY <1>0 DEF Active
<1>5. TypeOK'
    BY <1>0, <1>1, <1>3 DEF TypeOK, Processes
<1>6. Course'
    BY <1>0, <1>3, <1>4 DEF Course
<1>7. Kept'
    BY <1>0, <1>2, <1>4 DEF Kept
<1>8. Plans'
  <2> SUFFICES ASSUME NEW p \in Path PROVE Planned(p)'
      BY <1>0 DEF Plans
  <2>1. Planned(p)
      BY <1>0 DEF Plans, Busy
  <2>2. Announced' = Announced
      BY <1>0, <1>4 DEF Announced
  <2> QED
      BY <1>0, <1>2, <2>1, <2>2 DEF Planned
<1>9. Moving'
    BY <1>3 DEF Moving
<1>10. Returned'
    BY <1>0, <1>3 DEF Returned
<1> QED
    BY <1>5, <1>6, <1>7, <1>8, <1>9, <1>10

\* The commit: what stands in the checkout is the operator's from now on.
LEMMA CommitStep ==
    ASSUME Guarded, Commit
    PROVE  Guarded'
<1> USE DEF Guarded
<1>0. /\ journal \in Journals /\ proc \in Processes /\ mishap \in Mishaps
      /\ at \in [Place -> Content] /\ own \in [Path -> Content] /\ proc.pc = "commit"
      /\ UNCHANGED <<at, dirs, holder, plan, result>>
      /\ own' = [p \in Path |-> IF p \in Delivered THEN Applied(p) ELSE own[p]]
      /\ mishap' = [mishap EXCEPT !.late = @ \ Delivered]
    BY Typing DEF Commit
<1>1. own' \in [Path -> Content]
    BY <1>0 DEF Applied, Content
<1>2. \A p \in Path : own'[p] = at[Repo(p)]
    BY <1>0 DEF Kept, Moving, Delivered
<1>11. mishap' \in Mishaps /\ \A p \in mishap'.late : own'[p] # New
  <2>1. mishap' \in Mishaps /\ mishap'.late = mishap.late \ Delivered
      BY <1>0 DEF Mishaps
  <2>2. mishap.late \subseteq Path
      BY <1>0 DEF Mishaps
  <2>3. \A p \in mishap'.late : own'[p] = own[p]
      BY <1>0, <2>1, <2>2
  <2> QED
      BY <2>1, <2>3 DEF Kept
<1>3. /\ proc' \in Processes /\ proc'.pc = "remove" /\ proc'.index = proc.index
      /\ proc'.back = proc.back
      /\ journal' \in Journals /\ journal'.state = "applied"
    BY Advancing DEF Commit, Pc, JournalState
<1>4. ~Active' /\ ~Busy'
    BY <1>3 DEF Active, Busy
<1>5. TypeOK'
    BY <1>0, <1>1, <1>3, <1>11 DEF TypeOK, Processes, Journals, Mishaps
<1>6. Course'
    BY <1>0, <1>3, <1>4 DEF Course
<1>7. Kept'
    BY <1>0, <1>2, <1>11 DEF Kept
<1>8. Plans'
    BY <1>0, <1>4 DEF Plans
<1>9. Moving'
    BY <1>3 DEF Moving
<1>10. Returned'
  <2>1. result' \notin {"applied", "restored"}
      BY <1>0, Unreported
  <2>2. Settled'
      BY <1>0, <1>2 DEF Settled
  <2> QED
      BY <2>1, <2>2 DEF Returned
<1> QED
    BY <1>5, <1>6, <1>7, <1>8, <1>9, <1>10

\* With no move left to undo, no file is displaced and none carries the
\* candidate's bytes.
LEMMA NothingMoved ==
    ASSUME Guarded, Busy, proc.pc # "holder", Announced = 0
    PROVE  /\ Settled
           /\ \A p \in Path \ mishap.late : own[p] # None => own[p] = at[Repo(p)]
<1> USE DEF Guarded
<1>1. ASSUME NEW p \in Path \ mishap.late
      PROVE  /\ own[p] # None => own[p] = at[Repo(p)]
             /\ at[Repo(p)] \in {own[p], None, plan.sha[p]}
  <2>1. Planned(p)
      BY DEF Plans
  <2>2. ~Moved(p, "out", Announced) /\ ~Moved(p, "in", Announced)
      BY DEF Moved
  <2> QED
      BY <2>1, <2>2 DEF Planned, Kept
<1> QED
    BY <1>1 DEF Settled

LEMMA SettleStep ==
    ASSUME Guarded, Settle
    PROVE  Guarded'
<1> USE DEF Guarded
<1>0. /\ journal \in Journals /\ proc \in Processes /\ mishap \in Mishaps
      /\ proc.pc = "undo" /\ proc.index = 0
      /\ UNCHANGED <<at, dirs, holder, plan, result, own, mishap>>
    BY Typing DEF Settle
<1>1. /\ proc' \in Processes /\ proc'.pc = "remove" /\ proc'.index = proc.index
      /\ proc'.back = proc.back
      /\ journal' \in Journals /\ journal'.state = "rolled_back"
    BY Advancing DEF Settle, Pc, JournalState
<1>2. ~Active' /\ ~Busy'
    BY <1>1 DEF Active, Busy
<1>3. /\ Settled
      /\ \A p \in Path \ mishap.late : own[p] # None => own[p] = at[Repo(p)]
    BY <1>0, NothingMoved DEF Course, Announced, Busy
<1>4. TypeOK'
    BY <1>0, <1>1 DEF TypeOK, Processes, Journals
<1>5. Course'
    BY <1>0, <1>1, <1>2 DEF Course
<1>6. Kept'
    BY <1>0, <1>3 DEF Kept
<1>7. Plans'
    BY <1>0, <1>2 DEF Plans
<1>8. Moving'
    BY <1>1 DEF Moving
<1>9. Returned'
  <2>1. result' \notin {"applied", "restored"}
      BY <1>0, Unreported
  <2>2. Settled'
      BY <1>0, <1>3 DEF Settled
  <2> QED
      BY <2>1, <2>2 DEF Returned
<1> QED
    BY <1>4, <1>5, <1>6, <1>7, <1>8, <1>9

LEMMA RemoveHolderStep ==
    ASSUME Guarded, RemoveHolder
    PROVE  Guarded'
<1> USE DEF Guarded
<1>0. /\ journal \in Journals /\ proc \in Processes /\ mishap \in Mishaps
      /\ at \in [Place -> Content] /\ proc.pc \in {"remove", "discard"}
      /\ UNCHANGED <<dirs, plan, own, mishap>> /\ holder' = "none"
    BY Typing DEF RemoveHolder
<1>1. /\ at' \in [Place -> Content]
      /\ \A p \in Path : at'[Repo(p)] = at[Repo(p)] /\ at'[Backup(p)] = None
    BY <1>0, Emptied DEF RemoveHolder
<1>2. PICK o \in {"refused", "applied", "restored"} :
        End(o) /\ (proc.pc = "discard" => o = "refused")
    BY DEF RemoveHolder
<1>3. /\ proc' \in Processes /\ proc'.pc = "idle" /\ proc'.index = 0
      /\ ~proc'.back /\ result' = o
    BY <1>2, Ending
<1>4. journal' \in Journals /\ journal'.state = "none" /\ journal'.index = 0
    BY LengthIsNat DEF RemoveHolder, Journals, JournalState
<1>5. ~Active' /\ ~Busy'
    BY <1>3, <1>4 DEF Active, Busy
<1>6. \A p \in Path \ mishap.late : own[p] # None => own[p] = at[Repo(p)]
  <2>1. CASE proc.pc = "remove"
      BY <2>1 DEF Course, Kept
  <2>2. CASE proc.pc = "discard"
    <3>1. Busy /\ Announced = 0
        BY <2>2 DEF Busy, Announced, Course
    <3> QED
        BY <2>2, <3>1, NothingMoved
  <2> QED
      BY <1>0, <2>1, <2>2
<1>7. TypeOK'
    BY <1>0, <1>1, <1>3, <1>4, Typing DEF TypeOK, Processes, Journals
<1>8. Course'
    BY <1>3, <1>4, <1>5 DEF Course
<1>9. Kept'
    BY <1>0, <1>1, <1>6 DEF Kept
<1>10. Plans'
    BY <1>0, <1>5 DEF Plans
<1>11. Moving'
    BY <1>3 DEF Moving
<1>12. Returned'
  <2>1. proc.pc = "remove" => Settled'
      BY <1>0, <1>1 DEF Returned, Settled
  <2> QED
      BY <1>0, <1>2, <1>3, <2>1 DEF Returned
<1> QED
    BY <1>7, <1>8, <1>9, <1>10, <1>11, <1>12

-----------------------------------------------------------------------------
(* The steps that move a file.                                             *)

\* f is g with the bytes c at the place l.
Written(f, g, l, c) == f = [g EXCEPT ![l] = c]

\* Writing one place of the file p leaves every other file alone.
LEMMA OneFile ==
    ASSUME NEW g \in [Place -> Content], NEW p \in Path, NEW c \in Content, NEW l, NEW f,
           l \in {Repo(p), Backup(p), Staged(p)}, Written(f, g, l, c)
    PROVE  /\ f \in [Place -> Content]
           /\ \A r \in Path \ {p} : f[Repo(r)] = g[Repo(r)] /\ f[Backup(r)] = g[Backup(r)]
           /\ f[Repo(p)] = IF l = Repo(p) THEN c ELSE g[Repo(p)]
           /\ f[Backup(p)] = IF l = Backup(p) THEN c ELSE g[Backup(p)]
           /\ f[l] = c
<1>1. l \in Place
    BY Names
<1>2. \A k \in Place : f[k] = IF k = l THEN c ELSE g[k]
    BY <1>1 DEF Written
<1>3. f \in [Place -> Content]
    BY <1>1 DEF Written
<1>4. ASSUME NEW r \in Path \ {p}
      PROVE  f[Repo(r)] = g[Repo(r)] /\ f[Backup(r)] = g[Backup(r)]
  <2>1. Repo(r) # l /\ Backup(r) # l /\ Repo(r) \in Place /\ Backup(r) \in Place
      BY Names
  <2> QED
      BY <1>2, <2>1
<1>5. Repo(p) \in Place /\ Backup(p) \in Place
    BY Names
<1> QED
    BY <1>1, <1>2, <1>3, <1>4, <1>5

\* The bytes of a file that is displaced are of the baseline.
LEMMA Displaced ==
    ASSUME Guarded, proc.pc \in {"prove", "link", "unlink", "retreat"},
           Current.way = "out"
    PROVE  plan.sha[Current.path] \in Base
<1>1. /\ Current.path \in Changed /\ Current.path \in Path
      /\ Kind(Current.path) # "added"
    BY Ends DEF Guarded
<1>2. Planned(Current.path)
    BY <1>1 DEF Guarded, Plans, Busy
<1> QED
    BY <1>1, <1>2 DEF Planned

\* Where the current move leads from and to, in the direction of the process.
LEMMA Directions ==
    ASSUME TypeOK, Course, proc.pc \in {"prove", "link", "unlink", "retreat"}
    PROVE  \/ /\ Current.way = "out" /\ ~proc.back
              /\ Here = Repo(Current.path) /\ There = Backup(Current.path)
           \/ /\ Current.way = "in" /\ ~proc.back
              /\ Here = Staged(Current.path) /\ There = Repo(Current.path)
           \/ /\ Current.way = "out" /\ proc.back
              /\ Here = Backup(Current.path) /\ There = Repo(Current.path)
           \/ /\ Current.way = "in" /\ proc.back
              /\ Here = Repo(Current.path) /\ There = Staged(Current.path)
BY Ends DEF Here, There

\* The invariant after a move of the file p has written one of its places,
\* from what this does to p itself.
LEMMA FileMoves ==
    ASSUME Guarded, Course', Moving', NEW p \in Changed, p \in Path,
           proc.pc \in {"link", "unlink"}, proc' \in Processes,
           proc'.pc \notin {"idle", "holder", "remove"}, at' \in [Place -> Content],
           UNCHANGED <<dirs, holder, journal, plan, result, own, mishap>>,
           \A r \in Path \ {p} : /\ at'[Repo(r)] = at[Repo(r)]
                                 /\ at'[Backup(r)] = at[Backup(r)],
           p \notin mishap.late /\ own[p] # None =>
              own[p] \in {at'[Repo(p)], at'[Backup(p)]},
           p \notin mishap.late => own[p] \in {None, at'[Repo(p)], plan.sha[p]},
           at'[Repo(p)] \in {own[p], None, plan.sha[p], New},
           at'[Repo(p)] = New => Moved(p, "in", Announced),
           at'[Backup(p)] # None => Moved(p, "out", Announced),
           Kind(p) # "added" /\ at'[Backup(p)] \notin {None, plan.sha[p]} =>
              at'[Repo(p)] # plan.sha[p]
    PROVE  Guarded'
<1> USE DEF Guarded
<1>1. TypeOK'
    BY Typing DEF TypeOK, Processes
<1>2. Active /\ Active' /\ Busy /\ Announced' = Announced
    BY DEF Course, Active, Busy, Announced
<1>3. Kept'
  <2>1. \A r \in Path \ mishap.late :
            own[r] # None => own[r] \in {at'[Repo(r)], at'[Backup(r)]}
      BY DEF Kept
  <2>2. \A r \in Path \ Changed : at'[Repo(r)] = own[r] /\ own[r] # New
      BY DEF Kept
  <2> QED
      BY <1>2, <2>1, <2>2 DEF Kept
<1>4. Plans'
  <2> SUFFICES ASSUME NEW r \in Path PROVE Planned(r)'
      BY DEF Plans
  <2>1. Planned(r)
      BY <1>2 DEF Plans
  <2>2. CASE r = p
      BY <1>2, <2>1, <2>2 DEF Planned
  <2>3. CASE r # p
      BY <1>2, <2>1, <2>3 DEF Planned
  <2> QED
      BY <2>2, <2>3
<1>5. Returned'
    BY Unreported DEF Returned
<1> QED
    BY <1>1, <1>3, <1>4, <1>5

LEMMA LinkStep ==
    ASSUME Guarded, Link
    PROVE  Guarded'
<1> USE DEF Guarded
<1>0. /\ journal \in Journals /\ proc \in Processes /\ mishap \in Mishaps
      /\ at \in [Place -> Content] /\ proc.pc = "link"
      /\ UNCHANGED <<dirs, holder, journal, plan, result, own, mishap>>
    BY Typing DEF Link
<1>1. CASE ~CanLink
  <2>1. Goto(OnFailure) /\ at' = at
      BY <1>1 DEF Link
  <2> QED
      BY <1>0, <2>1, Falls
<1>2. CASE CanLink
  <2> DEFINE p == Current.path
  <2>1. at' = [at EXCEPT ![There] = at[Here]] /\ Goto("unlink")
      BY <1>2 DEF Link
  <2>2. /\ at[Here] = Expected(Current) \/ (Here = Repo(p) /\ p \in mishap.late)
        /\ at[Here] # None /\ at[There] = None
      BY <1>0, <1>2 DEF Moving, LeavesLate, CanLink, NameIsFree
  <2>3. p \in Changed /\ p \in Path
      BY <1>0, Ends
  <2>4. Here \in Place /\ There \in {Repo(p), Backup(p), Staged(p)} /\ Here # There
      BY <1>0, <2>3, Directions, Names
  <2>5. at[Here] \in Content
      BY <1>0, <2>4
  <2>6. /\ at' \in [Place -> Content]
        /\ \A r \in Path \ {p} : /\ at'[Repo(r)] = at[Repo(r)]
                                 /\ at'[Backup(r)] = at[Backup(r)]
        /\ at'[Repo(p)] = IF There = Repo(p) THEN at[Here] ELSE at[Repo(p)]
        /\ at'[Backup(p)] = IF There = Backup(p) THEN at[Here] ELSE at[Backup(p)]
    <3> HIDE DEF p
    <3>1. PICK l \in {Repo(p), Backup(p), Staged(p)} : l = There
        BY <2>4
    <3>2. PICK c \in Content : c = at[Here]
        BY <2>5
    <3>3. Written(at', at, l, c)
        BY <2>1, <3>1, <3>2 DEF Written
    <3> QED
        BY <1>0, <2>3, <3>1, <3>2, <3>3, OneFile
  <2>7. /\ proc' \in Processes /\ proc'.pc = "unlink" /\ proc'.index = proc.index
        /\ proc'.back = proc.back
      BY <2>1, Going DEF Pc
  <2>8. Course'
    <3>1. Active' = Active
        BY <1>0 DEF Active
    <3> QED
        BY <1>0, <2>7, <3>1 DEF Course
  <2>9. Moving'
    <3>1. /\ Current' = Current /\ Here' = Here /\ There' = There
          /\ Expected(Current)' = Expected(Current)
        BY <1>0, <2>7 DEF Current, Here, There, Source, Target, Expected
    <3>2. There \in Place
        BY <2>3, <2>4, Names
    <3>3. at'[Here] = at[Here] /\ at'[There] = at[Here]
        BY <1>0, <2>1, <2>4, <3>2, Put
    <3> QED
        BY <1>0, <2>2, <2>7, <3>1, <3>3 DEF Moving, LeavesLate
  <2>10. Planned(p)
      BY <1>0, <2>3 DEF Plans, Busy
  <2>11. Announced = proc.index /\ Moved(p, Current.way, Announced)
      BY <1>0, CurrentMoved
  <2>12. Repo(p) # Backup(p) /\ Repo(p) # Staged(p) /\ Staged(p) # Backup(p)
      BY <2>3, Names
  <2>13. p \notin mishap.late /\ own[p] # None => own[p] \in {at[Repo(p)], at[Backup(p)]}
      BY <2>3 DEF Kept
  <2>14. Current.way = "out" => Expected(Current) = plan.sha[p] /\ plan.sha[p] \in Base
      BY <1>0, Ends, Displaced
  <2>15. Current.way = "in" => Expected(Current) = New
      BY <1>0, Ends
  <2>16. New \notin Base
      BY ApplicationAssumption
  <2> HIDE DEF p
  <2>17. CASE There = Repo(p)
    <3>1. at'[Repo(p)] = at[Here] /\ at'[Backup(p)] = at[Backup(p)]
        BY <2>6, <2>12, <2>17
    <3>2. p \notin mishap.late /\ own[p] # None => own[p] = at[Backup(p)]
        BY <2>2, <2>13, <2>17
    <3>3. at[Here] = Expected(Current)
        BY <2>2, <2>4, <2>17
    <3>4. \/ Current.way = "in" /\ at[Here] = New
          \/ /\ Current.way = "out" /\ at[Here] = plan.sha[p]
             /\ at[Here] # New /\ at[Here] = at[Backup(p)]
        BY <1>0, <2>12, <2>14, <2>15, <2>16, <2>17, <3>3, Ends, Directions DEF p
    <3>5. /\ p \notin mishap.late => own[p] \in {None, at'[Repo(p)], plan.sha[p]}
          /\ at'[Repo(p)] \in {own[p], None, plan.sha[p], New}
        BY <2>2, <2>10, <2>17, <3>1, <3>4 DEF Planned
    <3>6. at'[Repo(p)] = New => Moved(p, "in", Announced)
        BY <2>11, <3>1, <3>4
    <3>7. at'[Backup(p)] # None => Moved(p, "out", Announced)
        BY <1>0, <2>10, <3>1 DEF Planned
    <3>8. Kind(p) # "added" /\ at'[Backup(p)] \notin {None, plan.sha[p]} =>
             at'[Repo(p)] # plan.sha[p]
        BY <2>3, <2>10, <2>16, <3>1, <3>4 DEF Planned
    <3>9. p \notin mishap.late /\ own[p] # None => own[p] \in {at'[Repo(p)], at'[Backup(p)]}
        BY <3>1, <3>2
    <3> QED
        BY <1>0, <2>3, <2>6, <2>7, <2>8, <2>9, <3>5, <3>6, <3>7, <3>8, <3>9, FileMoves
           DEF p
  <2>18. CASE There = Backup(p)
    <3>1. at'[Repo(p)] = at[Repo(p)] /\ at'[Backup(p)] = at[Here]
        BY <2>6, <2>12, <2>18
    <3>2. p \notin mishap.late /\ own[p] # None => own[p] = at[Repo(p)]
        BY <2>2, <2>13, <2>18
    <3>3. Current.way = "out" /\ Here = Repo(p)
        BY <1>0, <2>12, <2>18, Directions DEF p
    <3>4. Moved(p, "out", Announced) /\ at'[Backup(p)] = at'[Repo(p)]
        BY <2>11, <3>1, <3>3
    <3>5. /\ p \notin mishap.late => own[p] \in {None, at'[Repo(p)], plan.sha[p]}
          /\ at'[Repo(p)] \in {own[p], None, plan.sha[p], New}
          /\ at'[Repo(p)] = New => Moved(p, "in", Announced)
        BY <2>10, <3>1 DEF Planned
    <3>6. at'[Backup(p)] \notin {None, plan.sha[p]} => at'[Repo(p)] # plan.sha[p]
        BY <3>4
    <3> QED
        BY <1>0, <2>3, <2>6, <2>7, <2>8, <2>9, <3>1, <3>2, <3>4, <3>5, <3>6, FileMoves
           DEF p
  <2>19. CASE There = Staged(p)
    <3>1. at'[Repo(p)] = at[Repo(p)] /\ at'[Backup(p)] = at[Backup(p)]
        BY <2>6, <2>12, <2>19
    <3>2. /\ p \notin mishap.late => own[p] \in {None, at'[Repo(p)], plan.sha[p]}
          /\ at'[Repo(p)] \in {own[p], None, plan.sha[p], New}
          /\ at'[Repo(p)] = New => Moved(p, "in", Announced)
          /\ at'[Backup(p)] # None => Moved(p, "out", Announced)
          /\ Kind(p) # "added" /\ at'[Backup(p)] \notin {None, plan.sha[p]} =>
                at'[Repo(p)] # plan.sha[p]
        BY <1>0, <2>3, <2>10, <3>1 DEF Planned
    <3> QED
        BY <1>0, <2>3, <2>6, <2>7, <2>8, <2>9, <2>13, <3>1, <3>2, FileMoves DEF p
  <2> QED
      BY <2>4, <2>17, <2>18, <2>19 DEF p
<1> QED
    BY <1>1, <1>2

\* The object has gone from under the process: it says so.
LEMMA UnlinkFails ==
    ASSUME Guarded, Unlink, at[Here] = None
    PROVE  Guarded'
<1> USE DEF Guarded
<1>1. /\ mishap \in Mishaps /\ at \in [Place -> Content] /\ proc.pc = "unlink"
      /\ UNCHANGED <<dirs, holder, journal, plan, result, own, mishap>>
      /\ at' = [at EXCEPT ![Here] = None] /\ Goto(OnFailure)
    BY Typing DEF Unlink
<1>2. at' = at
    BY <1>1
<1> QED
    BY <1>1, <1>2, Falls

LEMMA UnlinkMoves ==
    ASSUME Guarded, Unlink, at[Here] # None
    PROVE  Guarded'
<1> USE DEF Guarded
<1> DEFINE p == Current.path
<1>0. /\ journal \in Journals /\ proc \in Processes /\ mishap \in Mishaps
      /\ at \in [Place -> Content] /\ proc.pc = "unlink"
      /\ UNCHANGED <<dirs, holder, journal, plan, result, own, mishap>>
      /\ at' = [at EXCEPT ![Here] = None]
    BY Typing DEF Unlink
<1>1. \/ Here = Repo(p) /\ p \in mishap.late
      \/ /\ at[Here] = Expected(Current)
         /\ at[There] = at[Here] \/ (There = Repo(p) /\ at[There] = own[p])
    BY <1>0 DEF Moving, LeavesLate
<1>2. p \in Changed /\ p \in Path
    BY <1>0, Ends
<1>3. Current.way = "out" => Expected(Current) = plan.sha[p] /\ plan.sha[p] \in Base
    BY <1>0, Ends, Displaced
<1>4. Current.way = "in" => Expected(Current) = New
    BY <1>0, Ends
<1>5. New \notin Base /\ None \notin Base /\ New # None
    BY ApplicationAssumption
<1>6. Expected(Current) # None
    BY <1>0, <1>3, <1>4, <1>5, Ends
<1>7. Here \in {Repo(p), Backup(p), Staged(p)} /\ None \in Content
    BY <1>0, Directions DEF Content
<1>8. /\ at' \in [Place -> Content]
      /\ \A r \in Path \ {p} : /\ at'[Repo(r)] = at[Repo(r)]
                               /\ at'[Backup(r)] = at[Backup(r)]
      /\ at'[Repo(p)] = IF Here = Repo(p) THEN None ELSE at[Repo(p)]
      /\ at'[Backup(p)] = IF Here = Backup(p) THEN None ELSE at[Backup(p)]
      /\ at'[Here] = None
  <2> HIDE DEF p
  <2>1. PICK l \in {Repo(p), Backup(p), Staged(p)} : l = Here
      BY <1>7
  <2>2. PICK c \in Content : c = None
      BY <1>7
  <2>3. Written(at', at, l, c)
      BY <1>0, <2>1, <2>2 DEF Written
  <2>4. Here \in Place
      BY <1>2, <1>7, Names
  <2>5. at'[Here] = None
      BY <1>0, <2>4
  <2>6. p \in Path /\ at \in [Place -> Content]
      BY <1>0, <1>2
  <2>7. /\ at' \in [Place -> Content]
        /\ \A r \in Path \ {p} : /\ at'[Repo(r)] = at[Repo(r)]
                                 /\ at'[Backup(r)] = at[Backup(r)]
        /\ at'[Repo(p)] = IF l = Repo(p) THEN c ELSE at[Repo(p)]
        /\ at'[Backup(p)] = IF l = Backup(p) THEN c ELSE at[Backup(p)]
      BY <2>1, <2>2, <2>3, <2>6, OneFile
  <2> QED
      BY <2>1, <2>2, <2>5, <2>7
<1>9. PICK pc \in {"retreat", "next"} : Goto(pc) /\ (pc = "retreat" <=> proc.back)
    BY DEF Unlink
<1>10. /\ proc' \in Processes /\ proc'.pc = pc /\ proc'.index = proc.index
       /\ proc'.back = proc.back
    BY <1>9, Going DEF Pc
<1>11. Course'
  <2>1. Active' = Active
      BY <1>0 DEF Active
  <2> QED
      BY <1>0, <1>9, <1>10, <2>1 DEF Course
<1>12. Moving'
  <2>1. CASE pc = "retreat"
    <3>1. Here = Target(Current)
        BY <1>9, <2>1 DEF Here
    <3>2. /\ Current' = Current /\ Target(Current)' = Target(Current)
          /\ Expected(Current)' = Expected(Current)
        BY <1>0, <1>10 DEF Current, Target, Expected
    <3>3. at'[Target(Current)] # Expected(Current) /\ at'[Target(Current)] = None
        BY <1>6, <1>8, <3>1
    <3> QED
        BY <1>10, <2>1, <3>2, <3>3 DEF Moving
  <2>2. CASE pc = "next"
      BY <1>10, <2>2 DEF Moving
  <2> QED
      BY <2>1, <2>2
<1>13. Planned(p)
    BY <1>0, <1>2 DEF Plans, Busy
<1>14. Repo(p) # Backup(p) /\ Repo(p) # Staged(p) /\ Staged(p) # Backup(p)
    BY <1>2, Names
<1>15. p \notin mishap.late /\ own[p] # None => own[p] \in {at[Repo(p)], at[Backup(p)]}
    BY <1>2 DEF Kept
<1>16. \/ Here = Repo(p) /\ There = Backup(p) /\ Expected(Current) = plan.sha[p]
       \/ Here = Backup(p) /\ There = Repo(p)
       \/ Here = Staged(p)
       \/ Here = Repo(p) /\ There = Staged(p) /\ Expected(Current) = New
    BY <1>0, <1>3, <1>4, Directions
<1>17. own[p] # New
    BY <1>13 DEF Planned
<1> HIDE DEF p
<1>18. p \notin mishap.late /\ own[p] # None => own[p] \in {at'[Repo(p)], at'[Backup(p)]}
    BY <1>1, <1>8, <1>14, <1>15, <1>16, <1>17
<1>19. at'[Repo(p)] \in {at[Repo(p)], None} /\ at'[Backup(p)] \in {at[Backup(p)], None}
    BY <1>8
<1>20. p \notin mishap.late => own[p] \in {None, at'[Repo(p)], plan.sha[p]}
  <2>1. p \notin mishap.late => own[p] \in {None, at[Repo(p)], plan.sha[p]}
      BY <1>13 DEF Planned
  <2> QED
      BY <1>1, <1>8, <1>14, <1>16, <1>17, <2>1
<1>21. /\ at'[Repo(p)] \in {own[p], None, plan.sha[p], New}
       /\ at'[Repo(p)] = New => Moved(p, "in", Announced)
       /\ at'[Backup(p)] # None => Moved(p, "out", Announced)
    BY <1>0, <1>5, <1>13, <1>19 DEF Planned
<1>22. Kind(p) # "added" /\ at'[Backup(p)] \notin {None, plan.sha[p]} =>
          at'[Repo(p)] # plan.sha[p]
    BY <1>0, <1>2, <1>5, <1>13, <1>19 DEF Planned
<1> QED
    BY <1>0, <1>2, <1>8, <1>10, <1>11, <1>12, <1>18, <1>20, <1>21, <1>22, FileMoves

LEMMA UnlinkStep == Guarded /\ Unlink => Guarded'
BY UnlinkFails, UnlinkMoves

\* A move that is undone leaves neither its backup nor the candidate's bytes.
LEMMA RetreatStep ==
    ASSUME Guarded, Retreat
    PROVE  Guarded'
<1> USE DEF Guarded
<1>0. /\ journal \in Journals /\ proc \in Processes /\ mishap \in Mishaps
      /\ at \in [Place -> Content] /\ proc.pc = "retreat"
      /\ UNCHANGED <<at, dirs, holder, plan, result, own, mishap>>
      /\ proc' = [proc EXCEPT !.index = proc.index - 1, !.pc = "undo"]
      /\ journal' = [journal EXCEPT !.index = proc.index - 1]
    BY Typing DEF Retreat
<1>1. /\ proc.index \in 1..Len(Moves) /\ proc.index - 1 \in 0..Len(Moves)
      /\ journal.index = proc.index /\ Active /\ proc.back
    BY <1>0, LengthIsNat, Ends DEF Course
<1>2. /\ proc' \in Processes /\ proc'.pc = "undo" /\ proc'.index = proc.index - 1
      /\ proc'.back = proc.back
    BY <1>0, <1>1 DEF Processes, Pc
<1>3. /\ journal' \in Journals /\ journal'.state = journal.state
      /\ journal'.index = proc.index - 1
    BY <1>0, <1>1 DEF Journals
<1>4. Active'
    BY <1>1, <1>3 DEF Active
<1>5. TypeOK'
    BY <1>0, <1>2, <1>3, Typing DEF TypeOK, Processes, Journals
<1>6. Course'
    BY <1>0, <1>1, <1>2, <1>3, <1>4 DEF Course
<1>7. Kept'
    BY <1>0, <1>1, <1>4 DEF Kept
<1>8. Announced = proc.index /\ Announced' = proc.index - 1
    BY <1>1, <1>3, <1>4 DEF Announced
<1>9. /\ at[Target(Current)] # Expected(Current)
      /\ Current.way = "out" => at[Target(Current)] = None
    BY <1>0 DEF Moving
<1>10. Plans'
  <2> SUFFICES ASSUME NEW p \in Path PROVE Planned(p)'
      BY <1>0 DEF Plans
  <2>1. Planned(p)
      BY <1>0 DEF Plans, Busy
  <2>2. ASSUME NEW way \in {"out", "in"}, Moved(p, way, Announced),
               ~(Current.path = p /\ Current.way = way)
        PROVE  Moved(p, way, Announced')
      BY <1>1, <1>8, <2>2 DEF Moved, Current
  <2>3. ASSUME at[Repo(p)] = New PROVE Moved(p, "in", Announced')
    <3>1. ~(Current.path = p /\ Current.way = "in")
        BY <1>0, <1>9, <2>3, Ends
    <3> QED
        BY <2>1, <2>2, <2>3, <3>1 DEF Planned
  <2>4. ASSUME at[Backup(p)] # None
        PROVE  Moved(p, "out", Announced')
    <3>1. Moved(p, "out", Announced)
        BY <1>0, <2>1, <2>4 DEF Planned
    <3>2. ~(Current.path = p /\ Current.way = "out")
        BY <1>0, <1>9, <2>4, Ends
    <3> QED
        BY <2>2, <3>1, <3>2
  <2> QED
      BY <1>0, <1>2, <2>1, <2>3, <2>4 DEF Planned
<1>11. Moving'
    BY <1>2 DEF Moving
<1>12. Returned'
    BY <1>0, <1>2, Unreported DEF Returned
<1> QED
    BY <1>5, <1>6, <1>7, <1>10, <1>11, <1>12

\* The operator saves or deletes a file, whatever the process is doing.
LEMMA EditStep ==
    ASSUME Guarded, NEW p \in Path, NEW c \in Mine \cup {None}, Edit(p, c)
    PROVE  Guarded'
<1> USE DEF Guarded
<1>0. /\ at \in [Place -> Content] /\ own \in [Path -> Content] /\ mishap \in Mishaps
      /\ UNCHANGED <<dirs, holder, journal, plan, proc, result>>
      /\ at' = [at EXCEPT ![Repo(p)] = c] /\ own' = [own EXCEPT ![p] = c]
    BY Typing DEF Edit
<1>1. c \in Content /\ c # New
    BY ApplicationAssumption DEF Content
<1>2. /\ at' \in [Place -> Content]
      /\ \A r \in Path \ {p} : /\ at'[Repo(r)] = at[Repo(r)]
                               /\ at'[Backup(r)] = at[Backup(r)]
      /\ at'[Repo(p)] = c /\ at'[Backup(p)] = at[Backup(p)]
  <2>1. Repo(p) \in {Repo(p), Backup(p), Staged(p)} /\ Repo(p) # Backup(p)
      BY Names
  <2>2. Written(at', at, Repo(p), c)
      BY <1>0 DEF Written
  <2>3. at \in [Place -> Content] /\ c \in Content
      BY <1>0, <1>1
  <2>4. /\ at' \in [Place -> Content]
        /\ \A r \in Path \ {p} : /\ at'[Repo(r)] = at[Repo(r)]
                                 /\ at'[Backup(r)] = at[Backup(r)]
        /\ at'[Repo(p)] = c
        /\ at'[Backup(p)] = IF Repo(p) = Backup(p) THEN c ELSE at[Backup(p)]
      BY <2>1, <2>2, <2>3, OneFile
  <2> QED
      BY <2>1, <2>4
<1>3. /\ own' \in [Path -> Content] /\ own'[p] = c
      /\ \A r \in Path \ {p} : own'[r] = own[r]
    BY <1>0, <1>1
<1>4. /\ mishap' \in Mishaps
      /\ mishap'.late = IF Late(p, c) THEN mishap.late \cup {p} ELSE mishap.late \ {p}
      /\ mishap'.since = IF proc.pc = "commit" THEN mishap.since \cup {p} ELSE mishap.since
  <2>1. ThisEdit \in Mine
      BY <1>0 DEF Edit, ThisEdit, Mishaps
  <2>2. mishap' = [mishap EXCEPT
          !.edits = @ \cup {ThisEdit},
          !.late = IF Late(p, c) THEN @ \cup {p} ELSE @ \ {p},
          !.since = IF proc.pc = "commit" THEN @ \cup {p} ELSE @]
      BY DEF Edit
  <2> QED
      BY <1>0, <2>1, <2>2 DEF Mishaps
<1>5. TypeOK'
    BY <1>0, <1>2, <1>3, <1>4 DEF TypeOK, Mishaps
<1>6. Active' = Active /\ Busy' = Busy /\ Announced' = Announced
    BY <1>0 DEF Active, Busy, Announced
<1>7. Course'
    BY <1>0, <1>6 DEF Course
<1>8. Kept'
  <2>1. ASSUME NEW r \in Path
        PROVE  /\ r \notin mishap'.late /\ own'[r] # None =>
                     /\ own'[r] \in {at'[Repo(r)], at'[Backup(r)]}
                     /\ ~Active => own'[r] = at'[Repo(r)]
               /\ r \in mishap'.late => own'[r] # New
               /\ r \notin Changed => at'[Repo(r)] = own'[r] /\ own'[r] # New
    <3>1. CASE r = p
        BY <1>1, <1>2, <1>3, <3>1
    <3>2. CASE r # p
        BY <1>2, <1>3, <1>4, <3>2 DEF Kept
    <3> QED
        BY <3>1, <3>2
  <2>2. mishap'.late \subseteq Path
      BY <1>4 DEF Mishaps
  <2> QED
      BY <1>6, <2>1, <2>2 DEF Kept
<1>9. Plans'
  <2> SUFFICES ASSUME Busy, NEW r \in Path PROVE Planned(r)'
      BY <1>0, <1>6 DEF Plans
  <2>1. Planned(r)
      BY DEF Plans
  <2>2. CASE r = p
    <3>1. p \in Changed /\ Kind(p) # "added" => c # plan.sha[p]
        BY <2>1, <2>2, ApplicationAssumption DEF Planned
    <3> QED
        BY <1>0, <1>1, <1>2, <1>3, <1>6, <2>1, <2>2, <3>1 DEF Planned
  <2>3. CASE r # p
      BY <1>0, <1>2, <1>3, <1>4, <1>6, <2>1, <2>3 DEF Planned
  <2> QED
      BY <2>2, <2>3
<1>10. Moving'
  <2> DEFINE f == Current.path
  <2>1. /\ Current' = Current /\ Here' = Here /\ There' = There
        /\ Target(Current)' = Target(Current) /\ Expected(Current)' = Expected(Current)
      BY <1>0 DEF Current, Here, There, Source, Target, Expected
  <2>2. ASSUME NEW l \in Place, l # Repo(p) PROVE at'[l] = at[l]
      BY <1>0, <2>2
  <2>3. ASSUME proc.pc \in {"link", "unlink"}, Here = Repo(p)
        PROVE  LeavesLate'
    <3>1. f \in Path
        BY <2>3, Ends
    <3>2. f = p
        BY <2>3, <3>1, Directions, Names
    <3>3. c = None \/ p \in mishap'.late
        BY <1>4, <2>3 DEF Late, Leaving
    <3> QED
        BY <1>2, <2>1, <2>3, <3>2, <3>3 DEF LeavesLate
  <2>4. ASSUME proc.pc \in {"link", "unlink"}, Here # Repo(p)
        PROVE  /\ at'[Here] = at[Here]
               /\ LeavesLate => LeavesLate'
    <3>1. f \in Path
        BY <2>4, Ends
    <3>2. Here \in Place
        BY <2>4, <3>1, Directions, Names
    <3>3. at'[Here] = at[Here]
        BY <2>2, <2>4, <3>2
    <3>4. Here = Repo(f) => f # p
        BY <2>4
    <3> QED
        BY <1>4, <2>1, <3>3, <3>4 DEF LeavesLate
  <2>5. ASSUME proc.pc = "link" PROVE (at[Here] = Expected(Current) \/ LeavesLate)'
      BY <2>1, <2>3, <2>4, <2>5 DEF Moving
  <2>6. ASSUME proc.pc = "unlink", Here # Repo(p), ~LeavesLate
        PROVE  /\ at'[Here] = Expected(Current)
               /\ at'[There] = at'[Here] \/ (There = Repo(f) /\ at'[There] = own'[f])
    <3>1. /\ at[Here] = Expected(Current)
          /\ at[There] = at[Here] \/ (There = Repo(f) /\ at[There] = own[f])
        BY <2>6 DEF Moving
    <3>2. at'[Here] = at[Here]
        BY <2>4, <2>6
    <3>3. f \in Path
        BY <2>6, Ends
    <3>4. There \in {Repo(f), Backup(f), Staged(f)}
        BY <2>6, Directions
    <3>5. CASE There = Repo(p)
      <4>1. f = p
          BY <3>3, <3>4, <3>5, Names
      <4> QED
          BY <1>2, <1>3, <3>1, <3>2, <3>5, <4>1
    <3>6. CASE There # Repo(p)
      <4>1. There \in Place
          BY <3>3, <3>4, Names
      <4>2. at'[There] = at[There]
          BY <2>2, <3>6, <4>1
      <4>3. There = Repo(f) => own'[f] = own[f]
          BY <1>3, <3>3, <3>6
      <4> QED
          BY <3>1, <3>2, <4>2, <4>3
    <3> QED
        BY <3>5, <3>6
  <2>7. ASSUME proc.pc = "retreat"
        PROVE  /\ at'[Target(Current)] # Expected(Current)
               /\ Current.way = "out" => at'[Target(Current)] = None
    <3>1. /\ at[Target(Current)] # Expected(Current)
          /\ Current.way = "out" => at[Target(Current)] = None
        BY <2>7 DEF Moving
    <3>2. CASE Target(Current) = Repo(p)
      <4>1. Current.way = "in" /\ Expected(Current) = New
          BY <2>7, <3>2, Ends, Names
      <4> QED
          BY <1>1, <1>2, <3>2, <4>1
    <3>3. CASE Target(Current) # Repo(p)
      <4>1. Target(Current) \in Place
          BY <2>7, Ends, Names
      <4>2. at'[Target(Current)] = at[Target(Current)]
          BY <2>2, <3>3, <4>1
      <4> QED
          BY <3>1, <4>2
    <3> QED
        BY <3>2, <3>3
  <2>8. ASSUME proc.pc = "commit", NEW r \in Changed
        PROVE  at'[Repo(r)] = IF r \in mishap'.since THEN own'[r] ELSE Applied(r)
    <3>1. at[Repo(r)] = IF r \in mishap.since THEN own[r] ELSE Applied(r)
        BY <2>8 DEF Moving
    <3>2. r \in Path
        BY ChangedIsPath
    <3>3. CASE r = p
        BY <1>2, <1>3, <1>4, <2>8, <3>3
    <3>4. CASE r # p
        BY <1>2, <1>3, <1>4, <3>1, <3>2, <3>4
    <3> QED
        BY <3>3, <3>4
  <2>9. ASSUME proc.pc = "unlink"
        PROVE  \/ LeavesLate'
               \/ /\ at'[Here] = Expected(Current)
                  /\ at'[There] = at'[Here] \/ (There = Repo(f) /\ at'[There] = own'[f])
      BY <2>3, <2>4, <2>6, <2>9
  <2> QED
      BY <1>0, <2>1, <2>5, <2>7, <2>8, <2>9 DEF Moving
<1>11. Returned'
  <2>1. Settled => Settled'
    <3> SUFFICES ASSUME Settled, NEW r \in Path, r \notin mishap'.late
                 PROVE  \/ at'[Repo(r)] = own'[r]
                        \/ own'[r] = None /\ at'[Repo(r)] = plan.sha[r]
        BY <1>0 DEF Settled
    <3>1. CASE r = p
        BY <1>2, <1>3, <3>1
    <3>2. CASE r # p
        BY <1>2, <1>3, <1>4, <3>2 DEF Settled
    <3> QED
        BY <3>1, <3>2
  <2> QED
      BY <1>0, <2>1 DEF Returned
<1> QED
    BY <1>5, <1>7, <1>8, <1>9, <1>10, <1>11

-----------------------------------------------------------------------------
(* The theorems.                                                           *)

LEMMA Beginning == Init => Guarded
<1> SUFFICES ASSUME Init PROVE Guarded
    OBVIOUS
<1> USE DEF Init
<1>1. own \in [Path -> Content] /\ \A p \in Path : own[p] # New
    BY ApplicationAssumption DEF Content
<1>2. at \in [Place -> Content]
    BY <1>1 DEF Place, Content
<1>3. \A p \in Path : at[Repo(p)] = own[p]
    BY Names DEF Repo
<1>4. 0 \in 0..Len(Moves)
    BY LengthIsNat
<1>5. TypeOK
  <2>1. journal \in Journals /\ proc \in Processes
      BY <1>4 DEF Journals, Processes, Down, JournalState, Pc
  <2>2. mishap \in Mishaps
      BY ApplicationAssumption DEF Mishaps
  <2> QED
      BY <1>1, <1>2, <2>1, <2>2 DEF TypeOK, Journals, Processes, Mishaps
<1>6. proc.pc = "idle" /\ proc.index = 0 /\ ~proc.back /\ journal.state = "none"
    BY DEF Down
<1>7. ~Active /\ ~Busy
    BY <1>6 DEF Active, Busy
<1>8. Course
    BY <1>6, <1>7 DEF Course
<1>9. Kept
    BY <1>1, <1>3 DEF Kept
<1>10. Plans
    BY <1>7 DEF Plans
<1>11. Moving /\ Returned
    BY <1>6 DEF Moving, Returned
<1> QED
    BY <1>5, <1>8, <1>9, <1>10, <1>11 DEF Guarded

\* The invariant of the application: whoever crashes, fails or edits, only what
\* the journal has announced is away from home.
THEOREM GuardedAlways == Spec => []Guarded
<1>1. Guarded /\ [Next]_vars => Guarded'
  <2> SUFFICES ASSUME Guarded, [Next]_vars PROVE Guarded'
      OBVIOUS
  <2>1. CASE Applying
      BY <2>1, PlanStep, MakeHolderStep, OpeningSteps, StageStep, ForwardSteps, CommitStep
         DEF Applying
  <2>2. CASE Undoing
      BY <2>2, UndoingSteps, LookingSteps, RetreatStep, SettleStep DEF Undoing
  <2>3. CASE Prove \/ Link \/ Unlink \/ RemoveHolder
      BY <2>3, LookingSteps, LinkStep, UnlinkStep, RemoveHolderStep
  <2>4. CASE Start
      BY <2>4, StartStep
  <2>5. CASE OperatorMakesDirectory \/ UNCHANGED vars
      BY <2>5, ForeignSteps
  <2>6. CASE EarlyStepFails \/ SlotsUnbound \/ StepFails \/ JournalFails \/ RemovalFails
             \/ Crash \/ Recover
      BY <2>6, FailingSteps
  <2>7. CASE IntentFails
      BY <2>7, ForwardSteps
  <2>8. CASE \E p \in Path, c \in Mine \cup {None} : Edit(p, c)
      BY <2>8, EditStep
  <2> QED
      BY <2>1, <2>2, <2>3, <2>4, <2>5, <2>6, <2>7, <2>8 DEF Next, Working
<1> QED
  BY <1>1, Beginning, PTL DEF Spec

\* _execute, _undo, recover_application: whatever fails or dies, the operator's
\* bytes are at their name or in a backup that stays, unless they were saved under
\* a move that had proved the file; a commit gives up planned bytes only, and no
\* object has moved beyond the index that a recovery would read.
THEOREM NothingIsEverLost == Spec => []NothingIsLost
<1>1. Guarded => NothingIsLost
  <2> SUFFICES ASSUME Guarded PROVE NothingIsLost
      OBVIOUS
  <2> USE DEF Guarded
  <2>1. OwnBytesSurvive
      BY DEF Kept, OwnBytesSurvive
  <2>2. IntentIsDurable
    <3> SUFFICES ASSUME Active, NEW i \in journal.index + 1 .. Len(Moves),
                        at[Target(Moves[i])] = Expected(Moves[i])
                 PROVE  FALSE
        BY DEF IntentIsDurable, Active
    <3>1. Busy /\ Announced = journal.index /\ proc.pc # "holder"
        BY DEF Busy, Announced, Course
    <3>2. journal.index \in Nat /\ i \in 1..Len(Moves) /\ i > journal.index
        BY Typing, LengthIsNat DEF Journals
    <3> DEFINE p == Moves[i].path
    <3>3. /\ p \in Changed /\ p \in Path /\ Moves[i].way \in {"out", "in"}
          /\ Moves[i].way = "out" => Kind(p) # "added"
        BY <3>2, Table
    <3>4. Planned(p)
        BY <3>1, <3>3 DEF Plans
    <3>5. ~Moved(p, Moves[i].way, Announced)
      <4> SUFFICES ASSUME NEW j \in 1..journal.index,
                          Moves[j].path = p, Moves[j].way = Moves[i].way
                   PROVE  FALSE
          BY <3>1 DEF Moved
      <4>1. j \in 1..Len(Moves) /\ j # i
          BY <3>2, LengthIsNat
      <4> QED
          BY <3>2, <4>1, MovesAssumption
    <3>6. CASE Moves[i].way = "in"
        BY <3>4, <3>5, <3>6 DEF Planned, Target, Expected
    <3>7. CASE Moves[i].way = "out"
      <4>1. at[Backup(p)] = plan.sha[p] /\ plan.sha[p] \in Base
          BY <3>3, <3>4, <3>7 DEF Planned, Target, Expected
      <4>2. at[Backup(p)] # None
          BY <4>1, ApplicationAssumption
      <4> QED
          BY <3>1, <3>4, <3>5, <3>7, <4>2 DEF Planned
    <3> QED
        BY <3>3, <3>6, <3>7
  <2>3. OnlyPlannedBytesGo
    <3> SUFFICES ASSUME proc.pc = "commit", NEW p \in Delivered \ mishap.late
                 PROVE  own[p] \in {plan.sha[p], None}
        BY DEF OnlyPlannedBytesGo
    <3>1. p \in Path /\ at[Repo(p)] = Applied(p)
        BY ChangedIsPath DEF Delivered, Moving
    <3>2. Planned(p)
        BY <3>1 DEF Plans, Busy
    <3> QED
        BY <3>1, <3>2 DEF Planned, Applied
  <2> QED
      BY <2>1, <2>2, <2>3 DEF NothingIsLost
<1> QED
  BY <1>1, GuardedAlways, PTL

\* _verify, _rollback: a call that reports success, or a rollback, has left the
\* whole candidate or the whole checkout of the operator.
THEOREM ReportsAreTrue == Spec => []ReturnedTreeIsWhole
<1>1. Guarded => ReturnedTreeIsWhole
    BY DEF Guarded, Returned, Settled, ReturnedTreeIsWhole
<1> QED
  BY <1>1, GuardedAlways, PTL

-----------------------------------------------------------------------------
(* An acceptance.  A receipt is earned because each phase hands the next one *)
(* what it has made sure of.                                                 *)

Gates    == [pc : Phases, attempt : 0..MaxAttempt, claimed : Contents,
             issued : EditCount, todo : SUBSET File, before : Contents,
             next : 1..Commands + 1, error : BOOLEAN]
Mirrors  == [attempt : 0..MaxAttempt, marked : BOOLEAN, tree : Contents, corpus : Contents]
Receipts == [attempt : 0..MaxAttempt, candidate : Contents, task : EditCount,
             status : {"none", "pending", "passed", "failed"}]
Measures == [tree : Contents, corpus : Contents, zeros : 0..Commands]

\* From its first mirror byte on an attempt stands on its own pending receipt.
Pended == gate.pc \notin {"idle", "derive", "receipt"} => receipt = Receipt("pending")

\* The commands that exited zero are counted, for this attempt and no later one.
Counted ==
    /\ gate.pc # "idle" => /\ gate.attempt \in Attempt
                           /\ measured[gate.attempt].zeros = gate.next - 1
    /\ \A a \in Attempt : a > gate.attempt => measured[a].zeros = 0

\* The files the receipt names, from the copy to the first command.
Claimed ==
    /\ gate.pc = "copy" =>
          \A f \in File : f \notin gate.todo => mirror.tree[f] = gate.claimed[f]
    /\ gate.pc \in {"corpus", "git"} => mirror.tree = gate.claimed
    /\ gate.pc \in {"walk", "remove", "conclude"} /\ (gate.pc # "walk" => ~gate.error) =>
          measured[gate.attempt].tree = gate.claimed
    /\ gate.pc = "conclude" /\ ~gate.error => mirror = NoMirror

\* The corpus only gets newer, so one that is as before has not moved meanwhile.
CorpusAges ==
    /\ \A f \in File : corpus[f] <= edits
    /\ gate.pc = "corpus" => \A f \in File :
          /\ gate.before[f] <= corpus[f]
          /\ f \notin gate.todo => /\ gate.before[f] <= mirror.corpus[f]
                                   /\ mirror.corpus[f] <= corpus[f]
    /\ gate.pc = "git" => mirror.corpus = gate.before
    /\ gate.pc = "walk" => measured[gate.attempt].corpus = gate.before

Earned == GateTypeOK /\ Pended /\ Counted /\ Claimed /\ CorpusAges /\ PassedIsEarned

LEMMA GateTyping ==
    GateTypeOK <=> /\ edits \in EditCount /\ tree \in Contents /\ corpus \in Contents
                   /\ task \in EditCount /\ gate \in Gates /\ mirror \in Mirrors
                   /\ receipt \in Receipts /\ measured \in [Attempt -> Measures]
BY DEF GateTypeOK, Gates, Mirrors, Receipts, Measures

LEMMA Blank ==
    /\ 0 \in EditCount /\ Untouched \in Contents /\ Idle \in Gates /\ NoMirror \in Mirrors
    /\ \A a \in 0..MaxAttempt : [Idle EXCEPT !.attempt = a] \in Gates
<1>1. 0 \in EditCount /\ 0 \in 0..MaxAttempt /\ 1 \in 1..Commands + 1
    BY GateAssumption DEF EditCount
<1>2. Untouched \in Contents
    BY <1>1 DEF Untouched, Contents
<1> QED
    BY <1>1, <1>2 DEF Idle, NoMirror, Gates, Mirrors, Phases

LEMMA EarnedAtFirst == GateInit => Earned
<1> SUFFICES ASSUME GateInit PROVE Earned
    OBVIOUS
<1> USE DEF GateInit
<1>1. edits \in EditCount /\ tree \in Contents /\ corpus \in Contents /\ task \in EditCount
    BY Blank
<1>2. gate \in Gates /\ mirror \in Mirrors
    BY Blank
<1>3. receipt \in Receipts /\ receipt.status = "none"
  <2>1. 0 \in 0..MaxAttempt
      BY GateAssumption
  <2> QED
      BY <2>1, Blank DEF Receipts
<1>4. measured \in [Attempt -> Measures] /\ \A a \in Attempt : measured[a].zeros = 0
  <2>1. 0 \in 0..Commands
      BY GateAssumption
  <2> QED
      BY <2>1, Blank DEF Measures
<1>5. gate.pc = "idle"
    BY DEF Idle
<1>6. GateTypeOK
    BY <1>1, <1>2, <1>3, <1>4, GateTyping
<1>7. Pended /\ Counted /\ Claimed /\ PassedIsEarned
    BY <1>3, <1>4, <1>5 DEF Pended, Counted, Claimed, PassedIsEarned
<1>8. CorpusAges
  <2>1. \A f \in File : corpus[f] <= edits
      BY DEF Untouched
  <2> QED
      BY <1>5, <2>1 DEF CorpusAges
<1> QED
    BY <1>6, <1>7, <1>8 DEF Earned

\* A write of somebody else is newer than all that lies anywhere.
LEMMA OthersStep == Earned /\ SomeoneWrites => Earned'
<1> SUFFICES ASSUME Earned, SomeoneWrites PROVE Earned'
    OBVIOUS
<1> USE DEF Earned
<1>0. /\ edits \in EditCount /\ tree \in Contents /\ corpus \in Contents
      /\ task \in EditCount /\ gate \in Gates /\ mirror \in Mirrors
      /\ receipt \in Receipts /\ measured \in [Attempt -> Measures]
    BY GateTyping
<1>1. edits' = edits + 1 /\ edits' \in EditCount /\ edits \in Nat
    BY <1>0, GateAssumption DEF SomeoneWrites, EditCount
<1>2. UNCHANGED <<gate, mirror, receipt, measured>>
    BY DEF SomeoneWrites
<1>3. /\ tree' \in Contents /\ task' \in EditCount
      /\ corpus' \in Contents
      /\ \A f \in File : corpus[f] <= corpus'[f] /\ corpus'[f] <= edits'
  <2>1. \A f \in File : corpus[f] \in Nat /\ corpus[f] <= edits
      BY <1>0 DEF CorpusAges, Contents, EditCount
  <2>2. CASE UNCHANGED corpus
    <3>1. tree' \in Contents /\ task' \in EditCount
        BY <1>0, <1>1 DEF SomeoneWrites, Contents
    <3> QED
        BY <1>0, <1>1, <2>1, <2>2, <3>1
  <2>3. CASE \E f \in File : corpus' = [corpus EXCEPT ![f] = edits']
    <3>1. PICK f \in File : corpus' = [corpus EXCEPT ![f] = edits']
        BY <2>3
    <3>2. corpus' \in Contents
        BY <1>0, <1>1, <3>1 DEF Contents
    <3>3. \A g \in File : corpus'[g] = IF g = f THEN edits' ELSE corpus[g]
        BY <1>0, <3>1 DEF Contents
    <3>4. tree' \in Contents /\ task' \in EditCount
        BY <1>0, <1>1 DEF SomeoneWrites, Contents
    <3> QED
        BY <1>1, <2>1, <3>2, <3>3, <3>4
  <2> QED
      BY <2>2, <2>3 DEF SomeoneWrites
<1>4. GateTypeOK'
    BY <1>0, <1>1, <1>2, <1>3 DEF GateTypeOK, Gates, Mirrors, Receipts, Measures
<1>5. Pended' /\ Counted' /\ Claimed' /\ PassedIsEarned'
    BY <1>2 DEF Pended, Counted, Claimed, PassedIsEarned, Receipt
<1>6. CorpusAges'
  <2>1. ASSUME gate.pc = "corpus", NEW f \in File
        PROVE  /\ gate.before[f] <= corpus'[f]
               /\ f \notin gate.todo => mirror.corpus[f] <= corpus'[f]
    <3>1. gate.before[f] \in Nat /\ corpus[f] \in Nat /\ corpus'[f] \in Nat
          /\ mirror.corpus[f] \in Nat
        BY <1>0, <1>3 DEF Gates, Mirrors, Contents, EditCount
    <3> QED
        BY <1>3, <2>1, <3>1 DEF CorpusAges
  <2> QED
      BY <1>2, <1>3, <2>1 DEF CorpusAges
<1> QED
    BY <1>4, <1>5, <1>6

\* A step after which no attempt is under way and no receipt has been written.
LEMMA Abandoned ==
    ASSUME Earned, Return, receipt' \in {receipt, Receipt("pending"), Receipt("failed")},
           UNCHANGED <<edits, tree, corpus, task, mirror, measured>>
    PROVE  Earned'
<1> USE DEF Earned
<1>0. /\ edits \in EditCount /\ tree \in Contents /\ corpus \in Contents
      /\ task \in EditCount /\ gate \in Gates /\ mirror \in Mirrors
      /\ receipt \in Receipts /\ measured \in [Attempt -> Measures]
    BY GateTyping
<1>1. gate.attempt \in 0..MaxAttempt /\ gate.claimed \in Contents /\ gate.issued \in EditCount
    BY <1>0 DEF Gates
<1>2. gate' \in Gates /\ gate'.pc = "idle" /\ gate'.attempt = gate.attempt
    BY <1>1, Blank DEF Return, Idle
<1>3. receipt' \in Receipts /\ (receipt' = receipt \/ receipt'.status # "passed")
    BY <1>0, <1>1 DEF Receipts, Receipt
<1>4. GateTypeOK'
    BY <1>0, <1>2, <1>3 DEF GateTypeOK, Gates, Mirrors, Receipts, Measures
<1>5. Pended' /\ Claimed'
    BY <1>2 DEF Pended, Claimed
<1>6. Counted' /\ CorpusAges'
    BY <1>2 DEF Counted, CorpusAges
<1>7. PassedIsEarned'
    BY <1>3 DEF PassedIsEarned
<1> QED
    BY <1>4, <1>5, <1>6, <1>7

LEMMA BeginStep == Earned /\ (Begin \/ (Derive /\ Went("receipt"))) => Earned'
<1> SUFFICES ASSUME Earned, Begin \/ (Derive /\ Went("receipt")) PROVE Earned'
    OBVIOUS
<1> USE DEF Earned
<1>0. /\ edits \in EditCount /\ tree \in Contents /\ corpus \in Contents
      /\ task \in EditCount /\ gate \in Gates /\ mirror \in Mirrors
      /\ receipt \in Receipts /\ measured \in [Attempt -> Measures]
    BY GateTyping
<1>1. UNCHANGED <<edits, tree, corpus, task, mirror, receipt, measured>>
    BY DEF Begin, Derive, Others
<1>2. gate' \in Gates /\ gate'.pc \in {"derive", "receipt"} /\ Counted'
  <2>1. CASE Begin
    <3>1. gate.attempt \in 0..MaxAttempt /\ gate.pc = "idle" /\ gate.attempt < MaxAttempt
        BY <1>0, <2>1 DEF Begin, Gates
    <3>2. PICK n \in Attempt : n = gate.attempt + 1
        BY <3>1, GateAssumption DEF Attempt
    <3>3. n \in 0..MaxAttempt /\ "derive" \in Phases
        BY <3>2 DEF Attempt, Phases
    <3>4. gate' = [Idle EXCEPT !.pc = "derive", !.attempt = n, !.claimed = tree, !.issued = task]
        BY <2>1, <3>2 DEF Begin
    <3>5. gate' \in Gates /\ gate'.pc = "derive" /\ gate'.attempt = n /\ gate'.next = 1
        BY <1>0, <3>3, <3>4, Blank DEF Gates, Idle
    <3>6. measured[n].zeros = 0 /\ \A a \in Attempt : a > n => measured[a].zeros = 0
        BY <3>1, <3>2, GateAssumption DEF Counted, Attempt
    <3> QED
        BY <1>1, <3>2, <3>5, <3>6 DEF Counted
  <2>2. CASE Derive /\ Went("receipt")
    <3>1. gate' = [gate EXCEPT !.pc = "receipt"] /\ gate.pc = "derive" /\ "receipt" \in Phases
        BY <2>2 DEF Derive, Went, Phases
    <3>2. gate' \in Gates /\ gate'.pc = "receipt" /\ gate'.attempt = gate.attempt
          /\ gate'.next = gate.next
        BY <1>0, <3>1 DEF Gates
    <3> QED
        BY <1>1, <3>1, <3>2 DEF Counted
  <2> QED
      BY <2>1, <2>2
<1>3. GateTypeOK'
    BY <1>0, <1>1, <1>2 DEF GateTypeOK, Gates, Mirrors, Receipts, Measures
<1>4. Pended' /\ Claimed' /\ CorpusAges' /\ PassedIsEarned'
    BY <1>1, <1>2 DEF Pended, Claimed, CorpusAges, PassedIsEarned
<1> QED
    BY <1>2, <1>3, <1>4

LEMMA PendingStep ==
    Earned /\ WritePending /\ receipt' = Receipt("pending") /\ Went("holder") => Earned'
<1> SUFFICES ASSUME Earned, WritePending, receipt' = Receipt("pending"), Went("holder")
             PROVE  Earned'
    OBVIOUS
<1> USE DEF Earned
<1>0. /\ edits \in EditCount /\ tree \in Contents /\ corpus \in Contents
      /\ task \in EditCount /\ gate \in Gates /\ mirror \in Mirrors
      /\ receipt \in Receipts /\ measured \in [Attempt -> Measures]
    BY GateTyping
<1>1. UNCHANGED <<edits, tree, corpus, task, mirror, measured>> /\ gate.pc = "receipt"
    BY DEF WritePending, Others
<1>2. "holder" \in Phases /\ gate' = [gate EXCEPT !.pc = "holder"]
    BY DEF Phases, Went
<1>3. /\ gate' \in Gates /\ gate'.pc = "holder" /\ gate'.attempt = gate.attempt
      /\ gate'.next = gate.next /\ gate'.claimed = gate.claimed /\ gate'.issued = gate.issued
    BY <1>0, <1>2 DEF Gates
<1>4. receipt' \in Receipts /\ receipt'.status = "pending"
    BY <1>0 DEF Receipts, Receipt, Gates
<1>5. GateTypeOK'
    BY <1>0, <1>1, <1>3, <1>4 DEF GateTypeOK, Gates, Mirrors, Receipts, Measures
<1>6. Pended' /\ PassedIsEarned'
    BY <1>3, <1>4 DEF Pended, Receipt, PassedIsEarned
<1>7. Counted' /\ Claimed' /\ CorpusAges'
    BY <1>1, <1>3 DEF Counted, Claimed, CorpusAges
<1> QED
    BY <1>5, <1>6, <1>7

-----------------------------------------------------------------------------
(* Under a pending receipt.  The lemma says what every phase of the attempt  *)
(* leaves alone; g is what the acceptance becomes.                           *)

LEMMA Onward ==
    ASSUME Earned, gate.pc \notin {"idle", "derive", "receipt"},
           UNCHANGED <<edits, tree, corpus, task, receipt>>,
           gate' \in Gates, gate'.attempt = gate.attempt,
           gate'.claimed = gate.claimed, gate'.issued = gate.issued,
           mirror' \in Mirrors, measured' \in [Attempt -> Measures]
    PROVE  GateTypeOK' /\ Pended' /\ PassedIsEarned'
<1> USE DEF Earned
<1>1. receipt = Receipt("pending")
    BY DEF Pended
<1>2. receipt.status = "pending"
    BY <1>1 DEF Receipt
<1>3. GateTypeOK'
    BY GateTyping DEF GateTypeOK, Gates, Mirrors, Receipts, Measures
<1>4. Pended'
    BY <1>1 DEF Pended, Receipt
<1>5. PassedIsEarned'
    BY <1>2 DEF PassedIsEarned
<1> QED
    BY <1>3, <1>4, <1>5

\* An error while or before the mirror is built.
LEMMA Mistaken ==
    ASSUME Earned, gate.pc \notin {"idle", "derive", "receipt"},
           UNCHANGED <<edits, tree, corpus, task, receipt, measured>>,
           NEW pc \in {"conclude", "remove"},
           gate' = [gate EXCEPT !.pc = pc, !.error = TRUE],
           mirror' \in {NoMirror, mirror, [mirror EXCEPT !.marked = FALSE]}
    PROVE  Earned'
<1> USE DEF Earned
<1>0. /\ corpus \in Contents /\ gate \in Gates /\ mirror \in Mirrors
      /\ measured \in [Attempt -> Measures]
    BY GateTyping
<1>1. pc \in Phases
    BY DEF Phases
<1>2. /\ gate' \in Gates /\ gate'.attempt = gate.attempt /\ gate'.claimed = gate.claimed
      /\ gate'.issued = gate.issued /\ gate'.next = gate.next /\ gate'.pc = pc
      /\ gate'.error = TRUE
    BY <1>0, <1>1 DEF Gates
<1>3. mirror' \in Mirrors
    BY <1>0, Blank DEF Mirrors
<1>4. GateTypeOK' /\ Pended' /\ PassedIsEarned'
    BY <1>0, <1>2, <1>3, Onward
<1>5. Counted' /\ Claimed' /\ CorpusAges'
    BY <1>2 DEF Counted, Claimed, CorpusAges
<1> QED
    BY <1>4, <1>5

LEMMA HolderStep == Earned /\ (CreateHolder \/ WriteMarker) => Earned'
<1> SUFFICES ASSUME Earned, CreateHolder \/ WriteMarker PROVE Earned'
    OBVIOUS
<1> USE DEF Earned
<1>0. /\ corpus \in Contents /\ gate \in Gates /\ mirror \in Mirrors
      /\ measured \in [Attempt -> Measures]
    BY GateTyping
<1>1. CASE CreateHolder /\ Went("marker")
  <2>1. /\ UNCHANGED <<edits, tree, corpus, task, receipt, measured>> /\ gate.pc = "holder"
        /\ mirror' = [NoMirror EXCEPT !.attempt = gate.attempt]
      BY <1>0, <1>1 DEF CreateHolder, Others, Went, Gates
  <2>2. "marker" \in Phases /\ gate' = [gate EXCEPT !.pc = "marker"]
      BY <1>1 DEF Phases, Went
  <2>3. /\ gate' \in Gates /\ gate'.pc = "marker" /\ gate'.attempt = gate.attempt
        /\ gate'.next = gate.next /\ gate'.claimed = gate.claimed /\ gate'.issued = gate.issued
      BY <1>0, <2>2 DEF Gates
  <2>4. mirror' \in Mirrors
      BY <1>0, <2>1, Blank DEF Mirrors, Gates, NoMirror
  <2>5. GateTypeOK' /\ Pended' /\ PassedIsEarned'
      BY <1>0, <2>1, <2>3, <2>4, Onward
  <2>6. Counted' /\ Claimed' /\ CorpusAges'
      BY <2>1, <2>3 DEF Counted, Claimed, CorpusAges
  <2> QED
      BY <2>5, <2>6
<1>2. CASE CreateHolder /\ ~Went("marker")
  <2>1. /\ UNCHANGED <<edits, tree, corpus, task, receipt, measured>> /\ gate.pc = "holder"
        /\ mirror' = mirror /\ gate' = [gate EXCEPT !.pc = "conclude", !.error = TRUE]
      BY <1>2 DEF CreateHolder, Others
  <2> QED
      BY <2>1, Mistaken
<1>3. CASE WriteMarker
  <2>1. /\ UNCHANGED <<edits, tree, corpus, task, receipt, measured>> /\ gate.pc = "marker"
        /\ mirror' = [mirror EXCEPT !.marked = TRUE]
        /\ gate' = [gate EXCEPT !.pc = "copy", !.todo = File]
      BY <1>3 DEF WriteMarker, Others
  <2>2. "copy" \in Phases
      BY DEF Phases
  <2>3. /\ gate' \in Gates /\ gate'.pc = "copy" /\ gate'.attempt = gate.attempt
        /\ gate'.next = gate.next /\ gate'.claimed = gate.claimed /\ gate'.issued = gate.issued
        /\ gate'.todo = File
      BY <1>0, <2>1, <2>2 DEF Gates
  <2>4. mirror' \in Mirrors
      BY <1>0, <2>1 DEF Mirrors
  <2>5. GateTypeOK' /\ Pended' /\ PassedIsEarned'
      BY <1>0, <2>1, <2>3, <2>4, Onward
  <2>6. Counted' /\ Claimed' /\ CorpusAges'
      BY <2>1, <2>3 DEF Counted, Claimed, CorpusAges
  <2> QED
      BY <2>5, <2>6
<1> QED
    BY <1>1, <1>2, <1>3

LEMMA CopyStep ==
    ASSUME Earned, NEW f \in File, CopyFile(f)
    PROVE  Earned'
<1> USE DEF Earned
<1>0. /\ tree \in Contents /\ gate \in Gates /\ mirror \in Mirrors
      /\ measured \in [Attempt -> Measures]
    BY GateTyping
<1>1. /\ UNCHANGED <<edits, tree, corpus, task, receipt, measured>> /\ gate.pc = "copy"
      /\ f \in gate.todo /\ tree[f] = gate.claimed[f]
      /\ mirror' = [mirror EXCEPT !.tree[f] = tree[f]]
      /\ gate' = [gate EXCEPT !.todo = gate.todo \ {f}]
    BY DEF CopyFile, Others
<1>2. /\ gate' \in Gates /\ gate'.pc = "copy" /\ gate'.attempt = gate.attempt
      /\ gate'.next = gate.next /\ gate'.claimed = gate.claimed /\ gate'.issued = gate.issued
      /\ gate'.todo = gate.todo \ {f}
    BY <1>0, <1>1 DEF Gates
<1>3. mirror' \in Mirrors /\ mirror'.tree = [mirror.tree EXCEPT ![f] = tree[f]]
    BY <1>0, <1>1 DEF Mirrors, Contents
<1>4. GateTypeOK' /\ Pended' /\ PassedIsEarned'
    BY <1>0, <1>1, <1>2, <1>3, Onward
<1>5. Counted' /\ CorpusAges'
    BY <1>1, <1>2 DEF Counted, CorpusAges
<1>6. Claimed'
  <2>1. ASSUME NEW g \in File, g \notin gate'.todo
        PROVE  mirror'.tree[g] = gate.claimed[g]
    <3>1. mirror'.tree[g] = IF g = f THEN tree[f] ELSE mirror.tree[g]
        BY <1>0, <1>3 DEF Mirrors, Contents
    <3> QED
        BY <1>1, <1>2, <2>1, <3>1 DEF Claimed
  <2> QED
      BY <1>2, <2>1 DEF Claimed
<1> QED
    BY <1>4, <1>5, <1>6

LEMMA CompareStep == Earned /\ CompareRoots => Earned'
<1> SUFFICES ASSUME Earned, CompareRoots PROVE Earned'
    OBVIOUS
<1> USE DEF Earned
<1>0. /\ corpus \in Contents /\ gate \in Gates /\ mirror \in Mirrors
      /\ measured \in [Attempt -> Measures]
    BY GateTyping
<1>1. /\ UNCHANGED <<edits, tree, corpus, task, receipt, measured, mirror>>
      /\ gate.pc = "copy" /\ gate.todo = {}
      /\ gate' = [gate EXCEPT !.pc = "corpus", !.todo = File, !.before = corpus]
    BY DEF CompareRoots, Others
<1>2. "corpus" \in Phases
    BY DEF Phases
<1>3. /\ gate' \in Gates /\ gate'.pc = "corpus" /\ gate'.attempt = gate.attempt
      /\ gate'.next = gate.next /\ gate'.claimed = gate.claimed /\ gate'.issued = gate.issued
      /\ gate'.todo = File /\ gate'.before = corpus
    BY <1>0, <1>1, <1>2 DEF Gates
<1>4. GateTypeOK' /\ Pended' /\ PassedIsEarned'
    BY <1>0, <1>1, <1>3, Onward
<1>5. Counted'
    BY <1>1, <1>3 DEF Counted
<1>6. mirror.tree = gate.claimed
  <2>1. \A f \in File : mirror.tree[f] = gate.claimed[f]
      BY <1>1 DEF Claimed
  <2> QED
      BY <1>0, <2>1 DEF Gates, Mirrors, Contents
<1>7. Claimed'
    BY <1>1, <1>3, <1>6 DEF Claimed
<1>8. CorpusAges'
  <2>1. \A f \in File : corpus[f] <= corpus[f]
      BY <1>0 DEF Contents, EditCount
  <2> QED
      BY <1>1, <1>3, <2>1 DEF CorpusAges
<1> QED
    BY <1>4, <1>5, <1>7, <1>8

LEMMA CorpusStep ==
    ASSUME Earned, NEW f \in File, CopyCorpus(f)
    PROVE  Earned'
<1> USE DEF Earned
<1>0. /\ corpus \in Contents /\ gate \in Gates /\ mirror \in Mirrors
      /\ measured \in [Attempt -> Measures]
    BY GateTyping
<1>1. /\ UNCHANGED <<edits, tree, corpus, task, receipt, measured>> /\ gate.pc = "corpus"
      /\ mirror' = [mirror EXCEPT !.corpus[f] = corpus[f]]
      /\ gate' = [gate EXCEPT !.todo = gate.todo \ {f}]
    BY DEF CopyCorpus, Others
<1>2. /\ gate' \in Gates /\ gate'.pc = "corpus" /\ gate'.attempt = gate.attempt
      /\ gate'.next = gate.next /\ gate'.claimed = gate.claimed /\ gate'.issued = gate.issued
      /\ gate'.todo = gate.todo \ {f} /\ gate'.before = gate.before
    BY <1>0, <1>1 DEF Gates
<1>3. /\ mirror' \in Mirrors /\ mirror'.tree = mirror.tree
      /\ mirror'.corpus = [mirror.corpus EXCEPT ![f] = corpus[f]]
    BY <1>0, <1>1 DEF Mirrors, Contents
<1>4. GateTypeOK' /\ Pended' /\ PassedIsEarned'
    BY <1>0, <1>1, <1>2, <1>3, Onward
<1>5. Counted' /\ Claimed'
    BY <1>1, <1>2, <1>3 DEF Counted, Claimed
<1>6. CorpusAges'
  <2>1. ASSUME NEW g \in File, g \notin gate'.todo
        PROVE  gate.before[g] <= mirror'.corpus[g] /\ mirror'.corpus[g] <= corpus[g]
    <3>1. mirror'.corpus[g] = IF g = f THEN corpus[f] ELSE mirror.corpus[g]
        BY <1>0, <1>3 DEF Mirrors, Contents
    <3>2. gate.before[g] <= corpus[g] /\ corpus[g] \in Nat
        BY <1>0, <1>1 DEF CorpusAges, Contents, EditCount
    <3> QED
        BY <1>1, <1>2, <2>1, <3>1, <3>2 DEF CorpusAges
  <2> QED
      BY <1>1, <1>2, <2>1 DEF CorpusAges
<1> QED
    BY <1>4, <1>5, <1>6

LEMMA RecheckStep == Earned /\ RecheckCorpus => Earned'
<1> SUFFICES ASSUME Earned, RecheckCorpus PROVE Earned'
    OBVIOUS
<1> USE DEF Earned
<1>0. /\ corpus \in Contents /\ gate \in Gates /\ mirror \in Mirrors
      /\ measured \in [Attempt -> Measures]
    BY GateTyping
<1>1. /\ UNCHANGED <<edits, tree, corpus, task, receipt, measured, mirror>>
      /\ gate.pc = "corpus" /\ gate.todo = {} /\ corpus = gate.before
      /\ gate' = [gate EXCEPT !.pc = "git"]
    BY DEF RecheckCorpus, Others, Went, CorpusUnmoved
<1>2. "git" \in Phases
    BY DEF Phases
<1>3. /\ gate' \in Gates /\ gate'.pc = "git" /\ gate'.attempt = gate.attempt
      /\ gate'.next = gate.next /\ gate'.claimed = gate.claimed /\ gate'.issued = gate.issued
      /\ gate'.before = gate.before
    BY <1>0, <1>1, <1>2 DEF Gates
<1>4. GateTypeOK' /\ Pended' /\ PassedIsEarned'
    BY <1>0, <1>1, <1>3, Onward
<1>5. Counted' /\ Claimed'
    BY <1>1, <1>3 DEF Counted, Claimed
<1>6. mirror.corpus = gate.before
  <2>1. ASSUME NEW f \in File PROVE mirror.corpus[f] = corpus[f]
    <3>1. mirror.corpus[f] \in Nat /\ corpus[f] \in Nat
        BY <1>0 DEF Mirrors, Contents, EditCount
    <3> QED
        BY <1>1, <3>1 DEF CorpusAges
  <2> QED
      BY <1>0, <1>1, <2>1 DEF Mirrors, Contents
<1>7. CorpusAges'
    BY <1>1, <1>3, <1>6 DEF CorpusAges
<1> QED
    BY <1>4, <1>5, <1>7

LEMMA GitStep == Earned /\ PrepareGit => Earned'
<1> SUFFICES ASSUME Earned, PrepareGit PROVE Earned'
    OBVIOUS
<1> USE DEF Earned
<1>0. /\ corpus \in Contents /\ gate \in Gates /\ mirror \in Mirrors
      /\ measured \in [Attempt -> Measures]
    BY GateTyping
<1>1. /\ UNCHANGED <<edits, tree, corpus, task, receipt, mirror>> /\ gate.pc = "git"
    BY DEF PrepareGit, Others
<1>2. CASE UNCHANGED measured /\ gate' = [gate EXCEPT !.pc = "remove", !.error = TRUE]
    BY <1>1, <1>2, Mistaken
<1>3. CASE /\ Went("walk")
           /\ measured' = [measured EXCEPT ![gate.attempt] =
                             [@ EXCEPT !.tree = mirror.tree, !.corpus = mirror.corpus]]
  <2>1. "walk" \in Phases /\ gate' = [gate EXCEPT !.pc = "walk"]
      BY <1>3 DEF Phases, Went
  <2>2. /\ gate' \in Gates /\ gate'.pc = "walk" /\ gate'.attempt = gate.attempt
        /\ gate'.next = gate.next /\ gate'.claimed = gate.claimed /\ gate'.issued = gate.issued
        /\ gate'.before = gate.before
      BY <1>0, <2>1 DEF Gates
  <2>3. gate.attempt \in Attempt /\ mirror.tree \in Contents /\ mirror.corpus \in Contents
      BY <1>0, <1>1 DEF Counted, Mirrors
  <2>4. PICK m \in Measures : m = measured[gate.attempt]
      BY <1>0, <2>3
  <2>5. PICK n \in Measures : n = [m EXCEPT !.tree = mirror.tree, !.corpus = mirror.corpus]
      BY <2>3, <2>4 DEF Measures
  <2>6. n.tree = mirror.tree /\ n.corpus = mirror.corpus /\ n.zeros = m.zeros
      BY <2>4, <2>5 DEF Measures
  <2>7. measured' = [measured EXCEPT ![gate.attempt] = n]
      BY <1>3, <2>4, <2>5
  <2>8. /\ measured' \in [Attempt -> Measures] /\ measured'[gate.attempt] = n
        /\ \A a \in Attempt : measured'[a].zeros = measured[a].zeros
      BY <1>0, <2>3, <2>4, <2>6, <2>7
  <2>9. GateTypeOK' /\ Pended' /\ PassedIsEarned'
      BY <1>0, <1>1, <2>2, <2>8, Onward
  <2>10. Counted'
      BY <1>1, <2>2, <2>3, <2>8 DEF Counted
  <2>11. Claimed'
      BY <1>1, <2>2, <2>6, <2>8 DEF Claimed
  <2>12. CorpusAges'
      BY <1>1, <2>2, <2>6, <2>8 DEF CorpusAges
  <2> QED
      BY <2>9, <2>10, <2>11, <2>12
<1> QED
    BY <1>2, <1>3 DEF PrepareGit

\* A command that exits zero is counted, one that does not ends the walk.
LEMMA CommandStep == Earned /\ RunCommand => Earned'
<1> SUFFICES ASSUME Earned, RunCommand PROVE Earned'
    OBVIOUS
<1> USE DEF Earned
<1>0. /\ corpus \in Contents /\ gate \in Gates /\ mirror \in Mirrors
      /\ measured \in [Attempt -> Measures]
    BY GateTyping
<1>1. /\ UNCHANGED <<edits, tree, corpus, task, receipt>> /\ gate.pc = "walk"
      /\ gate.next <= Commands
    BY DEF RunCommand, Others, More
<1>2. CASE /\ gate' = [gate EXCEPT !.pc = "remove", !.error = TRUE]
           /\ UNCHANGED <<mirror, measured>>
    BY <1>1, <1>2, Mistaken
<1>3. ASSUME mirror' \in {mirror, [mirror EXCEPT !.marked = FALSE],
                          [mirror EXCEPT !.tree = Untouched]}
      PROVE  mirror' \in Mirrors
    BY <1>0, <1>3, Blank DEF Mirrors
<1>4. CASE /\ gate' = [gate EXCEPT !.next = gate.next + 1]
           /\ measured' = [measured EXCEPT ![gate.attempt].zeros = @ + 1]
           /\ mirror' \in Mirrors
  <2>1. gate.next \in 1..Commands + 1 /\ Commands \in Nat
      BY <1>0, GateAssumption DEF Gates
  <2>2. PICK k \in 1..Commands + 1 : k = gate.next + 1
      BY <1>1, <2>1
  <2>3. /\ gate' \in Gates /\ gate'.pc = "walk" /\ gate'.attempt = gate.attempt
        /\ gate'.next = k /\ gate'.claimed = gate.claimed /\ gate'.issued = gate.issued
        /\ gate'.before = gate.before
      BY <1>0, <1>1, <1>4, <2>2 DEF Gates
  <2>4. gate.attempt \in Attempt /\ measured[gate.attempt].zeros = gate.next - 1
      BY <1>1 DEF Counted
  <2>5. PICK m \in Measures : m = measured[gate.attempt]
      BY <1>0, <2>4
  <2>6. PICK z \in 0..Commands : z = m.zeros + 1
      BY <1>1, <2>1, <2>4, <2>5
  <2>7. PICK n \in Measures : n = [m EXCEPT !.zeros = z]
      BY <2>5 DEF Measures
  <2>8. n.tree = m.tree /\ n.corpus = m.corpus /\ n.zeros = z
      BY <2>7 DEF Measures
  <2>9. measured' = [measured EXCEPT ![gate.attempt] = n]
      BY <1>4, <2>5, <2>6, <2>7
  <2>10. /\ measured' \in [Attempt -> Measures] /\ measured'[gate.attempt] = n
         /\ \A a \in Attempt : a # gate.attempt => measured'[a] = measured[a]
      BY <1>0, <2>4, <2>9
  <2>11. GateTypeOK' /\ Pended' /\ PassedIsEarned'
      BY <1>0, <1>1, <1>4, <2>3, <2>10, Onward
  <2>12. Counted'
    <3>1. n.zeros = k - 1
        BY <2>1, <2>2, <2>4, <2>5, <2>6, <2>8
    <3>2. \A a \in Attempt : a > gate.attempt => a # gate.attempt
        BY <2>4 DEF Attempt
    <3> QED
        BY <1>1, <2>3, <2>4, <2>10, <3>1, <3>2 DEF Counted
  <2>13. Claimed'
      BY <1>1, <2>3, <2>5, <2>8, <2>10, <1>0 DEF Claimed, Gates
  <2>14. CorpusAges'
      BY <1>1, <2>3, <2>5, <2>8, <2>10 DEF CorpusAges
  <2> QED
      BY <2>11, <2>12, <2>13, <2>14
<1>5. CASE Went("remove") /\ UNCHANGED measured /\ mirror' \in Mirrors
  <2>1. "remove" \in Phases /\ gate' = [gate EXCEPT !.pc = "remove"]
      BY <1>5 DEF Phases, Went
  <2>2. /\ gate' \in Gates /\ gate'.pc = "remove" /\ gate'.attempt = gate.attempt
        /\ gate'.next = gate.next /\ gate'.claimed = gate.claimed /\ gate'.issued = gate.issued
        /\ gate'.error = gate.error
      BY <1>0, <2>1 DEF Gates
  <2>3. GateTypeOK' /\ Pended' /\ PassedIsEarned'
      BY <1>0, <1>1, <1>5, <2>2, Onward
  <2>4. Counted' /\ Claimed' /\ CorpusAges'
      BY <1>1, <1>5, <2>2 DEF Counted, Claimed, CorpusAges
  <2> QED
      BY <2>3, <2>4
<1> QED
    BY <1>2, <1>3, <1>4, <1>5 DEF RunCommand

LEMMA WalkedStep == Earned /\ WalkEnds => Earned'
<1> SUFFICES ASSUME Earned, WalkEnds PROVE Earned'
    OBVIOUS
<1> USE DEF Earned
<1>0. gate \in Gates /\ mirror \in Mirrors /\ measured \in [Attempt -> Measures]
    BY GateTyping
<1>1. /\ UNCHANGED <<edits, tree, corpus, task, receipt, mirror, measured>>
      /\ gate.pc = "walk" /\ gate' = [gate EXCEPT !.pc = "remove"] /\ "remove" \in Phases
    BY DEF WalkEnds, Others, Went, Phases
<1>2. /\ gate' \in Gates /\ gate'.pc = "remove" /\ gate'.attempt = gate.attempt
      /\ gate'.next = gate.next /\ gate'.claimed = gate.claimed /\ gate'.issued = gate.issued
      /\ gate'.error = gate.error
    BY <1>0, <1>1 DEF Gates
<1>3. GateTypeOK' /\ Pended' /\ PassedIsEarned'
    BY <1>0, <1>1, <1>2, Onward
<1>4. Counted' /\ Claimed' /\ CorpusAges'
    BY <1>1, <1>2 DEF Counted, Claimed, CorpusAges
<1> QED
    BY <1>3, <1>4

LEMMA RemoveStep == Earned /\ RemoveMirror => Earned'
<1> SUFFICES ASSUME Earned, RemoveMirror PROVE Earned'
    OBVIOUS
<1> USE DEF Earned
<1>0. gate \in Gates /\ mirror \in Mirrors /\ measured \in [Attempt -> Measures]
    BY GateTyping
<1>1. UNCHANGED <<edits, tree, corpus, task, receipt, measured>> /\ gate.pc = "remove"
    BY DEF RemoveMirror, Others
<1>2. CASE mirror' = NoMirror /\ Went("conclude")
  <2>1. "conclude" \in Phases /\ gate' = [gate EXCEPT !.pc = "conclude"]
      BY <1>2 DEF Phases, Went
  <2>2. /\ gate' \in Gates /\ gate'.pc = "conclude" /\ gate'.attempt = gate.attempt
        /\ gate'.next = gate.next /\ gate'.claimed = gate.claimed /\ gate'.issued = gate.issued
        /\ gate'.error = gate.error
      BY <1>0, <2>1 DEF Gates
  <2>3. GateTypeOK' /\ Pended' /\ PassedIsEarned'
      BY <1>0, <1>1, <1>2, <2>2, Blank, Onward
  <2>4. Counted' /\ Claimed' /\ CorpusAges'
      BY <1>1, <1>2, <2>2 DEF Counted, Claimed, CorpusAges
  <2> QED
      BY <2>3, <2>4
<1>3. CASE /\ mirror' \in {mirror, [mirror EXCEPT !.marked = FALSE]}
           /\ gate' = [gate EXCEPT !.pc = "conclude", !.error = TRUE]
    BY <1>1, <1>3, Mistaken
<1> QED
    BY <1>2, <1>3 DEF RemoveMirror

\* The last write of an attempt: all its commands were counted, on the files the
\* receipt names, and nothing is left of its mirror.
LEMMA ConcludeStep == Earned /\ Conclude => Earned'
<1> SUFFICES ASSUME Earned, Conclude PROVE Earned'
    OBVIOUS
<1>1. UNCHANGED <<edits, tree, corpus, task, mirror, measured>> /\ Return
      /\ gate.pc = "conclude"
    BY DEF Conclude, Others
<1>2. CASE receipt' \in {receipt, Receipt("failed")}
    BY <1>1, <1>2, Abandoned
<1>3. CASE Passed /\ ~gate.error /\ receipt' = Receipt("passed")
  <2> USE DEF Earned
  <2>0. /\ edits \in EditCount /\ tree \in Contents /\ corpus \in Contents
        /\ task \in EditCount /\ gate \in Gates /\ mirror \in Mirrors
        /\ receipt \in Receipts /\ measured \in [Attempt -> Measures]
      BY GateTyping
  <2>1. gate.attempt \in 0..MaxAttempt /\ gate.claimed \in Contents /\ gate.issued \in EditCount
      BY <2>0 DEF Gates
  <2>2. gate' \in Gates /\ gate'.pc = "idle" /\ gate'.attempt = gate.attempt
      BY <1>1, <2>1, Blank DEF Return, Idle
  <2>3. /\ receipt' \in Receipts /\ receipt'.attempt = gate.attempt
        /\ receipt'.candidate = gate.claimed
      BY <1>3, <2>1 DEF Receipts, Receipt
  <2>4. GateTypeOK'
      BY <1>1, <2>0, <2>2, <2>3 DEF GateTypeOK, Gates, Mirrors, Receipts, Measures
  <2>5. Pended' /\ Claimed' /\ Counted' /\ CorpusAges'
      BY <1>1, <2>2 DEF Pended, Claimed, Counted, CorpusAges
  <2>6. /\ gate.attempt \in Attempt /\ measured[gate.attempt].zeros = Commands
        /\ measured[gate.attempt].tree = gate.claimed
    <3>1. measured[gate.attempt].zeros = gate.next - 1 /\ gate.next = Commands + 1
          /\ gate.attempt \in Attempt
        BY <1>1, <1>3 DEF Counted, Passed
    <3>2. gate.next - 1 = Commands
        BY <3>1, GateAssumption
    <3> QED
        BY <1>1, <1>3, <3>1, <3>2 DEF Claimed
  <2>7. mirror.attempt = 0 /\ gate.attempt # 0
      BY <1>1, <1>3, <2>6 DEF Claimed, NoMirror, Attempt
  <2>8. PassedIsEarned'
      BY <1>1, <2>3, <2>6, <2>7 DEF PassedIsEarned
  <2> QED
      BY <2>4, <2>5, <2>8
<1> QED
    BY <1>2, <1>3 DEF Conclude, Persisted

LEMMA EarnedStays == Earned /\ [GateNext]_gateVars => Earned'
<1> SUFFICES ASSUME Earned, [GateNext]_gateVars PROVE Earned'
    OBVIOUS
<1>1. CASE SomeoneWrites
    BY <1>1, OthersStep
<1>2. CASE Begin
    BY <1>2, BeginStep
<1>3. CASE Derive
  <2>1. CASE Return
      BY <1>3, <2>1, Abandoned DEF Derive, Others
  <2> QED
      BY <1>3, <2>1, BeginStep DEF Derive
<1>4. CASE WritePending
  <2>1. CASE Return
      BY <1>4, <2>1, Abandoned DEF WritePending, Persisted, Others
  <2> QED
      BY <1>4, <2>1, PendingStep DEF WritePending
<1>5. CASE CreateHolder \/ WriteMarker
    BY <1>5, HolderStep
<1>6. CASE \E f \in File : CopyFile(f) \/ CopyCorpus(f)
    BY <1>6, CopyStep, CorpusStep
<1>7. CASE CompareRoots \/ RecheckCorpus \/ PrepareGit
    BY <1>7, CompareStep, RecheckStep, GitStep
<1>8. CASE BuildFails
    BY <1>8, Mistaken DEF BuildFails, Others
<1>9. CASE RunCommand \/ WalkEnds \/ RemoveMirror \/ Conclude
    BY <1>9, CommandStep, WalkedStep, RemoveStep, ConcludeStep
<1>10. CASE GateDies
    BY <1>10, Abandoned DEF GateDies, Others
<1>11. CASE UNCHANGED gateVars
  <2>1. UNCHANGED <<edits, tree, corpus, task, gate, mirror, receipt, measured>>
      BY <1>11 DEF gateVars
  <2> QED
      BY <2>1 DEF Earned, GateTypeOK, Pended, Counted, Claimed, CorpusAges, PassedIsEarned, Receipt
<1> QED
    BY <1>1, <1>2, <1>3, <1>4, <1>5, <1>6, <1>7, <1>8, <1>9, <1>10, <1>11 DEF GateNext

\* run_acceptance: every receipt stands on what its attempt has made sure of.
THEOREM EarnedAlways == GateSpec => []Earned
<1> QED
    BY EarnedAtFirst, EarnedStays, PTL DEF GateSpec

\* acceptance.py: a green receipt is of commands that all exited zero on the files
\* it names, it is never inherited from an earlier attempt, and the corpus the
\* commands were shown is that of one moment.
THEOREM ReceiptsAreEarned == GateSpec => []GateAgrees
<1>1. Earned => GateAgrees
    BY DEF Earned, GateAgrees, AttemptOwnsReceipt, Pended, CorpusIsOneMoment, CorpusAges
<1> QED
    BY <1>1, EarnedAlways, PTL

-----------------------------------------------------------------------------
(* A call.  It is believed for what is known when it is judged: the container *)
(* was emptied, every pipe was read to its end, the prompt was handed over.   *)

Calls == [kind : CallKind, host : Host, late : BOOLEAN, over : BOOLEAN,
          timedOut : BOOLEAN, raised : BOOLEAN, clean : BOOLEAN,
          joined : BOOLEAN, drained : BOOLEAN, result : Results,
          pc : {"launch", "attach", "resume", "start", "poll", "stop",
                "stopping", "drain", "emptying", "join", "judge", "again", "done"}]
Programs == [leader : {"none", "frozen", "running", "zombie", "gone"},
             child : {"unborn", "inside", "outside", "gone"},
             doomed : SUBSET {"leader", "child"}, code : 0..1,
             ran : BOOLEAN, taken : 0..PromptSize, file : 0..Limit + 1,
             wrote : [Stream -> 0..Limit + 1]]
Helped == [started : SUBSET (Stream \cup {"writer", "watcher"}),
           ended : SUBSET (Stream \cup {"writer", "watcher"}),
           got : [Stream -> 0..Limit], given : 0..PromptSize,
           outcome : [Stream -> {"pending", "completed", "overflowed", "read_failed"}],
           complete : BOOLEAN, exceeded : BOOLEAN, tripped : BOOLEAN]

Before == {"launch", "attach", "resume"}

\* Nothing runs and nobody listens before the container is made; after that the
\* program runs or has ended.
Contained ==
    /\ call.pc \in Before =>
          /\ prog.child = "unborn" /\ ~prog.ran /\ prog.leader \in {"none", "frozen"}
          /\ prog.doomed = {} /\ io.started = {}
          /\ \A s \in Stream : io.outcome[s] = "pending"
    /\ call.pc \in {"attach", "resume"} => prog.leader = "frozen"
    /\ call.pc \notin Before \cup {"done"} => prog.leader \in {"running", "zombie", "gone"}
    /\ call.kind # "evaluator" => prog.file = 0

\* A stream that was completed was read to its end, and nobody holds it.
ReadOut ==
    \A s \in Stream : io.outcome[s] = "completed" =>
        ~Alive /\ prog.leader # "frozen" /\ io.got[s] = prog.wrote[s]

\* What was written of the prompt and not read is in the pipe.
Handed ==
    /\ prog.taken <= io.given /\ io.given - prog.taken <= PipeSize
    /\ io.complete => io.given = PromptSize

\* An emptied container stays empty, and one that was not is no clean call.
PipesEmptied ==
    /\ call.drained => ~Survivor /\ prog.leader # "frozen"
    /\ call.pc \in {"join", "judge"} => call.drained \/ ~call.clean
    /\ call.pc \in Before \cup {"start", "poll", "stop", "stopping", "drain", "emptying"} =>
          ~call.drained

\* What the caller has made of it so far.
Unjudged ==
    /\ call.pc \notin {"again", "done"} => call.result = "none"
    /\ call.pc = "again" =>
          \/ call.result = "raised"
          \/ /\ call.result \notin {"answer", "uncontained"} /\ ~call.clean
             /\ \/ call.kind \in {"implementer", "evaluator"}
                \/ call.result = "survived"

Trusted ==
    CallTypeOK /\ Contained /\ ReadOut /\ Handed /\ PipesEmptied /\ Unjudged
        /\ (Over => CallsAreHonest)

LEMMA CallTyping ==
    CallTypeOK <=> call \in Calls /\ prog \in Programs /\ io \in Helped
BY DEF CallTypeOK, Calls, Programs, Helped

LEMMA TrustedAtFirst == CallInit => Trusted
<1> SUFFICES ASSUME CallInit PROVE Trusted
    OBVIOUS
<1>1. /\ call \in Calls /\ call.pc = "launch" /\ call.result = "none" /\ ~call.drained
    BY DEF CallInit, Calls, Results
<1>2. 0 \in 0..PromptSize /\ 0 \in 0..Limit /\ 0 \in 0..Limit + 1 /\ 0 <= PipeSize
    BY CallAssumption
<1>3. /\ prog \in Programs /\ prog.leader = "none" /\ prog.child = "unborn"
      /\ prog.doomed = {} /\ ~prog.ran /\ prog.taken = 0 /\ prog.file = 0
    BY <1>2 DEF CallInit, Programs
<1>4. /\ io \in Helped /\ io.started = {} /\ io.given = 0 /\ ~io.complete
      /\ \A s \in Stream : io.outcome[s] = "pending"
    BY <1>2 DEF CallInit, Helped
<1>5. CallTypeOK
    BY <1>1, <1>3, <1>4, CallTyping
<1>6. Contained
    BY <1>1, <1>3, <1>4 DEF Contained, Before
<1>7. ReadOut /\ Handed
    BY <1>2, <1>3, <1>4 DEF ReadOut, Handed
<1>8. PipesEmptied /\ Unjudged /\ ~Over
    BY <1>1 DEF PipesEmptied, Unjudged, Over
<1> QED
    BY <1>5, <1>6, <1>7, <1>8 DEF Trusted

\* The program and what the system does to it.
LEMMA ProgramMoves ==
    ASSUME Trusted, ~Over, UNCHANGED <<call, io>>, prog' \in Programs,
           call.pc \notin Before,
           prog'.leader = prog.leader \/ (prog.leader = "running" /\ prog'.leader = "zombie"),
           prog'.child \in {prog.child, "gone"} \/ prog.leader = "running",
           prog'.wrote = prog.wrote \/ Alive,
           prog'.file = prog.file \/ call.kind = "evaluator",
           prog.taken <= prog'.taken, prog'.taken <= io.given
    PROVE  Trusted'
<1> USE DEF Trusted
<1>0. call \in Calls /\ prog \in Programs /\ io \in Helped
    BY CallTyping
<1>1. CallTypeOK'
    BY <1>0 DEF CallTypeOK, Calls, Programs, Helped
<1>2. Contained'
    BY DEF Contained
<1>3. ReadOut'
    BY DEF ReadOut, Alive
<1>4. Handed'
  <2>1. prog.taken \in Nat /\ prog'.taken \in Nat /\ io.given \in Nat /\ PipeSize \in Nat
      BY <1>0, CallAssumption DEF Programs, Helped
  <2> QED
      BY <2>1 DEF Handed
<1>5. PipesEmptied' /\ Unjudged'
    BY DEF PipesEmptied, Unjudged, Survivor
<1>6. ~Over'
    BY DEF Over
<1> QED
    BY <1>1, <1>2, <1>3, <1>4, <1>5, <1>6

LEMMA ProgramStep == Trusted /\ ~Over /\ (Program \/ Dies) => Trusted'
<1> SUFFICES ASSUME Trusted, ~Over, Program \/ Dies PROVE Trusted'
    OBVIOUS
<1> USE DEF Trusted
<1>0. call \in Calls /\ prog \in Programs /\ io \in Helped
    BY CallTyping
<1>1. UNCHANGED <<call, io>>
    BY DEF Program, Dies, ProgramWrites, ProgramWritesFile, ProgramReads, Spawns, Exits
<1>2. Alive \/ "leader" \in prog.doomed \/ "child" \in prog.doomed
    BY DEF Program, Dies, ProgramWrites, ProgramWritesFile, ProgramReads, Spawns, Exits, Alive
<1>3. call.pc \notin Before \cup {"done"} /\ prog.leader \in {"running", "zombie", "gone"}
    BY <1>2 DEF Contained, Alive, Over
<1>4. prog.taken \in Nat /\ io.given \in Nat /\ prog.taken <= io.given
      /\ io.given \in 0..PromptSize
    BY <1>0 DEF Programs, Helped, Handed
<1>5. ASSUME NEW s \in Stream, ProgramWrites(s)
      PROVE  Trusted'
  <2>1. prog.wrote \in [Stream -> 0..Limit + 1] /\ prog.wrote[s] \in Nat /\ prog.wrote[s] <= Limit
      BY <1>0, <1>5 DEF ProgramWrites, Programs
  <2>2. PICK n \in 0..Limit + 1 : n = prog.wrote[s] + 1
      BY <2>1, CallAssumption
  <2>3. PICK w \in [Stream -> 0..Limit + 1] : w = [prog.wrote EXCEPT ![s] = n]
      BY <2>1, <2>2
  <2>4. prog' = [prog EXCEPT !.wrote = w, !.ran = TRUE]
      BY <1>0, <1>5, <2>2, <2>3 DEF ProgramWrites, Programs
  <2>5. /\ prog' \in Programs /\ prog'.leader = prog.leader /\ prog'.child = prog.child
        /\ prog'.file = prog.file /\ prog'.taken = prog.taken
      BY <1>0, <2>4 DEF Programs
  <2>6. Alive
      BY <1>5 DEF ProgramWrites
  <2> QED
      BY <1>1, <1>3, <1>4, <2>5, <2>6, ProgramMoves
<1>6. CASE ProgramWritesFile
  <2>1. PICK n \in 0..Limit + 1 : n = prog.file + 1
      BY <1>0, <1>6, CallAssumption DEF ProgramWritesFile, Programs
  <2>2. prog' = [prog EXCEPT !.file = n, !.ran = TRUE]
      BY <1>6, <2>1 DEF ProgramWritesFile
  <2>3. /\ prog' \in Programs /\ prog'.leader = prog.leader /\ prog'.child = prog.child
        /\ prog'.wrote = prog.wrote /\ prog'.taken = prog.taken
      BY <1>0, <2>2 DEF Programs
  <2>4. call.kind = "evaluator"
      BY <1>6 DEF ProgramWritesFile
  <2> QED
      BY <1>1, <1>3, <1>4, <2>3, <2>4, ProgramMoves
<1>7. CASE ProgramReads
  <2>1. PICK n \in 0..PromptSize : n = prog.taken + 1
      BY <1>4, <1>7, CallAssumption DEF ProgramReads
  <2>2. prog' = [prog EXCEPT !.taken = n, !.ran = TRUE] /\ n <= io.given /\ prog.taken <= n
      BY <1>4, <1>7, <2>1 DEF ProgramReads
  <2>3. /\ prog' \in Programs /\ prog'.leader = prog.leader /\ prog'.child = prog.child
        /\ prog'.wrote = prog.wrote /\ prog'.taken = n /\ prog'.file = prog.file
      BY <1>0, <2>2 DEF Programs
  <2> QED
      BY <1>1, <1>3, <2>2, <2>3, ProgramMoves
<1>8. CASE Spawns
  <2>1. PICK c \in {"inside", "outside"} : prog' = [prog EXCEPT !.child = c, !.ran = TRUE]
      BY <1>8 DEF Spawns
  <2>2. /\ prog' \in Programs /\ prog'.leader = prog.leader /\ prog'.file = prog.file
        /\ prog'.wrote = prog.wrote /\ prog'.taken = prog.taken
      BY <1>0, <2>1 DEF Programs
  <2>3. prog.leader = "running"
      BY <1>8 DEF Spawns
  <2> QED
      BY <1>1, <1>3, <1>4, <2>2, <2>3, ProgramMoves
<1>9. CASE Exits \/ Dies
  <2>1. \/ prog.leader = "running" /\ \E c \in 0..1 :
               \/ prog' = [prog EXCEPT !.leader = "zombie", !.code = c, !.ran = TRUE]
               \/ prog' = [prog EXCEPT !.leader = "zombie", !.code = c]
        \/ prog' = [prog EXCEPT !.child = "gone"]
    <3>1. CASE Exits
        BY <3>1 DEF Exits
    <3>2. CASE Dies
        BY <1>3, <3>2 DEF Dies
    <3> QED
        BY <1>9, <3>1, <3>2
  <2>2. /\ prog' \in Programs /\ prog'.file = prog.file
        /\ prog'.wrote = prog.wrote /\ prog'.taken = prog.taken
      BY <1>0, <2>1 DEF Programs
  <2>3. prog'.leader = prog.leader \/ (prog.leader = "running" /\ prog'.leader = "zombie")
      BY <1>0, <2>1 DEF Programs
  <2>4. prog'.child \in {prog.child, "gone"}
      BY <1>0, <2>1 DEF Programs
  <2> QED
      BY <1>1, <1>3, <1>4, <2>2, <2>3, <2>4, ProgramMoves
<1> QED
    BY <1>5, <1>6, <1>7, <1>8, <1>9 DEF Program

\* The threads between the program and its caller: they listen only after the
\* container was made.
LEMMA HelperMoves ==
    ASSUME Trusted, ~Over, UNCHANGED <<call, prog>>, io' \in Helped,
           io.started # {}, io'.started = io.started,
           \A s \in Stream : io'.outcome[s] = "completed" =>
               \/ io.outcome[s] = "completed" /\ io'.got[s] = io.got[s]
               \/ ~Holding /\ io'.got[s] = prog.wrote[s],
           \/ io'.given = io.given
           \/ io'.given = io.given + 1 /\ io.given < PromptSize
                                       /\ io.given - prog.taken < PipeSize,
           io'.complete = io.complete \/ (io'.given = io.given /\ io.given = PromptSize)
    PROVE  Trusted'
<1> USE DEF Trusted
<1>0. call \in Calls /\ prog \in Programs /\ io \in Helped
    BY CallTyping
<1>1. CallTypeOK'
    BY <1>0 DEF CallTypeOK, Calls, Programs, Helped
<1>2. Contained'
    BY DEF Contained
<1>3. ReadOut'
    BY DEF ReadOut, Alive, Holding
<1>4. Handed'
  <2>1. /\ prog.taken \in Nat /\ io.given \in Nat /\ PipeSize \in Nat /\ PromptSize \in Nat
        /\ prog'.taken = prog.taken
      BY <1>0, CallAssumption DEF Programs, Helped
  <2>2. prog.taken <= io.given /\ io.given - prog.taken <= PipeSize
        /\ (io.complete => io.given = PromptSize)
      BY DEF Handed
  <2>3. prog.taken <= io'.given /\ io'.given - prog.taken <= PipeSize
      BY <2>1, <2>2
  <2>4. io'.complete => io'.given = PromptSize
    <3>1. CASE io'.complete = io.complete
      <4>1. io'.complete => io.given = PromptSize
          BY <2>2, <3>1
      <4> QED
          BY <2>1, <4>1
    <3>2. CASE io'.given = io.given /\ io.given = PromptSize
        BY <3>2
    <3> QED
        BY <3>1, <3>2
  <2> QED
      BY <2>1, <2>3, <2>4 DEF Handed
<1>5. PipesEmptied' /\ Unjudged' /\ ~Over'
    BY DEF PipesEmptied, Unjudged, Survivor, Over
<1> QED
    BY <1>1, <1>2, <1>3, <1>4, <1>5

\* A reader that ends, whatever it ends with.
LEMMA ReaderMoves ==
    ASSUME Trusted, ~Over, UNCHANGED <<call, prog>>, NEW s \in Stream, s \in io.started,
           NEW o \in {"completed", "overflowed", "read_failed"}, io' = ReaderEnds(s, o),
           o = "completed" => ~Holding /\ io.got[s] = prog.wrote[s]
    PROVE  Trusted'
<1> USE DEF Trusted
<1>0. call \in Calls /\ prog \in Programs /\ io \in Helped
    BY CallTyping
<1>1. PICK t \in BOOLEAN : t = (io.tripped \/ o = "overflowed")
    OBVIOUS
<1>2. PICK e \in SUBSET (Stream \cup {"writer", "watcher"}) : e = io.ended \cup {s}
    BY <1>0 DEF Helped
<1>3. PICK m \in [Stream -> {"pending", "completed", "overflowed", "read_failed"}] :
          m = [io.outcome EXCEPT ![s] = o]
    BY <1>0 DEF Helped
<1>4. io' = [io EXCEPT !.outcome = m, !.ended = e, !.tripped = t]
    BY <1>0, <1>1, <1>2, <1>3 DEF ReaderEnds, Helped
<1>5. /\ io' \in Helped /\ io'.started = io.started /\ io'.got = io.got
      /\ io'.given = io.given /\ io'.complete = io.complete /\ io'.outcome = m
    BY <1>0, <1>4 DEF Helped
<1>6. \A r \in Stream : m[r] = IF r = s THEN o ELSE io.outcome[r]
    BY <1>0, <1>3 DEF Helped
<1>7. \A r \in Stream : io'.outcome[r] = "completed" =>
          \/ io.outcome[r] = "completed" /\ io'.got[r] = io.got[r]
          \/ ~Holding /\ io'.got[r] = prog.wrote[r]
    BY <1>5, <1>6
<1> QED
    BY <1>5, <1>7, HelperMoves

LEMMA HelperStep == Trusted /\ ~Over /\ Helpers => Trusted'
<1> SUFFICES ASSUME Trusted, ~Over, Helpers PROVE Trusted'
    OBVIOUS
<1> USE DEF Trusted
<1>0. call \in Calls /\ prog \in Programs /\ io \in Helped
    BY CallTyping
<1>1. UNCHANGED <<call, prog>>
    BY DEF Helpers, BoundedRead, ReadToEnd, ReadBreaks, PromptMoves, PromptDelivered,
           PromptCutShort, WatchFile
<1>2. ASSUME NEW s \in Stream, BoundedRead(s)
      PROVE  Trusted'
  <2>1. CASE io' = ReaderEnds(s, "overflowed")
      BY <1>1, <1>2, <2>1, ReaderMoves DEF BoundedRead, Reading
  <2>2. CASE io' = [io EXCEPT !.got[s] = io.got[s] + 1] /\ io.got[s] + 1 <= Limit
    <3>1. io.got \in [Stream -> 0..Limit] /\ s \in io.started /\ io.got[s] < prog.wrote[s]
        BY <1>0, <1>2 DEF BoundedRead, Reading, Helped
    <3>2. PICK n \in 0..Limit : n = io.got[s] + 1
        BY <2>2, <3>1, CallAssumption
    <3>3. PICK g \in [Stream -> 0..Limit] : g = [io.got EXCEPT ![s] = n]
        BY <3>1
    <3>4. io' = [io EXCEPT !.got = g]
        BY <1>0, <2>2, <3>2, <3>3 DEF Helped
    <3>5. /\ io' \in Helped /\ io'.started = io.started /\ io'.got = g
          /\ io'.given = io.given /\ io'.complete = io.complete /\ io'.outcome = io.outcome
        BY <1>0, <3>4 DEF Helped
    <3>6. io.outcome[s] # "completed"
      <4>1. io.got[s] # prog.wrote[s]
          BY <1>0, <3>1 DEF Programs
      <4> QED
          BY <4>1 DEF ReadOut
    <3>7. \A r \in Stream : r # s => g[r] = io.got[r]
        BY <3>1, <3>3
    <3>8. \A r \in Stream : io'.outcome[r] = "completed" =>
              io.outcome[r] = "completed" /\ io'.got[r] = io.got[r]
        BY <3>5, <3>6, <3>7
    <3> QED
        BY <1>1, <3>1, <3>5, <3>8, HelperMoves
  <2>3. io.got[s] \in Nat /\ Limit \in Nat
      BY <1>0, CallAssumption DEF Helped
  <2> QED
      BY <1>2, <2>1, <2>2, <2>3 DEF BoundedRead
<1>3. ASSUME NEW s \in Stream, ReadToEnd(s) \/ ReadBreaks(s)
      PROVE  Trusted'
    BY <1>1, <1>3, ReaderMoves DEF ReadToEnd, ReadBreaks, Reading
<1>4. CASE PromptMoves
  <2>1. PICK n \in 0..PromptSize : n = io.given + 1
      BY <1>0, <1>4, CallAssumption DEF PromptMoves, Helped
  <2>2. io' = [io EXCEPT !.given = n]
      BY <1>4, <2>1 DEF PromptMoves
  <2>3. /\ io' \in Helped /\ io'.started = io.started /\ io'.got = io.got
        /\ io'.given = n /\ io'.complete = io.complete /\ io'.outcome = io.outcome
      BY <1>0, <2>2 DEF Helped
  <2> QED
      BY <1>1, <1>4, <2>1, <2>3, HelperMoves DEF PromptMoves, Writing
<1>5. CASE PromptDelivered \/ PromptCutShort
  <2>1. PICK e \in SUBSET (Stream \cup {"writer", "watcher"}) : e = io.ended \cup {"writer"}
      BY <1>0 DEF Helped
  <2>2. PICK c \in BOOLEAN : /\ io' = [io EXCEPT !.ended = e, !.complete = c]
                             /\ c = io.complete \/ io.given = PromptSize
    <3>1. CASE PromptDelivered
        BY <2>1, <3>1 DEF PromptDelivered
    <3>2. CASE PromptCutShort
      <4>1. io' = [io EXCEPT !.ended = e] /\ io.complete \in BOOLEAN
          BY <1>0, <2>1, <3>2 DEF PromptCutShort, Helped
      <4>2. io' = [io EXCEPT !.ended = e, !.complete = io.complete]
          BY <1>0, <4>1 DEF Helped
      <4> QED
          BY <4>1, <4>2
    <3> QED
        BY <1>5, <3>1, <3>2
  <2>3. /\ io' \in Helped /\ io'.started = io.started /\ io'.got = io.got
        /\ io'.given = io.given /\ io'.complete = c /\ io'.outcome = io.outcome
      BY <1>0, <2>2 DEF Helped
  <2>4. io.started # {}
      BY <1>5 DEF PromptDelivered, PromptCutShort, Writing
  <2> QED
      BY <1>1, <2>2, <2>3, <2>4, HelperMoves
<1>6. CASE WatchFile
  <2>1. PICK e \in SUBSET (Stream \cup {"writer", "watcher"}) : e = io.ended \cup {"watcher"}
      BY <1>0 DEF Helped
  <2>2. PICK over \in BOOLEAN, t \in BOOLEAN :
            io' = [io EXCEPT !.ended = e, !.exceeded = over, !.tripped = t]
      BY <1>6, <2>1 DEF WatchFile
  <2>3. /\ io' \in Helped /\ io'.started = io.started /\ io'.got = io.got
        /\ io'.given = io.given /\ io'.complete = io.complete /\ io'.outcome = io.outcome
      BY <1>0, <2>2 DEF Helped
  <2>4. io.started # {}
      BY <1>6 DEF WatchFile
  <2> QED
      BY <1>1, <2>3, <2>4, HelperMoves
<1> QED
    BY <1>2, <1>3, <1>4, <1>5, <1>6 DEF Helpers

-----------------------------------------------------------------------------
(* The ladders.                                                              *)

\* A ladder of at most nine rungs whose last one applies has a first that does.
LEMMA FirstRung ==
    ASSUME NEW L, NEW m \in 1..9, L[m][1]
    PROVE  \E i \in 1..m : L[i][1] /\ \A j \in 1..i - 1 : ~L[j][1]
<1> SUFFICES ASSUME \A i \in 1..m : L[i][1] => \E j \in 1..i - 1 : L[j][1]
             PROVE  FALSE
    OBVIOUS
<1>1. ~L[1][1]
    OBVIOUS
<1>2. 2 <= m => ~L[2][1]
    BY <1>1
<1>3. 3 <= m => ~L[3][1]
    BY <1>1, <1>2
<1>4. 4 <= m => ~L[4][1]
    BY <1>1, <1>2, <1>3
<1>5. 5 <= m => ~L[5][1]
    BY <1>1, <1>2, <1>3, <1>4
<1>6. 6 <= m => ~L[6][1]
    BY <1>1, <1>2, <1>3, <1>4, <1>5
<1>7. 7 <= m => ~L[7][1]
    BY <1>1, <1>2, <1>3, <1>4, <1>5, <1>6
<1>8. 8 <= m => ~L[8][1]
    BY <1>1, <1>2, <1>3, <1>4, <1>5, <1>6, <1>7
<1> QED
    BY <1>1, <1>2, <1>3, <1>4, <1>5, <1>6, <1>7, <1>8

LEMMA Climbed ==
    ASSUME NEW m \in 1..9, DOMAIN Ladder = 1..m, Ladder[m][1]
    PROVE  \E n \in 1..m : /\ Verdict = Ladder[n][2] /\ Ladder[n][1]
                           /\ \A j \in 1..n - 1 : ~Ladder[j][1]
<1>1. \E i \in DOMAIN Ladder : Ladder[i][1] /\ \A j \in 1..i - 1 : ~Ladder[j][1]
    BY FirstRung
<1> DEFINE n == CHOOSE i \in DOMAIN Ladder :
                    Ladder[i][1] /\ \A j \in 1..i - 1 : ~Ladder[j][1]
<1>2. n \in DOMAIN Ladder /\ Ladder[n][1] /\ \A j \in 1..n - 1 : ~Ladder[j][1]
    BY <1>1
<1>3. Verdict = Ladder[n][2]
    BY DEF Verdict
<1> QED
    BY <1>2, <1>3

\* The results a ladder can end in.
Findings == {"answer", "survived", "refused", "timeout", "overflow", "failed",
             "unasked", "broken"}

LEMMA ImplementerVerdict ==
    ASSUME call.kind = "implementer"
    PROVE  Verdict \in Findings /\ (Verdict = "answer" => call.drained /\ io.complete)
<1>1. Ladder = ImplementerLadder
    BY DEF Ladder
<1>2. DOMAIN Ladder = 1..6 /\ Ladder[6] = Otherwise
    BY <1>1 DEF ImplementerLadder
<1>3. /\ Ladder[1] = <<call.timedOut, "timeout">> /\ Ladder[2] = <<Overflowed, "overflow">>
      /\ Ladder[3] = <<prog.code # 0, "failed">> /\ Ladder[4] = <<~io.complete, "unasked">>
      /\ Ladder[5] = <<~call.drained, "survived">>
    BY <1>1 DEF ImplementerLadder
<1>4. Ladder[6][1] /\ Ladder[6][2] = "answer"
    BY <1>2 DEF Otherwise
<1>5. PICK n \in 1..6 : /\ Verdict = Ladder[n][2] /\ Ladder[n][1]
                        /\ \A j \in 1..n - 1 : ~Ladder[j][1]
    BY <1>2, <1>4, Climbed
<1>6. /\ Ladder[1][2] = "timeout" /\ Ladder[2][2] = "overflow" /\ Ladder[3][2] = "failed"
      /\ Ladder[4][2] = "unasked" /\ Ladder[5][2] = "survived"
    BY <1>3
<1>7. n < 6 => Verdict \in Findings \ {"answer"}
    BY <1>5, <1>6 DEF Findings
<1>8. n = 6 => ~Ladder[4][1] /\ ~Ladder[5][1] /\ Verdict = "answer"
    BY <1>4, <1>5
<1>9. Ladder[4][1] = ~io.complete /\ Ladder[5][1] = ~call.drained
    BY <1>3
<1>10. (~Ladder[4][1] => io.complete) /\ (~Ladder[5][1] => call.drained)
    BY <1>9
<1> QED
    BY <1>7, <1>8, <1>10 DEF Findings

LEMMA EvaluatorVerdict ==
    ASSUME call.kind = "evaluator"
    PROVE  /\ Verdict \in Findings
           /\ Verdict = "answer" => /\ call.drained /\ io.complete
                                    /\ ~Broken /\ ~FileTooLong
<1>1. Ladder = EvaluatorLadder
    BY DEF Ladder
<1>2. DOMAIN Ladder = 1..9 /\ Ladder[9] = Otherwise
    BY <1>1 DEF EvaluatorLadder
<1>3. /\ Ladder[1] = <<call.timedOut, "timeout">> /\ Ladder[2] = <<io.exceeded, "overflow">>
      /\ Ladder[3] = <<Overflowed, "overflow">> /\ Ladder[4] = <<Broken, "broken">>
      /\ Ladder[5] = <<prog.code # 0, "failed">> /\ Ladder[6] = <<~io.complete, "unasked">>
      /\ Ladder[7] = <<~call.drained, "survived">> /\ Ladder[8] = <<FileTooLong, "overflow">>
    BY <1>1 DEF EvaluatorLadder
<1>4. Ladder[9][1] /\ Ladder[9][2] = "answer"
    BY <1>2 DEF Otherwise
<1>5. PICK n \in 1..9 : /\ Verdict = Ladder[n][2] /\ Ladder[n][1]
                        /\ \A j \in 1..n - 1 : ~Ladder[j][1]
    BY <1>2, <1>4, Climbed
<1>6. /\ Ladder[1][2] = "timeout" /\ Ladder[2][2] = "overflow" /\ Ladder[3][2] = "overflow"
      /\ Ladder[4][2] = "broken" /\ Ladder[5][2] = "failed" /\ Ladder[6][2] = "unasked"
      /\ Ladder[7][2] = "survived" /\ Ladder[8][2] = "overflow"
    BY <1>3
<1>7. n < 9 => Verdict \in Findings \ {"answer"}
    BY <1>5, <1>6 DEF Findings
<1>8. n = 9 => /\ ~Ladder[4][1] /\ ~Ladder[6][1] /\ ~Ladder[7][1] /\ ~Ladder[8][1]
               /\ Verdict = "answer"
    BY <1>4, <1>5
<1>9. /\ Ladder[4][1] = Broken /\ Ladder[6][1] = ~io.complete
      /\ Ladder[7][1] = ~call.drained /\ Ladder[8][1] = FileTooLong
    BY <1>3
<1>10. /\ ~Ladder[4][1] => ~Broken
       /\ ~Ladder[6][1] => io.complete
       /\ ~Ladder[7][1] => call.drained
       /\ ~Ladder[8][1] => ~FileTooLong
    BY <1>9
<1> QED
    BY <1>7, <1>8, <1>10 DEF Findings

LEMMA CommandVerdict ==
    ASSUME call.kind = "command"
    PROVE  /\ Verdict \in Findings
           /\ Verdict = "answer" => call.drained /\ ~Broken
           /\ ~call.drained /\ ~call.clean => Verdict = "survived"
<1>1. Ladder = CommandLadder
    BY DEF Ladder
<1>2. DOMAIN Ladder = 1..7 /\ Ladder[7] = Otherwise
    BY <1>1 DEF CommandLadder
<1>3. /\ Ladder[1] = <<call.raised /\ ~call.clean, "survived">>
      /\ Ladder[2] = <<call.raised, "refused">> /\ Ladder[3] = <<~call.drained, "survived">>
      /\ Ladder[4] = <<call.timedOut, "timeout">> /\ Ladder[5] = <<Overflowed, "overflow">>
      /\ Ladder[6] = <<~call.joined \/ Broken, "broken">>
    BY <1>1 DEF CommandLadder
<1>4. Ladder[7][1] /\ Ladder[7][2] = "answer"
    BY <1>2 DEF Otherwise
<1>5. PICK n \in 1..7 : /\ Verdict = Ladder[n][2] /\ Ladder[n][1]
                        /\ \A j \in 1..n - 1 : ~Ladder[j][1]
    BY <1>2, <1>4, Climbed
<1>6. /\ Ladder[1][2] = "survived" /\ Ladder[2][2] = "refused" /\ Ladder[3][2] = "survived"
      /\ Ladder[4][2] = "timeout" /\ Ladder[5][2] = "overflow" /\ Ladder[6][2] = "broken"
    BY <1>3
<1>7. n < 7 => Verdict \in Findings \ {"answer"}
    BY <1>5, <1>6 DEF Findings
<1>8. n = 7 => ~Ladder[3][1] /\ ~Ladder[6][1] /\ Verdict = "answer"
    BY <1>4, <1>5
<1>9. /\ Ladder[1][1] = (call.raised /\ ~call.clean) /\ Ladder[2][1] = call.raised
      /\ Ladder[3][1] = ~call.drained /\ Ladder[6][1] = (~call.joined \/ Broken)
    BY <1>3
<1>10. (~Ladder[3][1] => call.drained) /\ (~Ladder[6][1] => ~Broken)
    BY <1>9
<1>11. ~call.drained /\ ~call.clean => Ladder[3][1] /\ (Ladder[2][1] => Ladder[1][1])
    BY <1>9
<1>12. ~call.drained /\ ~call.clean => n \in {1, 3}
    BY <1>5, <1>11
<1> QED
    BY <1>5, <1>6, <1>7, <1>8, <1>10, <1>12 DEF Findings

LEMMA GitVerdict ==
    ASSUME call.kind = "git"
    PROVE  /\ Verdict \in Findings
           /\ Verdict = "answer" => call.clean /\ ~Broken /\ io.complete
           /\ ~call.clean => Verdict = "survived"
<1>1. Ladder = GitLadder
    BY DEF Ladder
<1>2. DOMAIN Ladder = 1..8 /\ Ladder[8] = Otherwise
    BY <1>1 DEF GitLadder
<1>3. /\ Ladder[1] = <<~call.clean, "survived">> /\ Ladder[2] = <<call.raised, "refused">>
      /\ Ladder[3] = <<call.timedOut, "timeout">> /\ Ladder[4] = <<io.tripped, "overflow">>
      /\ Ladder[5] = <<Broken, "broken">> /\ Ladder[6] = <<prog.code # 0, "failed">>
      /\ Ladder[7] = <<~io.complete, "unasked">>
    BY <1>1 DEF GitLadder
<1>4. Ladder[8][1] /\ Ladder[8][2] = "answer"
    BY <1>2 DEF Otherwise
<1>5. PICK n \in 1..8 : /\ Verdict = Ladder[n][2] /\ Ladder[n][1]
                        /\ \A j \in 1..n - 1 : ~Ladder[j][1]
    BY <1>2, <1>4, Climbed
<1>6. /\ Ladder[1][2] = "survived" /\ Ladder[2][2] = "refused" /\ Ladder[3][2] = "timeout"
      /\ Ladder[4][2] = "overflow" /\ Ladder[5][2] = "broken" /\ Ladder[6][2] = "failed"
      /\ Ladder[7][2] = "unasked"
    BY <1>3
<1>7. n < 8 => Verdict \in Findings \ {"answer"}
    BY <1>5, <1>6 DEF Findings
<1>8. n = 8 => /\ ~Ladder[1][1] /\ ~Ladder[5][1] /\ ~Ladder[7][1] /\ Verdict = "answer"
    BY <1>4, <1>5
<1>9. /\ Ladder[1][1] = ~call.clean /\ Ladder[5][1] = Broken
      /\ Ladder[7][1] = ~io.complete
    BY <1>3
<1>10. /\ ~Ladder[1][1] => call.clean
       /\ ~Ladder[5][1] => ~Broken
       /\ ~Ladder[7][1] => io.complete
       /\ ~call.clean => Ladder[1][1]
    BY <1>9
<1>11. ~call.clean => n = 1
    BY <1>5, <1>10
<1> QED
    BY <1>5, <1>6, <1>7, <1>8, <1>10, <1>11 DEF Findings

LEMMA StatusVerdict ==
    ASSUME call.kind = "status"
    PROVE  /\ Verdict \in Findings
           /\ Verdict = "answer" => call.clean /\ ~Broken
           /\ ~call.clean => Verdict = "survived"
<1>1. Ladder = StatusLadder
    BY DEF Ladder
<1>2. DOMAIN Ladder = 1..4 /\ Ladder[4] = Otherwise
    BY <1>1 DEF StatusLadder
<1>3. /\ Ladder[1] = <<~call.clean, "survived">> /\ Ladder[2] = <<call.timedOut, "timeout">>
      /\ Ladder[3] = <<Broken, "broken">>
    BY <1>1 DEF StatusLadder
<1>4. Ladder[4][1] /\ Ladder[4][2] = "answer"
    BY <1>2 DEF Otherwise
<1>5. PICK n \in 1..4 : /\ Verdict = Ladder[n][2] /\ Ladder[n][1]
                        /\ \A j \in 1..n - 1 : ~Ladder[j][1]
    BY <1>2, <1>4, Climbed
<1>6. Ladder[1][2] = "survived" /\ Ladder[2][2] = "timeout" /\ Ladder[3][2] = "broken"
    BY <1>3
<1>7. n < 4 => Verdict \in Findings \ {"answer"}
    BY <1>5, <1>6 DEF Findings
<1>8. n = 4 => ~Ladder[1][1] /\ ~Ladder[3][1] /\ Verdict = "answer"
    BY <1>4, <1>5
<1>9. Ladder[1][1] = ~call.clean /\ Ladder[3][1] = Broken
    BY <1>3
<1>10. /\ ~Ladder[1][1] => call.clean
       /\ ~Ladder[3][1] => ~Broken
       /\ ~call.clean => Ladder[1][1]
    BY <1>9
<1>11. ~call.clean => n = 1
    BY <1>5, <1>10
<1> QED
    BY <1>5, <1>6, <1>7, <1>8, <1>10, <1>11 DEF Findings

-----------------------------------------------------------------------------
(* The calling thread.                                                       *)

LEMMA Reaping ==
    ASSUME prog \in Programs
    PROVE  /\ Reaped(prog) \in Programs
           /\ \/ Reaped(prog).leader = prog.leader
              \/ prog.leader = "zombie" /\ Reaped(prog).leader = "gone"
           /\ Reaped(prog).child = prog.child /\ Reaped(prog).wrote = prog.wrote
           /\ Reaped(prog).file = prog.file /\ Reaped(prog).taken = prog.taken
BY DEF Reaped, Programs

\* Once the container is made, the caller only waits, kills and reaps.
LEMMA CallerMoves ==
    ASSUME Trusted, call.pc \notin Before \cup {"done"},
           call' \in Calls, call'.kind = call.kind, call'.pc \notin Before,
           prog' \in Programs, io' \in Helped,
           \/ prog'.leader = prog.leader
           \/ prog.leader = "zombie" /\ prog'.leader = "gone",
           prog'.child = prog.child, prog'.wrote = prog.wrote,
           prog'.file = prog.file, prog'.taken = prog.taken,
           io'.got = io.got, io'.outcome = io.outcome,
           io'.given = io.given, io'.complete = io.complete
    PROVE  /\ CallTypeOK' /\ Contained' /\ ReadOut' /\ Handed'
           /\ Survivor' = Survivor /\ (prog.leader # "frozen" => prog'.leader # "frozen")
           /\ Alive' = Alive
<1> USE DEF Trusted
<1>1. CallTypeOK'
    BY DEF CallTypeOK, Calls, Programs, Helped
<1>2. prog.leader \in {"running", "zombie", "gone"}
    BY DEF Contained
<1>3. Survivor' = Survivor /\ Alive' = Alive
    BY DEF Survivor, Alive
<1>4. Contained'
    BY <1>2 DEF Contained, Before
<1>5. ReadOut'
    BY <1>2, <1>3 DEF ReadOut
<1>6. Handed'
    BY DEF Handed
<1> QED
    BY <1>1, <1>2, <1>3, <1>4, <1>5, <1>6

\* A call in the middle: it has no result, and is not over.
LEMMA Midway ==
    ASSUME CallTypeOK', Contained', ReadOut', Handed', PipesEmptied',
           call'.pc \notin {"again", "done"}, call'.result = "none"
    PROVE  Trusted'
BY DEF Trusted, Unjudged, Over

\* Until the first drain nothing is known of the container.
Undrained == {"start", "poll", "stop", "stopping", "drain"}

LEMMA EarlyMoves ==
    ASSUME Trusted, call.pc \in Undrained, call'.pc \in Undrained \cup {"emptying"},
           call' \in Calls, call'.kind = call.kind, call'.result = call.result,
           call'.drained = call.drained, prog' \in Programs, io' \in Helped,
           \/ prog'.leader = prog.leader
           \/ prog.leader = "zombie" /\ prog'.leader = "gone",
           prog'.child = prog.child, prog'.wrote = prog.wrote,
           prog'.file = prog.file, prog'.taken = prog.taken,
           io'.got = io.got, io'.outcome = io.outcome,
           io'.given = io.given, io'.complete = io.complete
    PROVE  Trusted'
<1>1. call.pc \notin Before \cup {"done"} /\ call'.pc \notin Before
      /\ call'.pc \notin {"again", "done"} /\ call.pc \notin {"again", "done"}
    BY DEF Before, Undrained
<1>2. CallTypeOK' /\ Contained' /\ ReadOut' /\ Handed'
    BY <1>1, CallerMoves
<1>3. ~call'.drained
    BY DEF Trusted, PipesEmptied, Undrained
<1>4. PipesEmptied'
    BY <1>3 DEF PipesEmptied, Undrained
<1>5. call'.result = "none"
    BY <1>1 DEF Trusted, Unjudged
<1> QED
    BY <1>1, <1>2, <1>4, <1>5, Midway

LEMMA ThreadNames ==
    ASSUME NEW t, t \in Threads(call.kind)
    PROVE  t \in Stream \cup {"writer", "watcher"}
BY DEF Threads

LEMMA StartThreadsStep == Trusted /\ StartThreads => Trusted'
<1> SUFFICES ASSUME Trusted, StartThreads PROVE Trusted'
    OBVIOUS
<1>0. call \in Calls /\ prog \in Programs /\ io \in Helped /\ call.pc = "start"
    BY CallTyping DEF Trusted, StartThreads
<1>1. UNCHANGED prog
    BY DEF StartThreads
<1>2. CASE UNCHANGED call /\ \E t \in Threads(call.kind) \ io.started :
              io' = [io EXCEPT !.started = @ \cup {t}]
  <2>1. PICK t \in Threads(call.kind) : io' = [io EXCEPT !.started = @ \cup {t}]
      BY <1>2
  <2>2. PICK s \in SUBSET (Stream \cup {"writer", "watcher"}) : s = io.started \cup {t}
      BY <1>0, <2>1, ThreadNames DEF Helped
  <2>3. io' = [io EXCEPT !.started = s]
      BY <2>1, <2>2
  <2>4. io' \in Helped /\ io'.got = io.got /\ io'.outcome = io.outcome
        /\ io'.given = io.given /\ io'.complete = io.complete
      BY <1>0, <2>3 DEF Helped
  <2> QED
      BY <1>0, <1>1, <1>2, <2>4, EarlyMoves DEF Undrained
<1>3. CASE call' = [call EXCEPT !.pc = "poll"] /\ UNCHANGED io
  <2>1. call' \in Calls /\ call'.kind = call.kind /\ call'.result = call.result
        /\ call'.drained = call.drained /\ call'.pc = "poll"
      BY <1>0, <1>3 DEF Calls
  <2> QED
      BY <1>0, <1>1, <1>3, <2>1, EarlyMoves DEF Undrained
<1> QED
    BY <1>2, <1>3 DEF StartThreads

LEMMA BreakStep == Trusted /\ BreaksOff => Trusted'
<1> SUFFICES ASSUME Trusted, BreaksOff PROVE Trusted'
    OBVIOUS
<1>0. /\ call \in Calls /\ prog \in Programs /\ io \in Helped
      /\ call.pc \in {"start", "poll"} /\ UNCHANGED <<prog, io>>
    BY CallTyping DEF Trusted, BreaksOff
<1>1. CASE call' = [call EXCEPT !.raised = TRUE, !.pc = "stop"]
  <2>1. call' \in Calls /\ call'.kind = call.kind /\ call'.result = call.result
        /\ call'.drained = call.drained /\ call'.pc = "stop"
      BY <1>0, <1>1 DEF Calls
  <2> QED
      BY <1>0, <2>1, EarlyMoves DEF Undrained
<1>2. CASE call' = [call EXCEPT !.raised = TRUE, !.pc = "again", !.result = "raised"]
  <2>1. call' \in Calls /\ call'.kind = call.kind /\ call'.result = "raised"
        /\ call'.drained = call.drained /\ call'.pc = "again"
      BY <1>0, <1>2 DEF Calls, Results
  <2>2. CallTypeOK' /\ Contained' /\ ReadOut' /\ Handed'
      BY <1>0, <2>1, CallerMoves DEF Before
  <2>3. PipesEmptied' /\ Unjudged' /\ ~Over'
      BY <1>0, <2>1 DEF Trusted, PipesEmptied, Unjudged, Over, Before
  <2> QED
      BY <2>2, <2>3 DEF Trusted
<1> QED
    BY <1>1, <1>2 DEF BreaksOff

LEMMA StopSteps == Trusted /\ (PollEnds \/ Stop \/ StopWaits \/ DeadlinePasses) => Trusted'
<1> SUFFICES ASSUME Trusted, PollEnds \/ Stop \/ StopWaits \/ DeadlinePasses PROVE Trusted'
    OBVIOUS
<1>0. call \in Calls /\ prog \in Programs /\ io \in Helped /\ io' = io
    BY CallTyping DEF Trusted, PollEnds, Stop, StopWaits, DeadlinePasses
<1>1. CASE PollEnds
  <2>1. PICK b \in BOOLEAN : call' = [call EXCEPT !.pc = "stop", !.timedOut = b]
      BY <1>1 DEF PollEnds
  <2>2. call' \in Calls /\ call'.kind = call.kind /\ call'.result = call.result
        /\ call'.drained = call.drained /\ call'.pc = "stop" /\ call.pc = "poll"
      BY <1>0, <1>1, <2>1 DEF Calls, PollEnds
  <2>3. prog' \in {prog, Reaped(prog)}
      BY <1>1 DEF PollEnds
  <2> QED
      BY <1>0, <2>2, <2>3, Reaping, EarlyMoves DEF Undrained
<1>2. CASE Stop
  <2>1. CASE \E all \in BOOLEAN :
              /\ prog' = [prog EXCEPT !.doomed = @ \cup {"leader"} \cup
                            (IF all THEN {"child"} ELSE {})]
              /\ call' = [call EXCEPT !.pc = "stopping", !.clean = @ /\ all]
    <3>1. PICK all \in BOOLEAN :
              /\ prog' = [prog EXCEPT !.doomed = @ \cup {"leader"} \cup
                            (IF all THEN {"child"} ELSE {})]
              /\ call' = [call EXCEPT !.pc = "stopping", !.clean = @ /\ all]
        BY <2>1
    <3>2. PICK d \in SUBSET {"leader", "child"} :
              d = prog.doomed \cup {"leader"} \cup (IF all THEN {"child"} ELSE {})
        BY <1>0 DEF Programs
    <3>3. prog' = [prog EXCEPT !.doomed = d]
        BY <3>1, <3>2
    <3>4. /\ prog' \in Programs /\ prog'.leader = prog.leader /\ prog'.child = prog.child
          /\ prog'.wrote = prog.wrote /\ prog'.file = prog.file /\ prog'.taken = prog.taken
        BY <1>0, <3>3 DEF Programs
    <3>5. PICK b \in BOOLEAN : call' = [call EXCEPT !.pc = "stopping", !.clean = b]
        BY <3>1
    <3>6. call' \in Calls /\ call'.kind = call.kind /\ call'.result = call.result
          /\ call'.drained = call.drained /\ call'.pc = "stopping" /\ call.pc = "stop"
        BY <1>0, <1>2, <3>5 DEF Calls, Stop
    <3> QED
        BY <1>0, <3>4, <3>6, EarlyMoves DEF Undrained
  <2>2. CASE call' = [call EXCEPT !.pc = "drain"] /\ UNCHANGED prog
    <3>1. call' \in Calls /\ call'.kind = call.kind /\ call'.result = call.result
          /\ call'.drained = call.drained /\ call'.pc = "drain" /\ call.pc = "stop"
        BY <1>0, <1>2, <2>2 DEF Calls, Stop
    <3> QED
        BY <1>0, <2>2, <3>1, EarlyMoves DEF Undrained
  <2> QED
      BY <1>2, <2>1, <2>2 DEF Stop
<1>3. CASE StopWaits
  <2>1. PICK b \in BOOLEAN : call' = [call EXCEPT !.pc = "drain", !.clean = b]
      BY <1>3 DEF StopWaits
  <2>2. call' \in Calls /\ call'.kind = call.kind /\ call'.result = call.result
        /\ call'.drained = call.drained /\ call'.pc = "drain" /\ call.pc = "stopping"
      BY <1>0, <1>3, <2>1 DEF Calls, StopWaits
  <2>3. prog' = Reaped(prog)
      BY <1>3 DEF StopWaits
  <2> QED
      BY <1>0, <2>2, <2>3, Reaping, EarlyMoves DEF Undrained
<1>4. CASE DeadlinePasses
  <2>1. call' \in Calls /\ call'.kind = call.kind /\ call'.result = call.result
        /\ call'.drained = call.drained /\ call'.pc = "poll" /\ call.pc = "poll"
      BY <1>0, <1>4 DEF Calls, DeadlinePasses
  <2> QED
      BY <1>0, <1>4, <2>1, EarlyMoves DEF Undrained, DeadlinePasses
<1> QED
    BY <1>1, <1>2, <1>3, <1>4

\* A call that ends without an answer, with nobody left or a caller who is told.
LEMMA CallEnding ==
    ASSUME CallTypeOK', Contained', ReadOut', Handed', PipesEmptied', call'.pc = "done",
           call'.result # "answer", call'.result = "uncontained" => ~prog'.ran,
           \/ ~Survivor'
           \/ call'.result \in {"raised", "survived"}
           \/ call'.kind \in {"implementer", "evaluator"} /\ ~call'.clean
    PROVE  Trusted'
<1>1. AnswersAreWhole'
    BY DEF AnswersAreWhole, AnswerIsWhole, AnsweredWasAsked, AnswerIsBounded
<1>2. LeftoversAreTold'
    BY DEF LeftoversAreTold, AnswerLeavesNobody, SurvivorsAreTold, UncontainedNeverRan
<1>3. Unjudged'
    BY DEF Unjudged
<1> QED
    BY <1>1, <1>2, <1>3 DEF Trusted, CallsAreHonest

\* Before the program runs, the container is made or the call is over.
LEMMA FirstSteps == Trusted /\ (Launch \/ Attach \/ Resume) => Trusted'
<1> SUFFICES ASSUME Trusted, Launch \/ Attach \/ Resume PROVE Trusted'
    OBVIOUS
<1>0. call \in Calls /\ prog \in Programs /\ io \in Helped /\ io' = io
    BY CallTyping DEF Trusted, Launch, Attach, Resume
<1>1. /\ call.pc \in Before /\ ~call.drained /\ call.result = "none"
      /\ prog.child = "unborn" /\ ~prog.ran /\ prog.leader \in {"none", "frozen"}
      /\ prog.doomed = {} /\ io.started = {} /\ \A s \in Stream : io.outcome[s] = "pending"
      /\ call.kind # "evaluator" => prog.file = 0
    BY DEF Trusted, Contained, PipesEmptied, Unjudged, Launch, Attach, Resume, Before
<1>2. ReadOut'
    BY <1>0, <1>1 DEF ReadOut
<1>3. ASSUME NEW l \in {"none", "frozen", "running"}, NEW d \in {{}, {"leader"}},
             prog' = [prog EXCEPT !.leader = l, !.doomed = d]
      PROVE  /\ prog' \in Programs /\ prog'.leader = l /\ prog'.doomed = d
             /\ prog'.child = prog.child /\ prog'.file = prog.file /\ prog'.taken = prog.taken
             /\ prog'.ran = prog.ran
    BY <1>0, <1>3 DEF Programs
<1>4. ASSUME NEW pc \in {"attach", "resume", "start"}, call' = [call EXCEPT !.pc = pc],
             NEW l \in {"frozen", "running"}, l = "frozen" <=> pc # "start",
             prog' = [prog EXCEPT !.leader = l, !.doomed = {}]
      PROVE  Trusted'
  <2>1. /\ call' \in Calls /\ call'.pc = pc /\ call'.kind = call.kind
        /\ call'.drained = call.drained /\ call'.result = call.result
      BY <1>0, <1>4 DEF Calls
  <2>2. CallTypeOK'
      BY <1>0, <1>3, <1>4, <2>1 DEF CallTypeOK, Calls, Programs, Helped
  <2>3. Contained'
      BY <1>0, <1>1, <1>3, <1>4, <2>1 DEF Contained, Before
  <2>4. Handed'
      BY <1>0, <1>3, <1>4 DEF Trusted, Handed
  <2>5. PipesEmptied'
      BY <1>1, <2>1 DEF PipesEmptied
  <2> QED
      BY <1>1, <1>2, <2>1, <2>2, <2>3, <2>4, <2>5, Midway
<1>5. ASSUME NEW r \in {"uncontained", "raised"},
             call' = [call EXCEPT !.pc = "done", !.result = r],
             NEW l \in {"none", "frozen"}, NEW d \in {{}, {"leader"}},
             prog' = [prog EXCEPT !.leader = l, !.doomed = d]
      PROVE  Trusted'
  <2>1. /\ call' \in Calls /\ call'.pc = "done" /\ call'.kind = call.kind
        /\ call'.drained = call.drained /\ call'.result = r
      BY <1>0, <1>5 DEF Calls, Results
  <2>2. CallTypeOK'
      BY <1>0, <1>3, <1>5, <2>1 DEF CallTypeOK, Calls, Programs, Helped
  <2>3. Contained'
      BY <1>0, <1>1, <1>3, <1>5, <2>1 DEF Contained, Before
  <2>4. Handed'
      BY <1>0, <1>3, <1>5 DEF Trusted, Handed
  <2>5. PipesEmptied' /\ ~Survivor' /\ ~prog'.ran
      BY <1>1, <1>3, <1>5, <2>1 DEF PipesEmptied, Survivor, Before
  <2> QED
      BY <1>2, <2>1, <2>2, <2>3, <2>4, <2>5, CallEnding
<1>6. prog = [prog EXCEPT !.leader = prog.leader, !.doomed = {}]
    BY <1>0, <1>1 DEF Programs
<1>7. CASE Launch
  <2>1. CASE /\ prog' = [prog EXCEPT !.leader = Started]
             /\ call' = [call EXCEPT !.pc =
                            IF call.host = "posix" THEN "start" ELSE "attach"]
    <3>1. PICK l \in {"frozen", "running"}, pc \in {"attach", "start"} :
              /\ l = Started /\ (l = "frozen" <=> pc # "start")
              /\ pc = IF call.host = "posix" THEN "start" ELSE "attach"
        BY DEF Started
    <3>2. prog' = [prog EXCEPT !.leader = l, !.doomed = {}]
        BY <1>0, <1>1, <2>1, <3>1 DEF Programs
    <3>3. call' = [call EXCEPT !.pc = pc]
        BY <2>1, <3>1
    <3> QED
        BY <1>4, <3>1, <3>2, <3>3
  <2>2. CASE /\ call' = [call EXCEPT !.pc = "done", !.result =
                            IF call.kind \in {"command", "git"} THEN "uncontained"
                            ELSE "raised"]
             /\ UNCHANGED prog
    <3>1. PICK r \in {"uncontained", "raised"} :
              r = IF call.kind \in {"command", "git"} THEN "uncontained" ELSE "raised"
        OBVIOUS
    <3>2. call' = [call EXCEPT !.pc = "done", !.result = r]
        BY <2>2, <3>1
    <3>3. prog' = [prog EXCEPT !.leader = prog.leader, !.doomed = {}]
        BY <1>6, <2>2
    <3> QED
        BY <1>1, <1>5, <3>2, <3>3
  <2> QED
      BY <1>7, <2>1, <2>2 DEF Launch
<1>8. CASE Attach \/ Resume
  <2>1. prog.leader = "frozen"
      BY <1>8 DEF Attach, Resume, Trusted, Contained
  <2>2. CASE call' = [call EXCEPT !.pc = "resume"] /\ UNCHANGED prog
      BY <1>4, <1>6, <2>1, <2>2
  <2>3. CASE /\ call' = [call EXCEPT !.pc = "start"]
             /\ prog' = [prog EXCEPT !.leader = "running"]
    <3>1. prog' = [prog EXCEPT !.leader = "running", !.doomed = {}]
        BY <1>0, <1>1, <2>3 DEF Programs
    <3> QED
        BY <1>4, <2>3, <3>1
  <2>4. CASE /\ call' = [call EXCEPT !.pc = "done", !.result = "uncontained"]
             /\ prog' = [prog EXCEPT !.doomed = prog.doomed \cup {"leader"}]
    <3>1. prog' = [prog EXCEPT !.leader = "frozen", !.doomed = {"leader"}]
        BY <1>0, <1>1, <2>1, <2>4 DEF Programs
    <3> QED
        BY <1>5, <2>4, <3>1
  <2> QED
      BY <1>8, <2>1, <2>2, <2>3, <2>4 DEF Attach, Resume
<1> QED
    BY <1>7, <1>8

\* The container is told to end; what it answers is what the call knows of it.
LEMMA DrainSteps == Trusted /\ (Drain \/ Emptying \/ Join \/ GracePasses) => Trusted'
<1> SUFFICES ASSUME Trusted, Drain \/ Emptying \/ Join \/ GracePasses PROVE Trusted'
    OBVIOUS
<1>0. /\ call \in Calls /\ prog \in Programs /\ io \in Helped /\ io' = io
      /\ call.pc \in {"stopping", "drain", "emptying", "join"} /\ call.result = "none"
      /\ call.pc \notin Before \cup {"done"}
    BY CallTyping DEF Trusted, Drain, Emptying, Join, GracePasses, Unjudged, Before
<1>1. ASSUME NEW d, prog' = [prog EXCEPT !.doomed = d], d \in SUBSET {"leader", "child"}
      PROVE  /\ prog' \in Programs /\ prog'.leader = prog.leader /\ prog'.child = prog.child
             /\ prog'.wrote = prog.wrote /\ prog'.file = prog.file /\ prog'.taken = prog.taken
    BY <1>0, <1>1 DEF Programs
<1>2. prog' \in {prog, [prog EXCEPT !.doomed = {"leader", "child"}], Reaped(prog)}
    BY DEF Drain, Emptying, Join, GracePasses
<1>3. /\ prog' \in Programs /\ prog'.child = prog.child /\ prog'.wrote = prog.wrote
      /\ prog'.file = prog.file /\ prog'.taken = prog.taken
      /\ \/ prog'.leader = prog.leader
         \/ prog.leader = "zombie" /\ prog'.leader = "gone"
    BY <1>0, <1>1, <1>2, Reaping
<1>4. ASSUME call' \in Calls, call'.kind = call.kind, call'.pc \notin Before,
             call'.result = "none", call'.pc \notin {"again", "done"}, PipesEmptied'
      PROVE  Trusted'
  <2>1. CallTypeOK' /\ Contained' /\ ReadOut' /\ Handed'
      BY <1>0, <1>3, <1>4, CallerMoves
  <2> QED
      BY <1>4, <2>1, Midway
<1>5. Survivor' = Survivor /\ (prog.leader # "frozen" => prog'.leader # "frozen")
    BY <1>3 DEF Survivor
<1>6. ASSUME NEW answer \in BOOLEAN, call' = Drained(answer),
             answer => ~Survivor /\ prog.leader # "frozen"
      PROVE  Trusted'
  <2>1. PICK b \in BOOLEAN : b = (call.clean /\ answer)
      OBVIOUS
  <2>2. call' = [call EXCEPT !.pc = "join", !.drained = answer, !.clean = b]
      BY <1>6, <2>1 DEF Drained
  <2>3. /\ call' \in Calls /\ call'.kind = call.kind /\ call'.result = call.result
        /\ call'.pc = "join" /\ call'.drained = answer /\ call'.clean = b
      BY <1>0, <2>2 DEF Calls
  <2>4. PipesEmptied'
      BY <1>5, <1>6, <2>1, <2>3 DEF PipesEmptied, Before
  <2> QED
      BY <1>0, <1>4, <2>3, <2>4 DEF Before
<1>7. CASE Drain
  <2>1. CASE call' = [call EXCEPT !.pc = "emptying"]
    <3>1. /\ call' \in Calls /\ call'.kind = call.kind /\ call'.result = call.result
          /\ call'.pc = "emptying" /\ call'.drained = call.drained
        BY <1>0, <2>1 DEF Calls
    <3>2. ~call.drained
        BY <1>7 DEF Drain, Trusted, PipesEmptied
    <3>3. PipesEmptied'
        BY <3>1, <3>2 DEF PipesEmptied
    <3> QED
        BY <1>0, <1>4, <3>1, <3>3 DEF Before
  <2>2. CASE call' = Drained(FALSE)
      BY <1>6, <2>2
  <2> QED
      BY <1>7, <2>1, <2>2 DEF Drain
<1>8. CASE Emptying
  <2>1. ContainerEmpty \in BOOLEAN /\ (ContainerEmpty => ~Survivor /\ prog.leader # "frozen")
      BY DEF ContainerEmpty, Survivor
  <2>2. call' = Drained(ContainerEmpty)
      BY <1>8 DEF Emptying
  <2> QED
      BY <1>6, <2>1, <2>2
<1>9. CASE Join
  <2>1. PICK j \in BOOLEAN, b \in BOOLEAN :
            /\ call' = [call EXCEPT !.pc = "judge", !.joined = j, !.clean = b]
            /\ b => call.clean
      BY <1>9 DEF Join
  <2>2. /\ call' \in Calls /\ call'.kind = call.kind /\ call'.result = call.result
        /\ call'.pc = "judge" /\ call'.drained = call.drained /\ call'.clean = b
      BY <1>0, <2>1 DEF Calls
  <2>3. /\ call.drained => ~Survivor /\ prog.leader # "frozen"
        /\ call.drained \/ ~call.clean
      BY <1>9 DEF Join, Trusted, PipesEmptied
  <2>4. PipesEmptied'
      BY <1>5, <2>1, <2>2, <2>3 DEF PipesEmptied, Before
  <2> QED
      BY <1>0, <1>4, <2>2, <2>4 DEF Before
<1>10. CASE GracePasses
  <2>1. /\ call' \in Calls /\ call'.kind = call.kind /\ call'.result = call.result
        /\ call'.pc = call.pc /\ call'.drained = call.drained /\ call'.clean = call.clean
      BY <1>0, <1>10 DEF Calls, GracePasses
  <2>2. PipesEmptied'
      BY <1>5, <2>1 DEF Trusted, PipesEmptied
  <2> QED
      BY <1>0, <1>4, <2>1, <2>2
<1> QED
    BY <1>7, <1>8, <1>9, <1>10

-----------------------------------------------------------------------------
(* The judgement.                                                            *)

Judged == Findings \cup {"malformed", "unreleased"}

\* An answer stands only under what its ladder asked, and a container that was
\* not emptied is told of.
LEMMA Believed ==
    ASSUME Trusted, call.pc = "judge", NEW r \in Readings
    PROVE  /\ r \in Judged
           /\ r = "answer" => /\ call.drained
                              /\ call.kind # "implementer" => ~Broken
                              /\ Prompted => io.complete
                              /\ call.kind = "evaluator" => ~FileTooLong
           /\ ~call.drained => /\ ~call.clean
                               /\ \/ call.kind \in {"implementer", "evaluator"}
                                  \/ r = "survived"
<1>1. ~call.drained => ~call.clean
    BY DEF Trusted, PipesEmptied
<1>2. r = "answer" => Verdict = "answer"
    BY DEF Readings
<1>3. call.kind \in {"implementer", "evaluator", "command", "git", "status"}
    BY CallTyping, CallAssumption DEF Trusted, Calls
<1>4. CASE call.kind = "implementer"
  <2>1. Verdict \in Findings /\ (Verdict = "answer" => call.drained /\ io.complete)
      BY <1>4, ImplementerVerdict
  <2>2. r \in Judged
      BY <1>4, <2>1 DEF Readings, Judged
  <2> QED
      BY <1>1, <1>2, <1>4, <2>1, <2>2
<1>5. CASE call.kind = "evaluator"
  <2>1. /\ Verdict \in Findings
        /\ Verdict = "answer" => call.drained /\ io.complete /\ ~Broken /\ ~FileTooLong
      BY <1>5, EvaluatorVerdict
  <2>2. r \in Judged
      BY <1>5, <2>1 DEF Readings, Judged
  <2> QED
      BY <1>1, <1>2, <1>5, <2>1, <2>2
<1>6. CASE call.kind \in {"command", "git", "status"}
  <2>1. r = Verdict
      BY <1>6 DEF Readings
  <2>2. /\ Verdict \in Findings
        /\ Verdict = "answer" => (call.drained \/ call.clean) /\ ~Broken
        /\ Verdict = "answer" /\ call.kind = "git" => io.complete
        /\ ~call.drained /\ ~call.clean => Verdict = "survived"
      BY <1>6, CommandVerdict, GitVerdict, StatusVerdict
  <2>3. r \in Judged
      BY <2>1, <2>2 DEF Judged
  <2> QED
      BY <1>1, <1>6, <2>1, <2>2, <2>3 DEF Prompted
<1> QED
    BY <1>3, <1>4, <1>5, <1>6

LEMMA JudgeStep == Trusted /\ Judge => Trusted'
<1> SUFFICES ASSUME Trusted, Judge PROVE Trusted'
    OBVIOUS
<1>0. /\ call \in Calls /\ prog \in Programs /\ io \in Helped /\ io' = io
      /\ call.pc = "judge" /\ prog' \in {prog, Reaped(prog)}
    BY CallTyping DEF Trusted, Judge
<1>1. PICK r \in Readings, pc \in {"again", "done"} :
          /\ call' = [call EXCEPT !.result = r, !.pc = pc]
          /\ pc = "again" => ~call.drained
          /\ pc = "done" => call.drained \/ call.kind \notin {"implementer", "evaluator"}
    BY DEF Judge
<1>2. /\ r \in Judged
      /\ r = "answer" => /\ call.drained
                         /\ call.kind # "implementer" => ~Broken
                         /\ Prompted => io.complete
                         /\ call.kind = "evaluator" => ~FileTooLong
      /\ ~call.drained => /\ ~call.clean
                          /\ \/ call.kind \in {"implementer", "evaluator"}
                             \/ r = "survived"
    BY <1>0, Believed
<1>3. /\ call' \in Calls /\ call'.kind = call.kind /\ call'.result = r /\ call'.pc = pc
      /\ call'.drained = call.drained /\ call'.clean = call.clean
    BY <1>0, <1>1, <1>2 DEF Calls, Results, Judged, Findings
<1>4. /\ prog' \in Programs /\ prog'.child = prog.child /\ prog'.wrote = prog.wrote
      /\ prog'.file = prog.file /\ prog'.taken = prog.taken
      /\ \/ prog'.leader = prog.leader
         \/ prog.leader = "zombie" /\ prog'.leader = "gone"
  <2>1. CASE prog' = prog
      BY <1>0, <2>1
  <2>2. CASE prog' = Reaped(prog)
      BY <1>0, <2>2, Reaping
  <2> QED
      BY <1>0, <2>1, <2>2
<1>5. /\ CallTypeOK' /\ Contained' /\ ReadOut' /\ Handed'
      /\ Survivor' = Survivor /\ (prog.leader # "frozen" => prog'.leader # "frozen")
    BY <1>0, <1>3, <1>4, CallerMoves DEF Before
<1>6. call.drained => ~Survivor' /\ prog'.leader # "frozen"
    BY <1>5 DEF Trusted, PipesEmptied
<1>7. PipesEmptied'
    BY <1>3, <1>6 DEF PipesEmptied, Before
<1>8. CASE pc = "again"
  <2>1. Unjudged' /\ ~Over'
      BY <1>1, <1>2, <1>3, <1>8 DEF Unjudged, Over, Judged, Findings
  <2> QED
      BY <1>5, <1>7, <2>1 DEF Trusted
<1>9. CASE pc = "done" /\ r # "answer"
  <2>1. r # "uncontained"
      BY <1>2 DEF Judged, Findings
  <2>2. ~Survivor' \/ r = "survived"
      BY <1>1, <1>2, <1>6, <1>9
  <2> QED
      BY <1>3, <1>5, <1>7, <1>9, <2>1, <2>2, CallEnding
<1>10. CASE pc = "done" /\ r = "answer"
  <2>1. AnswerIsWhole'
    <3>1. call.kind # "implementer" => \A s \in Stream : io.got[s] = prog.wrote[s]
        BY <1>2, <1>10 DEF Broken, Trusted, ReadOut
    <3> QED
        BY <1>0, <1>3, <1>4, <3>1 DEF AnswerIsWhole
  <2>2. AnsweredWasAsked'
    <3>1. Prompted => PromptSize - prog.taken <= PipeSize
        BY <1>2, <1>10 DEF Trusted, Handed
    <3> QED
        BY <1>3, <1>4, <3>1 DEF AnsweredWasAsked, Prompted
  <2>3. AnswerIsBounded'
    <3>1. prog.file \in 0..Limit + 1 /\ Limit \in Nat
        BY <1>0, CallAssumption DEF Programs
    <3>2. prog.file <= Limit
        BY <1>0, <1>2, <1>10, <3>1 DEF FileTooLong, Trusted, Contained
    <3> QED
        BY <1>4, <3>2 DEF AnswerIsBounded
  <2>4. LeftoversAreTold'
      BY <1>2, <1>3, <1>6, <1>10
      DEF LeftoversAreTold, AnswerLeavesNobody, SurvivorsAreTold, UncontainedNeverRan
  <2>5. Unjudged'
      BY <1>3, <1>10 DEF Unjudged
  <2> QED
      BY <1>5, <1>7, <2>1, <2>2, <2>3, <2>4, <2>5
      DEF Trusted, CallsAreHonest, AnswersAreWhole
<1> QED
    BY <1>8, <1>9, <1>10

\* The last drain changes who is doomed, and nothing that was judged.
LEMMA AgainStep == Trusted /\ DrainAgain => Trusted'
<1> SUFFICES ASSUME Trusted, DrainAgain PROVE Trusted'
    OBVIOUS
<1>0. /\ call \in Calls /\ prog \in Programs /\ io \in Helped /\ io' = io
      /\ call.pc = "again" /\ call' = [call EXCEPT !.pc = "done"]
    BY CallTyping DEF Trusted, DrainAgain
<1>1. /\ call' \in Calls /\ call'.kind = call.kind /\ call'.result = call.result
      /\ call'.pc = "done" /\ call'.drained = call.drained /\ call'.clean = call.clean
    BY <1>0 DEF Calls
<1>2. prog' = prog \/ prog' = [prog EXCEPT !.doomed = {"leader", "child"}]
    BY DEF DrainAgain
<1>3. /\ prog' \in Programs /\ prog'.leader = prog.leader /\ prog'.child = prog.child
      /\ prog'.wrote = prog.wrote /\ prog'.file = prog.file /\ prog'.taken = prog.taken
    BY <1>0, <1>2 DEF Programs
<1>4. CallTypeOK' /\ Contained' /\ ReadOut' /\ Handed' /\ Survivor' = Survivor
    BY <1>0, <1>1, <1>3, CallerMoves DEF Before
<1>5. PipesEmptied'
    BY <1>1, <1>3, <1>4 DEF Trusted, PipesEmptied, Before
<1>6. \/ call.result = "raised"
      \/ /\ call.result \notin {"answer", "uncontained"} /\ ~call.clean
         /\ call.kind \in {"implementer", "evaluator"} \/ call.result = "survived"
    BY <1>0 DEF Trusted, Unjudged
<1> QED
    BY <1>1, <1>4, <1>5, <1>6, CallEnding

LEMMA TrustedStays == Trusted /\ [CallNext]_callVars => Trusted'
<1>1. ASSUME Trusted, CallNext PROVE Trusted'
    BY <1>1, ProgramStep, HelperStep, FirstSteps, StartThreadsStep, BreakStep, StopSteps,
       DrainSteps, JudgeStep, AgainStep DEF CallNext, Caller
<1>2. ASSUME Trusted, UNCHANGED callVars PROVE Trusted'
    BY <1>2 DEF callVars, Trusted, CallTypeOK, Contained, ReadOut, Handed, PipesEmptied,
       Unjudged, Over, Before, Survivor, Alive, CallsAreHonest, AnswersAreWhole,
       AnswerIsWhole, AnsweredWasAsked, AnswerIsBounded, LeftoversAreTold,
       AnswerLeavesNobody, SurvivorsAreTold, UncontainedNeverRan, Prompted
<1> QED
    BY <1>1, <1>2

\* process.py, execution.py, audit.py: the inductive invariant of a call holds
\* throughout it, for each of the five callers of launch_contained, on either kind
\* of host, whatever the limits and the size of the pipes.
THEOREM TrustedAlways == CallSpec => []Trusted
<1> QED
    BY TrustedAtFirst, TrustedStays, PTL DEF CallSpec

\* What a caller of launch_contained believes is everything the program said, to
\* the prompt it was given, within its limits; nothing ran that was not contained,
\* and nobody is left inside whom the caller was not told of.
THEOREM AnswersAreHonest == CallSpec => []CallsAreHonest
<1>1. Trusted => CallsAreHonest
  <2> SUFFICES ASSUME Trusted, ~Over PROVE CallsAreHonest
      BY DEF Trusted
  <2>1. call.result \notin {"answer", "uncontained"}
      BY DEF Trusted, Unjudged, Over
  <2> QED
      BY <2>1 DEF Trusted, Over, CallsAreHonest, AnswersAreWhole, AnswerIsWhole,
         AnsweredWasAsked, AnswerIsBounded, LeftoversAreTold, AnswerLeavesNobody,
         SurvivorsAreTold, UncontainedNeverRan
<1> QED
    BY <1>1, TrustedAlways, PTL
==============================================================================
