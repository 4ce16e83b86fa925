-------------------------- MODULE MCJobsDecided -----------------------------
(* Instances for model checking: the queue under fair scheduling, and beside  *)
(* it what shares nothing with the queue: a client that walks the pages of a  *)
(* listing, and the offline evaluation.  A behaviour is of one of them: of    *)
(* the queue; of a listing; of the inventory of an evaluation, with an edit   *)
(* between its runs and a reviewer who agrees to all; of the review of one    *)
(* package; or of the locked screening.                                       *)
EXTENDS MCIngestJobs, LockedScreening, LibraryListing

CONSTANT Part

VARIABLE part

-----------------------------------------------------------------------------
(* Five saved answers in two sets; the last two are development cases.        *)

Sets == <<1, 1, 1, 1, 2>>
LockedCases == {1, 2, 3}
Near == {<<1, 2>>, <<2, 1>>, <<1, 3>>, <<3, 1>>, <<1, 4>>, <<4, 1>>}
Figures == {<<1, 2>>, <<2, 1>>}

\* In the second edition the first answer has lost its evidence.
Contains(c, edition) ==
    [evidence |-> c # 3 /\ (edition = 1 \/ c # 1), figure |-> c # 3,
     accepted |-> c # 2, strip |-> c = 3, quote |-> c # 2, sibling |-> c = 1,
     scale |-> CASE c = 1 -> "context" [] c = 2 -> "scope" [] OTHER -> "unsafe",
     labelled |-> TRUE, single |-> c = 2, table |-> c \in {2, 4}]

\* A guard that names every fault, and one that holds some for another reason
\* and is blind to others.
Takes(how) == [c \in 1..5 |-> [mutant |-> how, control |-> FALSE]]
Guards == {Takes("named"),
           [c \in 1..5 |-> CASE c = 1 -> [mutant |-> "other", control |-> TRUE]
                             [] c = 2 -> [mutant |-> "blind", control |-> FALSE]
                             [] OTHER -> [mutant |-> "named", control |-> FALSE]]}

\* What an inventory is narrowed to.
Narrowed == [archived : {FALSE}, labels : {{}, {"collection", "tag"}}]
            \cup [archived : {TRUE}, labels : {{}}]

\* What the owner states: the truth, or one thing that is missing or wrong.
Good(sources) ==
    [version |-> "v2.1", base |-> "frozen",
     addenda |-> [n \in {"stated"} |-> "declares"],
     q |-> sources.q, r |-> sources.r, locked |-> 3, head |-> 1]
Statements(sources) ==
    LET good == Good(sources) IN
    {good, [good EXCEPT !.version = "v2"], [good EXCEPT !.r = Absent],
     [good EXCEPT !.locked = 2], [good EXCEPT !.head = 2],
     [good EXCEPT !.addenda = << >>]}

-----------------------------------------------------------------------------
parts == <<vars, evaluation, listing, part>>

PartsInit ==
    /\ Init /\ EvaluationInit /\ ListingInit /\ part \in Part
    /\ part # "screening" => /\ stated = Good([q |-> questions, r |-> results])
                             /\ guard = Takes("named")
    /\ part # "listing" => Visible = {}

\* A reviewer who finds every candidate eligible.
JustConfirms(j) ==
    IF j = Absent THEN TRUE
    ELSE \A name \in MANUAL_CLASSES : \A i \in DOMAIN j.verdicts[name] :
            j.verdicts[name][i] = "eligible"

PartsNext ==
    /\ UNCHANGED part
    /\ \/ part = "jobs" /\ Next /\ UNCHANGED <<evaluation, listing>>
       \/ part = "listing" /\ ListingNext /\ UNCHANGED <<vars, evaluation>>
       \/ /\ part = "inventory" /\ ReviewNext
          /\ edits' <= 1 /\ JustConfirms(judging')
          /\ UNCHANGED <<vars, screening, listing>>
       \/ /\ part = "review" /\ ReviewNext
          /\ edits' = 0 /\ packet'[2] = Absent
          /\ UNCHANGED <<vars, screening, listing>>
       \/ /\ part = "screening" /\ ScreeningNext
          /\ UNCHANGED <<vars, packet, aggregate, judging, reviewed, listing>>

\* Only the queue is scheduled.
PartsSpec == PartsInit /\ [][PartsNext]_parts /\ (part = "jobs" => Fairness)
=============================================================================
