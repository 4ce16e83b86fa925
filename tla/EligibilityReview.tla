-------------------------- MODULE EligibilityReview --------------------------
(***************************************************************************)
(* eval/answer/adversarial_feasibility.py and adversarial_review.py.       *)
(*                                                                         *)
(* Saved answers and their question sets lie in two directories that       *)
(* others may edit.  An inventory loads them, counts for each class of     *)
(* mutation the base questions it can be built from, and writes a private  *)
(* package of the candidates only a human can confirm, then an aggregate   *)
(* report that names the package by its fingerprint.  A reviewer judges    *)
(* the candidates in the order of their identities, with a stopping rule   *)
(* fixed beforehand, and his decisions are merged into the counts.         *)
(*                                                                         *)
(* A fingerprint is the content it is of.  A base question is a number,    *)
(* its place in the order of stable ids; what the detectors look for in    *)
(* its texts are the fields of its row.                                    *)
(***************************************************************************)
EXTENDS Integers, FiniteSets, Sequences, TLC

CONSTANTS
    MaxCase,         \* base questions, 1 to MaxCase
    SetOf,           \* the question set of each, its place in the order of names
    LockedIds,          \* those whose identity says so
    Row(_, _),       \* what the texts of a case contain in an edition of answers
    Shares,          \* pairs whose keys stand in one passage
    Numeric,         \* those of them whose keys are disjoint figures
    MaxAnswers,      \* editions of saved answers
    TARGET_LOCKED_CLUSTERS,
    DescriptiveTarget,   \* the smaller target of the descriptive review
    MaxInventory,    \* bound: pairs of report paths
    MaxEdit,         \* bound: edits of files by others
    Absent, Partial    \* no file; a file whose text has not arrived

ASSUME ReviewAssumption ==
    /\ TARGET_LOCKED_CLUSTERS \in Nat \ {0} /\ DescriptiveTarget \in Nat \ {0}
    /\ MaxCase \in Nat /\ MaxAnswers \in Nat /\ MaxInventory \in Nat /\ MaxEdit \in Nat
    /\ SetOf \in [1..MaxCase -> Nat]
    /\ LockedIds \subseteq 1..MaxCase /\ Numeric \subseteq Shares
    /\ Absent \notin Nat
    /\ Absent \notin {"wrong_row", "label_value_swap", "question_answer_mismatch"}

VARIABLES
    questions,   \* set name -> the question file, or Absent
    results,     \* set name -> the file of saved answers, or Absent
    edits,       \* edits of files made so far
    loader,         \* the process that loads them
    packet,      \* path -> the private package
    aggregate,   \* path -> the aggregate report
    judging,     \* the package at the reviewer's, and his verdicts
    reviewed     \* the reviewed report

review == <<questions, results, edits, loader, packet, aggregate, judging, reviewed>>

Case == 1..MaxCase
SetNames == {SetOf[c] : c \in Case}
Of(s) == {c \in Case : SetOf[c] = s}
Paths == 1..MaxInventory

-----------------------------------------------------------------------------
(* Files: each set's questions, and its saved answers.                     *)

QuestionFile(s) == [cases : {Of(s), {}}, twice : {FALSE}]
                     \cup {[cases |-> Of(s), twice |-> TRUE]}
ResultFile(s) == [cases : {Of(s), {}}, twice : {FALSE}, edition : 1..MaxAnswers]
                   \cup {[cases |-> Of(s), twice |-> TRUE, edition |-> 1]}

NoLoad == [pc |-> "idle", job |-> Absent, path |-> Absent, sets |-> {}, q |-> << >>, r |-> << >>]

FilesInit ==
    /\ questions = [s \in SetNames |-> [cases |-> Of(s), twice |-> FALSE]]
    /\ results = [s \in SetNames |-> [cases |-> Of(s), twice |-> FALSE, edition |-> 1]]
    /\ edits = 0 /\ loader = NoLoad

\* Somebody replaces or removes one file.
EditFile ==
    /\ edits < MaxEdit /\ edits' = edits + 1
    /\ \E s \in SetNames :
          \/ /\ \E f \in (QuestionFile(s) \cup {Absent}) \ {questions[s]} :
                   questions' = [questions EXCEPT ![s] = f]
             /\ UNCHANGED results
          \/ /\ \E f \in (ResultFile(s) \cup {Absent}) \ {results[s]} :
                   results' = [results EXCEPT ![s] = f]
             /\ UNCHANGED questions

-----------------------------------------------------------------------------
(* load_cases: every file is read once, sets in the order of their names.  *)

Pending == {s \in loader.sets : s \notin DOMAIN loader.r}
NextSet == CHOOSE s \in Pending : \A t \in Pending : s <= t

With(f, s, v) == [t \in DOMAIN f \cup {s} |-> IF t = s THEN v ELSE f[t]]

Refused(r) == [r EXCEPT !.pc = "refused"]

\* The saved sets are listed; sweeps are no sets.
Loading(r) ==
    LET found == {s \in SetNames : results[s] # Absent} IN
    IF found = {} THEN Refused(r) ELSE [r EXCEPT !.pc = "load", !.sets = found]

ReadQuestions ==
    /\ loader.pc = "load" /\ Pending # {} /\ NextSet \notin DOMAIN loader.q
    /\ LET f == questions[NextSet] IN
       loader' = IF f = Absent THEN Refused(loader)
              ELSE IF f.twice THEN Refused(loader)
              ELSE [loader EXCEPT !.q = With(@, NextSet, f)]

\* A row of an unknown question, a second row, or a question without one refuses.
ReadResults ==
    /\ loader.pc = "load" /\ Pending # {} /\ NextSet \in DOMAIN loader.q
    /\ LET f == results[NextSet] IN
       loader' = IF f = Absent THEN Refused(loader)
              ELSE IF f.twice \/ f.cases # loader.q[NextSet].cases THEN Refused(loader)
              ELSE [loader EXCEPT !.r = With(@, NextSet, f)]

Loaded == loader.pc = "load" /\ Pending = {}

CasesOf(r) == UNION {r[s].cases : s \in DOMAIN r}
RowIn(r, c) == Row(c, r[SetOf[c]].edition)

-----------------------------------------------------------------------------
(* eligible_sets and _class_report.                                        *)

MANUAL_CLASSES == {"wrong_row", "label_value_swap", "question_answer_mismatch"}
EVIDENCE_ONLY_CLASSES == {"corrupted_quote", "invented_provenance"}
CLASS_ORDER == MANUAL_CLASSES \cup EVIDENCE_ONLY_CLASSES
    \cup {"arithmetic_restatement", "unsupported_figure", "forced_answer_unanswerable"}

SupportedFigure(row) == row.accepted /\ row.evidence /\ row.figure

Confirmed(r, name) == {c \in CasesOf(r) : LET row == RowIn(r, c) IN
    CASE name = "unsupported_figure" -> SupportedFigure(row)
      [] name = "arithmetic_restatement" -> SupportedFigure(row) /\ row.scale # "unsafe"
      [] name = "forced_answer_unanswerable" -> row.accepted /\ row.strip
      [] name \in EVIDENCE_ONLY_CLASSES -> row.evidence
      [] OTHER -> FALSE}

\* The peers are all cases of the set, development ones too.
Candidates(r, name) ==
    LET Related(R) == {c \in CasesOf(r) : \E d \in CasesOf(r) :
                          SetOf[d] = SetOf[c] /\ <<c, d>> \in R} IN
    CASE name = "wrong_row" -> {c \in CasesOf(r) : RowIn(r, c).table}
      [] name = "label_value_swap" -> Related(Numeric)
      [] name = "question_answer_mismatch" -> Related(Shares)
      [] OTHER -> Confirmed(r, name)

Deficit(n) == IF n < TARGET_LOCKED_CLUSTERS THEN TARGET_LOCKED_CLUSTERS - n ELSE 0

\* Of sixteen base questions eleven are locked.
expected_additional_questions(n) == (16 * n + 10) \div 11

\* A plan exists for a class that can still reach its target.
Plan(n, target) ==
    [target |-> target, rejection |-> n - target + 1, required |-> n >= target]

ClassReport(r, name) ==
    LET n == Cardinality(Confirmed(r, name) \cap LockedIds)
        m == Cardinality(Candidates(r, name) \cap LockedIds)
        manual == name \in MANUAL_CLASSES
    IN [status |-> IF manual /\ m >= TARGET_LOCKED_CLUSTERS THEN "pending"
                   ELSE IF ~manual /\ n >= TARGET_LOCKED_CLUSTERS THEN "powered"
                   ELSE "underpowered",
        confirmed |-> n, candidates |-> m, deficit |-> Deficit(n),
        floor |-> Deficit(IF manual THEN m ELSE n),
        exact |-> ~manual \/ Candidates(r, name) = Confirmed(r, name),
        gate |-> Plan(m, TARGET_LOCKED_CLUSTERS),
        descriptive |-> Plan(m, DescriptiveTarget)]

Package(q, r) == [source |-> [q |-> q, r |-> r],
                  entries |-> [name \in MANUAL_CLASSES |->
                                  Candidates(r, name) \cap LockedIds]]

Aggregate(q, r) == [source |-> [q |-> q, r |-> r], package |-> Package(q, r),
                    classes |-> [name \in CLASS_ORDER |-> ClassReport(r, name)]]

-----------------------------------------------------------------------------
(* main: neither path may exist; the package is written before the report. *)

BeginInventory(i) ==
    /\ loader.pc = "idle"
    /\ packet[i] = Absent /\ aggregate[i] = Absent
    /\ loader' = Loading([NoLoad EXCEPT !.job = "inventory", !.path = i])
    /\ UNCHANGED <<packet, aggregate>>

\* open() truncates; the text arrives later, or never.
WritePackage ==
    /\ loader.job = "inventory"
    /\ \/ /\ Loaded
          /\ loader' = IF packet[loader.path] # Absent THEN Refused(loader)
                    ELSE [loader EXCEPT !.pc = "package"]
          /\ packet' = IF packet[loader.path] # Absent THEN packet
                       ELSE [packet EXCEPT ![loader.path] = Partial]
       \/ /\ loader.pc = "package"
          /\ packet' = [packet EXCEPT ![loader.path] = Package(loader.q, loader.r)]
          /\ loader' = [loader EXCEPT !.pc = "report"]
    /\ UNCHANGED aggregate

WriteAggregate ==
    /\ loader.job = "inventory"
    /\ \/ /\ loader.pc = "report"
          /\ aggregate' = [aggregate EXCEPT ![loader.path] = Partial]
          /\ loader' = [loader EXCEPT !.pc = "text"]
       \/ /\ loader.pc = "text"
          /\ aggregate' = [aggregate EXCEPT ![loader.path] = Aggregate(loader.q, loader.r)]
          /\ loader' = NoLoad
    /\ UNCHANGED packet

\* The process ends, refused or killed.
RunEnds == loader.pc # "idle" /\ loader' = NoLoad

Whole(file) == file \notin {Absent, Partial}

-----------------------------------------------------------------------------
(* The reviewer, and apply_review_decisions.                               *)

TakePackage(i) ==
    /\ judging = Absent /\ Whole(packet[i])
    /\ judging' = [package |-> packet[i],
                   verdicts |-> [name \in MANUAL_CLASSES |-> << >>]]

\* The k-th of a set of identities in ascending order.
Nth(S, k) == CHOOSE c \in S : Cardinality({d \in S : d <= c}) = k

\* Nothing keeps him from going on behind a stop.
Judge(name) ==
    /\ judging # Absent /\ reviewed = Absent
    /\ Len(judging.verdicts[name]) < Cardinality(judging.package.entries[name])
    /\ \E v \in {"eligible", "reject", "unresolved"} :
          judging' = [judging EXCEPT !.verdicts[name] = Append(@, v)]

Count(verdicts, k, v) == Cardinality({i \in 1..k : verdicts[i] = v})

PlanOf(class, name) == IF name = "wrong_row" THEN class.descriptive ELSE class.gate

StopsAt(verdicts, plan, k) ==
    \/ Count(verdicts, k, "eligible") = plan.target
    \/ Count(verdicts, k, "reject") = plan.rejection

FirstStop(verdicts, plan, n) ==
    LET stops == {k \in 1..n : StopsAt(verdicts, plan, k)} IN
    IF stops = {} THEN [outcome |-> "not_reached", at |-> Absent]
    ELSE LET k == CHOOSE k \in stops : \A j \in stops : k <= j IN
         [outcome |-> IF Count(verdicts, k, "eligible") = plan.target
                      THEN "confirmation" ELSE "rejection", at |-> k]

\* The decisions name a prefix and the identities rejected or unresolved in it.
Inside(prefix, verdicts) ==
    \A i \in DOMAIN verdicts : verdicts[i] # "eligible" => i <= prefix

ReviewOneClass(class, name, n, prefix, verdicts) ==
    LET Judged(v) == Count(verdicts, Len(verdicts), v)
        eligible == prefix - Judged("reject") - Judged("unresolved")
        stop == FirstStop(verdicts, PlanOf(class, name), prefix)
        over == IF stop.at = Absent THEN 0 ELSE prefix - stop.at
        exact == Deficit(eligible) = 0 \/ (prefix = n /\ Judged("unresolved") = 0)
    IN [status |-> IF name # "wrong_row" /\ eligible >= TARGET_LOCKED_CLUSTERS
                   THEN "powered" ELSE "underpowered",
        confirmed |-> eligible, candidates |-> class.candidates,
        deficit |-> Deficit(eligible), floor |-> Deficit(eligible), exact |-> exact,
        gate |-> class.gate, descriptive |-> class.descriptive,
        stop |-> stop, over |-> over,
        clean |-> over = 0 /\ Judged("unresolved") = 0,
        additional |-> expected_additional_questions(
                          IF exact THEN Deficit(eligible)
                          ELSE Deficit(class.candidates))]

\* Every manual class must be decided and its plan be active: one class without
\* an active plan refuses the decisions on all.  "short" is a class whose prefix
\* was written down without its last candidate.
Applies(a, p, Prefix(_)) ==
    /\ a.package = p /\ judging.package = p /\ p.source = a.source
    /\ \A name \in MANUAL_CLASSES :
          /\ Inside(Prefix(name), judging.verdicts[name])
          /\ PlanOf(a.classes[name], name).required

ApplyDecisions(i, j, short) ==
    LET Prefix(name) == Len(judging.verdicts[name]) - IF name = short THEN 1 ELSE 0
    IN /\ judging # Absent /\ reviewed = Absent
       /\ Whole(aggregate[i]) /\ Whole(packet[j])
       /\ short # Absent => judging.verdicts[short] # << >>
       /\ Applies(aggregate[i], packet[j], Prefix)
       /\ \E returned, frozen \in BOOLEAN :
             reviewed' = [
                source |-> aggregate[i].source, short |-> short,
                classes |-> [name \in MANUAL_CLASSES |->
                    ReviewOneClass(aggregate[i].classes[name], name,
                                   Cardinality(packet[j].entries[name]),
                                   Prefix(name), judging.verdicts[name])],
                others |-> [name \in CLASS_ORDER \ MANUAL_CLASSES |->
                               aggregate[i].classes[name]],
                breached |-> returned /\ ~frozen]

-----------------------------------------------------------------------------
ReviewInit ==
    /\ FilesInit
    /\ packet = [i \in Paths |-> Absent] /\ aggregate = [i \in Paths |-> Absent]
    /\ judging = Absent /\ reviewed = Absent

ReviewNext ==
    \/ EditFile /\ UNCHANGED <<loader, packet, aggregate, judging, reviewed>>
    \/ /\ (\E i \in Paths : BeginInventory(i)) \/ WritePackage \/ WriteAggregate
       /\ UNCHANGED <<questions, results, edits, judging, reviewed>>
    \/ /\ ReadQuestions \/ ReadResults \/ (RunEnds /\ loader.job = "inventory")
       /\ UNCHANGED <<questions, results, edits, packet, aggregate, judging, reviewed>>
    \/ /\ (\E i \in Paths : TakePackage(i)) \/ \E name \in MANUAL_CLASSES : Judge(name)
       /\ UNCHANGED <<questions, results, edits, loader, packet, aggregate, reviewed>>
    \/ /\ \E i, j \in Paths, s \in MANUAL_CLASSES \cup {Absent} : ApplyDecisions(i, j, s)
       /\ UNCHANGED <<questions, results, edits, loader, packet, aggregate, judging>>
-----------------------------------------------------------------------------
(* Properties.                                                             *)

\* What is reviewed is one load of the sources: the package, the report and the
\* decisions are of the same bytes, however often either was written anew.
ReviewIsOfOneSource == reviewed # Absent =>
    /\ judging.package.source = reviewed.source
    /\ \A name \in MANUAL_CLASSES : judging.package.entries[name] =
          Candidates(reviewed.source.r, name) \cap LockedIds

\* The stops are decisive and come in time.  A class is powered exactly if its
\* reviewed prefix holds enough eligible candidates; at the stop for
\* confirmations it is, and at the one for rejections no verdicts on the rest
\* could make it so; a review of all candidates that leaves nothing open stops.
StopsAreDecisive == reviewed # Absent => \A name \in MANUAL_CLASSES :
    LET class == reviewed.classes[name]
        given == judging.verdicts[name]
        n == Cardinality(judging.package.entries[name])
        prefix == Len(given) - IF name = reviewed.short THEN 1 ELSE 0
        plan == PlanOf(class, name)
        eligible == Cardinality({i \in 1..prefix : given[i] = "eligible"})
        rejected == Cardinality({i \in 1..prefix : given[i] = "reject"})
    IN /\ class.confirmed = eligible
       /\ class.stop.outcome = "not_reached" =>
             eligible < plan.target /\ n - rejected >= plan.target
       /\ class.stop.outcome = "confirmation" => eligible >= plan.target
       /\ class.stop.outcome = "rejection" => n - rejected < plan.target
       /\ class.stop.at # Absent =>
             LET before == class.stop.at - 1 IN
             /\ Cardinality({i \in 1..before : given[i] = "eligible"}) < plan.target
             /\ n - Cardinality({i \in 1..before : given[i] = "reject"}) >= plan.target
       /\ class.status = "powered" =>
             class.stop.outcome = "confirmation" /\ class.deficit = 0
       /\ prefix = n /\ class.clean => class.stop.at = n
       /\ class.exact /\ class.deficit > 0 => n - rejected = eligible

ReviewIsDecisive == ReviewIsOfOneSource /\ StopsAreDecisive
=============================================================================
