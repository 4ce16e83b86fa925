--------------------------- MODULE LockedScreening ---------------------------
(***************************************************************************)
(* eval/answer/locked_runner.py and adversarial_mutate.py.                 *)
(*                                                                         *)
(* The owner states the contract chain, the fingerprints of the sources,   *)
(* the number of locked cases and the commit.  The runner checks what lies *)
(* on the disk against that before it opens a file of cases, builds the    *)
(* mutants of the locked cases, replays them through the guard under the   *)
(* frozen policies, derives the gate's numbers, checks its own report and  *)
(* writes it.  Others may edit every one of these files meanwhile.         *)
(*                                                                         *)
(* A contract file is one of a few bodies and its hash is the body.  The   *)
(* guard is outside: it flags a mutant with the code its class expects,    *)
(* with another one, or not at all.                                        *)
(***************************************************************************)
EXTENDS EligibilityReview

LOCAL INSTANCE Functions

CONSTANTS
    Statement(_),   \* what the owner may state, of the sources he prepared
    Guard           \* functions: case -> how the guard takes its mutant and itself

\* No file is no number, no bound and no counters.
ASSUME ScreeningAssumption ==
    /\ Guard \subseteq [Case -> [mutant : {"named", "other", "blind"}, control : BOOLEAN]]
    /\ Absent \notin Nat \X Nat
    /\ Absent \notin [n : Nat, caught : Nat, expected : Nat, published : Nat,
                     review : Nat, released : Nat]

VARIABLES
    contract,    \* the base contract and its addenda on the disk
    tree,        \* the commit checked out, and whether the tree is clean
    stated,      \* the owner's statement
    guard,       \* the guard that is measured
    gated,       \* what the run has verified: gate, head, report; code it runs
    output       \* the report on the disk

screening == <<contract, tree, stated, guard, gated, output>>

Policies == {"plain", "structured_derived", "structured_explicit_page"}

-----------------------------------------------------------------------------
(* The contract chain.                                                     *)

Bodies == {"frozen", "reworded", "silent"}
AddendumNames == {"stated", "extra"}
AddendumBodies == {"declares", "altered", "plain", "double"}

BaseVersion(b) == IF b = "silent" THEN Absent ELSE "v2"
Declares(b) == b \in {"declares", "altered"}

NoGate == [gate |-> Absent, head |-> Absent, report |-> Absent, code |-> Absent]

ScreeningInit ==
    /\ contract = [base |-> "frozen",
                   addenda |-> [n \in AddendumNames |->
                                  IF n = "stated" THEN "declares" ELSE Absent]]
    /\ tree = [head |-> 1, clean |-> TRUE]
    /\ stated \in Statement([q |-> questions, r |-> results])
    /\ guard \in Guard
    /\ gated = NoGate /\ output = Absent

EditContract ==
    \/ \E b \in (Bodies \cup {Absent}) \ {contract.base} :
          contract' = [contract EXCEPT !.base = b]
    \/ \E n \in AddendumNames :
          \E b \in (AddendumBodies \cup {Absent}) \ {contract.addenda[n]} :
             contract' = [contract EXCEPT !.addenda[n] = b]

EditTree ==
    \/ tree' = [tree EXCEPT !.clean = ~@]
    \/ tree' = [head |-> 3 - tree.head, clean |-> TRUE]

-----------------------------------------------------------------------------
(* run_locked, as far as the first case file.                              *)

\* What the owner states must itself be what the addendum pins, and complete.
PinsHold ==
    /\ stated.version = "v2.1" /\ stated.base = "frozen"
    /\ stated.q # Absent /\ stated.r # Absent
    /\ stated.locked > 0 /\ stated.head # Absent

BeginScreening ==
    /\ loader.pc = "idle"
    /\ gated' = [NoGate EXCEPT !.code = tree]
    /\ loader' = IF PinsHold THEN [NoLoad EXCEPT !.job = "screening", !.pc = "base"]
              ELSE Refused(NoLoad)

Present(addenda) == {n \in AddendumNames : addenda[n] # Absent}

\* contract_metadata reads the base, then every addendum beside it.
ReadBase ==
    /\ loader.pc = "base"
    /\ gated' = [gated EXCEPT !.gate = [base |-> contract.base, version |-> Absent,
                                        addenda |-> << >>]]
    /\ loader' = [loader EXCEPT !.pc = "addenda"]

\* Two declarations, in one file or in two, are refused rather than ranked.
Chain(base, addenda) ==
    LET declaring == {n \in Present(addenda) : Declares(addenda[n])} IN
    [clear |-> /\ Cardinality(declaring) <= 1
               /\ \A n \in Present(addenda) : addenda[n] # "double",
     complete |-> base # Absent /\ BaseVersion(base) # Absent,
     version |-> IF declaring # {} THEN "v2.1" ELSE BaseVersion(base)]

VerifyContractChain ==
    /\ loader.pc = "addenda"
    /\ LET found == [n \in Present(contract.addenda) |-> contract.addenda[n]]
           base == gated.gate.base
           chain == Chain(base, contract.addenda)
           holds == /\ chain.clear /\ chain.complete
                    /\ chain.version = stated.version
                    /\ base = stated.base
                    /\ found = stated.addenda
                    /\ BaseVersion(base) = "v2"
       IN /\ loader' = IF holds THEN [loader EXCEPT !.pc = "clean"] ELSE Refused(loader)
          /\ gated' = [gated EXCEPT !.gate =
                          IF holds THEN [base |-> base, version |-> chain.version,
                                         addenda |-> found]
                          ELSE Absent]

RequireCleanTree ==
    /\ loader.pc = "clean"
    /\ loader' = IF tree.clean THEN [loader EXCEPT !.pc = "head"] ELSE Refused(loader)
    /\ UNCHANGED gated

\* HEAD is read once, and that reading is reported.
ReadHead ==
    /\ loader.pc = "head"
    /\ gated' = [gated EXCEPT !.head = tree.head]
    /\ loader' = IF tree.head = stated.head THEN Loading(loader) ELSE Refused(loader)

\* Mutant: only the question files are compared with the statement.
LoadedInPart(r) == r.q = stated.q

LoadedAsStated(r) == r.q = stated.q /\ r.r = stated.r

CheckSource ==
    /\ loader.job = "screening" /\ Loaded
    /\ loader' = IF LoadedAsStated(loader) THEN [loader EXCEPT !.pc = "count"] ELSE Refused(loader)
    /\ UNCHANGED gated

\* The directory is listed again: a set without answers was not loaded.
CountQuestionFiles ==
    /\ loader.pc = "count"
    /\ LET there == {s \in SetNames : questions[s] # Absent} IN
       loader' = IF Cardinality(there) = Cardinality(DOMAIN loader.q)
              THEN [loader EXCEPT !.pc = "measure"] ELSE Refused(loader)
    /\ UNCHANGED gated

-----------------------------------------------------------------------------
(* build_mutants: what each mutator asks of a case, and of its peers.      *)

\* The figure of the answer that stands in the key and in a quote.
Spans(row) == row.evidence /\ row.figure

BuildsFigure(row) ==
    [unsupported_figure |-> Spans(row),
     arithmetic_restatement |-> Spans(row) /\ row.scale = "context"]

\* A sibling of the record, a labelled value of a peer, the answer of a peer.
BuildsRelation(r, population, c) ==
    LET row == RowIn(r, c)
        Peer(R) == {d \in population : SetOf[d] = SetOf[c] /\ <<c, d>> \in R}
    IN [wrong_row |-> Spans(row) /\ row.sibling,
        label_value_swap |-> Spans(row) /\ row.labelled /\ Peer(Numeric) # {},
        question_answer_mismatch |-> \E d \in Peer(Shares) : RowIn(r, d).accepted]

BuildsEvidence(row) ==
    [forced_answer_unanswerable |-> row.accepted /\ row.strip,
     corrupted_quote |-> row.evidence /\ row.quote,
     invented_provenance |-> row.evidence]

Builds(r, population, name, c) ==
    LET figure == BuildsFigure(RowIn(r, c))
        relation == BuildsRelation(r, population, c)
        evidence == BuildsEvidence(RowIn(r, c))
    IN CASE name \in DOMAIN figure   -> figure[name]
         [] name \in DOMAIN relation -> relation[name]
         [] name \in DOMAIN evidence -> evidence[name]

BuildMutants(r, population) ==
    [name \in CLASS_ORDER |-> {c \in population : Builds(r, population, name, c)}]

PopulationExclusions(r, population) ==
    Cardinality({c \in population : RowIn(r, c).single})

-----------------------------------------------------------------------------
(* replay and _gate_summary.                                               *)

Expects(name) == name \in EVIDENCE_ONLY_CLASSES \cup {"unsupported_figure"}
Eligible(name) == name \notin MANUAL_CLASSES

\* What the guard makes of the mutant of a case: the plain policy does not read
\* the fields of evidence.
Codes(name, policy, c) ==
    IF (policy = "plain" /\ name \in EVIDENCE_ONLY_CLASSES) \/ guard[c].mutant = "blind"
    THEN {}
    ELSE {IF guard[c].mutant = "named" /\ Expects(name) THEN "expected" ELSE "other"}

Number(cases, P(_)) == Cardinality({c \in cases : P(c)})

\* Nothing is counted in a class without mutants.
Replay(cases, name, policy) ==
    LET Caught(c) == Codes(name, policy, c) # {}
        Named(c) == "expected" \in Codes(name, policy, c)
        Held(c) == guard[c].control
        n == Cardinality(cases)
    IN IF cases = {} THEN [counts |-> Absent, flags |-> << >>]
       ELSE [counts |-> [n |-> n, caught |-> Number(cases, Caught),
                         expected |-> Number(cases, Named),
                         published |-> n - Number(cases, Caught),
                         review |-> Number(cases, Held),
                         released |-> n - Number(cases, Held)],
             flags |-> [code \in UNION {Codes(name, policy, c) : c \in cases} |->
                           Cardinality({c \in cases : code \in Codes(name, policy, c)})]]

CountIn(counts, field) == IF counts = Absent THEN 0 ELSE counts[field]

\* The exact bound on the miss rate is a function of misses and clusters.
Bound(missed, n) == <<missed, n>>

\* A class with an expected diagnostic is caught by that code alone, and a bound
\* is owed to confirmed classes with enough clusters.
GateCell(name, counts) ==
    LET n == CountIn(counts, "n")
        caught == CountIn(counts, IF Expects(name) THEN "expected" ELSE "caught")
    IN [clusters |-> n, caught |-> caught, any |-> CountIn(counts, "caught"),
        basis |-> Expects(name), missed |-> n - caught,
        floor |-> n >= TARGET_LOCKED_CLUSTERS,
        bound |-> IF Eligible(name) /\ n >= TARGET_LOCKED_CLUSTERS
                  THEN Bound(n - caught, n) ELSE Absent]

Report(r, q, population, produced) ==
    LET classes == [name \in CLASS_ORDER |->
            [mutants |-> Cardinality(produced[name]),
             policies |-> [p \in Policies |-> Replay(produced[name], name, p)]]]
    IN [contract |-> gated.gate, head |-> gated.head,
        locked |-> Cardinality(population),
        development |-> Cardinality(CasesOf(r) \ population),
        source |-> [q |-> q, r |-> r],
        excluded |-> PopulationExclusions(r, population),
        classes |-> classes,
        gate |-> [name \in CLASS_ORDER |-> [p \in Policies |->
                     GateCell(name, classes[name].policies[p].counts)]]]

-----------------------------------------------------------------------------
(* _assert_report_schema: what can be derived is derived again.            *)

CellStands(name, cell) ==
    /\ cell.clusters >= 0 /\ cell.caught >= 0 /\ cell.any >= 0 /\ cell.missed >= 0
    /\ cell.caught <= cell.clusters /\ cell.any <= cell.clusters
    /\ cell.missed = cell.clusters - cell.caught
    /\ cell.caught <= cell.any
    /\ cell.basis = Expects(name)
    /\ ~Expects(name) => cell.caught = cell.any
    /\ cell.floor = (cell.clusters >= TARGET_LOCKED_CLUSTERS)
    /\ (cell.bound # Absent) = (Eligible(name) /\ cell.floor)
    /\ cell.bound # Absent => cell.bound = Bound(cell.missed, cell.clusters)

CountsStand(mutants, result) ==
    LET counts == result.counts  flags == result.flags IN
    IF counts = Absent THEN mutants = 0 /\ flags = << >>
    ELSE /\ \A field \in DOMAIN counts : counts[field] >= 0
         /\ counts.n = mutants
         /\ counts.published = counts.n - counts.caught
         /\ counts.expected <= counts.caught
         /\ counts.review + counts.released = counts.n
         /\ (counts.caught > 0) = (DOMAIN flags # {})
         /\ DOMAIN flags # {} => /\ FoldFunction(+, 0, flags) >= counts.caught
                                 /\ \A code \in DOMAIN flags : flags[code] <= counts.n

SectionsAgree(name, cell, counts) ==
    /\ cell.clusters = CountIn(counts, "n")
    /\ cell.any = CountIn(counts, "caught")
    /\ cell.caught = CountIn(counts, IF Expects(name) THEN "expected" ELSE "caught")

Stands(report, name, p) ==
    LET result == report.classes[name].policies[p]
        cell == report.gate[name][p]
    IN /\ CellStands(name, cell)
       /\ CountsStand(report.classes[name].mutants, result)
       /\ SectionsAgree(name, cell, result.counts)

AssertReportSchema(report) ==
    \A name \in CLASS_ORDER : \A p \in Policies : Stands(report, name, p)

\* Whether no piece of a case and no name of a set is a word of the report: the
\* report is made of counts, but a set may bear the name of one of its fields.
ContentFree == BOOLEAN

Measure ==
    /\ loader.pc = "measure"
    /\ LET population == CasesOf(loader.r) \cap LockedIds
           report == Report(loader.r, loader.q, population, BuildMutants(loader.r, population))
           holds == /\ population # {} /\ Cardinality(population) = stated.locked
                    /\ AssertReportSchema(report)
       IN \E free \in ContentFree :
          /\ loader' = IF holds /\ free THEN [loader EXCEPT !.pc = "output"] ELSE Refused(loader)
          /\ gated' = IF holds /\ free THEN [gated EXCEPT !.report = report] ELSE gated

\* The path must be free when it is opened; the text arrives later, or never.
WriteReport ==
    \/ /\ loader.pc = "output"
       /\ output' = IF output = Absent THEN Partial ELSE output
       /\ loader' = IF output = Absent THEN [loader EXCEPT !.pc = "written"] ELSE Refused(loader)
       /\ UNCHANGED gated
    \/ /\ loader.pc = "written"
       /\ output' = gated.report
       /\ loader' = NoLoad /\ gated' = NoGate

ScreeningNext ==
    /\ UNCHANGED <<stated, guard>>
    /\ \/ /\ edits < MaxEdit /\ edits' = edits + 1
          /\ \/ EditContract /\ UNCHANGED tree
             \/ EditTree /\ UNCHANGED contract
          /\ UNCHANGED <<questions, results, loader, gated, output>>
       \/ /\ EditFile /\ UNCHANGED <<loader, contract, tree, gated, output>>
       \/ /\ \/ BeginScreening \/ ReadBase \/ VerifyContractChain \/ RequireCleanTree
             \/ ReadHead \/ CheckSource \/ CountQuestionFiles \/ Measure
          /\ UNCHANGED <<questions, results, edits, contract, tree, output>>
       \/ /\ ReadQuestions \/ ReadResults
          /\ UNCHANGED <<questions, results, edits, contract, tree, gated, output>>
       \/ /\ RunEnds /\ loader.job # "inventory" /\ gated' = NoGate
          /\ UNCHANGED <<questions, results, edits, contract, tree, output>>
       \/ /\ WriteReport /\ UNCHANGED <<questions, results, edits, contract, tree>>

\* An evaluation runs an inventory or a screening at a time, over the same files,
\* beside the reviewer and whoever edits them.
evaluation == <<review, screening>>
EvaluationInit == ReviewInit /\ ScreeningInit
EvaluationNext ==
    \/ ScreeningNext /\ UNCHANGED <<packet, aggregate, judging, reviewed>>
    \/ ReviewNext /\ UNCHANGED screening
EvaluationSpec == EvaluationInit /\ [][EvaluationNext]_evaluation

-----------------------------------------------------------------------------
(* Properties.                                                             *)

Measured == {report \in {gated.report} : loader.pc = "output"}
Reports == {report \in {gated.report, output} : report \notin {Absent, Partial}}

\* The chain the owner states.
StatedChain == [base |-> "frozen", version |-> "v2.1", addenda |-> stated.addenda]

\* No file of cases is opened under a chain the owner did not state.
ChainBeforeCases ==
    loader.job = "screening" /\ (loader.sets # {} \/ DOMAIN loader.q # {}) =>
       gated.gate = StatedChain /\ gated.head = stated.head

\* A report speaks of what the owner stated and of nothing else: the chain, the
\* commit, the bytes, the locked cases in them.  If nobody touched anything
\* since the runner was started, that commit is the code that ran.
SpeaksOfTheStated(report) ==
    /\ report.contract = StatedChain /\ report.head = stated.head
    /\ report.source = [q |-> stated.q, r |-> stated.r]
    /\ report.locked = stated.locked
    /\ report.locked = Cardinality(CasesOf(stated.r) \cap LockedIds)
    /\ report.locked + report.development = Cardinality(CasesOf(stated.r))

ReportsWhatWasStated == \A report \in Reports : SpeaksOfTheStated(report)

CodeIsNamed == gated.report # Absent /\ edits = 0 =>
    gated.code = [head |-> gated.report.head, clean |-> TRUE]

\* The gate counts locked clusters: of a class with an expected diagnostic those
\* held by that code and no other, and a bound is published for confirmed
\* classes above the floor only.
CountsClusters(report, r, held) == \A name \in CLASS_ORDER : \A p \in Policies :
    LET locked == CasesOf(r) \cap LockedIds
        built == {c \in locked : Builds(r, locked, name, c)}
        sees == p # "plain" \/ name \notin EVIDENCE_ONLY_CLASSES
        caught == {c \in built : sees /\ held[c].mutant \in
                     IF Expects(name) THEN {"named"} ELSE {"named", "other"}}
        cell == report.gate[name][p]
    IN /\ cell.clusters = Cardinality(built) /\ cell.caught = Cardinality(caught)
       /\ cell.bound # Absent => /\ name \notin MANUAL_CLASSES
                               /\ Cardinality(built) >= TARGET_LOCKED_CLUSTERS
                               /\ cell.bound[1] = Cardinality(built \ caught)

GateCountsClusters == \A report \in Measured : CountsClusters(report, stated.r, guard)

\* What the inventory counts bounds what the gate can build, where the detectors
\* ask no less and no more than the mutators.
BoundedByInventory(report, r) ==
    /\ \A name \in {"unsupported_figure", "forced_answer_unanswerable",
                     "invented_provenance"} :
          Cardinality(Confirmed(r, name) \cap LockedIds) <= report.classes[name].mutants
    /\ \A name \in {"label_value_swap", "question_answer_mismatch"} :
          report.classes[name].mutants <= Cardinality(Candidates(r, name) \cap LockedIds)

InventoryBoundsGate == \A report \in Measured : BoundedByInventory(report, stated.r)

\* A report of which one number of the gate, or one counter it comes from, was
\* changed by hand is refused.  Counters nothing is derived from are left out:
\* the expected diagnostic of a class without one, the two of the controls
\* against each other, the sum of the flags.
Changed(n) == {n + 1, n - 1}
CellEdits(report, name, p, f) ==
    {[report EXCEPT !.gate[name][p][f] = v] : v \in Changed(report.gate[name][p][f])}
BoundEdits(report, name, p) ==
    {[report EXCEPT !.gate[name][p].bound = b] :
        b \in {Absent, <<0, TARGET_LOCKED_CLUSTERS>>} \ {report.gate[name][p].bound}}
CounterEdits(report, name, p, f) ==
    IF report.classes[name].policies[p].counts = Absent THEN {}
    ELSE {[report EXCEPT !.classes[name].policies[p].counts[f] = v] :
             v \in Changed(report.classes[name].policies[p].counts[f])}
DerivedCounters(name) ==
    {"n", "caught", "published", "review", "released"}
        \cup (IF Expects(name) THEN {"expected"} ELSE {})

EditsOf(report, name, p) ==
    (UNION {CellEdits(report, name, p, f) : f \in {"clusters", "caught", "any", "missed"}})
    \cup BoundEdits(report, name, p)
    \cup (UNION {CounterEdits(report, name, p, f) : f \in DerivedCounters(name)})

TellsEdits(report) == \A name \in CLASS_ORDER : \A p \in Policies :
    \A e \in EditsOf(report, name, p) : ~Stands(e, name, p)

EditedReportsAreRefused == \A report \in Measured : TellsEdits(report)

\* A screening is honest about what it measured, and its report tells whether
\* somebody changed it.
ScreeningIsHonest ==
    /\ ChainBeforeCases /\ ReportsWhatWasStated /\ CodeIsNamed
    /\ GateCountsClusters /\ InventoryBoundsGate /\ EditedReportsAreRefused

\* An evaluation says of its sources what they are, whether it counts the cases
\* that can be built, has them reviewed, or screens the locked ones.
EvaluationIsHonest == ScreeningIsHonest /\ ReviewIsDecisive
=============================================================================
