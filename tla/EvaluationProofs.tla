--------------------------- MODULE EvaluationProofs ---------------------------
(***************************************************************************)
(* A theorem about LockedScreening and EligibilityReview as one            *)
(* evaluation, for any cases, rows, targets, statements and guard, and any *)
(* number of edits by others.                                              *)
(***************************************************************************)
EXTENDS LockedScreening, FiniteSetTheorems, WellFoundedInduction, TLAPS

-----------------------------------------------------------------------------
(* The inductive invariant.  What a package, a report and a reviewer say is   *)
(* settled when it is written: each is a function of one load of the sources, *)
(* and carries it.  What a screening says rests on the order of its steps:    *)
(* what the owner pinned is compared before anything is opened, and kept.     *)

Verdicts == {"eligible", "reject", "unresolved"}

\* What has been written whole was made of the sources it names.
Packaged(p) == p = Package(p.source.q, p.source.r)
Aggregated(a) == a = Aggregate(a.source.q, a.source.r)

\* The reviewer judges a prefix of what the package lists.
Judged(j) ==
    /\ j = [package |-> j.package, verdicts |-> j.verdicts]
    /\ Packaged(j.package)
    /\ j.verdicts \in [MANUAL_CLASSES -> Seq(Verdicts)]
    /\ \A name \in MANUAL_CLASSES :
          Len(j.verdicts[name]) <= Cardinality(j.package.entries[name])

Archived ==
    /\ packet = [i \in Paths |-> packet[i]] /\ aggregate = [i \in Paths |-> aggregate[i]]
    /\ \A i \in Paths : Whole(packet[i]) => Packaged(packet[i])
    /\ \A i \in Paths : Whole(aggregate[i]) => Aggregated(aggregate[i])
    /\ judging # Absent => Judged(judging)
    /\ reviewed # Absent => judging # Absent
    /\ ReviewIsDecisive

SavedFiles == [cases : SUBSET Case, twice : BOOLEAN, edition : Nat]
QuestionFiles == [cases : SUBSET Case, twice : BOOLEAN]
Saved == UNION {[D -> SavedFiles] : D \in SUBSET SetNames}
Asked == UNION {[D -> QuestionFiles] : D \in SUBSET SetNames}
LoaderSteps == {"idle", "refused", "load", "package", "report", "text", "base", "addenda",
                "clean", "head", "count", "measure", "output", "written"}
Loaders == [pc : LoaderSteps, job : {Absent, "inventory", "screening"},
            path : Paths \cup {Absent}, sets : SUBSET SetNames, q : Asked, r : Saved]

Filed ==
    /\ edits \in Nat
    /\ questions \in [SetNames -> QuestionFiles \cup {Absent}]
    /\ results \in [SetNames -> SavedFiles \cup {Absent}]
    /\ loader \in Loaders
    /\ loader.pc \in {"package", "report", "text"} \/ (loader.pc = "load" /\ loader.job # "screening")
          => loader.job = "inventory" /\ loader.path \in Paths
    /\ loader.pc \in {"base", "addenda", "clean", "head", "count", "measure", "output", "written"}
          => loader.job = "screening"

Begun == loader.job = "screening" /\ loader.pc \notin {"idle", "refused"}
Opening == loader.pc \in {"base", "addenda", "clean", "head"}
Chained == loader.job = "screening" /\
    \/ loader.pc \in {"clean", "head", "load", "count", "measure", "output", "written"}
    \/ loader.sets # {} \/ DOMAIN loader.q # {}
Dated == loader.job = "screening" /\
    \/ loader.pc \in {"load", "count", "measure", "output", "written"}
    \/ loader.sets # {} \/ DOMAIN loader.q # {}

Screened ==
    /\ guard \in Guard
    /\ Begun => PinsHold
    /\ Opening => loader.sets = {} /\ loader.q = << >> /\ loader.r = << >>
    /\ Chained => gated.gate = StatedChain
    /\ Dated => gated.head = stated.head
    /\ loader.pc \in {"count", "measure", "output", "written"} =>
          loader.q = stated.q /\ loader.r = stated.r
    /\ gated.report # Absent => SpeaksOfTheStated(gated.report)
    /\ output \notin {Absent, Partial} => SpeaksOfTheStated(output)
    /\ loader.pc = "output" => /\ CountsClusters(gated.report, stated.r, guard)
                               /\ BoundedByInventory(gated.report, stated.r)
                               /\ TellsEdits(gated.report)

\* While nobody edits, the tree is the one the code was started from.
Unedited ==
    /\ gated = [gate |-> gated.gate, head |-> gated.head, report |-> gated.report,
                code |-> gated.code]
    /\ edits = 0 =>
          /\ tree = [head |-> 1, clean |-> TRUE]
          /\ gated.report # Absent => gated.code = tree
          /\ loader.job = "screening" /\ loader.pc \notin {"idle", "refused"} => gated.code = tree
          /\ Dated => gated.head = tree.head
          /\ gated.report # Absent => gated.report.head = tree.head

Evaluated == Filed /\ Archived /\ Screened /\ Unedited
-----------------------------------------------------------------------------
(* Counting verdicts.                                                         *)

LEMMA LeastOfNaturals ==
    ASSUME NEW S \in SUBSET Nat, S # {}
    PROVE  \E m \in S : \A k \in S : m <= k
<1> DEFINE R == OpToRel(<, Nat)
<1>1. IsWellFoundedOn(R, Nat)
    BY NatLessThanWellFounded
<1>2. \A i, j \in Nat : i < j => <<i, j>> \in R
    BY DEF OpToRel
<1> HIDE DEF R
<1>3. PICK x \in S : \A y \in S : ~(<<y, x>> \in R)
    BY <1>1, WFMin
<1>4. ASSUME NEW y \in S PROVE x <= y
  <2>1. x \in Nat /\ y \in Nat
      OBVIOUS
  <2>2. ~(y < x)
      BY <1>2, <1>3, <2>1
  <2> QED
      BY <2>1, <2>2
<1> QED
    BY <1>4

LEMMA CountIsNatural ==
    ASSUME NEW verdicts, NEW k \in Nat, NEW v
    PROVE  /\ IsFiniteSet({i \in 1..k : verdicts[i] = v})
           /\ Count(verdicts, k, v) \in Nat
<1>1. IsFiniteSet(1..k)
    BY FS_Interval
<1>2. {i \in 1..k : verdicts[i] = v} \in SUBSET (1..k)
    OBVIOUS
<1>3. IsFiniteSet({i \in 1..k : verdicts[i] = v})
    BY <1>1, <1>2, FS_Subset
<1> QED
    BY <1>3, FS_CardinalityType DEF Count

LEMMA CountStartsAtZero ==
    ASSUME NEW verdicts, NEW v
    PROVE  Count(verdicts, 0, v) = 0
<1>1. {i \in 1..0 : verdicts[i] = v} = {}
    OBVIOUS
<1> QED
    BY <1>1, FS_EmptySet DEF Count

LEMMA CountGrowsByOne ==
    ASSUME NEW verdicts, NEW k \in Nat, NEW v
    PROVE  Count(verdicts, k + 1, v) =
              IF verdicts[k + 1] = v THEN Count(verdicts, k, v) + 1 ELSE Count(verdicts, k, v)
<1> DEFINE S == {i \in 1..k : verdicts[i] = v}
           T == {i \in 1..(k + 1) : verdicts[i] = v}
<1>1. IsFiniteSet(S)
    BY CountIsNatural
<1>2. CASE verdicts[k + 1] = v
  <2>1. T = S \cup {k + 1}
      BY <1>2
  <2>2. (k + 1) \notin S
      OBVIOUS
  <2> HIDE DEF S, T
  <2>3. Cardinality(T) = Cardinality(S) + 1
      BY <1>1, <2>1, <2>2, FS_AddElement
  <2> QED
      BY <1>2, <2>3 DEF Count, S, T
<1>3. CASE verdicts[k + 1] # v
  <2>1. T = S
      BY <1>3
  <2> QED
      BY <1>3, <2>1 DEF Count
<1> QED
    BY <1>2, <1>3

LEMMA CountIsMonotone ==
    ASSUME NEW verdicts, NEW k \in Nat, NEW j \in 0..k, NEW v
    PROVE  Count(verdicts, j, v) <= Count(verdicts, k, v)
<1> DEFINE S == {i \in 1..j : verdicts[i] = v}
           T == {i \in 1..k : verdicts[i] = v}
<1>1. IsFiniteSet(T)
    BY CountIsNatural
<1>2. S \in SUBSET T
    OBVIOUS
<1> HIDE DEF S, T
<1>3. Cardinality(S) <= Cardinality(T)
    BY <1>1, <1>2, FS_Subset
<1> QED
    BY <1>3 DEF Count, S, T

\* Whoever counts to a number passes every smaller one.
LEMMA CountsPassTheirTargets ==
    ASSUME NEW verdicts, NEW k \in Nat, NEW v, NEW target \in Nat \ {0},
           Count(verdicts, k, v) >= target
    PROVE  \E j \in 1..k : Count(verdicts, j, v) = target
<1> DEFINE S == {j \in 0..k : Count(verdicts, j, v) >= target}
<1>1. S \in SUBSET Nat /\ k \in S
    OBVIOUS
<1>2. PICK j \in S : \A i \in S : j <= i
    BY <1>1, LeastOfNaturals
<1>3. j \in 0..k /\ Count(verdicts, j, v) >= target
    BY <1>2
<1>4. j # 0
    BY <1>3, CountStartsAtZero
<1>5. PICK i \in Nat : j = i + 1
  <2>1. j - 1 \in Nat /\ j = (j - 1) + 1
      BY <1>3, <1>4
  <2> QED
      BY <2>1
<1>6. i \in 0..k /\ ~(j <= i)
    BY <1>3, <1>5
<1>7. Count(verdicts, i, v) < target
  <2>1. i \notin S
      BY <1>2, <1>6
  <2>2. Count(verdicts, i, v) \in Nat
      BY CountIsNatural
  <2> QED
      BY <1>6, <2>1, <2>2
<1>8. Count(verdicts, j, v) <= Count(verdicts, i, v) + 1
  <2>1. Count(verdicts, i, v) \in Nat
      BY CountIsNatural
  <2>2. Count(verdicts, i + 1, v) \in {Count(verdicts, i, v), Count(verdicts, i, v) + 1}
      BY CountGrowsByOne
  <2> QED
      BY <1>5, <2>1, <2>2
<1>9. Count(verdicts, j, v) \in Nat /\ Count(verdicts, i, v) \in Nat
  <2>1. j \in Nat
      BY <1>3
  <2> QED
      BY <2>1, CountIsNatural
<1>10. Count(verdicts, j, v) = target
    BY <1>3, <1>7, <1>8, <1>9
<1>11. j \in 1..k
    BY <1>3, <1>4
<1> QED
    BY <1>10, <1>11

LEMMA EveryVerdictIsCounted ==
    ASSUME NEW verdicts \in Seq(Verdicts), NEW k \in 0..Len(verdicts)
    PROVE  Count(verdicts, k, "eligible") + Count(verdicts, k, "reject")
              + Count(verdicts, k, "unresolved") = k
<1> DEFINE S(v) == {i \in 1..k : verdicts[i] = v}
<1>1. k \in Nat
    OBVIOUS
<1>2. \A v : IsFiniteSet(S(v)) /\ Cardinality(S(v)) \in Nat
    BY <1>1, CountIsNatural DEF Count
<1>3. \A i \in 1..k : verdicts[i] \in Verdicts
    OBVIOUS
<1>4. /\ (S("eligible") \cup S("reject")) \cup S("unresolved") = 1..k
      /\ S("eligible") \cap S("reject") = {}
      /\ (S("eligible") \cup S("reject")) \cap S("unresolved") = {}
    BY <1>3 DEF Verdicts
<1>5. PICK E, R, U : E = S("eligible") /\ R = S("reject") /\ U = S("unresolved")
    OBVIOUS
<1>6. /\ IsFiniteSet(E) /\ IsFiniteSet(R) /\ IsFiniteSet(U)
      /\ Cardinality(E) \in Nat /\ Cardinality(R) \in Nat /\ Cardinality(U) \in Nat
      /\ (E \cup R) \cup U = 1..k /\ E \cap R = {} /\ (E \cup R) \cap U = {}
    BY <1>2, <1>4, <1>5
<1>7. /\ IsFiniteSet(E \cup R)
      /\ Cardinality(E \cup R) = Cardinality(E) + Cardinality(R) - Cardinality(E \cap R)
    BY <1>6, FS_Union
<1>8. Cardinality((E \cup R) \cup U) =
         Cardinality(E \cup R) + Cardinality(U) - Cardinality((E \cup R) \cap U)
    BY <1>6, <1>7, FS_Union
<1>9. Cardinality(E \cap R) = 0 /\ Cardinality((E \cup R) \cap U) = 0
    BY <1>6, FS_EmptySet
<1>10. Cardinality(1..k) = k
    BY <1>1, FS_Interval
<1>11. Cardinality(E) + Cardinality(R) + Cardinality(U) = k
  <2>1. Cardinality(E \cup R) = Cardinality(E) + Cardinality(R)
      BY <1>6, <1>7, <1>9
  <2>2. Cardinality((E \cup R) \cup U) = k
      BY <1>6, <1>10
  <2>3. Cardinality((E \cup R) \cup U) = Cardinality(E \cup R) + Cardinality(U)
      BY <1>6, <1>8, <1>9, <2>1
  <2> QED
      BY <2>1, <2>2, <2>3
<1> QED
    BY <1>5, <1>11 DEF Count

\* What is rejected or left open is named within the prefix.
LEMMA VerdictsLieInThePrefix ==
    ASSUME NEW verdicts \in Seq(Verdicts), NEW prefix \in 0..Len(verdicts),
           Inside(prefix, verdicts), NEW v \in Verdicts, v # "eligible"
    PROVE  Count(verdicts, Len(verdicts), v) = Count(verdicts, prefix, v)
<1>1. \A i \in 1..Len(verdicts) : verdicts[i] = v => i <= prefix
    BY DEF Inside
<1>2. {i \in 1..Len(verdicts) : verdicts[i] = v} = {i \in 1..prefix : verdicts[i] = v}
    BY <1>1
<1> QED
    BY <1>2 DEF Count
-----------------------------------------------------------------------------
(* The stopping rule.                                                         *)

\* What the first stop of a prefix is worth.
Stopped(stop, verdicts, plan, prefix) ==
    \/ /\ stop.outcome = "not_reached" /\ stop.at = Absent
       /\ \A k \in 1..prefix : ~StopsAt(verdicts, plan, k)
    \/ /\ stop.at \in 1..prefix /\ StopsAt(verdicts, plan, stop.at)
       /\ \A k \in 1..prefix : StopsAt(verdicts, plan, k) => stop.at <= k
       /\ stop.outcome = IF Count(verdicts, stop.at, "eligible") = plan.target
                         THEN "confirmation" ELSE "rejection"

LEMMA FirstStopIsFirst ==
    ASSUME NEW verdicts, NEW plan, NEW prefix \in Nat
    PROVE  Stopped(FirstStop(verdicts, plan, prefix), verdicts, plan, prefix)
<1> DEFINE stops == {k \in 1..prefix : StopsAt(verdicts, plan, k)}
<1>1. CASE stops = {}
  <2>1. FirstStop(verdicts, plan, prefix) = [outcome |-> "not_reached", at |-> Absent]
      BY <1>1 DEF FirstStop
  <2> QED
      BY <1>1, <2>1 DEF Stopped
<1>2. CASE stops # {}
  <2>1. stops \in SUBSET Nat
      OBVIOUS
  <2>2. \E k \in stops : \A j \in stops : k <= j
      BY <1>2, <2>1, LeastOfNaturals
  <2>3. PICK k : k = CHOOSE i \in stops : \A j \in stops : i <= j
      OBVIOUS
  <2>4. k \in stops /\ \A j \in stops : k <= j
      BY <2>2, <2>3
  <2>5. FirstStop(verdicts, plan, prefix) =
           [outcome |-> IF Count(verdicts, k, "eligible") = plan.target
                        THEN "confirmation" ELSE "rejection", at |-> k]
      BY <1>2, <2>3 DEF FirstStop
  <2>6. PICK stop : stop = FirstStop(verdicts, plan, prefix)
      OBVIOUS
  <2>7. /\ stop.at = k
        /\ stop.outcome = IF Count(verdicts, k, "eligible") = plan.target
                          THEN "confirmation" ELSE "rejection"
      BY <2>5, <2>6
  <2>8. Stopped(stop, verdicts, plan, prefix)
      BY <2>4, <2>7 DEF Stopped
  <2> QED
      BY <2>6, <2>8
<1> QED
    BY <1>1, <1>2

\* As long as nothing stopped, neither target is met.
LEMMA NothingStoppedYet ==
    ASSUME NEW verdicts, NEW n \in Nat, NEW plan, NEW k \in Nat,
           plan.target \in Nat \ {0}, n >= plan.target,
           plan.rejection = n - plan.target + 1,
           \A j \in 1..k : ~StopsAt(verdicts, plan, j)
    PROVE  /\ Count(verdicts, k, "eligible") < plan.target
           /\ n - Count(verdicts, k, "reject") >= plan.target
<1>1. PICK target : target = plan.target
    OBVIOUS
<1>2. PICK rejection : rejection = plan.rejection
    OBVIOUS
<1>3. target \in Nat \ {0} /\ rejection \in Nat \ {0} /\ rejection = n - target + 1
    BY <1>1, <1>2
<1>4. /\ Count(verdicts, k, "eligible") \in Nat /\ Count(verdicts, k, "reject") \in Nat
    BY CountIsNatural
<1>5. ~(Count(verdicts, k, "eligible") >= target)
  <2> SUFFICES ASSUME Count(verdicts, k, "eligible") >= target PROVE FALSE
      OBVIOUS
  <2>1. PICK j \in 1..k : Count(verdicts, j, "eligible") = target
      BY <1>3, CountsPassTheirTargets
  <2> QED
      BY <1>1, <2>1 DEF StopsAt
<1>6. ~(Count(verdicts, k, "reject") >= rejection)
  <2> SUFFICES ASSUME Count(verdicts, k, "reject") >= rejection PROVE FALSE
      OBVIOUS
  <2>1. PICK j \in 1..k : Count(verdicts, j, "reject") = rejection
      BY <1>3, CountsPassTheirTargets
  <2> QED
      BY <1>2, <2>1 DEF StopsAt
<1>7. Count(verdicts, k, "eligible") < target
    BY <1>3, <1>4, <1>5
<1>8. n - Count(verdicts, k, "reject") >= target
    BY <1>3, <1>4, <1>6
<1> QED
    BY <1>1, <1>7, <1>8
\* What StopsAreDecisive says of one class.
Decisive(class, given, n, prefix, plan) ==
    LET eligible == Count(given, prefix, "eligible")
        rejected == Count(given, prefix, "reject")
    IN /\ class.confirmed = eligible
       /\ class.stop.outcome = "not_reached" =>
             eligible < plan.target /\ n - rejected >= plan.target
       /\ class.stop.outcome = "confirmation" => eligible >= plan.target
       /\ class.stop.outcome = "rejection" => n - rejected < plan.target
       /\ class.stop.at # Absent =>
             /\ Count(given, class.stop.at - 1, "eligible") < plan.target
             /\ n - Count(given, class.stop.at - 1, "reject") >= plan.target
       /\ class.status = "powered" =>
             class.stop.outcome = "confirmation" /\ class.deficit = 0
       /\ prefix = n /\ class.clean => class.stop.at = n
       /\ class.exact /\ class.deficit > 0 => n - rejected = eligible

LEMMA ReviewedClassIsDecisive ==
    ASSUME NEW class, NEW name \in MANUAL_CLASSES, NEW n \in Nat,
           NEW verdicts \in Seq(Verdicts), NEW prefix \in 0..Len(verdicts),
           Len(verdicts) <= n, Inside(prefix, verdicts),
           NEW plan, plan = PlanOf(class, name),
           plan.target \in Nat \ {0}, n >= plan.target,
           plan.rejection = n - plan.target + 1,
           name # "wrong_row" => plan.target = TARGET_LOCKED_CLUSTERS
    PROVE  /\ Decisive(ReviewOneClass(class, name, n, prefix, verdicts), verdicts, n, prefix,
                       plan)
           /\ PlanOf(ReviewOneClass(class, name, n, prefix, verdicts), name) = plan
<1> DEFINE E(k) == Count(verdicts, k, "eligible")
           R(k) == Count(verdicts, k, "reject")
           U(k) == Count(verdicts, k, "unresolved")
<1>1. prefix \in Nat /\ Len(verdicts) \in Nat
    OBVIOUS
<1>2. /\ Count(verdicts, Len(verdicts), "reject") = R(prefix)
      /\ Count(verdicts, Len(verdicts), "unresolved") = U(prefix)
    BY VerdictsLieInThePrefix DEF Verdicts
<1>3. E(prefix) + R(prefix) + U(prefix) = prefix
    BY EveryVerdictIsCounted
<1>4. E(prefix) \in Nat /\ R(prefix) \in Nat /\ U(prefix) \in Nat
    BY <1>1, CountIsNatural
<1>5. PICK eligible, rejected, open :
         eligible = E(prefix) /\ rejected = R(prefix) /\ open = U(prefix)
    OBVIOUS
<1>6. /\ eligible \in Nat /\ rejected \in Nat /\ open \in Nat
      /\ eligible + rejected + open = prefix /\ prefix <= n
    BY <1>1, <1>3, <1>4, <1>5
<1>7. PICK target : target = plan.target
    OBVIOUS
<1>8. PICK c : c = ReviewOneClass(class, name, n, prefix, verdicts)
    OBVIOUS
<1>9. PICK stop : stop = FirstStop(verdicts, plan, prefix)
    OBVIOUS
<1>10. prefix - rejected - open = eligible
    BY <1>1, <1>6
<1>11. PICK exact, over :
         /\ exact = (Deficit(eligible) = 0 \/ (prefix = n /\ open = 0))
         /\ over = IF stop.at = Absent THEN 0 ELSE prefix - stop.at
    OBVIOUS
<1>12. /\ c.confirmed = eligible /\ c.deficit = Deficit(eligible)
       /\ c.stop = stop /\ c.gate = class.gate /\ c.descriptive = class.descriptive
       /\ c.exact = (Deficit(eligible) = 0 \/ (prefix = n /\ open = 0))
       /\ c.clean = (over = 0 /\ open = 0)
       /\ c.status = IF name # "wrong_row" /\ eligible >= TARGET_LOCKED_CLUSTERS
                     THEN "powered" ELSE "underpowered"
  <2>1. /\ Count(verdicts, Len(verdicts), "reject") = rejected
        /\ Count(verdicts, Len(verdicts), "unresolved") = open
      BY <1>2, <1>5
  <2>2. c = [status |-> IF name # "wrong_row" /\ eligible >= TARGET_LOCKED_CLUSTERS
                        THEN "powered" ELSE "underpowered",
             confirmed |-> eligible, candidates |-> class.candidates,
             deficit |-> Deficit(eligible), floor |-> Deficit(eligible),
             exact |-> (Deficit(eligible) = 0 \/ (prefix = n /\ open = 0)),
             gate |-> class.gate, descriptive |-> class.descriptive,
             stop |-> stop, over |-> over, clean |-> over = 0 /\ open = 0,
             additional |-> expected_additional_questions(
                              IF (Deficit(eligible) = 0 \/ (prefix = n /\ open = 0))
                              THEN Deficit(eligible)
                              ELSE Deficit(class.candidates))]
      BY <1>8, <1>9, <1>10, <1>11, <2>1 DEF ReviewOneClass
  <2> QED
      BY <2>2
<1>13. PlanOf(c, name) = plan
    BY <1>12 DEF PlanOf
<1>14. Stopped(stop, verdicts, plan, prefix)
    BY <1>1, <1>9, FirstStopIsFirst
\* Nothing stopped in a prefix.
<1>15. ASSUME NEW k \in 0..prefix, \A j \in 1..k : ~StopsAt(verdicts, plan, j)
       PROVE  E(k) < target /\ n - R(k) >= target
  <2>1. k \in Nat
      BY <1>1
  <2> QED
      BY <1>7, <1>15, <2>1, NothingStoppedYet
<1>16. Deficit(eligible) \in Nat /\ (eligible >= TARGET_LOCKED_CLUSTERS => Deficit(eligible) = 0)
    BY <1>6, ReviewAssumption DEF Deficit
<1>19. c.clean => over = 0 /\ open = 0
    BY <1>12, Zenon
<1>20. c.exact => Deficit(eligible) = 0 \/ (prefix = n /\ open = 0)
    BY <1>12, Zenon
<1>21. c.exact /\ c.deficit > 0 => n - rejected = eligible
  <2> SUFFICES ASSUME c.exact, c.deficit > 0 PROVE n - rejected = eligible
      OBVIOUS
  <2>1. ~(Deficit(eligible) = 0)
      BY <1>12, <1>16
  <2>2. prefix = n /\ open = 0
      BY <1>20, <2>1
  <2> QED
      BY <1>6, <2>2
<1> USE DEF Decisive
<1>17. CASE stop.outcome = "not_reached" /\ stop.at = Absent
            /\ \A k \in 1..prefix : ~StopsAt(verdicts, plan, k)
  <2>1. eligible < target /\ n - rejected >= target
      BY <1>1, <1>5, <1>15, <1>17
  <2>2. ~c.status = "powered"
      BY <1>7, <1>12, <1>6, <2>1, ReviewAssumption
  <2>3. ~(prefix = n /\ c.clean)
    <3>1. ~(prefix = n /\ open = 0)
        BY <1>6, <1>7, <2>1
    <3> QED
        BY <1>19, <3>1
  <2>4. c.exact /\ c.deficit > 0 => n - rejected = eligible
      BY <1>21
  <2>5. Decisive(c, verdicts, n, prefix, plan)
      BY <1>5, <1>7, <1>12, <1>17, <2>1, <2>2, <2>3, <2>4
  <2> QED
      BY <1>8, <1>13, <2>5
<1>18. CASE /\ stop.at \in 1..prefix /\ StopsAt(verdicts, plan, stop.at)
            /\ \A k \in 1..prefix : StopsAt(verdicts, plan, k) => stop.at <= k
            /\ stop.outcome = IF Count(verdicts, stop.at, "eligible") = plan.target
                              THEN "confirmation" ELSE "rejection"
  <2>1. PICK at : at = stop.at
      OBVIOUS
  <2>2. at \in Nat /\ at - 1 \in 0..prefix /\ at \in 0..prefix /\ at \in 1..prefix
      BY <1>1, <1>18, <2>1
  <2>3. at # Absent /\ over = prefix - at
      BY <1>11, <2>1, <2>2, ReviewAssumption
  <2>4. \A j \in 1..(at - 1) : ~StopsAt(verdicts, plan, j)
      BY <1>1, <1>18, <2>1, <2>2
  <2>5. E(at - 1) < target /\ n - R(at - 1) >= target
      BY <1>15, <2>2, <2>4
  <2>6. E(at) <= eligible /\ R(at) <= rejected
      BY <1>1, <1>5, <2>2, CountIsMonotone
  <2>7. E(at) \in Nat /\ R(at) \in Nat
      BY <2>2, CountIsNatural
  <2>8. stop.outcome = "confirmation" => E(at) = target
      BY <1>7, <1>18, <2>1
  <2>9. stop.outcome # "confirmation" => stop.outcome = "rejection" /\ R(at) = n - target + 1
      BY <1>7, <1>18, <2>1 DEF StopsAt
  <2>10. stop.outcome = "confirmation" => eligible >= target
      BY <1>6, <2>6, <2>7, <2>8
  <2>11. stop.outcome # "confirmation" => n - rejected < target
      BY <1>6, <1>7, <2>6, <2>7, <2>9
  <2>12. c.status = "powered" => stop.outcome = "confirmation" /\ c.deficit = 0
    <3> SUFFICES ASSUME c.status = "powered"
                 PROVE  stop.outcome = "confirmation" /\ c.deficit = 0
        OBVIOUS
    <3>1. eligible >= target /\ c.deficit = 0
        BY <1>7, <1>12, <1>16
    <3> QED
        BY <1>6, <1>7, <2>11, <3>1
  <2>13. prefix = n /\ c.clean => at = n
    <3> SUFFICES ASSUME prefix = n, c.clean PROVE at = n
        OBVIOUS
    <3>1. prefix - at = 0
        BY <1>19, <2>3
    <3> QED
        BY <1>1, <2>2, <3>1
  <2>14. c.exact /\ c.deficit > 0 => n - rejected = eligible
      BY <1>21
  <2>15. stop.outcome \in {"confirmation", "rejection"}
      BY <1>18
  <2>16. c.stop.at = at /\ c.stop.outcome = stop.outcome
      BY <1>12, <2>1
  <2>17. Decisive(c, verdicts, n, prefix, plan)
      BY <1>5, <1>7, <1>12, <2>5, <2>10, <2>11, <2>12, <2>13, <2>14, <2>15, <2>16
  <2> QED
      BY <1>8, <1>13, <2>17
<1> QED
    BY <1>14, <1>17, <1>18 DEF Stopped
-----------------------------------------------------------------------------
(* The reviewer's decisions.                                                  *)

LEMMA CandidatesAreFinite ==
    ASSUME NEW r, NEW name
    PROVE  Cardinality(Candidates(r, name) \cap LockedIds) \in Nat
<1>1. IsFiniteSet(1..MaxCase)
    BY ReviewAssumption, FS_Interval
<1>2. IsFiniteSet(LockedIds)
    BY <1>1, ReviewAssumption, FS_Subset
<1>3. IsFiniteSet(Candidates(r, name) \cap LockedIds)
    BY <1>2, FS_Subset
<1> QED
    BY <1>3, FS_CardinalityType

LEMMA PackagesListCandidates ==
    ASSUME NEW p, Packaged(p)
    PROVE  /\ p.source = [q |-> p.source.q, r |-> p.source.r]
           /\ \A name \in MANUAL_CLASSES :
                 /\ p.entries[name] = Candidates(p.source.r, name) \cap LockedIds
                 /\ Cardinality(p.entries[name]) \in Nat
<1>1. PICK q, r : q = p.source.q /\ r = p.source.r
    OBVIOUS
<1>2. p = [source |-> [q |-> q, r |-> r],
           entries |-> [name \in MANUAL_CLASSES |-> Candidates(r, name) \cap LockedIds]]
    BY <1>1 DEF Packaged, Package
<1>3. p.source = [q |-> q, r |-> r]
    BY <1>2
<1>4. ASSUME NEW name \in MANUAL_CLASSES
      PROVE  p.entries[name] = Candidates(r, name) \cap LockedIds
    BY <1>2
<1> QED
    BY <1>1, <1>3, <1>4, CandidatesAreFinite

\* The plans of a class are for as many candidates as the package lists.
LEMMA PlansFitThePackage ==
    ASSUME NEW a, Aggregated(a), NEW p, Packaged(p), a.package = p,
           NEW name \in MANUAL_CLASSES
    PROVE  LET n == Cardinality(p.entries[name]) IN
           /\ p.source = a.source /\ n \in Nat
           /\ a.classes[name].gate = Plan(n, TARGET_LOCKED_CLUSTERS)
           /\ a.classes[name].descriptive = Plan(n, DescriptiveTarget)
<1>1. PICK q, r : q = a.source.q /\ r = a.source.r
    OBVIOUS
<1>2. a = [source |-> [q |-> q, r |-> r], package |-> Package(q, r),
           classes |-> [c \in CLASS_ORDER |-> ClassReport(r, c)]]
    BY <1>1 DEF Aggregated, Aggregate
<1>3. /\ a.source = [q |-> q, r |-> r] /\ a.package = Package(q, r)
      /\ a.classes[name] = ClassReport(r, name)
    BY <1>2 DEF CLASS_ORDER
<1>4. p.source = a.source
    BY <1>3 DEF Package
<1>5. PICK n : n = Cardinality(Candidates(r, name) \cap LockedIds)
    OBVIOUS
<1>6. Cardinality(p.entries[name]) = n /\ n \in Nat
  <2>1. p.source.r = r
      BY <1>3, <1>4
  <2>2. p.entries[name] = Candidates(r, name) \cap LockedIds
      BY <2>1, PackagesListCandidates
  <2> QED
      BY <1>5, <2>2, CandidatesAreFinite
<1>7. /\ ClassReport(r, name).gate = Plan(n, TARGET_LOCKED_CLUSTERS)
      /\ ClassReport(r, name).descriptive = Plan(n, DescriptiveTarget)
    BY <1>5 DEF ClassReport
<1> QED
    BY <1>3, <1>4, <1>6, <1>7

PrefixOf(j, short, name) == Len(j.verdicts[name]) - IF name = short THEN 1 ELSE 0

LEMMA AppliedDecisions ==
    ASSUME NEW i \in Paths, NEW j \in Paths, NEW short \in MANUAL_CLASSES \cup {Absent},
           ApplyDecisions(i, j, short)
    PROVE  /\ judging # Absent /\ reviewed = Absent
           /\ Whole(aggregate[i]) /\ Whole(packet[j])
           /\ short # Absent => judging.verdicts[short] # << >>
           /\ aggregate[i].package = packet[j] /\ judging.package = packet[j]
           /\ packet[j].source = aggregate[i].source
           /\ \A name \in MANUAL_CLASSES :
                 /\ Inside(PrefixOf(judging, short, name), judging.verdicts[name])
                 /\ PlanOf(aggregate[i].classes[name], name).required
           /\ reviewed'.source = aggregate[i].source /\ reviewed'.short = short
           /\ \A name \in MANUAL_CLASSES :
                 reviewed'.classes[name] =
                    ReviewOneClass(aggregate[i].classes[name], name,
                                   Cardinality(packet[j].entries[name]),
                                   PrefixOf(judging, short, name), judging.verdicts[name])
<1> DEFINE Prefix(name) == Len(judging.verdicts[name]) - IF name = short THEN 1 ELSE 0
<1>1. /\ judging # Absent /\ reviewed = Absent
      /\ Whole(aggregate[i]) /\ Whole(packet[j])
      /\ short # Absent => judging.verdicts[short] # << >>
    BY DEF ApplyDecisions
<1>2. Applies(aggregate[i], packet[j], Prefix)
    BY DEF ApplyDecisions
<1>3. \E breached \in BOOLEAN :
         reviewed' = [
                source |-> aggregate[i].source, short |-> short,
                classes |-> [name \in MANUAL_CLASSES |->
                    ReviewOneClass(aggregate[i].classes[name], name,
                                   Cardinality(packet[j].entries[name]),
                                   Prefix(name), judging.verdicts[name])],
                others |-> [name \in CLASS_ORDER \ MANUAL_CLASSES |->
                               aggregate[i].classes[name]],
                breached |-> breached]
    BY DEF ApplyDecisions
<1>4. \A name : Prefix(name) = PrefixOf(judging, short, name)
    BY DEF PrefixOf
<1>5. /\ aggregate[i].package = packet[j] /\ judging.package = packet[j]
      /\ packet[j].source = aggregate[i].source
      /\ \A name \in MANUAL_CLASSES :
            /\ Inside(Prefix(name), judging.verdicts[name])
            /\ PlanOf(aggregate[i].classes[name], name).required
    BY <1>2 DEF Applies
<1> HIDE DEF Prefix
<1>6. /\ reviewed'.source = aggregate[i].source /\ reviewed'.short = short
      /\ \A name \in MANUAL_CLASSES :
            reviewed'.classes[name] =
               ReviewOneClass(aggregate[i].classes[name], name,
                              Cardinality(packet[j].entries[name]),
                              Prefix(name), judging.verdicts[name])
    BY <1>3
<1> QED
    BY <1>1, <1>4, <1>5, <1>6

LEMMA DecisionsAreDecisive ==
    ASSUME Archived, UNCHANGED judging,
           NEW i \in Paths, NEW j \in Paths, NEW short \in MANUAL_CLASSES \cup {Absent},
           ApplyDecisions(i, j, short)
    PROVE  ReviewIsDecisive'
<1>1. PICK a, p, done : a = aggregate[i] /\ p = packet[j] /\ done = reviewed'
    OBVIOUS
<1>2. /\ Judged(judging) /\ judging.package = p
      /\ Aggregated(a) /\ Packaged(p) /\ a.package = p /\ p.source = a.source
    BY <1>1, AppliedDecisions DEF Archived
<1>3. done.source = a.source /\ done.short = short
    BY <1>1, AppliedDecisions
<1>4. ReviewIsOfOneSource'
  <2>1. \A name \in MANUAL_CLASSES :
           p.entries[name] = Candidates(p.source.r, name) \cap LockedIds
      BY <1>2, PackagesListCandidates
  <2>2. judging'.package = p
      BY <1>2
  <2> QED
      BY <1>1, <1>2, <1>3, <2>1, <2>2 DEF ReviewIsOfOneSource
<1>5. ASSUME NEW name \in MANUAL_CLASSES
      PROVE  Decisive(done.classes[name], judging.verdicts[name],
                      Cardinality(judging.package.entries[name]),
                      PrefixOf(judging, short, name), PlanOf(done.classes[name], name))
  <2>1. PICK n : n = Cardinality(p.entries[name])
      OBVIOUS
  <2>2. PICK class : class = a.classes[name]
      OBVIOUS
  <2>3. PICK prefix : prefix = PrefixOf(judging, short, name)
      OBVIOUS
  <2>4. PICK given \in Seq(Verdicts) : given = judging.verdicts[name]
      BY <1>2 DEF Judged
  <2>5. Len(given) \in Nat /\ Len(given) <= n
      BY <1>2, <2>1, <2>4 DEF Judged
  <2>6. prefix \in 0..Len(given)
    <3>1. CASE name = short
      <4>1. given # << >>
        <5>1. short # Absent
            BY <3>1, ReviewAssumption DEF MANUAL_CLASSES
        <5>2. judging.verdicts[short] # << >>
            BY <5>1, AppliedDecisions
        <5> QED
            BY <2>4, <3>1, <5>2
      <4>2. Len(given) # 0
          BY <4>1, <2>4
      <4> QED
          BY <2>3, <2>4, <2>5, <3>1, <4>2 DEF PrefixOf
    <3>2. CASE name # short
        BY <2>3, <2>4, <2>5, <3>2 DEF PrefixOf
    <3> QED
        BY <3>1, <3>2
  <2>7. Inside(prefix, given)
      BY <2>3, <2>4, AppliedDecisions
  <2>8. /\ n \in Nat
        /\ class.gate = Plan(n, TARGET_LOCKED_CLUSTERS)
        /\ class.descriptive = Plan(n, DescriptiveTarget)
      BY <1>2, <2>1, <2>2, PlansFitThePackage
  <2>9. PICK plan : plan = PlanOf(class, name)
      OBVIOUS
  <2>10. PICK target \in Nat \ {0} :
            /\ plan = Plan(n, target)
            /\ name # "wrong_row" => target = TARGET_LOCKED_CLUSTERS
      BY <2>8, <2>9, ReviewAssumption DEF PlanOf
  <2>11. plan = [target |-> target, rejection |-> n - target + 1, required |-> n >= target]
      BY <2>10 DEF Plan
  <2>12. /\ plan.target = target /\ plan.rejection = n - target + 1
         /\ plan.required = (n >= target)
      BY <2>11
  <2>13. plan.required
      BY <1>1, <2>2, <2>9, AppliedDecisions
  <2>14. n >= target
      BY <2>12, <2>13, Zenon
  <2>15. done.classes[name] = ReviewOneClass(class, name, n, prefix, given)
      BY <1>1, <2>1, <2>2, <2>3, <2>4, AppliedDecisions
  <2>16. /\ Decisive(ReviewOneClass(class, name, n, prefix, given), given, n, prefix, plan)
         /\ PlanOf(ReviewOneClass(class, name, n, prefix, given), name) = plan
    <3>1. /\ plan.target \in Nat \ {0} /\ n >= plan.target
          /\ plan.rejection = n - plan.target + 1
          /\ name # "wrong_row" => plan.target = TARGET_LOCKED_CLUSTERS
        BY <2>10, <2>12, <2>14
    <3>2. n \in Nat /\ Len(given) <= n
        BY <2>5, <2>8
    <3> HIDE DEF Decisive
    <3> QED
        BY <2>6, <2>7, <2>9, <3>1, <3>2, ReviewedClassIsDecisive
  <2> QED
      BY <1>2, <2>1, <2>3, <2>4, <2>15, <2>16
<1>6. StopsAreDecisive'
  <2> SUFFICES ASSUME reviewed' # Absent, NEW name \in MANUAL_CLASSES
               PROVE  LET class == reviewed'.classes[name]
                          given == judging'.verdicts[name]
                          n == Cardinality(judging'.package.entries[name])
                          prefix == Len(given) - IF name = reviewed'.short THEN 1 ELSE 0
                      IN Decisive(class, given, n, prefix, PlanOf(class, name))
      BY Zenon DEF StopsAreDecisive, Decisive, Count
  <2>1. judging' = judging
      OBVIOUS
  <2> QED
      BY <1>1, <1>3, <1>5, <2>1 DEF PrefixOf
<1> QED
    BY <1>4, <1>6 DEF ReviewIsDecisive
-----------------------------------------------------------------------------
(* Packages, reports and the reviewer.                                        *)

\* What StopsAreDecisive says of a reviewer's verdicts and his report.
AllDecisive(j, done) ==
    done # Absent => \A name \in MANUAL_CLASSES :
        LET class == done.classes[name]
            given == j.verdicts[name]
            prefix == Len(given) - IF name = done.short THEN 1 ELSE 0
        IN Decisive(class, given, Cardinality(j.package.entries[name]), prefix,
                    PlanOf(class, name))

LEMMA DecisionsStand ==
    ASSUME ReviewIsDecisive, UNCHANGED <<judging, reviewed>>
    PROVE  ReviewIsDecisive'
<1>1. judging' = judging /\ reviewed' = reviewed
    OBVIOUS
<1>2. ReviewIsOfOneSource'
    BY <1>1 DEF ReviewIsDecisive, ReviewIsOfOneSource
<1>3. StopsAreDecisive'
  <2>1. AllDecisive(judging, reviewed)
      BY Zenon DEF ReviewIsDecisive, StopsAreDecisive, AllDecisive, Decisive, Count
  <2>2. AllDecisive(judging', reviewed')
      BY <1>1, <2>1
  <2> QED
      BY <2>2, Zenon DEF StopsAreDecisive, AllDecisive, Decisive, Count
<1> QED
    BY <1>2, <1>3 DEF ReviewIsDecisive

LEMMA ArchiveStands ==
    ASSUME Archived, UNCHANGED <<packet, aggregate, judging, reviewed>>
    PROVE  Archived'
<1>1. /\ packet' = packet /\ aggregate' = aggregate
      /\ judging' = judging /\ reviewed' = reviewed
    OBVIOUS
<1>2. ReviewIsDecisive'
    BY DecisionsStand DEF Archived
<1>3. /\ (packet = [i \in Paths |-> packet[i]])' /\ (aggregate = [i \in Paths |-> aggregate[i]])'
      /\ (\A i \in Paths : Whole(packet[i]) => Packaged(packet[i]))'
      /\ (\A i \in Paths : Whole(aggregate[i]) => Aggregated(aggregate[i]))'
      /\ (judging # Absent => Judged(judging))' /\ (reviewed # Absent => judging # Absent)'
    BY <1>1 DEF Archived
<1> QED
    BY <1>2, <1>3 DEF Archived

\* A file is written at its path, whole or not.
LEMMA OneIsArchived ==
    ASSUME Archived, UNCHANGED <<judging, reviewed>>, NEW i \in Paths, NEW file,
           \/ /\ packet' = [packet EXCEPT ![i] = file] /\ UNCHANGED aggregate
              /\ Whole(file) => Packaged(file)
           \/ /\ aggregate' = [aggregate EXCEPT ![i] = file] /\ UNCHANGED packet
              /\ Whole(file) => Aggregated(file)
    PROVE  Archived'
<1>1. judging' = judging /\ reviewed' = reviewed
    OBVIOUS
<1>2. ReviewIsDecisive'
    BY DecisionsStand DEF Archived
<1>3. (judging # Absent => Judged(judging))' /\ (reviewed # Absent => judging # Absent)'
    BY <1>1 DEF Archived
<1>4. CASE /\ packet' = [packet EXCEPT ![i] = file] /\ UNCHANGED aggregate
           /\ Whole(file) => Packaged(file)
  <2>1. PICK new : new = packet'
      OBVIOUS
  <2>2. \A j \in Paths : new[j] = IF j = i THEN file ELSE packet[j]
      BY <1>4, <2>1 DEF Archived
  <2>3. new = [j \in Paths |-> new[j]]
      BY <1>4, <2>1 DEF Archived
  <2>4. \A j \in Paths : Whole(new[j]) => Packaged(new[j])
      BY <1>4, <2>2 DEF Archived
  <2> QED
      BY <1>2, <1>3, <1>4, <2>1, <2>3, <2>4 DEF Archived
<1>5. CASE /\ aggregate' = [aggregate EXCEPT ![i] = file] /\ UNCHANGED packet
           /\ Whole(file) => Aggregated(file)
  <2>1. PICK new : new = aggregate'
      OBVIOUS
  <2>2. \A j \in Paths : new[j] = IF j = i THEN file ELSE aggregate[j]
      BY <1>5, <2>1 DEF Archived
  <2>3. new = [j \in Paths |-> new[j]]
      BY <1>5, <2>1 DEF Archived
  <2>4. \A j \in Paths : Whole(new[j]) => Aggregated(new[j])
      BY <1>5, <2>2 DEF Archived
  <2> QED
      BY <1>2, <1>3, <1>5, <2>1, <2>3, <2>4 DEF Archived
<1> QED
    BY <1>4, <1>5

LEMMA WrittenPackages ==
    ASSUME NEW q, NEW r
    PROVE  Packaged(Package(q, r)) /\ Aggregated(Aggregate(q, r))
<1>1. Package(q, r).source.q = q /\ Package(q, r).source.r = r
    BY DEF Package
<1>2. Aggregate(q, r).source.q = q /\ Aggregate(q, r).source.r = r
    BY DEF Aggregate
<1> QED
    BY <1>1, <1>2 DEF Packaged, Aggregated

LEMMA PartialFilesAreNotWhole == ~Whole(Partial)
BY DEF Whole

LEMMA WritePackageArchives ==
    ASSUME Archived, Filed, WritePackage, UNCHANGED <<judging, reviewed>>
    PROVE  Archived'
<1>1. loader.job = "inventory" /\ loader.job # "screening" /\ UNCHANGED aggregate
    BY DEF WritePackage
<1>2. CASE Loaded /\ packet' = IF packet[loader.path] # Absent THEN packet
                               ELSE [packet EXCEPT ![loader.path] = Partial]
  <2>1. loader.path \in Paths
      BY <1>1, <1>2 DEF Loaded, Filed
  <2>2. CASE packet[loader.path] # Absent
    <3>1. UNCHANGED packet
        BY <1>2, <2>2
    <3> QED
        BY <1>1, <3>1, ArchiveStands
  <2>3. CASE packet' = [packet EXCEPT ![loader.path] = Partial]
      BY <1>1, <2>1, <2>3, OneIsArchived, PartialFilesAreNotWhole
  <2> QED
      BY <1>2, <2>2, <2>3
<1>3. CASE /\ loader.pc = "package"
           /\ packet' = [packet EXCEPT ![loader.path] = Package(loader.q, loader.r)]
  <2>1. loader.path \in Paths
      BY <1>3 DEF Filed
  <2> QED
      BY <1>1, <1>3, <2>1, OneIsArchived, WrittenPackages
<1> QED
    BY <1>2, <1>3 DEF WritePackage

LEMMA WriteAggregateArchives ==
    ASSUME Archived, Filed, WriteAggregate, UNCHANGED <<judging, reviewed>>
    PROVE  Archived'
<1>1. UNCHANGED packet
    BY DEF WriteAggregate
<1>2. CASE loader.pc = "report" /\ aggregate' = [aggregate EXCEPT ![loader.path] = Partial]
  <2>1. loader.path \in Paths
      BY <1>2 DEF Filed
  <2> QED
      BY <1>1, <1>2, <2>1, OneIsArchived, PartialFilesAreNotWhole
<1>3. CASE /\ loader.pc = "text"
           /\ aggregate' = [aggregate EXCEPT ![loader.path] = Aggregate(loader.q, loader.r)]
  <2>1. loader.path \in Paths
      BY <1>3 DEF Filed
  <2> QED
      BY <1>1, <1>3, <2>1, OneIsArchived, WrittenPackages
<1> QED
    BY <1>2, <1>3 DEF WriteAggregate

\* Before anything was decided, whatever the reviewer holds may change.
LEMMA UndecidedStays ==
    ASSUME Archived, UNCHANGED <<packet, aggregate, reviewed>>, reviewed = Absent,
           judging' # Absent => Judged(judging')
    PROVE  Archived'
<1>1. packet' = packet /\ aggregate' = aggregate /\ reviewed' = Absent
    OBVIOUS
<1>2. ReviewIsDecisive'
    BY <1>1 DEF ReviewIsDecisive, ReviewIsOfOneSource, StopsAreDecisive
<1>3. /\ (packet = [i \in Paths |-> packet[i]])' /\ (aggregate = [i \in Paths |-> aggregate[i]])'
      /\ (\A i \in Paths : Whole(packet[i]) => Packaged(packet[i]))'
      /\ (\A i \in Paths : Whole(aggregate[i]) => Aggregated(aggregate[i]))'
    BY <1>1 DEF Archived
<1>4. (judging # Absent => Judged(judging))' /\ (reviewed # Absent => judging # Absent)'
    BY <1>1
<1> QED
    BY <1>2, <1>3, <1>4 DEF Archived

LEMMA TakePackageArchives ==
    ASSUME Archived, NEW i \in Paths, TakePackage(i),
           UNCHANGED <<packet, aggregate, reviewed>>
    PROVE  Archived'
<1>1. judging = Absent /\ Whole(packet[i])
      /\ judging' = [package |-> packet[i], verdicts |-> [name \in MANUAL_CLASSES |-> << >>]]
    BY DEF TakePackage
<1>2. PICK j, p : j = judging' /\ p = packet[i]
    OBVIOUS
<1>3. Packaged(p) /\ reviewed = Absent
    BY <1>1, <1>2 DEF Archived
<1>4. j = [package |-> p, verdicts |-> [name \in MANUAL_CLASSES |-> << >>]]
    BY <1>1, <1>2
<1>5. j.package = p /\ j.verdicts = [name \in MANUAL_CLASSES |-> << >>]
    BY <1>4
<1>6. << >> \in Seq(Verdicts) /\ Len(<< >>) = 0
    OBVIOUS
<1>7. \A name \in MANUAL_CLASSES : Cardinality(p.entries[name]) \in Nat
    BY <1>3, PackagesListCandidates
<1>8. Judged(j)
  <2>1. j.verdicts \in [MANUAL_CLASSES -> Seq(Verdicts)]
      BY <1>5, <1>6
  <2>2. \A name \in MANUAL_CLASSES : Len(j.verdicts[name]) <= Cardinality(j.package.entries[name])
      BY <1>5, <1>6, <1>7
  <2> QED
      BY <1>3, <1>4, <1>5, <2>1, <2>2 DEF Judged
<1> QED
    BY <1>2, <1>3, <1>8, UndecidedStays

LEMMA JudgeArchives ==
    ASSUME Archived, NEW name \in MANUAL_CLASSES, Judge(name),
           UNCHANGED <<packet, aggregate, reviewed>>
    PROVE  Archived'
<1>1. PICK v \in Verdicts :
         judging' = [judging EXCEPT !.verdicts[name] = Append(@, v)]
    BY DEF Judge, Verdicts
<1>2. /\ judging # Absent /\ reviewed = Absent
      /\ Len(judging.verdicts[name]) < Cardinality(judging.package.entries[name])
    BY DEF Judge
<1>3. Judged(judging)
    BY <1>2 DEF Archived
<1>4. PICK p, given : p = judging.package /\ given = judging.verdicts
    OBVIOUS
<1>5. /\ judging = [package |-> p, verdicts |-> given] /\ Packaged(p)
      /\ given \in [MANUAL_CLASSES -> Seq(Verdicts)]
      /\ \A c \in MANUAL_CLASSES : Len(given[c]) <= Cardinality(p.entries[c])
    BY <1>3, <1>4 DEF Judged
<1>6. PICK j : j = judging'
    OBVIOUS
<1>7. PICK new : new = [given EXCEPT ![name] = Append(given[name], v)]
    OBVIOUS
<1>8. j = [package |-> p, verdicts |-> new]
    BY <1>1, <1>4, <1>5, <1>6, <1>7
<1>9. \A c \in MANUAL_CLASSES : Cardinality(p.entries[c]) \in Nat
    BY <1>5, PackagesListCandidates
<1>10. given[name] \in Seq(Verdicts)
    BY <1>5
<1>11. /\ Append(given[name], v) \in Seq(Verdicts)
       /\ Len(Append(given[name], v)) = Len(given[name]) + 1 /\ Len(given[name]) \in Nat
    BY <1>10
<1>12. new \in [MANUAL_CLASSES -> Seq(Verdicts)]
    BY <1>5, <1>7, <1>11
<1>13. ASSUME NEW c \in MANUAL_CLASSES PROVE Len(new[c]) <= Cardinality(p.entries[c])
  <2>1. CASE c = name
    <3>1. new[c] = Append(given[name], v)
        BY <1>5, <1>7, <2>1
    <3> QED
        BY <1>2, <1>4, <1>9, <1>11, <2>1, <3>1
  <2>2. CASE c # name
      BY <1>5, <1>7, <2>2
  <2> QED
      BY <2>1, <2>2
<1>14. Judged(j)
  <2>1. j.package = p /\ j.verdicts = new
      BY <1>8
  <2> QED
      BY <1>5, <1>8, <1>12, <1>13, <2>1 DEF Judged
<1> QED
    BY <1>2, <1>6, <1>14, UndecidedStays

LEMMA DecisionsArchive ==
    ASSUME Archived, NEW i \in Paths, NEW j \in Paths,
           NEW short \in MANUAL_CLASSES \cup {Absent}, ApplyDecisions(i, j, short),
           UNCHANGED <<packet, aggregate, judging>>
    PROVE  Archived'
<1>1. packet' = packet /\ aggregate' = aggregate /\ judging' = judging
    OBVIOUS
<1>2. judging # Absent
    BY AppliedDecisions
<1>3. ReviewIsDecisive'
    BY <1>1, DecisionsAreDecisive
<1>4. /\ (packet = [k \in Paths |-> packet[k]])' /\ (aggregate = [k \in Paths |-> aggregate[k]])'
      /\ (\A k \in Paths : Whole(packet[k]) => Packaged(packet[k]))'
      /\ (\A k \in Paths : Whole(aggregate[k]) => Aggregated(aggregate[k]))'
      /\ (judging # Absent => Judged(judging))' /\ (reviewed # Absent => judging # Absent)'
    BY <1>1, <1>2 DEF Archived
<1> QED
    BY <1>3, <1>4 DEF Archived
-----------------------------------------------------------------------------
(* The sources and their loader.                                              *)

LEMMA NothingLoaded ==
    /\ DOMAIN << >> = {} /\ << >> \in Asked /\ << >> \in Saved
<1>1. DOMAIN << >> = {}
    OBVIOUS
<1>2. << >> \in [{} -> SavedFiles] /\ << >> \in [{} -> QuestionFiles]
    OBVIOUS
<1>3. {} \in SUBSET SetNames
    OBVIOUS
<1> QED
    BY <1>1, <1>2, <1>3 DEF Asked, Saved

LEMMA FilesAreTyped ==
    ASSUME NEW s \in SetNames
    PROVE  QuestionFile(s) \subseteq QuestionFiles /\ ResultFile(s) \subseteq SavedFiles
<1>1. Of(s) \in SUBSET Case /\ {} \in SUBSET Case
    BY DEF Of
<1>2. 1..MaxAnswers \subseteq Nat /\ 1 \in Nat
    BY ReviewAssumption
<1>3. QuestionFile(s) \subseteq QuestionFiles
  <2>1. [cases : {Of(s), {}}, twice : {FALSE}] \subseteq QuestionFiles
      BY <1>1 DEF QuestionFiles
  <2>2. [cases |-> Of(s), twice |-> TRUE] \in QuestionFiles
      BY <1>1 DEF QuestionFiles
  <2> QED
      BY <2>1, <2>2 DEF QuestionFile
<1>4. ResultFile(s) \subseteq SavedFiles
  <2>1. [cases : {Of(s), {}}, twice : {FALSE}, edition : 1..MaxAnswers] \subseteq SavedFiles
      BY <1>1, <1>2 DEF SavedFiles
  <2>2. [cases |-> Of(s), twice |-> TRUE, edition |-> 1] \in SavedFiles
      BY <1>1, <1>2 DEF SavedFiles
  <2> QED
      BY <2>1, <2>2 DEF ResultFile
<1> QED
    BY <1>3, <1>4

LEMMA SetNamesAreNumbers == SetNames \subseteq Nat
BY ReviewAssumption DEF SetNames, Case

LEMMA NextSetIsPending ==
    ASSUME loader \in Loaders, Pending # {}
    PROVE  NextSet \in Pending /\ NextSet \in SetNames
<1>1. Pending \subseteq SetNames
    BY DEF Pending, Loaders
<1>2. Pending \in SUBSET Nat
    BY <1>1, SetNamesAreNumbers
<1>3. \E s \in Pending : \A t \in Pending : s <= t
    BY <1>2, LeastOfNaturals
<1>4. NextSet \in Pending
    BY <1>3 DEF NextSet
<1> QED
    BY <1>1, <1>4

LEMMA OneMoreIsLoaded ==
    ASSUME NEW S, NEW f \in UNION {[D -> S] : D \in SUBSET SetNames},
           NEW s \in SetNames, NEW v \in S
    PROVE  With(f, s, v) \in UNION {[D -> S] : D \in SUBSET SetNames}
<1>1. PICK D \in SUBSET SetNames : f \in [D -> S]
    OBVIOUS
<1>2. DOMAIN f = D
    BY <1>1
<1>3. With(f, s, v) \in [D \cup {s} -> S]
    BY <1>1, <1>2 DEF With
<1>4. D \cup {s} \in SUBSET SetNames
    OBVIOUS
<1> QED
    BY <1>3, <1>4

\* The loader goes on with what it has.
GoesTo(pc) ==
    /\ loader' \in Loaders /\ loader'.pc = pc
    /\ loader'.job = loader.job /\ loader'.path = loader.path
    /\ loader'.sets = loader.sets /\ loader'.q = loader.q /\ loader'.r = loader.r

LEMMA LoaderGoesTo ==
    ASSUME loader \in Loaders, NEW pc \in LoaderSteps, loader' = [loader EXCEPT !.pc = pc]
    PROVE  GoesTo(pc)
<1>1. PICK new : new = loader'
    OBVIOUS
<1>2. new \in Loaders
    BY <1>1 DEF Loaders
<1>3. /\ new.pc = pc /\ new.job = loader.job /\ new.path = loader.path
      /\ new.sets = loader.sets /\ new.q = loader.q /\ new.r = loader.r
    BY <1>1 DEF Loaders
<1> QED
    BY <1>1, <1>2, <1>3 DEF GoesTo

LEMMA LoaderIsRefused ==
    ASSUME loader \in Loaders, loader' = Refused(loader)
    PROVE  GoesTo("refused")
BY LoaderGoesTo DEF Refused, LoaderSteps

\* The loader after a run, and after a start that was refused at once.
Anew(pc) ==
    /\ loader' \in Loaders /\ loader'.pc = pc /\ loader'.job = Absent
    /\ loader'.sets = {} /\ loader'.q = << >> /\ loader'.r = << >>

LEMMA NoLoadIsNew ==
    /\ NoLoad \in Loaders /\ NoLoad.pc = "idle" /\ NoLoad.job = Absent
    /\ NoLoad.path = Absent /\ NoLoad.sets = {} /\ NoLoad.q = << >> /\ NoLoad.r = << >>
BY NothingLoaded DEF NoLoad, Loaders, LoaderSteps

LEMMA LoaderEnds ==
    loader' = NoLoad => Anew("idle")
BY NoLoadIsNew DEF Anew

LEMMA LoaderIsRefusedAtOnce ==
    ASSUME loader' = Refused(NoLoad)
    PROVE  Anew("refused")
<1>1. PICK new : new = loader'
    OBVIOUS
<1>2. new = [NoLoad EXCEPT !.pc = "refused"]
    BY <1>1 DEF Refused
<1>3. new \in Loaders
    BY <1>2, NoLoadIsNew DEF Loaders, LoaderSteps
<1>4. /\ new.pc = "refused" /\ new.job = Absent
      /\ new.sets = {} /\ new.q = << >> /\ new.r = << >>
    BY <1>2, NoLoadIsNew DEF Loaders
<1> QED
    BY <1>1, <1>3, <1>4 DEF Anew

\* A listing of the saved sets.
Lists(l) ==
    \/ /\ GoesTo("refused")
    \/ /\ loader' \in Loaders /\ loader'.pc = "load" /\ loader'.job = loader.job
       /\ loader'.path = loader.path /\ loader'.q = loader.q /\ loader'.r = loader.r

LEMMA LoaderLists ==
    ASSUME loader \in Loaders, loader' = Loading(loader)
    PROVE  Lists(loader)
<1>1. PICK found : found = {s \in SetNames : results[s] # Absent}
    OBVIOUS
<1>2. found \in SUBSET SetNames
    BY <1>1
<1>3. CASE found = {}
  <2>1. loader' = Refused(loader)
      BY <1>1, <1>3 DEF Loading
  <2> QED
      BY <2>1, LoaderIsRefused DEF Lists
<1>4. CASE found # {}
  <2>1. PICK new : new = loader'
      OBVIOUS
  <2>2. new = [loader EXCEPT !.pc = "load", !.sets = found]
      BY <1>1, <1>4, <2>1 DEF Loading
  <2>3. new \in Loaders
      BY <1>2, <2>2 DEF Loaders, LoaderSteps
  <2>4. /\ new.pc = "load" /\ new.job = loader.job /\ new.path = loader.path
        /\ new.q = loader.q /\ new.r = loader.r
      BY <2>2 DEF Loaders
  <2> QED
      BY <2>1, <2>3, <2>4 DEF Lists
<1> QED
    BY <1>3, <1>4

LEMMA InventoryBegins ==
    ASSUME NEW i \in Paths, loader' = Loading([NoLoad EXCEPT !.job = "inventory", !.path = i])
    PROVE  /\ loader' \in Loaders /\ loader'.pc \in {"load", "refused"}
           /\ loader'.job = "inventory" /\ loader'.path = i
<1>1. PICK begun : begun = [NoLoad EXCEPT !.job = "inventory", !.path = i]
    OBVIOUS
<1>2. begun \in Loaders /\ begun.job = "inventory" /\ begun.path = i
    BY <1>1, NoLoadIsNew DEF Loaders
<1>3. PICK found : found = {s \in SetNames : results[s] # Absent}
    OBVIOUS
<1>4. found \in SUBSET SetNames
    BY <1>3
<1>5. PICK new : new = loader'
    OBVIOUS
<1>6. new = IF found = {} THEN [begun EXCEPT !.pc = "refused"]
            ELSE [begun EXCEPT !.pc = "load", !.sets = found]
    BY <1>1, <1>3, <1>5 DEF Loading, Refused
<1>7. new \in Loaders
    BY <1>2, <1>4, <1>6 DEF Loaders, LoaderSteps
<1>8. new.pc \in {"load", "refused"} /\ new.job = "inventory" /\ new.path = i
    BY <1>2, <1>6 DEF Loaders
<1> QED
    BY <1>5, <1>7, <1>8

\* One file more, or none.
Reads ==
    \/ GoesTo("refused")
    \/ /\ loader' \in Loaders /\ loader'.pc = "load" /\ loader'.job = loader.job
       /\ loader'.path = loader.path /\ loader'.sets = loader.sets
       /\ loader.sets # {}

LEMMA QuestionsAreRead ==
    ASSUME Filed, ReadQuestions
    PROVE  Reads
<1>1. loader \in Loaders /\ Pending # {} /\ loader.pc = "load"
    BY DEF Filed, ReadQuestions
<1>2. NextSet \in SetNames /\ NextSet \in Pending
    BY <1>1, NextSetIsPending
<1>3. PICK f, s : f = questions[s] /\ s = NextSet
    OBVIOUS
<1>4. f \in QuestionFiles \cup {Absent} /\ s \in SetNames
    BY <1>2, <1>3 DEF Filed
<1>5. \/ loader' = Refused(loader)
      \/ f # Absent /\ loader' = [loader EXCEPT !.q = With(@, s, f)]
    BY <1>3 DEF ReadQuestions
<1>6. CASE loader' = Refused(loader)
    BY <1>1, <1>6, LoaderIsRefused DEF Reads
<1>7. CASE f # Absent /\ loader' = [loader EXCEPT !.q = With(@, s, f)]
  <2>1. PICK new, more : new = loader' /\ more = With(loader.q, s, f)
      OBVIOUS
  <2>2. more \in Asked
      BY <1>1, <1>4, <1>7, <2>1, OneMoreIsLoaded DEF Loaders, Asked
  <2>3. new = [loader EXCEPT !.q = more]
      BY <1>7, <2>1
  <2>4. new \in Loaders
      BY <1>1, <2>2, <2>3 DEF Loaders
  <2>5. /\ new.pc = "load" /\ new.job = loader.job /\ new.path = loader.path
        /\ new.sets = loader.sets
      BY <1>1, <2>3 DEF Loaders
  <2>6. loader.sets # {}
      BY <1>2 DEF Pending
  <2> QED
      BY <2>1, <2>4, <2>5, <2>6 DEF Reads
<1> QED
    BY <1>5, <1>6, <1>7

LEMMA ResultsAreRead ==
    ASSUME Filed, ReadResults
    PROVE  Reads
<1>1. loader \in Loaders /\ Pending # {} /\ loader.pc = "load"
    BY DEF Filed, ReadResults
<1>2. NextSet \in SetNames /\ NextSet \in Pending
    BY <1>1, NextSetIsPending
<1>3. PICK f, s : f = results[s] /\ s = NextSet
    OBVIOUS
<1>4. f \in SavedFiles \cup {Absent} /\ s \in SetNames
    BY <1>2, <1>3 DEF Filed
<1>5. \/ loader' = Refused(loader)
      \/ f # Absent /\ loader' = [loader EXCEPT !.r = With(@, s, f)]
    BY <1>3 DEF ReadResults
<1>6. CASE loader' = Refused(loader)
    BY <1>1, <1>6, LoaderIsRefused DEF Reads
<1>7. CASE f # Absent /\ loader' = [loader EXCEPT !.r = With(@, s, f)]
  <2>1. PICK new, more : new = loader' /\ more = With(loader.r, s, f)
      OBVIOUS
  <2>2. more \in Saved
      BY <1>1, <1>4, <1>7, <2>1, OneMoreIsLoaded DEF Loaders, Saved
  <2>3. new = [loader EXCEPT !.r = more]
      BY <1>7, <2>1
  <2>4. new \in Loaders
      BY <1>1, <2>2, <2>3 DEF Loaders
  <2>5. /\ new.pc = "load" /\ new.job = loader.job /\ new.path = loader.path
        /\ new.sets = loader.sets
      BY <1>1, <2>3 DEF Loaders
  <2>6. loader.sets # {}
      BY <1>2 DEF Pending
  <2> QED
      BY <2>1, <2>4, <2>5, <2>6 DEF Reads
<1> QED
    BY <1>5, <1>6, <1>7

LEMMA SavedCasesAreFinite ==
    ASSUME NEW r \in Saved
    PROVE  CasesOf(r) \in SUBSET Case /\ IsFiniteSet(CasesOf(r)) /\ IsFiniteSet(Case)
<1>1. IsFiniteSet(Case)
    BY ReviewAssumption, FS_Interval DEF Case
<1>2. CasesOf(r) \in SUBSET Case
    BY DEF CasesOf, Saved, SavedFiles
<1> QED
    BY <1>1, <1>2, FS_Subset
-----------------------------------------------------------------------------
(* The steps of an evaluation, as far as the sources and a screening go.      *)

\* Where nobody but a reviewer or an inventory acts, a screening stands.
LEMMA ScreeningStands ==
    ASSUME Screened, Unedited, loader' = loader, UNCHANGED <<edits, screening>>
    PROVE  Screened' /\ Unedited'
<1>1. /\ loader' = loader /\ edits' = edits /\ contract' = contract /\ tree' = tree
      /\ stated' = stated /\ guard' = guard /\ gated' = gated /\ output' = output
    BY DEF screening
<1>2. Screened'
    BY <1>1 DEF Screened, Begun, Opening, Chained, Dated, PinsHold, StatedChain, SpeaksOfTheStated
<1>3. Unedited'
    BY <1>1 DEF Unedited, Dated
<1> QED
    BY <1>2, <1>3

LEMMA FilesStand ==
    ASSUME Filed, UNCHANGED <<questions, results, edits, loader>>
    PROVE  Filed'
<1>1. questions' = questions /\ results' = results /\ edits' = edits /\ loader' = loader
    OBVIOUS
<1> QED
    BY <1>1 DEF Filed

\* Edits change files and nothing else, and they are counted.
LEMMA FilesAreEdited ==
    ASSUME Filed, loader' = loader, edits' = edits + 1,
           questions' \in [SetNames -> QuestionFiles \cup {Absent}],
           results' \in [SetNames -> SavedFiles \cup {Absent}]
    PROVE  Filed' /\ edits' # 0
BY DEF Filed

LEMMA EditFileFiles ==
    ASSUME Filed, EditFile, loader' = loader
    PROVE  Filed' /\ edits' # 0
<1>1. edits' = edits + 1
    BY DEF EditFile
<1>2. PICK s \in SetNames :
         \/ /\ \E f \in (QuestionFile(s) \cup {Absent}) \ {questions[s]} :
                  questions' = [questions EXCEPT ![s] = f]
            /\ UNCHANGED results
         \/ /\ \E f \in (ResultFile(s) \cup {Absent}) \ {results[s]} :
                  results' = [results EXCEPT ![s] = f]
            /\ UNCHANGED questions
    BY DEF EditFile
<1>3. QuestionFile(s) \subseteq QuestionFiles /\ ResultFile(s) \subseteq SavedFiles
    BY FilesAreTyped
<1>4. /\ questions' \in [SetNames -> QuestionFiles \cup {Absent}]
      /\ results' \in [SetNames -> SavedFiles \cup {Absent}]
  <2>1. /\ questions \in [SetNames -> QuestionFiles \cup {Absent}]
        /\ results \in [SetNames -> SavedFiles \cup {Absent}]
      BY DEF Filed
  <2> QED
      BY <1>2, <1>3, <2>1
<1> QED
    BY <1>1, <1>4, FilesAreEdited

LEMMA EditsAreCounted ==
    ASSUME Screened, Unedited, edits' # 0, UNCHANGED <<loader, stated, guard, gated, output>>
    PROVE  Screened' /\ Unedited'
<1>1. /\ loader' = loader
      /\ stated' = stated /\ guard' = guard /\ gated' = gated /\ output' = output
    OBVIOUS
<1>2. Screened'
    BY <1>1 DEF Screened, Begun, Opening, Chained, Dated, PinsHold, StatedChain, SpeaksOfTheStated
<1>3. Unedited'
    BY <1>1 DEF Unedited
<1> QED
    BY <1>2, <1>3

\* The run goes on, is refused or ends; what was verified stays.
LEMMA FilesOfARun ==
    ASSUME Filed, UNCHANGED <<questions, results, edits>>, loader' \in Loaders,
           (loader.pc \in {"package", "report", "text"}
               \/ (loader.pc = "load" /\ loader.job # "screening")
             => loader.job = "inventory" /\ loader.path \in Paths)',
           (loader.pc \in {"base", "addenda", "clean", "head", "count", "measure", "output",
                           "written"} => loader.job = "screening")'
    PROVE  Filed'
<1>1. questions' = questions /\ results' = results /\ edits' = edits
    OBVIOUS
<1> QED
    BY <1>1 DEF Filed

\* A run that is no screening leaves the report that was written.
LEMMA NoScreeningRuns ==
    ASSUME Screened, Unedited, UNCHANGED <<edits, tree, stated, guard, output>>,
           loader'.job = "screening" => /\ loader'.pc \in {"idle", "refused"}
                                        /\ loader'.sets = {} /\ DOMAIN loader'.q = {},
           loader'.pc \notin {"base", "addenda", "clean", "head", "count", "measure", "output",
                              "written"},
           gated' = gated \/ gated' = NoGate
    PROVE  Screened' /\ Unedited'
<1>1. /\ edits' = edits /\ tree' = tree /\ stated' = stated /\ guard' = guard
      /\ output' = output
    OBVIOUS
<1>2. CASE gated' = gated
  <2>1. Screened'
      BY <1>1, <1>2 DEF Screened, Begun, Opening, Chained, Dated, StatedChain, SpeaksOfTheStated
  <2>2. Unedited'
      BY <1>1, <1>2 DEF Unedited, Dated
  <2> QED
      BY <2>1, <2>2
<1>3. CASE gated' = NoGate
  <2>1. /\ gated'.report = Absent
        /\ gated' = [gate |-> gated'.gate, head |-> gated'.head, report |-> gated'.report,
                     code |-> gated'.code]
      BY <1>3 DEF NoGate
  <2>2. Screened'
      BY <1>1, <2>1 DEF Screened, Begun, Opening, Chained, Dated, StatedChain, SpeaksOfTheStated
  <2>3. Unedited'
      BY <1>1, <2>1 DEF Unedited, Dated
  <2> QED
      BY <2>2, <2>3
<1> QED
    BY <1>2, <1>3

\* What a step of the runner leaves alone.
Kept == UNCHANGED <<questions, results, edits, contract, tree, stated, guard, output>>

LEMMA BeginScreeningStays ==
    ASSUME Filed, Screened, Unedited, BeginScreening, Kept
    PROVE  Filed' /\ Screened' /\ Unedited'
<1>1. PICK new, g : new = loader' /\ g = gated'
    OBVIOUS
<1>2. g = [NoGate EXCEPT !.code = tree]
    BY <1>1 DEF BeginScreening
<1>3. /\ g.report = Absent /\ g.code = tree
      /\ g = [gate |-> g.gate, head |-> g.head, report |-> g.report, code |-> g.code]
    BY <1>2 DEF NoGate
<1>4. CASE PinsHold /\ new = [NoLoad EXCEPT !.job = "screening", !.pc = "base"]
  <2>1. /\ new \in Loaders /\ new.job = "screening" /\ new.pc = "base"
        /\ new.sets = {} /\ new.q = << >> /\ new.r = << >>
      BY <1>4, NoLoadIsNew DEF Loaders, LoaderSteps
  <2>2. Filed'
      BY <1>1, <2>1, FilesOfARun DEF Kept
  <2>3. PinsHold'
      BY <1>4 DEF PinsHold, Kept
  <2>4. Screened'
      BY <1>1, <1>3, <2>1, <2>3, NothingLoaded
      DEF Screened, Begun, Opening, Chained, Dated, SpeaksOfTheStated, StatedChain, Kept
  <2>5. Unedited'
      BY <1>1, <1>3, <2>1, NothingLoaded DEF Unedited, Dated, Kept
  <2> QED
      BY <2>2, <2>4, <2>5
<1>5. CASE loader' = Refused(NoLoad)
  <2>1. Anew("refused")
      BY <1>5, LoaderIsRefusedAtOnce
  <2>2. Filed'
      BY <2>1, FilesOfARun DEF Kept, Anew
  <2>3. Screened'
      BY <1>1, <1>3, <2>1, NothingLoaded
      DEF Screened, Begun, Opening, Chained, Dated, SpeaksOfTheStated, StatedChain, Kept, Anew
  <2>4. Unedited'
      BY <1>1, <1>3, <2>1, NothingLoaded DEF Unedited, Dated, Kept, Anew
  <2> QED
      BY <2>2, <2>3, <2>4
<1> QED
    BY <1>1, <1>4, <1>5 DEF BeginScreening

LEMMA ReadBaseStays ==
    ASSUME Filed, Screened, Unedited, ReadBase, Kept
    PROVE  Filed' /\ Screened' /\ Unedited'
<1>1. loader.pc = "base" /\ loader.job = "screening" /\ loader \in Loaders
    BY DEF ReadBase, Filed
<1>2. GoesTo("addenda")
    BY <1>1, LoaderGoesTo DEF ReadBase, LoaderSteps
<1>3. PICK g : g = gated'
    OBVIOUS
<1>4. /\ g.head = gated.head /\ g.report = gated.report /\ g.code = gated.code
      /\ g = [gate |-> g.gate, head |-> g.head, report |-> g.report, code |-> g.code]
    BY <1>3 DEF ReadBase, Unedited
<1>5. Filed'
    BY <1>1, <1>2, FilesOfARun DEF Kept, GoesTo
<1>6. loader.sets = {} /\ loader.q = << >> /\ loader.r = << >> /\ PinsHold /\ PinsHold'
    BY <1>1 DEF Screened, Opening, Begun, PinsHold, Kept
<1>7. Screened'
    BY <1>1, <1>2, <1>3, <1>4, <1>6, NothingLoaded
    DEF Screened, Begun, Opening, Chained, Dated, SpeaksOfTheStated, StatedChain, Kept, GoesTo
<1>8. Unedited'
    BY <1>1, <1>2, <1>3, <1>4, <1>6, NothingLoaded DEF Unedited, Dated, Kept, GoesTo
<1> QED
    BY <1>5, <1>7, <1>8

LEMMA VerifyContractChainStays ==
    ASSUME Filed, Screened, Unedited, VerifyContractChain, Kept
    PROVE  Filed' /\ Screened' /\ Unedited'
<1>1. loader.pc = "addenda" /\ loader.job = "screening" /\ loader \in Loaders
    BY DEF VerifyContractChain, Filed
<1>2. /\ loader.sets = {} /\ loader.q = << >> /\ loader.r = << >>
      /\ PinsHold /\ PinsHold' /\ DOMAIN loader.q = {}
    BY <1>1, NothingLoaded DEF Screened, Opening, Begun, PinsHold, Kept
<1>3. PICK g : g = gated'
    OBVIOUS
<1>4. \/ loader' = Refused(loader) /\ \E gate : g = [gated EXCEPT !.gate = gate]
      \/ /\ loader' = [loader EXCEPT !.pc = "clean"]
         /\ g = [gated EXCEPT !.gate = StatedChain]
  <2>1. PICK found, base, chain :
           /\ found = [n \in Present(contract.addenda) |-> contract.addenda[n]]
           /\ base = gated.gate.base /\ chain = Chain(base, contract.addenda)
      OBVIOUS
  <2>2. \/ loader' = Refused(loader) /\ g = [gated EXCEPT !.gate = Absent]
        \/ /\ loader' = [loader EXCEPT !.pc = "clean"]
           /\ chain.version = stated.version /\ base = stated.base /\ found = stated.addenda
           /\ g = [gated EXCEPT !.gate = [base |-> base, version |-> chain.version,
                                          addenda |-> found]]
      BY <1>3, <2>1 DEF VerifyContractChain
  <2> QED
      BY <1>2, <2>2 DEF PinsHold, StatedChain
<1>5. /\ g.head = gated.head /\ g.report = gated.report /\ g.code = gated.code
      /\ g = [gate |-> g.gate, head |-> g.head, report |-> g.report, code |-> g.code]
    BY <1>4 DEF Unedited
<1>6. \/ GoesTo("refused")
      \/ GoesTo("clean") /\ g.gate = StatedChain
  <2>1. CASE loader' = Refused(loader)
      BY <1>1, <2>1, LoaderIsRefused
  <2>2. CASE loader' = [loader EXCEPT !.pc = "clean"] /\ g = [gated EXCEPT !.gate = StatedChain]
    <3>1. g.gate = StatedChain
        BY <2>2 DEF Unedited
    <3> QED
        BY <1>1, <2>2, <3>1, LoaderGoesTo DEF LoaderSteps
  <2> QED
      BY <1>4, <2>1, <2>2
<1>7. Filed'
    BY <1>1, <1>6, FilesOfARun DEF Kept, GoesTo
<1>8. StatedChain' = StatedChain
    BY DEF StatedChain, Kept
<1>9. Screened'
    BY <1>1, <1>2, <1>3, <1>5, <1>6, <1>8
    DEF Screened, Begun, Opening, Chained, Dated, SpeaksOfTheStated, Kept, GoesTo
<1>10. Unedited'
    BY <1>1, <1>2, <1>3, <1>5, <1>6 DEF Unedited, Dated, Kept, GoesTo
<1> QED
    BY <1>7, <1>9, <1>10

LEMMA RequireCleanTreeStays ==
    ASSUME Filed, Screened, Unedited, RequireCleanTree, Kept
    PROVE  Filed' /\ Screened' /\ Unedited'
<1>1. loader.pc = "clean" /\ loader.job = "screening" /\ loader \in Loaders /\ gated' = gated
    BY DEF RequireCleanTree, Filed
<1>2. /\ loader.sets = {} /\ loader.q = << >> /\ loader.r = << >>
      /\ PinsHold /\ PinsHold' /\ DOMAIN loader.q = {} /\ StatedChain' = StatedChain
    BY <1>1, NothingLoaded DEF Screened, Opening, Begun, PinsHold, StatedChain, Kept
<1>3. GoesTo("head") \/ GoesTo("refused")
    BY <1>1, LoaderGoesTo, LoaderIsRefused DEF RequireCleanTree, LoaderSteps
<1>4. Filed'
    BY <1>1, <1>3, FilesOfARun DEF Kept, GoesTo
<1>5. Screened'
    BY <1>1, <1>2, <1>3
    DEF Screened, Begun, Opening, Chained, Dated, SpeaksOfTheStated, Kept, GoesTo
<1>6. Unedited'
    BY <1>1, <1>2, <1>3 DEF Unedited, Dated, Kept, GoesTo
<1> QED
    BY <1>4, <1>5, <1>6

LEMMA ReadHeadStays ==
    ASSUME Filed, Screened, Unedited, ReadHead, Kept
    PROVE  Filed' /\ Screened' /\ Unedited'
<1>1. loader.pc = "head" /\ loader.job = "screening" /\ loader \in Loaders
    BY DEF ReadHead, Filed
<1>2. /\ loader.sets = {} /\ loader.q = << >> /\ loader.r = << >>
      /\ PinsHold /\ PinsHold' /\ DOMAIN loader.q = {} /\ StatedChain' = StatedChain
    BY <1>1, NothingLoaded DEF Screened, Opening, Begun, PinsHold, StatedChain, Kept
<1>3. PICK g : g = gated'
    OBVIOUS
<1>4. /\ g.gate = gated.gate /\ g.head = tree.head
      /\ g.report = gated.report /\ g.code = gated.code
      /\ g = [gate |-> g.gate, head |-> g.head, report |-> g.report, code |-> g.code]
    BY <1>3 DEF ReadHead, Unedited
<1>5. \/ GoesTo("refused")
      \/ /\ tree.head = stated.head /\ loader' \in Loaders /\ loader'.pc = "load"
         /\ loader'.job = loader.job /\ loader'.q = loader.q /\ loader'.r = loader.r
    BY <1>1, LoaderLists, LoaderIsRefused DEF ReadHead, Lists
<1>6. Filed'
    BY <1>1, <1>5, FilesOfARun DEF Kept, GoesTo
<1>7. gated.gate = StatedChain
    BY <1>1 DEF Screened, Chained
<1>8. Screened'
    BY <1>1, <1>2, <1>3, <1>4, <1>5, <1>7
    DEF Screened, Begun, Opening, Chained, Dated, SpeaksOfTheStated, Kept, GoesTo
<1>9. Unedited'
    BY <1>1, <1>2, <1>3, <1>4, <1>5 DEF Unedited, Dated, Kept, GoesTo
<1> QED
    BY <1>6, <1>8, <1>9

\* Files are read by a screening and by an inventory alike.
LEMMA ReadsStay ==
    ASSUME Filed, Screened, Unedited, ReadQuestions \/ ReadResults, Kept, gated' = gated
    PROVE  Filed' /\ Screened' /\ Unedited'
<1>1. loader.pc = "load" /\ Reads
    BY QuestionsAreRead, ResultsAreRead DEF ReadQuestions, ReadResults
<1>2. PinsHold' = PinsHold /\ StatedChain' = StatedChain
    BY DEF PinsHold, StatedChain, Kept
<1>3. Filed'
    BY <1>1, FilesOfARun DEF Kept, GoesTo, Reads, Filed
<1>4. Screened'
    BY <1>1, <1>2
    DEF Screened, Begun, Opening, Chained, Dated, SpeaksOfTheStated, Kept, GoesTo, Reads
<1>5. Unedited'
    BY <1>1 DEF Unedited, Dated, Kept, GoesTo, Reads
<1> QED
    BY <1>3, <1>4, <1>5

LEMMA CheckSourceStays ==
    ASSUME Filed, Screened, Unedited, CheckSource, Kept
    PROVE  Filed' /\ Screened' /\ Unedited'
<1>1. loader.pc = "load" /\ loader.job = "screening" /\ loader \in Loaders /\ gated' = gated
    BY DEF CheckSource, Loaded, Filed
<1>2. /\ PinsHold /\ PinsHold' /\ StatedChain' = StatedChain
      /\ gated.gate = StatedChain /\ gated.head = stated.head
    BY <1>1 DEF Screened, Begun, Chained, Dated, PinsHold, StatedChain, Kept
<1>3. \/ GoesTo("refused")
      \/ GoesTo("count") /\ loader.q = stated.q /\ loader.r = stated.r
    BY <1>1, LoaderGoesTo, LoaderIsRefused DEF CheckSource, LoadedAsStated, LoaderSteps
<1>4. Filed'
    BY <1>1, <1>3, FilesOfARun DEF Kept, GoesTo
<1>5. Screened'
    BY <1>1, <1>2, <1>3
    DEF Screened, Begun, Opening, Chained, Dated, SpeaksOfTheStated, Kept, GoesTo
<1>6. Unedited'
    BY <1>1, <1>3 DEF Unedited, Dated, Kept, GoesTo
<1> QED
    BY <1>4, <1>5, <1>6

LEMMA CountQuestionFilesStays ==
    ASSUME Filed, Screened, Unedited, CountQuestionFiles, Kept
    PROVE  Filed' /\ Screened' /\ Unedited'
<1>1. loader.pc = "count" /\ loader.job = "screening" /\ loader \in Loaders /\ gated' = gated
    BY DEF CountQuestionFiles, Filed
<1>2. /\ PinsHold /\ PinsHold' /\ StatedChain' = StatedChain
      /\ gated.gate = StatedChain /\ gated.head = stated.head
      /\ loader.q = stated.q /\ loader.r = stated.r
    BY <1>1 DEF Screened, Begun, Chained, Dated, PinsHold, StatedChain, Kept
<1>3. GoesTo("measure") \/ GoesTo("refused")
    BY <1>1, LoaderGoesTo, LoaderIsRefused DEF CountQuestionFiles, LoaderSteps
<1>4. Filed'
    BY <1>1, <1>3, FilesOfARun DEF Kept, GoesTo
<1>5. Screened'
    BY <1>1, <1>2, <1>3
    DEF Screened, Begun, Opening, Chained, Dated, SpeaksOfTheStated, Kept, GoesTo
<1>6. Unedited'
    BY <1>1, <1>3 DEF Unedited, Dated, Kept, GoesTo
<1> QED
    BY <1>4, <1>5, <1>6
-----------------------------------------------------------------------------
(* What a replay counts.                                                      *)

\* The mutants of a class that the guard flags, and flags with the code expected.
Flagged(cases, name, policy) == {c \in cases : Codes(name, policy, c) # {}}
NamedIn(cases, name, policy) == {c \in cases : "expected" \in Codes(name, policy, c)}
HeldIn(cases) == {c \in cases : guard[c].control}

CountersOf(cases, name, policy) ==
    [n |-> Cardinality(cases),
     caught |-> Cardinality(Flagged(cases, name, policy)),
     expected |-> Cardinality(NamedIn(cases, name, policy)),
     published |-> Cardinality(cases) - Cardinality(Flagged(cases, name, policy)),
     review |-> Cardinality(HeldIn(cases)),
     released |-> Cardinality(cases) - Cardinality(HeldIn(cases))]

LEMMA ReplayCounts ==
    ASSUME NEW cases, NEW name, NEW policy
    PROVE  Replay(cases, name, policy).counts =
              IF cases = {} THEN Absent ELSE CountersOf(cases, name, policy)
BY Zenon DEF Replay, CountersOf, Number, Flagged, NamedIn, HeldIn

LEMMA CountersAreNumbers ==
    ASSUME NEW cases, IsFiniteSet(cases), NEW name, NEW policy
    PROVE  /\ CountersOf(cases, name, policy) \in
                  [n : Nat, caught : Nat, expected : Nat, published : Nat,
                   review : Nat, released : Nat]
           /\ CountersOf(cases, name, policy).expected <= CountersOf(cases, name, policy).caught
<1>1. /\ Flagged(cases, name, policy) \in SUBSET cases
      /\ NamedIn(cases, name, policy) \in SUBSET Flagged(cases, name, policy)
      /\ HeldIn(cases) \in SUBSET cases
    BY DEF Flagged, NamedIn, HeldIn
<1>2. PICK n, f, e, h : /\ n = Cardinality(cases)
                        /\ f = Cardinality(Flagged(cases, name, policy))
                        /\ e = Cardinality(NamedIn(cases, name, policy))
                        /\ h = Cardinality(HeldIn(cases))
    OBVIOUS
<1>3. /\ IsFiniteSet(Flagged(cases, name, policy)) /\ f <= n
      /\ IsFiniteSet(HeldIn(cases)) /\ h <= n
    BY <1>1, <1>2, FS_Subset
<1>4. IsFiniteSet(NamedIn(cases, name, policy)) /\ e <= f
    BY <1>1, <1>2, <1>3, FS_Subset
<1>5. n \in Nat /\ f \in Nat /\ e \in Nat /\ h \in Nat
    BY <1>2, <1>3, <1>4, FS_CardinalityType
<1>6. CountersOf(cases, name, policy) =
         [n |-> n, caught |-> f, expected |-> e, published |-> n - f, review |-> h,
          released |-> n - h]
    BY <1>2 DEF CountersOf
<1>7. n - f \in Nat /\ n - h \in Nat
    BY <1>3, <1>5
<1> QED
    BY <1>4, <1>5, <1>6, <1>7

\* Counters are some only of a class with mutants.
LEMMA CountsAreKept ==
    ASSUME NEW cases, IsFiniteSet(cases), NEW name, NEW policy, NEW counts,
           counts = Replay(cases, name, policy).counts
    PROVE  /\ (counts = Absent) = (cases = {})
           /\ counts # Absent => counts = CountersOf(cases, name, policy)
           /\ CountIn(counts, "n") = Cardinality(cases)
           /\ CountIn(counts, "caught") = Cardinality(Flagged(cases, name, policy))
           /\ CountIn(counts, "expected") = Cardinality(NamedIn(cases, name, policy))
<1>1. counts = IF cases = {} THEN Absent ELSE CountersOf(cases, name, policy)
    BY ReplayCounts
<1>2. CountersOf(cases, name, policy) # Absent
    BY CountersAreNumbers, ScreeningAssumption
<1>3. CASE cases = {}
  <2>1. Flagged(cases, name, policy) = {} /\ NamedIn(cases, name, policy) = {}
      BY <1>3 DEF Flagged, NamedIn
  <2> QED
      BY <1>1, <1>3, <2>1, FS_EmptySet DEF CountIn
<1>4. CASE cases # {}
  <2>1. counts = CountersOf(cases, name, policy) /\ counts # Absent
      BY <1>1, <1>2, <1>4
  <2>2. /\ counts.n = Cardinality(cases)
        /\ counts.caught = Cardinality(Flagged(cases, name, policy))
        /\ counts.expected = Cardinality(NamedIn(cases, name, policy))
      BY <2>1 DEF CountersOf
  <2>3. /\ CountIn(counts, "n") = counts["n"] /\ CountIn(counts, "caught") = counts["caught"]
        /\ CountIn(counts, "expected") = counts["expected"]
      BY <2>1 DEF CountIn
  <2> QED
      BY <1>4, <2>1, <2>2, <2>3
<1> QED
    BY <1>3, <1>4

LEMMA CodesOfTheGuard ==
    ASSUME guard \in Guard, NEW c \in Case, NEW name, NEW policy
    PROVE  LET sees == policy # "plain" \/ name \notin EVIDENCE_ONLY_CLASSES IN
           /\ Codes(name, policy, c) # {} <=> sees /\ guard[c].mutant \in {"named", "other"}
           /\ "expected" \in Codes(name, policy, c) <=>
                 sees /\ guard[c].mutant \in {"named"} /\ Expects(name)
<1>1. PICK g : g = guard[c].mutant
    OBVIOUS
<1>2. g \in {"named", "other", "blind"}
    BY <1>1, ScreeningAssumption
<1>3. Codes(name, policy, c) =
         IF (policy = "plain" /\ name \in EVIDENCE_ONLY_CLASSES) \/ g = "blind"
         THEN {}
         ELSE {IF g = "named" /\ Expects(name) THEN "expected" ELSE "other"}
    BY <1>1, Zenon DEF Codes
<1>4. PICK sees \in BOOLEAN : sees = (policy # "plain" \/ name \notin EVIDENCE_ONLY_CLASSES)
    OBVIOUS
<1>5. PICK codes : codes = Codes(name, policy, c)
    OBVIOUS
<1>6. codes = IF ~sees \/ g = "blind" THEN {}
              ELSE {IF g = "named" /\ Expects(name) THEN "expected" ELSE "other"}
    BY <1>3, <1>4, <1>5
<1>7. /\ codes # {} <=> sees /\ g \in {"named", "other"}
      /\ "expected" \in codes <=> sees /\ g \in {"named"} /\ Expects(name)
    BY <1>2, <1>6
<1> QED
    BY <1>1, <1>4, <1>5, <1>7, Zenon

\* The mutants that a class counts as caught.
CaughtIn(cases, name, policy) ==
    IF Expects(name) THEN NamedIn(cases, name, policy) ELSE Flagged(cases, name, policy)

CellOf(cases, name, policy) == GateCell(name, Replay(cases, name, policy).counts)

\* A cell in numbers: c of n mutants caught, a of them flagged.
Cell(name, n, c, a) ==
    [clusters |-> n, caught |-> c, any |-> a, basis |-> Expects(name), missed |-> n - c,
     floor |-> n >= TARGET_LOCKED_CLUSTERS,
     bound |-> IF Eligible(name) /\ n >= TARGET_LOCKED_CLUSTERS THEN <<n - c, n>> ELSE Absent]

LEMMA CellsCount ==
    ASSUME NEW cases, IsFiniteSet(cases), NEW name, NEW policy
    PROVE  CellOf(cases, name, policy) =
              Cell(name, Cardinality(cases), Cardinality(CaughtIn(cases, name, policy)),
                   Cardinality(Flagged(cases, name, policy)))
<1>1. PICK counts : counts = Replay(cases, name, policy).counts
    OBVIOUS
<1>2. PICK n, c, a : /\ n = Cardinality(cases)
                     /\ c = Cardinality(CaughtIn(cases, name, policy))
                     /\ a = Cardinality(Flagged(cases, name, policy))
    OBVIOUS
<1>3. /\ CountIn(counts, "n") = n /\ CountIn(counts, "caught") = a
      /\ CountIn(counts, IF Expects(name) THEN "expected" ELSE "caught") = c
    BY <1>1, <1>2, CountsAreKept DEF CaughtIn
<1>4. GateCell(name, counts) = Cell(name, n, c, a)
    BY <1>3, Zenon DEF GateCell, Cell, Bound
<1> QED
    BY <1>1, <1>2, <1>4 DEF CellOf

LEMMA CaughtAreSome ==
    ASSUME NEW cases, IsFiniteSet(cases), NEW name, NEW policy
    PROVE  /\ IsFiniteSet(CaughtIn(cases, name, policy))
           /\ IsFiniteSet(Flagged(cases, name, policy))
           /\ CaughtIn(cases, name, policy) \subseteq Flagged(cases, name, policy)
           /\ Flagged(cases, name, policy) \subseteq cases
           /\ Cardinality(cases) \in Nat
           /\ Cardinality(CaughtIn(cases, name, policy)) \in Nat
           /\ Cardinality(Flagged(cases, name, policy)) \in Nat
           /\ Cardinality(CaughtIn(cases, name, policy)) <=
                 Cardinality(Flagged(cases, name, policy))
           /\ Cardinality(Flagged(cases, name, policy)) <= Cardinality(cases)
<1>1. /\ CaughtIn(cases, name, policy) \in SUBSET Flagged(cases, name, policy)
      /\ Flagged(cases, name, policy) \in SUBSET cases
    BY DEF CaughtIn, Flagged, NamedIn
<1>2. /\ IsFiniteSet(Flagged(cases, name, policy))
      /\ Cardinality(Flagged(cases, name, policy)) <= Cardinality(cases)
    BY <1>1, FS_Subset
<1>3. /\ IsFiniteSet(CaughtIn(cases, name, policy))
      /\ Cardinality(CaughtIn(cases, name, policy)) <= Cardinality(Flagged(cases, name, policy))
    BY <1>1, <1>2, FS_Subset
<1> QED
    BY <1>1, <1>2, <1>3, FS_CardinalityType

\* What a report is made of.
ClassesOf(produced) == [name \in CLASS_ORDER |->
    [mutants |-> Cardinality(produced[name]),
     policies |-> [p \in Policies |-> Replay(produced[name], name, p)]]]

MadeOf(r, q, population, classes) ==
    [contract |-> gated.gate, head |-> gated.head,
     locked |-> Cardinality(population),
     development |-> Cardinality(CasesOf(r) \ population),
     source |-> [q |-> q, r |-> r],
     excluded |-> PopulationExclusions(r, population),
     classes |-> classes,
     gate |-> [name \in CLASS_ORDER |-> [p \in Policies |->
                  GateCell(name, classes[name].policies[p].counts)]]]

LEMMA ReportsAreMade ==
    ASSUME NEW r, NEW q, NEW population, NEW produced
    PROVE  Report(r, q, population, produced) = MadeOf(r, q, population, ClassesOf(produced))
BY Zenon DEF Report, MadeOf, ClassesOf

LEMMA ClassesAreReported ==
    ASSUME NEW r, NEW q, NEW population, NEW produced, NEW report,
           report = MadeOf(r, q, population, ClassesOf(produced)), NEW name \in CLASS_ORDER
    PROVE  /\ report.classes[name].mutants = Cardinality(produced[name])
           /\ \A p \in Policies :
                 /\ report.classes[name].policies[p] = Replay(produced[name], name, p)
                 /\ report.gate[name][p] = CellOf(produced[name], name, p)
<1>1. PICK classes : classes = ClassesOf(produced)
    OBVIOUS
<1>2. report.classes = classes
    BY <1>1 DEF MadeOf
<1>3. /\ classes[name].mutants = Cardinality(produced[name])
      /\ \A p \in Policies : classes[name].policies[p] = Replay(produced[name], name, p)
  <2>1. classes[name] = [mutants |-> Cardinality(produced[name]),
                         policies |-> [p \in Policies |-> Replay(produced[name], name, p)]]
      BY <1>1 DEF ClassesOf
  <2> QED
      BY <2>1
<1>4. \A p \in Policies :
         report.gate[name][p] = GateCell(name, classes[name].policies[p].counts)
    BY <1>1 DEF MadeOf
<1> QED
    BY <1>2, <1>3, <1>4 DEF CellOf
-----------------------------------------------------------------------------
(* What a report says of the locked cases.                                    *)

LockedCasesOf(r) == CasesOf(r) \cap LockedIds

\* The mutants that are built of a class.
BuiltOf(r, name) == {c \in LockedCasesOf(r) : Builds(r, LockedCasesOf(r), name, c)}

ReportOf(r, q) == Report(r, q, LockedCasesOf(r), BuildMutants(r, LockedCasesOf(r)))

LEMMA LockedCasesAreFinite ==
    ASSUME NEW r \in Saved
    PROVE  /\ IsFiniteSet(CasesOf(r)) /\ IsFiniteSet(LockedCasesOf(r))
           /\ LockedCasesOf(r) \subseteq Case
           /\ \A name : IsFiniteSet(BuiltOf(r, name)) /\ BuiltOf(r, name) \subseteq Case
<1>1. CasesOf(r) \in SUBSET Case /\ IsFiniteSet(CasesOf(r))
    BY SavedCasesAreFinite
<1>2. LockedCasesOf(r) \in SUBSET CasesOf(r)
    BY DEF LockedCasesOf
<1>3. IsFiniteSet(LockedCasesOf(r))
    BY <1>1, <1>2, FS_Subset
<1>4. ASSUME NEW name PROVE IsFiniteSet(BuiltOf(r, name)) /\ BuiltOf(r, name) \subseteq Case
  <2>1. BuiltOf(r, name) \in SUBSET LockedCasesOf(r)
      BY DEF BuiltOf
  <2> QED
      BY <1>1, <1>2, <1>3, <2>1, FS_Subset
<1> QED
    BY <1>1, <1>2, <1>3, <1>4

LEMMA ReportOfCases ==
    ASSUME NEW r \in Saved, NEW q, NEW report, report = ReportOf(r, q)
    PROVE  \A name \in CLASS_ORDER :
              /\ report.classes[name].mutants = Cardinality(BuiltOf(r, name))
              /\ \A p \in Policies :
                    /\ report.classes[name].policies[p] = Replay(BuiltOf(r, name), name, p)
                    /\ report.gate[name][p] = CellOf(BuiltOf(r, name), name, p)
<1>1. PICK population, produced :
         population = LockedCasesOf(r) /\ produced = BuildMutants(r, population)
    OBVIOUS
<1>2. report = MadeOf(r, q, population, ClassesOf(produced))
    BY <1>1, ReportsAreMade DEF ReportOf
<1>3. \A name \in CLASS_ORDER : produced[name] = BuiltOf(r, name)
    BY <1>1 DEF BuildMutants, BuiltOf
<1> QED
  <2> TAKE name \in CLASS_ORDER
  <2>1. produced[name] = BuiltOf(r, name)
      BY <1>3
  <2>2. /\ report.classes[name].mutants = Cardinality(produced[name])
        /\ \A p \in Policies :
              /\ report.classes[name].policies[p] = Replay(produced[name], name, p)
              /\ report.gate[name][p] = CellOf(produced[name], name, p)
      BY ONLY <1>2, name \in CLASS_ORDER, ClassesAreReported, SMTT(30)
  <2> QED
      BY <2>1, <2>2

LEMMA ReportsCountClusters ==
    ASSUME guard \in Guard, NEW r \in Saved, NEW q, NEW report, report = ReportOf(r, q)
    PROVE  CountsClusters(report, r, guard)
<1> SUFFICES ASSUME NEW name \in CLASS_ORDER, NEW p \in Policies
    PROVE LET locked == CasesOf(r) \cap LockedIds
              built == {c \in locked : Builds(r, locked, name, c)}
              sees == p # "plain" \/ name \notin EVIDENCE_ONLY_CLASSES
              caught == {c \in built : sees /\ guard[c].mutant \in
                           IF Expects(name) THEN {"named"} ELSE {"named", "other"}}
              cell == report.gate[name][p]
          IN /\ cell.clusters = Cardinality(built) /\ cell.caught = Cardinality(caught)
             /\ cell.bound # Absent => /\ name \notin MANUAL_CLASSES
                                     /\ Cardinality(built) >= TARGET_LOCKED_CLUSTERS
                                     /\ cell.bound[1] = Cardinality(built \ caught)
    BY Zenon DEF CountsClusters
<1>1. PICK built : built = BuiltOf(r, name)
    OBVIOUS
<1>2. IsFiniteSet(built) /\ built \subseteq Case
    BY <1>1, LockedCasesAreFinite
<1>3. PICK caught, n, c, a :
         /\ caught = CaughtIn(built, name, p) /\ n = Cardinality(built)
         /\ c = Cardinality(caught) /\ a = Cardinality(Flagged(built, name, p))
    OBVIOUS
<1>4. PICK cell : cell = report.gate[name][p]
    OBVIOUS
<1>5. cell = Cell(name, n, c, a)
    BY <1>1, <1>2, <1>3, <1>4, ReportOfCases, CellsCount
<1>6. /\ cell.clusters = n /\ cell.caught = c
      /\ cell.bound = IF Eligible(name) /\ n >= TARGET_LOCKED_CLUSTERS
                      THEN <<n - c, n>> ELSE Absent
    BY <1>5 DEF Cell
<1>7. PICK sees \in BOOLEAN : sees = (p # "plain" \/ name \notin EVIDENCE_ONLY_CLASSES)
    OBVIOUS
<1>8. caught = {d \in built : sees /\ guard[d].mutant \in
                   IF Expects(name) THEN {"named"} ELSE {"named", "other"}}
  <2>1. ASSUME NEW d \in built
        PROVE  d \in caught <=> sees /\ guard[d].mutant \in
                   IF Expects(name) THEN {"named"} ELSE {"named", "other"}
    <3>1. /\ Codes(name, p, d) # {} <=> sees /\ guard[d].mutant \in {"named", "other"}
          /\ "expected" \in Codes(name, p, d) <=>
                sees /\ guard[d].mutant \in {"named"} /\ Expects(name)
        BY <1>2, <1>7, <2>1, CodesOfTheGuard
    <3> QED
        BY <1>3, <2>1, <3>1 DEF CaughtIn, NamedIn, Flagged
  <2>2. caught \subseteq built
      BY <1>3 DEF CaughtIn, NamedIn, Flagged
  <2> QED
      BY <2>1, <2>2
<1>9. Cardinality(built \ caught) = n - c
  <2>1. caught \subseteq built
      BY <1>8
  <2>2. built \cap caught = caught
      BY <2>1
  <2>3. Cardinality(built \ caught) = Cardinality(built) - Cardinality(built \cap caught)
      BY <1>2, FS_Difference
  <2> QED
      BY <1>3, <2>2, <2>3
<1>10. cell.bound # Absent => /\ name \notin MANUAL_CLASSES /\ n >= TARGET_LOCKED_CLUSTERS
                              /\ cell.bound[1] = Cardinality(built \ caught)
    BY <1>6, <1>9 DEF Eligible
<1>11. built = {d \in CasesOf(r) \cap LockedIds : Builds(r, CasesOf(r) \cap LockedIds, name, d)}
    BY <1>1 DEF BuiltOf, LockedCasesOf
<1> QED
    BY <1>3, <1>4, <1>6, <1>7, <1>8, <1>10, <1>11, Zenon

\* What the mutators ask of a case, by class.
LEMMA MutatorsAsk ==
    ASSUME NEW r, NEW population, NEW c
    PROVE  /\ Builds(r, population, "unsupported_figure", c) <=> Spans(RowIn(r, c))
           /\ Builds(r, population, "forced_answer_unanswerable", c) <=>
                 RowIn(r, c).accepted /\ RowIn(r, c).strip
           /\ Builds(r, population, "invented_provenance", c) <=> RowIn(r, c).evidence
           /\ Builds(r, population, "label_value_swap", c) =>
                 \E d \in population : SetOf[d] = SetOf[c] /\ <<c, d>> \in Numeric
           /\ Builds(r, population, "question_answer_mismatch", c) =>
                 \E d \in population : SetOf[d] = SetOf[c] /\ <<c, d>> \in Shares
<1>1. Builds(r, population, "unsupported_figure", c) <=> Spans(RowIn(r, c))
    BY DEF Builds, BuildsFigure, BuildsRelation, BuildsEvidence
<1>2. Builds(r, population, "forced_answer_unanswerable", c) <=>
         RowIn(r, c).accepted /\ RowIn(r, c).strip
    BY DEF Builds, BuildsFigure, BuildsRelation, BuildsEvidence
<1>3. Builds(r, population, "invented_provenance", c) <=> RowIn(r, c).evidence
    BY DEF Builds, BuildsFigure, BuildsRelation, BuildsEvidence
<1>4. Builds(r, population, "label_value_swap", c) =>
         \E d \in population : SetOf[d] = SetOf[c] /\ <<c, d>> \in Numeric
    BY DEF Builds, BuildsFigure, BuildsRelation, BuildsEvidence
<1>5. Builds(r, population, "question_answer_mismatch", c) =>
         \E d \in population : SetOf[d] = SetOf[c] /\ <<c, d>> \in Shares
    BY DEF Builds, BuildsFigure, BuildsRelation, BuildsEvidence
<1> QED
    BY <1>1, <1>2, <1>3, <1>4, <1>5

LEMMA ReportsAreBounded ==
    ASSUME NEW r \in Saved, NEW q, NEW report, report = ReportOf(r, q)
    PROVE  BoundedByInventory(report, r)
<1>1. /\ MANUAL_CLASSES \subseteq CLASS_ORDER
      /\ {"unsupported_figure", "forced_answer_unanswerable", "invented_provenance"}
            \subseteq CLASS_ORDER
      /\ {"label_value_swap", "question_answer_mismatch"} \subseteq CLASS_ORDER
    BY DEF MANUAL_CLASSES, CLASS_ORDER, EVIDENCE_ONLY_CLASSES
<1>2. LockedCasesOf(r) \subseteq CasesOf(r) /\ LockedCasesOf(r) \subseteq LockedIds
    BY DEF LockedCasesOf
<1>3. ASSUME NEW name \in {"unsupported_figure", "forced_answer_unanswerable",
                           "invented_provenance"}
      PROVE  Cardinality(Confirmed(r, name) \cap LockedIds) <= report.classes[name].mutants
  <2>1. PICK kept, built : kept = Confirmed(r, name) \cap LockedIds /\ built = BuiltOf(r, name)
      OBVIOUS
  <2>2. kept \in SUBSET built
    <3>1. ASSUME NEW c \in kept PROVE c \in built
      <4>1. c \in Confirmed(r, name) /\ c \in LockedCasesOf(r) /\ c \in CasesOf(r)
          BY <2>1, <3>1 DEF Confirmed, LockedCasesOf
      <4>2. Builds(r, LockedCasesOf(r), name, c)
        <5>1. CASE name = "unsupported_figure"
          <6>1. SupportedFigure(RowIn(r, c))
              BY <4>1, <5>1 DEF Confirmed, EVIDENCE_ONLY_CLASSES
          <6> QED
              BY <5>1, <6>1, MutatorsAsk DEF SupportedFigure, Spans
        <5>2. CASE name = "forced_answer_unanswerable"
          <6>1. RowIn(r, c).accepted /\ RowIn(r, c).strip
              BY <4>1, <5>2 DEF Confirmed, EVIDENCE_ONLY_CLASSES
          <6> QED
              BY <5>2, <6>1, MutatorsAsk
        <5>3. CASE name = "invented_provenance"
          <6>1. RowIn(r, c).evidence
              BY <4>1, <5>3 DEF Confirmed, EVIDENCE_ONLY_CLASSES
          <6> QED
              BY <5>3, <6>1, MutatorsAsk
        <5> QED
            BY <5>1, <5>2, <5>3
      <4> QED
          BY <2>1, <4>1, <4>2 DEF BuiltOf
    <3> QED
        BY <3>1
  <2>3. Cardinality(kept) <= Cardinality(built)
      BY <2>1, <2>2, LockedCasesAreFinite, FS_Subset
  <2>4. report.classes[name].mutants = Cardinality(built)
      BY <1>1, <2>1, ReportOfCases
  <2> QED
      BY <2>1, <2>3, <2>4
<1>4. ASSUME NEW name \in {"label_value_swap", "question_answer_mismatch"}
      PROVE  report.classes[name].mutants <= Cardinality(Candidates(r, name) \cap LockedIds)
  <2>1. PICK found, built : found = Candidates(r, name) \cap LockedIds /\ built = BuiltOf(r, name)
      OBVIOUS
  <2>2. built \in SUBSET found
    <3>1. ASSUME NEW c \in built PROVE c \in found
      <4>1. c \in LockedCasesOf(r) /\ Builds(r, LockedCasesOf(r), name, c)
          BY <2>1, <3>1 DEF BuiltOf
      <4>2. c \in Candidates(r, name)
        <5>1. CASE name = "label_value_swap"
          <6>1. \E d \in LockedCasesOf(r) : SetOf[d] = SetOf[c] /\ <<c, d>> \in Numeric
              BY <4>1, <5>1, MutatorsAsk
          <6>2. c \in CasesOf(r)
              BY <1>2, <4>1
          <6> QED
              BY <1>2, <5>1, <6>1, <6>2 DEF Candidates
        <5>2. CASE name = "question_answer_mismatch"
          <6>1. \E d \in LockedCasesOf(r) : SetOf[d] = SetOf[c] /\ <<c, d>> \in Shares
              BY <4>1, <5>2, MutatorsAsk
          <6>2. c \in CasesOf(r)
              BY <1>2, <4>1
          <6> QED
              BY <1>2, <5>2, <6>1, <6>2 DEF Candidates
        <5> QED
            BY <5>1, <5>2
      <4> QED
          BY <1>2, <2>1, <4>1, <4>2
    <3> QED
        BY <3>1
  <2>3. found \in SUBSET CasesOf(r)
      BY <1>4, <2>1 DEF Candidates
  <2>4. IsFiniteSet(found)
      BY <2>3, LockedCasesAreFinite, FS_Subset
  <2>5. Cardinality(built) <= Cardinality(found)
      BY <2>2, <2>4, FS_Subset
  <2>6. report.classes[name].mutants = Cardinality(built)
      BY <1>1, <2>1, ReportOfCases
  <2> QED
      BY <2>1, <2>5, <2>6
<1> QED
    BY <1>3, <1>4 DEF BoundedByInventory
-----------------------------------------------------------------------------
(* Whoever edits one number of a report is found out.                         *)

\* A cell and the counters of one class and policy, as they are measured.
Measures(name, cell, mutants, result) ==
    /\ mutants \in Nat
    /\ cell.clusters \in Nat /\ cell.caught \in Nat /\ cell.any \in Nat
    /\ cell = Cell(name, cell.clusters, cell.caught, cell.any)
    /\ SectionsAgree(name, cell, result.counts)
    /\ result = [counts |-> result.counts, flags |-> result.flags]
    /\ result.counts # Absent =>
          /\ result.counts \in [n : Nat, caught : Nat, expected : Nat, published : Nat,
                                review : Nat, released : Nat]
          /\ mutants > 0 /\ result.counts.n = mutants
          /\ result.counts.published = result.counts.n - result.counts.caught
          /\ result.counts.review + result.counts.released = result.counts.n

LEMMA CellsAreMeasured ==
    ASSUME NEW cases, IsFiniteSet(cases), NEW name, NEW p
    PROVE  Measures(name, CellOf(cases, name, p), Cardinality(cases), Replay(cases, name, p))
<1>1. PICK n, c, a, counts, cell, result :
         /\ n = Cardinality(cases) /\ c = Cardinality(CaughtIn(cases, name, p))
         /\ a = Cardinality(Flagged(cases, name, p))
         /\ result = Replay(cases, name, p) /\ counts = result.counts
         /\ cell = CellOf(cases, name, p)
    OBVIOUS
<1>2. n \in Nat /\ c \in Nat /\ a \in Nat
    BY <1>1, CaughtAreSome
<1>3. /\ (counts = Absent) = (cases = {})
      /\ counts # Absent => counts = CountersOf(cases, name, p)
      /\ CountIn(counts, "n") = n /\ CountIn(counts, "caught") = a
      /\ CountIn(counts, "expected") = Cardinality(NamedIn(cases, name, p))
    BY <1>1, CountsAreKept
<1>4. cell = Cell(name, n, c, a)
    BY <1>1, CellsCount
<1>5. cell.clusters = n /\ cell.caught = c /\ cell.any = a
    BY <1>4 DEF Cell
<1>6. SectionsAgree(name, cell, counts)
  <2>1. CountIn(counts, IF Expects(name) THEN "expected" ELSE "caught") = c
      BY <1>1, <1>3 DEF CaughtIn
  <2> QED
      BY <1>3, <1>5, <2>1 DEF SectionsAgree
<1>7. result = [counts |-> result.counts, flags |-> result.flags]
  <2>1. CASE cases = {}
      BY <1>1, <2>1 DEF Replay
  <2>2. CASE cases # {}
      BY <1>1, <2>2 DEF Replay
  <2> QED
      BY <2>1, <2>2
<1>8. counts # Absent =>
         /\ counts \in [n : Nat, caught : Nat, expected : Nat, published : Nat,
                        review : Nat, released : Nat]
         /\ n > 0 /\ counts.n = n
         /\ counts.published = counts.n - counts.caught
         /\ counts.review + counts.released = counts.n
  <2> HAVE counts # Absent
  <2>1. counts = CountersOf(cases, name, p)
      BY <1>3
  <2>2. counts \in [n : Nat, caught : Nat, expected : Nat, published : Nat,
                    review : Nat, released : Nat]
      BY <2>1, CountersAreNumbers
  <2>3. n # 0
      BY <1>1, <1>3, FS_EmptySet
  <2>4. PICK h : h = Cardinality(HeldIn(cases))
      OBVIOUS
  <2>5. /\ counts.n = n /\ counts.caught = a /\ counts.published = n - a
        /\ counts.review = h /\ counts.released = n - h
      BY <1>1, <2>1, <2>4 DEF CountersOf
  <2>6. h \in Nat
      BY <2>2, <2>5
  <2> QED
      BY <1>2, <2>2, <2>3, <2>5, <2>6
<1>9. Measures(name, cell, n, result)
    BY <1>1, <1>2, <1>4, <1>5, <1>6, <1>7, <1>8 DEF Measures
<1> QED
    BY <1>1, <1>9

\* A changed number of the gate does not agree with the counters, or with the others.
LEMMA ChangedCellsFall ==
    ASSUME NEW name, NEW cell, NEW mutants, NEW result, Measures(name, cell, mutants, result),
           NEW f \in {"clusters", "caught", "any", "missed"}, NEW v \in Changed(cell[f]),
           NEW new, new = [cell EXCEPT ![f] = v]
    PROVE  ~(CellStands(name, new) /\ SectionsAgree(name, new, result.counts))
<1>1. /\ cell.clusters \in Nat /\ cell.caught \in Nat /\ cell.any \in Nat
      /\ cell = Cell(name, cell.clusters, cell.caught, cell.any)
      /\ SectionsAgree(name, cell, result.counts)
    BY DEF Measures
<1>2. PICK n, c, a : n = cell.clusters /\ c = cell.caught /\ a = cell.any
    OBVIOUS
<1>3. cell = Cell(name, n, c, a) /\ n \in Nat /\ c \in Nat /\ a \in Nat
    BY <1>1, <1>2
<1>4. CASE f = "missed"
  <2>1. new.missed = v /\ new.clusters = n /\ new.caught = c /\ cell[f] = n - c
      BY <1>3, <1>4 DEF Cell
  <2> QED
      BY <1>3, <2>1 DEF CellStands, Changed
<1>5. CASE f \in {"clusters", "caught", "any"}
  <2>1. new[f] = v /\ cell[f] \in Nat
      BY <1>1, <1>3, <1>5 DEF Cell
  <2>2. v # cell[f]
      BY <2>1 DEF Changed
  <2> QED
      BY <1>1, <1>5, <2>1, <2>2 DEF SectionsAgree
<1> QED
    BY <1>4, <1>5

LEMMA ChangedBoundsFall ==
    ASSUME NEW name, NEW cell, NEW mutants, NEW result, Measures(name, cell, mutants, result),
           NEW b \in {Absent, <<0, TARGET_LOCKED_CLUSTERS>>} \ {cell.bound},
           NEW new, new = [cell EXCEPT !.bound = b]
    PROVE  ~CellStands(name, new)
<1>1. PICK n, c, a : n = cell.clusters /\ c = cell.caught /\ a = cell.any
    OBVIOUS
<1>2. cell = Cell(name, n, c, a) /\ n \in Nat /\ c \in Nat /\ a \in Nat
    BY <1>1 DEF Measures
<1>3. /\ new.bound = b /\ new.clusters = n /\ new.missed = n - c
      /\ cell.bound = IF Eligible(name) /\ n >= TARGET_LOCKED_CLUSTERS
                      THEN <<n - c, n>> ELSE Absent
    BY <1>2 DEF Cell
<1>4. new.floor = (n >= TARGET_LOCKED_CLUSTERS)
    BY <1>2, Zenon DEF Cell
<1>5. CASE b = Absent
  <2>1. Eligible(name) /\ new.floor
      BY <1>3, <1>4, <1>5
  <2> QED
      BY <1>3, <1>5, <2>1 DEF CellStands
<1>6. CASE b # Absent
  <2>1. CASE Eligible(name) /\ new.floor
    <3>1. b # <<n - c, n>>
        BY <1>3, <1>4, <2>1
    <3> QED
        BY <1>3, <1>6, <3>1 DEF CellStands, Bound
  <2>2. CASE ~(Eligible(name) /\ new.floor)
      BY <1>3, <1>6, <2>2 DEF CellStands
  <2> QED
      BY <2>1, <2>2
<1> QED
    BY <1>5, <1>6

\* A changed counter does not agree with the mutants, with another one or the gate.
LEMMA ChangedCountersFall ==
    ASSUME NEW name, NEW cell, NEW mutants, NEW result, Measures(name, cell, mutants, result),
           result.counts # Absent,
           NEW f \in DerivedCounters(name),
           NEW v \in Changed(result.counts[f]),
           NEW counts, counts = [result.counts EXCEPT ![f] = v],
           NEW new, new = [result EXCEPT !.counts = counts]
    PROVE  ~(CountsStand(mutants, new) /\ SectionsAgree(name, cell, new.counts))
<1>1. /\ result.counts \in [n : Nat, caught : Nat, expected : Nat, published : Nat,
                            review : Nat, released : Nat]
      /\ mutants \in Nat /\ mutants > 0 /\ result.counts.n = mutants
      /\ result.counts.published = result.counts.n - result.counts.caught
      /\ result.counts.review + result.counts.released = result.counts.n
      /\ SectionsAgree(name, cell, result.counts)
    BY DEF Measures
<1>2. new.counts = counts
    BY DEF Measures
<1>3. PICK old : old = result.counts
    OBVIOUS
<1>4. f \in {"n", "caught", "published", "review", "released", "expected"}
    BY DEF DerivedCounters
<1>5. v # old[f] /\ v \in Int
    BY <1>1, <1>3, <1>4 DEF Changed
<1>6. CASE counts = Absent
  <2>1. CountsStand(mutants, new) => mutants = 0
      BY <1>2, <1>6, Zenon DEF CountsStand
  <2> QED
      BY <1>1, <2>1
<1>7. CASE counts # Absent
  <2>1. /\ CountsStand(mutants, new) => counts.n = mutants
        /\ CountsStand(mutants, new) => counts.published = counts.n - counts.caught
        /\ CountsStand(mutants, new) => counts.review + counts.released = counts.n
      BY <1>2, <1>7, Zenon DEF CountsStand
  <2>2. CASE f = "expected"
    <3>1. Expects(name) /\ counts["expected"] = v
        BY <1>1, <2>2 DEF DerivedCounters
    <3>2. CountIn(counts, "expected") = v /\ CountIn(old, "expected") = old["expected"]
        BY <1>3, <1>7, <3>1 DEF CountIn
    <3>3. cell.caught = old["expected"]
        BY <1>1, <1>3, <3>1, <3>2 DEF SectionsAgree
    <3> QED
        BY <1>2, <1>5, <2>2, <3>1, <3>2, <3>3 DEF SectionsAgree
  <2>3. CASE f = "n"
    <3>1. counts.n = v
        BY <1>1, <2>3
    <3> QED
        BY <1>1, <1>3, <1>5, <2>1, <2>3, <3>1
  <2>4. CASE f = "caught"
    <3>1. counts.caught = v /\ counts.n = old.n /\ counts.published = old.published
        BY <1>1, <1>3, <2>4
    <3> QED
        BY <1>1, <1>3, <1>5, <2>1, <2>4, <3>1
  <2>5. CASE f = "published"
    <3>1. counts.published = v /\ counts.n = old.n /\ counts.caught = old.caught
        BY <1>1, <1>3, <2>5
    <3> QED
        BY <1>1, <1>3, <1>5, <2>1, <2>5, <3>1
  <2>6. CASE f = "review"
    <3>1. counts.review = v /\ counts.n = old.n /\ counts.released = old.released
        BY <1>1, <1>3, <2>6
    <3> QED
        BY <1>1, <1>3, <1>5, <2>1, <2>6, <3>1
  <2>7. CASE f = "released"
    <3>1. counts.released = v /\ counts.n = old.n /\ counts.review = old.review
        BY <1>1, <1>3, <2>7
    <3> QED
        BY <1>1, <1>3, <1>5, <2>1, <2>7, <3>1
  <2> QED
      BY <1>4, <2>2, <2>3, <2>4, <2>5, <2>6, <2>7
<1> QED
    BY <1>6, <1>7

\* What a report written by hand differs in.
GateWith(report, name, p, cell) == [report EXCEPT !.gate[name][p] = cell]
ClassWith(report, name, p, result) == [report EXCEPT !.classes[name].policies[p] = result]

LEMMA GatesAreEdited ==
    ASSUME NEW report, NEW r, NEW q, NEW population, NEW classes,
           report = MadeOf(r, q, population, classes),
           NEW name \in CLASS_ORDER, NEW p \in Policies, NEW cell,
           NEW e, e = GateWith(report, name, p, cell)
    PROVE  e.gate[name][p] = cell /\ e.classes = report.classes
<1>1. PICK gate : gate = report.gate
    OBVIOUS
<1>2. gate = [m \in CLASS_ORDER |-> [s \in Policies |->
                 GateCell(m, classes[m].policies[s].counts)]]
    BY <1>1 DEF MadeOf
<1>3. PICK old : old = [s \in Policies |-> GateCell(name, classes[name].policies[s].counts)]
    OBVIOUS
<1>4. gate[name] = old
    BY <1>2, <1>3
<1>5. PICK row : row = [old EXCEPT ![p] = cell]
    OBVIOUS
<1>6. row[p] = cell
    BY <1>3, <1>5
<1>7. PICK new : new = [gate EXCEPT ![name] = row]
    OBVIOUS
<1>8. new[name] = row
    BY <1>2, <1>7
<1>9. e = [report EXCEPT !.gate = new]
    BY <1>1, <1>4, <1>5, <1>7 DEF GateWith
<1>10. e.gate = new /\ e.classes = report.classes
    BY <1>9 DEF MadeOf
<1> QED
    BY <1>6, <1>8, <1>10

LEMMA ClassesAreEdited ==
    ASSUME NEW report, NEW r, NEW q, NEW population, NEW produced,
           report = MadeOf(r, q, population, ClassesOf(produced)),
           NEW name \in CLASS_ORDER, NEW p \in Policies, NEW result,
           NEW e, e = ClassWith(report, name, p, result)
    PROVE  /\ e.classes[name].policies[p] = result /\ e.gate = report.gate
           /\ e.classes[name].mutants = report.classes[name].mutants
<1>1. PICK classes : classes = ClassesOf(produced)
    OBVIOUS
<1>2. report.classes = classes
    BY <1>1 DEF MadeOf
<1>3. PICK class, policies :
         /\ policies = [s \in Policies |-> Replay(produced[name], name, s)]
         /\ class = [mutants |-> Cardinality(produced[name]), policies |-> policies]
    OBVIOUS
<1>4. classes[name] = class
    BY <1>1, <1>3 DEF ClassesOf
<1>5. PICK row : row = [policies EXCEPT ![p] = result]
    OBVIOUS
<1>6. row[p] = result
    BY <1>3, <1>5
<1>7. PICK newclass : newclass = [class EXCEPT !.policies = row]
    OBVIOUS
<1>8. newclass.policies = row /\ newclass.mutants = class.mutants
    BY <1>3, <1>7
<1>9. PICK new : new = [classes EXCEPT ![name] = newclass]
    OBVIOUS
<1>10. new[name] = newclass
    BY <1>1, <1>9 DEF ClassesOf
<1>11. class.policies = policies
    BY <1>3
<1>12. e = [report EXCEPT !.classes = new]
    BY <1>2, <1>4, <1>5, <1>7, <1>9, <1>11 DEF ClassWith
<1>13. e.classes = new /\ e.gate = report.gate
    BY <1>12 DEF MadeOf
<1> QED
    BY <1>2, <1>4, <1>6, <1>8, <1>10, <1>13

LEMMA ReportsTellEdits ==
    ASSUME NEW r \in Saved, NEW q, NEW report, report = ReportOf(r, q)
    PROVE  TellsEdits(report)
<1> SUFFICES ASSUME NEW name \in CLASS_ORDER, NEW p \in Policies,
                    NEW e \in EditsOf(report, name, p)
             PROVE  ~Stands(e, name, p)
    BY DEF TellsEdits
<1>1. PICK population, produced :
         population = LockedCasesOf(r) /\ produced = BuildMutants(r, population)
    OBVIOUS
<1>2. report = MadeOf(r, q, population, ClassesOf(produced))
    BY <1>1, ReportsAreMade DEF ReportOf
<1>3. PICK cell, mutants, result, counts :
         /\ cell = report.gate[name][p] /\ mutants = report.classes[name].mutants
         /\ result = report.classes[name].policies[p] /\ counts = result.counts
    OBVIOUS
<1>4. Measures(name, cell, mutants, result)
  <2>1. /\ mutants = Cardinality(BuiltOf(r, name)) /\ result = Replay(BuiltOf(r, name), name, p)
        /\ cell = CellOf(BuiltOf(r, name), name, p)
      BY <1>3, ReportOfCases
  <2> QED
      BY <2>1, LockedCasesAreFinite, CellsAreMeasured
<1>5. Stands(e, name, p) <=>
         /\ CellStands(name, e.gate[name][p])
         /\ CountsStand(e.classes[name].mutants, e.classes[name].policies[p])
         /\ SectionsAgree(name, e.gate[name][p], e.classes[name].policies[p].counts)
    BY Zenon DEF Stands
<1>6. ASSUME NEW f \in {"clusters", "caught", "any", "missed"}, NEW v \in Changed(cell[f]),
             e = [report EXCEPT !.gate[name][p][f] = v]
      PROVE  ~Stands(e, name, p)
  <2>1. PICK new : new = [cell EXCEPT ![f] = v]
      OBVIOUS
  <2>2. e = GateWith(report, name, p, new)
      BY <1>3, <1>6, <2>1 DEF GateWith
  <2>3. e.gate[name][p] = new /\ e.classes = report.classes
      BY <1>2, <2>2, GatesAreEdited
  <2>4. ~(CellStands(name, new) /\ SectionsAgree(name, new, result.counts))
      BY <1>4, <1>6, <2>1, ChangedCellsFall
  <2> QED
      BY <1>3, <1>5, <2>3, <2>4
<1>7. ASSUME NEW b \in {Absent, <<0, TARGET_LOCKED_CLUSTERS>>} \ {cell.bound},
             e = [report EXCEPT !.gate[name][p].bound = b]
      PROVE  ~Stands(e, name, p)
  <2>1. PICK new : new = [cell EXCEPT !.bound = b]
      OBVIOUS
  <2>2. e = GateWith(report, name, p, new)
      BY <1>3, <1>7, <2>1 DEF GateWith
  <2>3. e.gate[name][p] = new /\ e.classes = report.classes
      BY <1>2, <2>2, GatesAreEdited
  <2>4. ~CellStands(name, new)
      BY <1>4, <1>7, <2>1, ChangedBoundsFall
  <2> QED
      BY <1>3, <1>5, <2>3, <2>4
<1>8. ASSUME counts # Absent,
             NEW f \in DerivedCounters(name),
             NEW v \in Changed(counts[f]),
             e = [report EXCEPT !.classes[name].policies[p].counts[f] = v]
      PROVE  ~Stands(e, name, p)
  <2>1. PICK newcounts, new : /\ newcounts = [counts EXCEPT ![f] = v]
                              /\ new = [result EXCEPT !.counts = newcounts]
      OBVIOUS
  <2>2. e = ClassWith(report, name, p, new)
      BY <1>3, <1>8, <2>1 DEF ClassWith
  <2>3. /\ e.classes[name].policies[p] = new /\ e.gate = report.gate
        /\ e.classes[name].mutants = report.classes[name].mutants
      BY <1>2, <2>2, ClassesAreEdited
  <2>4. ~(CountsStand(mutants, new) /\ SectionsAgree(name, cell, new.counts))
      BY <1>3, <1>4, <1>8, <2>1, ChangedCountersFall
  <2> QED
      BY <1>3, <1>5, <2>3, <2>4
<1>9. \/ \E f \in {"clusters", "caught", "any", "missed"} : e \in CellEdits(report, name, p, f)
      \/ e \in BoundEdits(report, name, p)
      \/ \E f \in DerivedCounters(name) : e \in CounterEdits(report, name, p, f)
    BY DEF EditsOf
<1>10. ASSUME NEW f, e \in CellEdits(report, name, p, f)
       PROVE  \E v \in Changed(cell[f]) : e = [report EXCEPT !.gate[name][p][f] = v]
    BY <1>3, <1>10, Zenon DEF CellEdits
<1>11. ASSUME e \in BoundEdits(report, name, p)
       PROVE  \E b \in {Absent, <<0, TARGET_LOCKED_CLUSTERS>>} \ {cell.bound} :
                 e = [report EXCEPT !.gate[name][p].bound = b]
    BY <1>3, <1>11, Zenon DEF BoundEdits
<1>12. ASSUME NEW f, e \in CounterEdits(report, name, p, f)
       PROVE  /\ counts # Absent
              /\ \E v \in Changed(counts[f]) :
                    e = [report EXCEPT !.classes[name].policies[p].counts[f] = v]
    BY <1>3, <1>12, Zenon DEF CounterEdits
<1>13. CASE \E f \in {"clusters", "caught", "any", "missed"} : e \in CellEdits(report, name, p, f)
    BY <1>6, <1>10, <1>13, Zenon
<1>14. CASE e \in BoundEdits(report, name, p)
    BY <1>7, <1>11, <1>14, Zenon
<1>15. CASE \E f \in DerivedCounters(name) : e \in CounterEdits(report, name, p, f)
    BY <1>8, <1>12, <1>15, Zenon
<1> QED
    BY <1>9, <1>13, <1>14, <1>15
-----------------------------------------------------------------------------
(* A report is measured and written.                                          *)

LEMMA MeasuredReports ==
    ASSUME Filed, Screened, loader.pc = "measure", NEW report,
           report = ReportOf(loader.r, loader.q),
           Cardinality(LockedCasesOf(loader.r)) = stated.locked
    PROVE  /\ SpeaksOfTheStated(report)
           /\ CountsClusters(report, stated.r, guard)
           /\ BoundedByInventory(report, stated.r) /\ TellsEdits(report)
<1>1. PICK r, q : r = stated.r /\ q = stated.q
    OBVIOUS
<1>2. loader.r = r /\ loader.q = q
    BY <1>1 DEF Screened
<1>3. r \in Saved
    BY <1>2 DEF Filed, Loaders
<1>4. report = ReportOf(r, q)
    BY <1>2
<1>5. /\ CountsClusters(report, r, guard)
      /\ BoundedByInventory(report, r) /\ TellsEdits(report)
    BY <1>3, <1>4, ReportsCountClusters, ReportsAreBounded, ReportsTellEdits DEF Screened
<1>6. gated.gate = StatedChain /\ gated.head = stated.head
    BY DEF Filed, Screened, Chained, Dated
<1>7. /\ report.contract = gated.gate /\ report.head = gated.head
      /\ report.locked = Cardinality(LockedCasesOf(r))
      /\ report.development = Cardinality(CasesOf(r) \ LockedCasesOf(r))
      /\ report.source = [q |-> q, r |-> r]
  <2>1. PICK population, produced :
           population = LockedCasesOf(r) /\ produced = BuildMutants(r, population)
      OBVIOUS
  <2>2. PICK classes : classes = ClassesOf(produced)
      OBVIOUS
  <2>3. report = MadeOf(r, q, population, classes)
      BY <1>4, <2>1, <2>2, ReportsAreMade DEF ReportOf
  <2>4. /\ report.contract = gated.gate /\ report.head = gated.head
        /\ report.locked = Cardinality(population)
        /\ report.development = Cardinality(CasesOf(r) \ population)
        /\ report.source = [q |-> q, r |-> r]
      BY ONLY <2>3 DEF MadeOf
  <2> QED
      BY <2>1, <2>4
<1>8. Cardinality(LockedCasesOf(r)) + Cardinality(CasesOf(r) \ LockedCasesOf(r))
         = Cardinality(CasesOf(r))
  <2>1. IsFiniteSet(CasesOf(r)) /\ IsFiniteSet(LockedCasesOf(r))
      BY <1>3, LockedCasesAreFinite
  <2>2. CasesOf(r) \cap LockedCasesOf(r) = LockedCasesOf(r)
      BY DEF LockedCasesOf
  <2>3. Cardinality(CasesOf(r) \ LockedCasesOf(r)) =
           Cardinality(CasesOf(r)) - Cardinality(CasesOf(r) \cap LockedCasesOf(r))
      BY <2>1, FS_Difference
  <2>4. Cardinality(CasesOf(r)) \in Nat /\ Cardinality(LockedCasesOf(r)) \in Nat
      BY <2>1, FS_CardinalityType
  <2> QED
      BY <2>2, <2>3, <2>4
<1>9. SpeaksOfTheStated(report)
    BY <1>1, <1>2, <1>6, <1>7, <1>8 DEF SpeaksOfTheStated, LockedCasesOf
<1> QED
    BY <1>1, <1>5, <1>9

LEMMA MeasureStays ==
    ASSUME Filed, Screened, Unedited, Measure, Kept
    PROVE  Filed' /\ Screened' /\ Unedited'
<1>1. loader.pc = "measure" /\ loader.job = "screening" /\ loader \in Loaders
    BY DEF Measure, Filed
<1>2. /\ PinsHold /\ PinsHold' /\ StatedChain' = StatedChain
      /\ gated.gate = StatedChain /\ gated.head = stated.head
      /\ loader.q = stated.q /\ loader.r = stated.r
    BY <1>1 DEF Screened, Begun, Chained, Dated, PinsHold, StatedChain, Kept
<1>3. PICK report : report = ReportOf(loader.r, loader.q)
    OBVIOUS
<1>4. \/ loader' = Refused(loader) /\ gated' = gated
      \/ /\ Cardinality(LockedCasesOf(loader.r)) = stated.locked
         /\ loader' = [loader EXCEPT !.pc = "output"]
         /\ gated' = [gated EXCEPT !.report = report]
    BY <1>3 DEF Measure, ReportOf, LockedCasesOf
<1>5. CASE loader' = Refused(loader) /\ gated' = gated
  <2>1. GoesTo("refused")
      BY <1>1, <1>5, LoaderIsRefused
  <2>2. Filed'
      BY <1>1, <2>1, FilesOfARun DEF Kept, GoesTo
  <2>3. Screened'
      BY <1>1, <1>2, <1>5, <2>1
      DEF Screened, Begun, Opening, Chained, Dated, SpeaksOfTheStated, Kept, GoesTo
  <2>4. Unedited'
      BY <1>1, <1>5, <2>1 DEF Unedited, Dated, Kept, GoesTo
  <2> QED
      BY <2>2, <2>3, <2>4
<1>6. CASE /\ Cardinality(LockedCasesOf(loader.r)) = stated.locked
           /\ loader' = [loader EXCEPT !.pc = "output"]
           /\ gated' = [gated EXCEPT !.report = report]
  <2>1. GoesTo("output")
      BY <1>1, <1>6, LoaderGoesTo DEF LoaderSteps
  <2>2. Filed'
      BY <1>1, <2>1, FilesOfARun DEF Kept, GoesTo
  <2>3. PICK g : g = gated'
      OBVIOUS
  <2>4. /\ g.gate = gated.gate /\ g.head = gated.head /\ g.report = report /\ g.code = gated.code
        /\ g = [gate |-> g.gate, head |-> g.head, report |-> g.report, code |-> g.code]
      BY <1>6, <2>3 DEF Unedited
  <2>5. /\ SpeaksOfTheStated(report)
        /\ CountsClusters(report, stated.r, guard)
        /\ BoundedByInventory(report, stated.r) /\ TellsEdits(report)
      BY <1>1, <1>3, <1>6, MeasuredReports
  <2>6. report.head = stated.head
      BY <2>5 DEF SpeaksOfTheStated
  <2>7. Screened'
      BY <1>1, <1>2, <2>1, <2>3, <2>4, <2>5
      DEF Screened, Begun, Opening, Chained, Dated, SpeaksOfTheStated, Kept, GoesTo
  <2>8. Unedited'
      BY <1>1, <1>2, <2>1, <2>3, <2>4, <2>6 DEF Unedited, Dated, Kept, GoesTo
  <2> QED
      BY <2>2, <2>7, <2>8
<1> QED
    BY <1>4, <1>5, <1>6

LEMMA WriteReportStays ==
    ASSUME Filed, Screened, Unedited, WriteReport,
           UNCHANGED <<questions, results, edits, contract, tree, stated, guard>>
    PROVE  Filed' /\ Screened' /\ Unedited'
<1>1. /\ questions' = questions /\ results' = results /\ edits' = edits /\ tree' = tree
      /\ stated' = stated /\ guard' = guard
      /\ loader \in Loaders /\ StatedChain' = StatedChain /\ PinsHold' = PinsHold
    BY DEF Filed, StatedChain, PinsHold
<1>2. CASE /\ loader.pc = "output" /\ gated' = gated
           /\ output' = output \/ output' = Partial
           /\ loader' = [loader EXCEPT !.pc = "written"] \/ loader' = Refused(loader)
  <2>1. GoesTo("written") \/ GoesTo("refused")
      BY <1>1, <1>2, LoaderGoesTo, LoaderIsRefused DEF LoaderSteps
  <2>2. Filed'
      BY <1>1, <1>2, <2>1, FilesOfARun DEF GoesTo, Filed
  <2>3. Screened'
      BY <1>1, <1>2, <2>1
      DEF Screened, Begun, Opening, Chained, Dated, SpeaksOfTheStated, GoesTo
  <2>4. Unedited'
      BY <1>1, <1>2, <2>1 DEF Unedited, Dated, GoesTo
  <2> QED
      BY <2>2, <2>3, <2>4
<1>3. CASE loader.pc = "written" /\ output' = gated.report /\ loader' = NoLoad /\ gated' = NoGate
  <2>1. Anew("idle")
      BY <1>3, LoaderEnds
  <2>2. Filed'
      BY <1>1, <2>1, FilesOfARun DEF Anew
  <2>3. /\ gated'.report = Absent
        /\ gated' = [gate |-> gated'.gate, head |-> gated'.head, report |-> gated'.report,
                     code |-> gated'.code]
      BY <1>3 DEF NoGate
  <2>4. output' \notin {Absent, Partial} => SpeaksOfTheStated(output')
      BY <1>3 DEF Screened
  <2>5. Screened'
      BY <1>1, <2>1, <2>3, <2>4, NothingLoaded
      DEF Screened, Begun, Opening, Chained, Dated, SpeaksOfTheStated, Anew
  <2>6. Unedited'
      BY <1>1, <2>1, <2>3, NothingLoaded DEF Unedited, Dated, Anew
  <2> QED
      BY <2>2, <2>5, <2>6
<1> QED
    BY <1>2, <1>3 DEF WriteReport

LEMMA RunEndsStays ==
    ASSUME Filed, Screened, Unedited, RunEnds, Kept, gated' = gated \/ gated' = NoGate
    PROVE  Filed' /\ Screened' /\ Unedited'
<1>1. Anew("idle")
    BY LoaderEnds DEF RunEnds
<1>2. Filed'
    BY <1>1, FilesOfARun DEF Kept, Anew
<1>3. Screened' /\ Unedited'
    BY <1>1, NoScreeningRuns, NothingLoaded DEF Kept, Anew
<1> QED
    BY <1>2, <1>3

\* What an inventory leaves alone.
Spared == UNCHANGED <<questions, results, edits, screening>>

LEMMA BeginInventoryStays ==
    ASSUME Filed, Screened, Unedited, NEW i \in Paths, BeginInventory(i), Spared
    PROVE  Filed' /\ Screened' /\ Unedited'
<1>1. /\ loader' \in Loaders /\ loader'.pc \in {"load", "refused"}
      /\ loader'.job = "inventory" /\ loader'.path = i
    BY InventoryBegins DEF BeginInventory
<1>2. /\ UNCHANGED <<questions, results, edits, tree, stated, guard, output>> /\ gated' = gated
    BY DEF Spared, screening
<1>3. Filed'
    BY <1>1, <1>2, FilesOfARun
<1>4. Screened' /\ Unedited'
    BY <1>1, <1>2, NoScreeningRuns
<1> QED
    BY <1>3, <1>4

LEMMA InventoryStays ==
    ASSUME Filed, Screened, Unedited, WritePackage \/ WriteAggregate, Spared
    PROVE  Filed' /\ Screened' /\ Unedited'
<1>1. loader.job = "inventory" /\ loader \in Loaders
    BY DEF WritePackage, WriteAggregate, Filed
<1>2. /\ UNCHANGED <<questions, results, edits, tree, stated, guard, output>> /\ gated' = gated
    BY DEF Spared, screening
<1>3. /\ loader.pc \in {"load", "package", "report", "text"} /\ loader.path \in Paths
      /\ \/ loader' = NoLoad \/ loader' = Refused(loader)
         \/ \E pc \in {"package", "report", "text"} : loader' = [loader EXCEPT !.pc = pc]
    BY <1>1 DEF WritePackage, WriteAggregate, Loaded, Filed
<1>4. CASE loader' = NoLoad
  <2>1. Anew("idle")
      BY <1>4, LoaderEnds
  <2>2. Filed'
      BY <1>2, <2>1, FilesOfARun DEF Anew
  <2>3. Screened' /\ Unedited'
      BY <1>2, <2>1, NoScreeningRuns, NothingLoaded DEF Anew
  <2> QED
      BY <2>2, <2>3
<1>5. CASE \/ loader' = Refused(loader)
           \/ \E pc \in {"package", "report", "text"} : loader' = [loader EXCEPT !.pc = pc]
  <2>1. \E pc \in {"refused", "package", "report", "text"} : GoesTo(pc)
      BY <1>1, <1>5, LoaderGoesTo, LoaderIsRefused DEF LoaderSteps
  <2>2. Filed'
      BY <1>1, <1>2, <1>3, <2>1, FilesOfARun DEF GoesTo
  <2>3. Screened' /\ Unedited'
      BY <1>1, <1>2, <2>1, NoScreeningRuns DEF GoesTo
  <2> QED
      BY <2>2, <2>3
<1> QED
    BY <1>3, <1>4, <1>5

-----------------------------------------------------------------------------
(* Every step of an evaluation.                                               *)

LEMMA ScreeningSteps ==
    ASSUME Filed, Screened, Unedited, ScreeningNext
    PROVE  Filed' /\ Screened' /\ Unedited'
<1>1. UNCHANGED <<stated, guard>>
    BY DEF ScreeningNext
<1>2. CASE /\ edits' = edits + 1
           /\ UNCHANGED <<questions, results, loader, gated, output>>
  <2>1. Filed' /\ edits' # 0
      BY <1>2, FilesAreEdited DEF Filed
  <2>2. Screened' /\ Unedited'
      BY <1>1, <1>2, <2>1, EditsAreCounted
  <2> QED
      BY <2>1, <2>2
<1>3. CASE EditFile /\ UNCHANGED <<loader, contract, tree, gated, output>>
  <2>1. Filed' /\ edits' # 0
      BY <1>3, EditFileFiles
  <2>2. Screened' /\ Unedited'
      BY <1>1, <1>3, <2>1, EditsAreCounted
  <2> QED
      BY <2>1, <2>2
<1>4. CASE /\ \/ BeginScreening \/ ReadBase \/ VerifyContractChain \/ RequireCleanTree
              \/ ReadHead \/ CheckSource \/ CountQuestionFiles \/ Measure
           /\ UNCHANGED <<questions, results, edits, contract, tree, output>>
  <2>1. Kept
      BY <1>1, <1>4 DEF Kept
  <2> QED
      BY <1>4, <2>1, BeginScreeningStays, ReadBaseStays, VerifyContractChainStays,
         RequireCleanTreeStays, ReadHeadStays, CheckSourceStays, CountQuestionFilesStays,
         MeasureStays
<1>5. CASE /\ ReadQuestions \/ ReadResults
           /\ UNCHANGED <<questions, results, edits, contract, tree, gated, output>>
  <2>1. Kept /\ gated' = gated
      BY <1>1, <1>5 DEF Kept
  <2> QED
      BY <1>5, <2>1, ReadsStay
<1>6. CASE /\ RunEnds /\ gated' = NoGate
           /\ UNCHANGED <<questions, results, edits, contract, tree, output>>
  <2>1. Kept
      BY <1>1, <1>6 DEF Kept
  <2> QED
      BY <1>6, <2>1, RunEndsStays
<1>7. CASE WriteReport /\ UNCHANGED <<questions, results, edits, contract, tree>>
    BY <1>1, <1>7, WriteReportStays
<1> QED
    BY <1>2, <1>3, <1>4, <1>5, <1>6, <1>7 DEF ScreeningNext

LEMMA ReviewSteps ==
    ASSUME Evaluated, ReviewNext, UNCHANGED screening
    PROVE  Evaluated'
<1>1. Filed /\ Archived /\ Screened /\ Unedited
    BY DEF Evaluated
<1>2. /\ UNCHANGED <<stated, guard, contract, tree, gated, output>> /\ gated' = gated
    BY DEF screening
<1>3. CASE EditFile /\ UNCHANGED <<loader, packet, aggregate, judging, reviewed>>
  <2>1. Filed' /\ edits' # 0
      BY <1>1, <1>3, EditFileFiles
  <2>2. Screened' /\ Unedited'
      BY <1>1, <1>2, <1>3, <2>1, EditsAreCounted
  <2>3. Archived'
      BY <1>1, <1>3, ArchiveStands
  <2> QED
      BY <2>1, <2>2, <2>3 DEF Evaluated
<1>4. CASE /\ (\E i \in Paths : BeginInventory(i)) \/ WritePackage \/ WriteAggregate
           /\ UNCHANGED <<questions, results, edits, judging, reviewed>>
  <2>1. Spared
      BY <1>4 DEF Spared
  <2>2. Filed' /\ Screened' /\ Unedited'
      BY <1>1, <1>4, <2>1, BeginInventoryStays, InventoryStays
  <2>3. CASE \E i \in Paths : BeginInventory(i)
    <3>1. UNCHANGED <<packet, aggregate, judging, reviewed>>
        BY <1>4, <2>3 DEF BeginInventory
    <3> QED
        BY <1>1, <2>2, <3>1, ArchiveStands DEF Evaluated
  <2>4. CASE WritePackage
      BY <1>1, <1>4, <2>2, <2>4, WritePackageArchives DEF Evaluated
  <2>5. CASE WriteAggregate
      BY <1>1, <1>4, <2>2, <2>5, WriteAggregateArchives DEF Evaluated
  <2> QED
      BY <1>4, <2>3, <2>4, <2>5
<1>5. CASE /\ ReadQuestions \/ ReadResults \/ (RunEnds /\ loader.job = "inventory")
           /\ UNCHANGED <<questions, results, edits, packet, aggregate, judging, reviewed>>
  <2>1. Kept
      BY <1>2, <1>5 DEF Kept
  <2>2. Filed' /\ Screened' /\ Unedited'
      BY <1>1, <1>2, <1>5, <2>1, ReadsStay, RunEndsStays
  <2>3. Archived'
      BY <1>1, <1>5, ArchiveStands
  <2> QED
      BY <2>2, <2>3 DEF Evaluated
<1>6. CASE /\ (\E i \in Paths : TakePackage(i)) \/ \E name \in MANUAL_CLASSES : Judge(name)
           /\ UNCHANGED <<questions, results, edits, loader, packet, aggregate, reviewed>>
  <2>1. Filed' /\ Screened' /\ Unedited'
      BY <1>1, <1>6, FilesStand, ScreeningStands
  <2>2. Archived'
      BY <1>1, <1>6, TakePackageArchives, JudgeArchives
  <2> QED
      BY <2>1, <2>2 DEF Evaluated
<1>7. CASE /\ \E i, j \in Paths, s \in MANUAL_CLASSES \cup {Absent} : ApplyDecisions(i, j, s)
           /\ UNCHANGED <<questions, results, edits, loader, packet, aggregate, judging>>
  <2>1. Filed' /\ Screened' /\ Unedited'
      BY <1>1, <1>7, FilesStand, ScreeningStands
  <2>2. Archived'
      BY <1>1, <1>7, DecisionsArchive
  <2> QED
      BY <2>1, <2>2 DEF Evaluated
<1> QED
    BY <1>3, <1>4, <1>5, <1>6, <1>7 DEF ReviewNext

LEMMA EvaluationSteps ==
    ASSUME Evaluated, [EvaluationNext]_evaluation
    PROVE  Evaluated'
<1>1. Filed /\ Archived /\ Screened /\ Unedited
    BY DEF Evaluated
<1>2. CASE ScreeningNext /\ UNCHANGED <<packet, aggregate, judging, reviewed>>
    BY <1>1, <1>2, ScreeningSteps, ArchiveStands DEF Evaluated
<1>3. CASE ReviewNext /\ UNCHANGED screening
    BY <1>3, ReviewSteps
<1>4. CASE UNCHANGED evaluation
  <2>1. /\ UNCHANGED <<questions, results, edits, loader>> /\ UNCHANGED <<edits, screening>>
        /\ loader' = loader /\ UNCHANGED <<packet, aggregate, judging, reviewed>>
      BY <1>4 DEF evaluation, review
  <2> QED
      BY <1>1, <2>1, FilesStand, ScreeningStands, ArchiveStands DEF Evaluated
<1> QED
    BY <1>2, <1>3, <1>4 DEF EvaluationNext

LEMMA EvaluationBegins ==
    ASSUME EvaluationInit
    PROVE  Evaluated
<1>1. loader = NoLoad /\ edits = 0 /\ judging = Absent /\ reviewed = Absent
    BY DEF EvaluationInit, ReviewInit, FilesInit
<1>2. Filed
  <2>1. ASSUME NEW s \in SetNames
        PROVE  /\ [cases |-> Of(s), twice |-> FALSE] \in QuestionFiles
               /\ [cases |-> Of(s), twice |-> FALSE, edition |-> 1] \in SavedFiles
    <3>1. Of(s) \in SUBSET Case
        BY DEF Of
    <3> QED
        BY <3>1 DEF QuestionFiles, SavedFiles
  <2>2. questions \in [SetNames -> QuestionFiles \cup {Absent}]
      BY <2>1 DEF EvaluationInit, ReviewInit, FilesInit
  <2>3. results \in [SetNames -> SavedFiles \cup {Absent}]
      BY <2>1 DEF EvaluationInit, ReviewInit, FilesInit
  <2> QED
      BY <1>1, <2>2, <2>3, NoLoadIsNew DEF Filed
<1>3. Archived
  <2>1. packet = [i \in Paths |-> Absent] /\ aggregate = [i \in Paths |-> Absent]
      BY DEF EvaluationInit, ReviewInit
  <2>2. ~Whole(Absent)
      BY DEF Whole
  <2>3. ReviewIsDecisive
      BY <1>1 DEF ReviewIsDecisive, ReviewIsOfOneSource, StopsAreDecisive
  <2> QED
      BY <1>1, <2>1, <2>2, <2>3 DEF Archived
<1>4. gated = NoGate /\ output = Absent /\ guard \in Guard /\ tree = [head |-> 1, clean |-> TRUE]
    BY DEF EvaluationInit, ScreeningInit
<1>5. gated.report = Absent /\ gated = [gate |-> gated.gate, head |-> gated.head,
                                        report |-> gated.report, code |-> gated.code]
    BY <1>4 DEF NoGate
<1>6. Screened
    BY <1>1, <1>4, <1>5, NoLoadIsNew, NothingLoaded
    DEF Screened, Begun, Opening, Chained, Dated
<1>7. Unedited
    BY <1>1, <1>4, <1>5, NoLoadIsNew, NothingLoaded DEF Unedited, Dated
<1> QED
    BY <1>2, <1>3, <1>6, <1>7 DEF Evaluated

LEMMA EvaluatedIsHonest ==
    ASSUME Evaluated
    PROVE  EvaluationIsHonest
<1>1. Screened /\ Unedited /\ Archived /\ Filed
    BY DEF Evaluated
<1>2. ChainBeforeCases
    BY <1>1 DEF ChainBeforeCases, Screened, Chained, Dated
<1>3. ReportsWhatWasStated
    BY <1>1 DEF ReportsWhatWasStated, Reports, Screened
<1>4. CodeIsNamed
  <2> SUFFICES ASSUME gated.report # Absent, edits = 0
               PROVE  gated.code = [head |-> gated.report.head, clean |-> TRUE]
      BY DEF CodeIsNamed
  <2>1. /\ tree = [head |-> 1, clean |-> TRUE] /\ gated.code = tree
        /\ gated.report.head = tree.head
      BY <1>1 DEF Unedited
  <2> QED
      BY <2>1
<1>5. \A report \in Measured : /\ CountsClusters(report, stated.r, guard)
                               /\ BoundedByInventory(report, stated.r) /\ TellsEdits(report)
    BY <1>1 DEF Measured, Screened
<1>6. ReviewIsDecisive
    BY <1>1 DEF Archived
<1> QED
    BY <1>2, <1>3, <1>4, <1>5, <1>6
    DEF EvaluationIsHonest, ScreeningIsHonest, GateCountsClusters, InventoryBoundsGate,
        EditedReportsAreRefused

(* An evaluation says of its sources what they are, however its files are     *)
(* edited meanwhile: a screening opens no case before the chain and the commit *)
(* are those the owner stated, reports what he stated and counts the locked   *)
(* cases of it, its report tells an edit of any derived number, and what is   *)
(* reviewed stops where the stopping rule decides (run_locked, _gate_summary, *)
(* _assert_report_schema, apply_review_decisions).                            *)
THEOREM EvaluationStaysHonest == EvaluationSpec => []EvaluationIsHonest
<1>1. EvaluationInit => Evaluated
    BY EvaluationBegins
<1>2. Evaluated /\ [EvaluationNext]_evaluation => Evaluated'
    BY EvaluationSteps
<1>3. Evaluated => EvaluationIsHonest
    BY EvaluatedIsHonest
<1> QED
    BY <1>1, <1>2, <1>3, PTL DEF EvaluationSpec
=============================================================================
