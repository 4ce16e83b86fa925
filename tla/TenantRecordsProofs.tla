------------------------- MODULE TenantRecordsProofs -------------------------
(***************************************************************************)
(* Theorems about a tenant's records and the questions asked of its        *)
(* library, for any members, structures, documents and bounds.             *)
(*   - TenantRecords: the records of each kind fit each other, and what    *)
(*     closes one of them is done by right.                                *)
(*   - Answering: what a question finds is current while its rows are      *)
(*     locked, and what it is answered with stands on evidence.            *)
(* The two machines share no variable; each theorem is of its own Spec.    *)
(***************************************************************************)
EXTENDS TenantRecords, Answering, FiniteSetTheorems, SequenceTheorems, TLAPS

-----------------------------------------------------------------------------
(* The structure.  Every version of it is of another epoch.                *)

Structured == OrganisationType /\ version <= epoch

LEMMA StructuredAtFirst == OrganisationInit => Structured
BY StructureAssumption DEF OrganisationInit, Structured, OrganisationType

LEMMA StructuredStep == Structured /\ [OrganisationNext]_organisation => Structured'
<1> SUFFICES ASSUME Structured, [OrganisationNext]_organisation PROVE Structured'
    OBVIOUS
<1> USE StructureAssumption DEF Structured, OrganisationType
<1>1. CASE \E a \in Architect : ViewTopology(a)
    BY <1>1 DEF ViewTopology
<1>2. ASSUME NEW new \in Structure, Restructured(new) PROVE Structured'
    BY <1>2 DEF Restructured
<1>3. CASE PolicyChanges
    BY <1>3 DEF PolicyChanges
<1>4. CASE UNCHANGED organisation
    BY <1>4 DEF organisation
<1> QED
    BY <1>1, <1>2, <1>3, <1>4 DEF OrganisationNext, UpdateMember, ReplaceTopology

\* Nobody stands above himself.
LEMMA NobodyAboveHimself ==
    ASSUME Structured, NEW m \in Member
    PROVE  ~CanMonitor(m, m)
BY StructureAssumption DEF Structured, OrganisationType, CanMonitor

-----------------------------------------------------------------------------
(* Reviews.  A case is open or was decided once, and it is written only by   *)
(* the one transaction that has locked it.                                   *)

Answers   == [actor : Member, outcome : {"answered", "review_required"}]
Verdicts  == [verdict : {"none", "helpful", "not_helpful"}, rev : 0 .. MaxFeedback]
Decisions == [case : 1 .. MaxInteraction, reviewer : Member, rev : {2},
              decision : Decision]
Cases == {NoCase, OpenCase} \cup
            [state : Decision, rev : {2}, reviewer : {{m} : m \in Member}]

Recorded ==
    /\ interaction \in Seq(Answers) /\ Len(interaction) <= MaxInteraction
    /\ feedback \in Seq(Verdicts) /\ Len(feedback) = Len(interaction)
    /\ case \in Seq(Cases) /\ Len(case) = Len(interaction)
    /\ event \in Seq(Decisions)
    /\ queue \in [Member -> SUBSET [case : Interactions, rev : {1, 2},
                                    epoch : 1 .. MaxEpoch]]
    /\ deciding \in [Member -> {0} \cup Interactions]

CasesOpened == \A i \in Interactions :
    /\ feedback[i].verdict # "none" => feedback[i].rev > 0
    /\ (interaction[i].outcome = "review_required"
          \/ feedback[i].verdict = "not_helpful") => case[i] # NoCase
    /\ case[i] # NoCase =>
          interaction[i].outcome = "review_required" \/ feedback[i].rev > 0

\* A locked case is open, and locked by one.
CasesLocked ==
    /\ \A m \in Member : deciding[m] # 0 => case[deciding[m]] = OpenCase
    /\ \A m, n \in Member : deciding[m] = deciding[n] /\ deciding[m] # 0 => m = n

DecidedOnce ==
    /\ \A n \in 1 .. Len(event) :
          /\ event[n].case \in Interactions
          /\ case[event[n].case] = [state |-> event[n].decision, rev |-> event[n].rev,
                                    reviewer |-> {event[n].reviewer}]
    /\ \A n, k \in 1 .. Len(event) : event[n].case = event[k].case => n = k
    /\ \A i \in Interactions : case[i].state \in Decision =>
          \E n \in 1 .. Len(event) : event[n].case = i

Reviewed == Recorded /\ CasesOpened /\ CasesLocked /\ DecidedOnce

LEMMA ReviewedAtFirst == ReviewsInit => Reviewed
<1> SUFFICES ASSUME ReviewsInit PROVE Reviewed
    OBVIOUS
<1>1. Len(<<>>) = 0 /\ \A S : <<>> \in Seq(S)
    OBVIOUS
<1>2. Interactions = {}
    BY <1>1 DEF ReviewsInit, Interactions
<1> QED
    BY <1>1, <1>2, ReviewAssumption
    DEF ReviewsInit, Reviewed, Recorded, CasesOpened, CasesLocked, DecidedOnce

LEMMA DecidedStates ==
    ASSUME Reviewed
    PROVE  \A n \in 1 .. Len(event) :
              event[n] \in Decisions /\ case[event[n].case].state \in Decision
<1> SUFFICES ASSUME NEW n \in 1 .. Len(event)
             PROVE  event[n] \in Decisions /\ case[event[n].case].state \in Decision
    OBVIOUS
<1>1. event[n] \in Decisions
    BY DEF Reviewed, Recorded
<1>2. case[event[n].case] = [state |-> event[n].decision, rev |-> event[n].rev,
                            reviewer |-> {event[n].reviewer}]
    BY DEF Reviewed, DecidedOnce
<1> QED
    BY <1>1, <1>2 DEF Decisions

LEMMA CreateInteractionStep ==
    ASSUME Reviewed, NEW m \in Member, CreateInteraction(m)
    PROVE  Reviewed'
<1> USE DEF Reviewed, Recorded
<1> DEFINE k == Len(interaction) + 1
<1>0. k \in Nat /\ 1 .. k = (1 .. Len(interaction)) \cup {k} /\ k \notin 1 .. Len(interaction)
      /\ k <= MaxInteraction
    BY ReviewAssumption DEF CreateInteraction
<1>1. PICK a \in Answers, v \in Verdicts, c \in {NoCase, OpenCase} :
          /\ interaction' = Append(interaction, a) /\ feedback' = Append(feedback, v)
          /\ case' = Append(case, c)
          /\ a.outcome = "review_required" <=> c # NoCase
          /\ v.verdict = "none"
  <2>1. PICK outcome \in {"answered", "review_required"} :
            /\ interaction' = Append(interaction, [actor |-> m, outcome |-> outcome])
            /\ feedback' = Append(feedback, [verdict |-> "none", rev |-> 0])
            /\ case' = Append(case, IF outcome = "review_required" THEN OpenCase
                                    ELSE NoCase)
      BY DEF CreateInteraction
  <2>2. [actor |-> m, outcome |-> outcome] \in Answers
      BY DEF Answers
  <2>3. [verdict |-> "none", rev |-> 0] \in Verdicts
      BY ReviewAssumption DEF Verdicts
  <2>4. OpenCase # NoCase
      BY DEF NoCase, OpenCase
  <2> QED
      BY <2>1, <2>2, <2>3, <2>4
<1>2. /\ UNCHANGED <<event, queue, deciding>>
      /\ interaction' \in Seq(Answers) /\ Len(interaction') = k
      /\ feedback' \in Seq(Verdicts) /\ Len(feedback') = k
      /\ case' \in Seq(Cases) /\ Len(case') = k
    BY <1>1, AppendProperties DEF CreateInteraction, Cases
<1>3. /\ \A i \in 1 .. Len(interaction) : /\ interaction'[i] = interaction[i]
                                          /\ feedback'[i] = feedback[i]
                                          /\ case'[i] = case[i]
      /\ interaction'[k] = a /\ feedback'[k] = v /\ case'[k] = c
    BY <1>1, AppendProperties DEF Cases
<1>4. Interactions' = Interactions \cup {k}
    BY <1>0, <1>2 DEF Interactions
<1> HIDE DEF k
<1>5. Recorded'
    BY <1>0, <1>2, <1>4
<1>6. CasesOpened'
    BY <1>0, <1>1, <1>3, <1>4 DEF CasesOpened, Interactions
<1>7. CasesLocked'
    BY <1>2, <1>3 DEF CasesLocked, Interactions
<1>8. DecidedOnce'
  <2>1. case'[k].state \notin Decision
      BY <1>1, <1>3 DEF NoCase, OpenCase, Decision
  <2> QED
      BY <1>2, <1>3, <1>4, <2>1 DEF DecidedOnce, Interactions
<1> QED
    BY <1>5, <1>6, <1>7, <1>8

\* A verdict opens at most a case that there was not.
LEMMA FeedbackStep ==
    ASSUME Reviewed, NEW i \in Interactions, SubmitFeedback(i)
    PROVE  Reviewed'
<1> USE DEF Reviewed, Recorded
<1>1. PICK w \in {"helpful", "not_helpful"} :
          /\ interaction[i].outcome = "answered" /\ feedback[i].rev < MaxFeedback
          /\ feedback' = [feedback EXCEPT ![i] =
                [verdict |-> w, rev |-> IF @.verdict = w THEN @.rev ELSE @.rev + 1]]
          /\ case' = [case EXCEPT ![i] = CaseAfter(i, w)]
          /\ UNCHANGED <<interaction, event, queue, deciding>>
    BY DEF SubmitFeedback
<1>2. feedback[i] \in Verdicts /\ case[i] \in Cases
    BY DEF Interactions
<1>3. PICK v \in Verdicts : /\ v = [verdict |-> w, rev |-> IF feedback[i].verdict = w
                                          THEN feedback[i].rev ELSE feedback[i].rev + 1]
                            /\ v.rev > 0 /\ v.verdict = w
  <2>1. PICK r \in 0 .. MaxFeedback :
            r = (IF feedback[i].verdict = w THEN feedback[i].rev ELSE feedback[i].rev + 1)
      BY <1>1, <1>2, ReviewAssumption DEF Verdicts
  <2>2. r > 0
      BY <1>2, <2>1 DEF CasesOpened, Verdicts
  <2>3. [verdict |-> w, rev |-> r] \in Verdicts
      BY DEF Verdicts
  <2> QED
      BY <2>1, <2>2, <2>3
<1>4. PICK c \in Cases : /\ c = CaseAfter(i, w)
                         /\ \/ c = case[i]
                            \/ case[i] = NoCase /\ c = OpenCase
                         /\ w = "not_helpful" => c # NoCase
  <2>1. OpenCase \in Cases /\ OpenCase # NoCase
      BY DEF Cases, NoCase, OpenCase
  <2> QED
      BY <1>2, <2>1 DEF CaseAfter
<1>5. feedback' = [feedback EXCEPT ![i] = v] /\ case' = [case EXCEPT ![i] = c]
    BY <1>1, <1>3, <1>4
<1>6. /\ feedback' \in Seq(Verdicts) /\ Len(feedback') = Len(feedback)
      /\ case' \in Seq(Cases) /\ Len(case') = Len(case)
      /\ feedback'[i] = v /\ case'[i] = c
      /\ \A j \in Interactions \ {i} : feedback'[j] = feedback[j] /\ case'[j] = case[j]
    BY <1>5 DEF Interactions
<1>7. Interactions' = Interactions
    BY <1>1 DEF Interactions
<1>8. Recorded'
    BY <1>1, <1>6, <1>7
<1>9. CasesOpened'
    BY <1>1, <1>3, <1>4, <1>6, <1>7 DEF CasesOpened
<1>10. CasesLocked'
    BY <1>1, <1>4, <1>6 DEF CasesLocked, NoCase, OpenCase
<1>11. DecidedOnce'
  <2>1. case[i] = NoCase => /\ c.state \notin Decision
                            /\ \A n \in 1 .. Len(event) : event[n].case # i
    <3>1. NoCase.state = "none" /\ OpenCase.state = "open"
        BY DEF NoCase, OpenCase
    <3>2. \A n \in 1 .. Len(event) : case[event[n].case].state \in Decision
        BY DecidedStates
    <3> QED
        BY <1>4, <3>1, <3>2 DEF Decision
  <2> QED
      BY <1>1, <1>4, <1>6, <1>7, <2>1 DEF DecidedOnce
<1> QED
    BY <1>8, <1>9, <1>10, <1>11

LEMMA ListCasesStep ==
    ASSUME Reviewed, Structured, NEW m \in Member, ListCases(m)
    PROVE  Reviewed'
<1> USE DEF Reviewed, Recorded
<1>1. UNCHANGED <<interaction, feedback, case, event, deciding>>
    BY DEF ListCases
<1>2. queue' \in [Member -> SUBSET [case : Interactions, rev : {1, 2}, epoch : 1 .. MaxEpoch]]
  <2>1. \A i \in Interactions : case[i].state = "open" => case[i].rev \in {1, 2}
      BY DEF Interactions, Cases, OpenCase, NoCase
  <2> QED
      BY <2>1 DEF ListCases, Structured, OrganisationType
<1> QED
    BY <1>1, <1>2 DEF Interactions, CasesOpened, CasesLocked, DecidedOnce

LEMMA LockStep ==
    ASSUME Reviewed, NEW m \in Member, BeginDecision(m) \/ RollBackDecision(m)
    PROVE  Reviewed'
<1> USE DEF Reviewed, Recorded
<1>1. UNCHANGED <<interaction, feedback, case, event, queue>>
    BY DEF BeginDecision, RollBackDecision
<1>2. CASE BeginDecision(m)
  <2>1. PICK seen \in queue[m] : /\ LockCase(m, seen)
                                 /\ deciding' = [deciding EXCEPT ![m] = seen.case]
      BY <1>2 DEF BeginDecision
  <2>2. seen.case \in Interactions
      BY <2>1
  <2>3. case[seen.case] = OpenCase /\ \A n \in Member : deciding[n] # seen.case
      BY <2>1, <2>2 DEF LockCase, Locked, Interactions, Cases, NoCase, Decision
  <2> QED
      BY <1>1, <2>1, <2>2, <2>3 DEF Interactions, CasesOpened, CasesLocked, DecidedOnce
<1>3. CASE RollBackDecision(m)
    BY <1>1, <1>3 DEF RollBackDecision, Interactions, CasesOpened, CasesLocked, DecidedOnce
<1> QED
    BY <1>2, <1>3

\* What the transaction of a decision writes.
LEMMA Finished ==
    ASSUME Reviewed, NEW m \in Member, FinishDecision(m)
    PROVE  \E i \in Interactions, e \in Decisions :
              /\ i = deciding[m] /\ case[i] = OpenCase /\ CanMonitor(m, interaction[i].actor)
              /\ e.case = i /\ e.reviewer = m
              /\ event' = Append(event, e)
              /\ case' = [case EXCEPT ![i] = [state |-> e.decision, rev |-> e.rev,
                                              reviewer |-> {m}]]
              /\ deciding' = [deciding EXCEPT ![m] = 0]
              /\ UNCHANGED <<interaction, feedback, queue>>
<1> USE DEF Reviewed, Recorded
<1>1. deciding[m] \in Interactions /\ case[deciding[m]] = OpenCase
      /\ deciding[m] \in 1 .. MaxInteraction
    BY ReviewAssumption DEF FinishDecision, CasesLocked, Interactions
<1>2. PICK d \in Decision :
          /\ case' = [case EXCEPT ![deciding[m]] =
                        [state |-> d, rev |-> @.rev + 1, reviewer |-> {m}]]
          /\ event' = Append(event, [case |-> deciding[m], reviewer |-> m,
                                     rev |-> case[deciding[m]].rev + 1, decision |-> d])
    BY DEF FinishDecision
<1>3. case[deciding[m]].rev + 1 = 2
    BY <1>1 DEF OpenCase
<1> DEFINE e == [case |-> deciding[m], reviewer |-> m, rev |-> 2, decision |-> d]
<1>4. e \in Decisions
    BY <1>1 DEF Decisions
<1>5. /\ case' = [case EXCEPT ![deciding[m]] = [state |-> e.decision, rev |-> e.rev,
                                                reviewer |-> {m}]]
      /\ event' = Append(event, e)
    BY <1>2, <1>3
<1> QED
    BY <1>1, <1>4, <1>5 DEF FinishDecision

LEMMA FinishStep ==
    ASSUME Reviewed, NEW m \in Member, FinishDecision(m)
    PROVE  Reviewed'
<1> USE DEF Reviewed, Recorded
<1>1. PICK i \in Interactions, e \in Decisions :
              /\ i = deciding[m] /\ case[i] = OpenCase
              /\ e.case = i /\ e.reviewer = m
              /\ event' = Append(event, e)
              /\ case' = [case EXCEPT ![i] = [state |-> e.decision, rev |-> e.rev,
                                              reviewer |-> {m}]]
              /\ deciding' = [deciding EXCEPT ![m] = 0]
              /\ UNCHANGED <<interaction, feedback, queue>>
    BY Finished
<1>2. PICK c \in Cases : /\ c = [state |-> e.decision, rev |-> e.rev, reviewer |-> {m}]
                         /\ c.state \in Decision /\ c # NoCase
  <2> DEFINE c == [state |-> e.decision, rev |-> e.rev, reviewer |-> {m}]
  <2>1. c \in [state : Decision, rev : {2}, reviewer : {{n} : n \in Member}]
      BY DEF Decisions
  <2>2. c.state # NoCase.state
      BY <2>1 DEF NoCase, Decision
  <2> QED
      BY <2>1, <2>2 DEF Cases
<1>3. case' = [case EXCEPT ![i] = c]
    BY <1>1, <1>2
<1>4. /\ case' \in Seq(Cases) /\ Len(case') = Len(case) /\ case'[i] = c
      /\ \A j \in Interactions \ {i} : case'[j] = case[j]
    BY <1>3 DEF Interactions
<1> DEFINE k == Len(event) + 1
<1>5. /\ event' \in Seq(Decisions) /\ Len(event') = k
      /\ \A n \in 1 .. Len(event) : event'[n] = event[n]
      /\ event'[k] = e
    BY <1>1, AppendProperties
<1>6. k \in Nat /\ 1 .. k = (1 .. Len(event)) \cup {k} /\ k \notin 1 .. Len(event)
    OBVIOUS
<1> HIDE DEF k
<1>7. Interactions' = Interactions
    BY <1>1 DEF Interactions
<1>8. Recorded'
    BY <1>1, <1>4, <1>5, <1>7
<1>9. CasesOpened'
    BY <1>1, <1>2, <1>4, <1>7 DEF CasesOpened, NoCase, OpenCase
<1>10. CasesLocked'
    BY <1>1, <1>4 DEF CasesLocked
<1>11. DecidedOnce'
  <2>1. \A n \in 1 .. Len(event) : event[n].case # i
    <3>1. \A n \in 1 .. Len(event) : case[event[n].case].state \in Decision
        BY DecidedStates
    <3>2. OpenCase.state \notin Decision
        BY DEF OpenCase, Decision
    <3> QED
        BY <1>1, <3>1, <3>2
  <2>2. \A n \in 1 .. k : /\ event'[n].case \in Interactions
                          /\ case'[event'[n].case] =
                               [state |-> event'[n].decision, rev |-> event'[n].rev,
                                reviewer |-> {event'[n].reviewer}]
    <3>1. ASSUME NEW n \in 1 .. Len(event)
          PROVE  /\ event[n].case \in Interactions \ {i}
                 /\ case[event[n].case] = [state |-> event[n].decision,
                        rev |-> event[n].rev, reviewer |-> {event[n].reviewer}]
        BY <2>1 DEF DecidedOnce
    <3>2. \A n \in 1 .. Len(event) :
              event'[n] = event[n] /\ case'[event[n].case] = case[event[n].case]
        BY <1>4, <1>5, <3>1
    <3>3. /\ event'[k].case \in Interactions
          /\ case'[event'[k].case] = [state |-> event'[k].decision, rev |-> event'[k].rev,
                                      reviewer |-> {event'[k].reviewer}]
        BY <1>1, <1>2, <1>4, <1>5
    <3> QED
        BY <1>6, <3>1, <3>2, <3>3
  <2>3. \A n, l \in 1 .. k : event'[n].case = event'[l].case => n = l
      BY <1>1, <1>5, <1>6, <2>1 DEF DecidedOnce
  <2>4. \A j \in Interactions : case'[j].state \in Decision =>
            \E n \in 1 .. k : event'[n].case = j
      BY <1>1, <1>4, <1>5, <1>6 DEF DecidedOnce
  <2> QED
      BY <1>5, <1>7, <2>2, <2>3, <2>4 DEF DecidedOnce
<1> QED
    BY <1>8, <1>9, <1>10, <1>11

LEMMA ReviewedStep == Reviewed /\ Structured /\ ReviewsNext => Reviewed'
BY CreateInteractionStep, FeedbackStep, ListCasesStep, LockStep, FinishStep
DEF ReviewsNext

LEMMA ReviewedStill == Reviewed /\ UNCHANGED reviews => Reviewed'
BY DEF reviews, Reviewed, Recorded, CasesOpened, CasesLocked, DecidedOnce, Interactions

\* What the queue promises of its cases.
LEMMA CasesFit == Reviewed => ReviewsType /\ CasesFollowVerdicts
<1> SUFFICES ASSUME Reviewed PROVE ReviewsType /\ CasesFollowVerdicts
    OBVIOUS
<1> USE DEF Reviewed, Recorded
<1>0. Len(interaction) \in Nat /\ DOMAIN event = 1 .. Len(event)
      /\ Interactions \subseteq 0 .. MaxInteraction
    BY ReviewAssumption DEF Interactions
<1>1. ReviewsType
  <2>1. \A i \in Interactions :
            /\ interaction[i] \in Answers /\ feedback[i] \in Verdicts /\ case[i] \in Cases
      BY DEF Interactions
  <2>2. \A c \in Cases : c \in [state : {"none", "open"} \cup Decision,
                                rev : 0 .. 2, reviewer : SUBSET Member]
      BY DEF Cases, NoCase, OpenCase
  <2>3. \A n \in DOMAIN event :
          event[n] \in [case : Interactions, reviewer : Member, rev : 2 .. 3,
                        decision : Decision]
    <3>1. ASSUME NEW n \in DOMAIN event
          PROVE  event[n] \in [case : Interactions, reviewer : Member, rev : 2 .. 3,
                               decision : Decision]
      <4>1. event[n] \in Decisions
          BY <1>0, DecidedStates
      <4>2. event[n].case \in Interactions
          BY <1>0 DEF DecidedOnce
      <4> QED
          BY <4>1, <4>2 DEF Decisions
    <3> QED
        BY <3>1
  <2>4. DOMAIN feedback = Interactions /\ DOMAIN case = Interactions
      BY DEF Interactions
  <2>5. deciding \in [Member -> 0 .. MaxInteraction]
    <3>1. {0} \cup Interactions \subseteq 0 .. MaxInteraction
        BY <1>0, ReviewAssumption
    <3> QED
        BY <3>1
  <2> QED
      BY <2>1, <2>2, <2>3, <2>4, <2>5 DEF ReviewsType, Answers, Verdicts
<1>2. ASSUME NEW i \in Interactions
      PROVE  LET decided == {n \in DOMAIN event : event[n].case = i} IN
             /\ Cardinality(decided) = IF case[i].state \in Decision THEN 1 ELSE 0
             /\ \A n \in decided : /\ case[i].state = event[n].decision
                                   /\ case[i].rev = event[n].rev
                                   /\ case[i].reviewer = {event[n].reviewer}
  <2> DEFINE decided == {n \in DOMAIN event : event[n].case = i}
  <2>1. ASSUME NEW n \in decided
        PROVE  /\ case[i].state = event[n].decision
               /\ case[i].rev = event[n].rev
               /\ case[i].reviewer = {event[n].reviewer}
               /\ event[n].decision \in Decision
    <3>1. n \in 1 .. Len(event) /\ event[n].case = i
        BY <1>0
    <3>2. case[event[n].case] = [state |-> event[n].decision, rev |-> event[n].rev,
                                reviewer |-> {event[n].reviewer}]
        BY <3>1 DEF DecidedOnce
    <3>3. event[n] \in Decisions
        BY <3>1, DecidedStates
    <3> QED
        BY <3>1, <3>2, <3>3 DEF Decisions
  <2>2. CASE case[i].state \in Decision
    <3>1. PICK n \in decided : TRUE
        BY <1>0, <2>2 DEF DecidedOnce
    <3>2. decided = {n}
        BY <1>0, <3>1 DEF DecidedOnce
    <3>3. Cardinality(decided) = 1
        BY <3>2, FS_Singleton
    <3> QED
        BY <2>1, <2>2, <3>3
  <2>3. CASE case[i].state \notin Decision
    <3>1. decided = {}
        BY <2>1, <2>3
    <3>2. Cardinality(decided) = 0
        BY <3>1, FS_EmptySet
    <3> QED
        BY <2>1, <2>3, <3>2
  <2> QED
      BY <2>2, <2>3
<1> QED
    BY <1>1, <1>2 DEF CasesFollowVerdicts, CasesOpened

\* The decisions of one step.
LEMMA DecisionStep ==
    ASSUME Reviewed, Structured, ReviewsNext \/ UNCHANGED reviews,
           NEW i \in Interactions, case[i].state = "open", case'[i].state # "open"
    PROVE  \E m \in case'[i].reviewer :
              CanMonitor(m, interaction[i].actor) /\ m # interaction[i].actor
<1>1. interaction[i] \in Answers /\ case \in Seq(Cases) /\ i \in 1 .. Len(case)
    BY DEF Reviewed, Recorded, Interactions
<1>2. case' # case
    OBVIOUS
<1>3. CASE \E m \in Member : FinishDecision(m)
  <2>1. PICK m \in Member : FinishDecision(m)
      BY <1>3
  <2>2. PICK j \in Interactions, e \in Decisions :
              /\ CanMonitor(m, interaction[j].actor)
              /\ case' = [case EXCEPT ![j] = [state |-> e.decision, rev |-> e.rev,
                                              reviewer |-> {m}]]
      BY <2>1, Finished
  <2>3. j = i /\ case'[i] = [state |-> e.decision, rev |-> e.rev, reviewer |-> {m}]
      BY <1>1, <2>2
  <2>4. m # interaction[i].actor
      BY <1>1, <2>2, <2>3, NobodyAboveHimself DEF Answers
  <2> QED
      BY <2>2, <2>3, <2>4
<1>4. CASE \E m \in Member : CreateInteraction(m)
    BY <1>1, <1>4, AppendProperties DEF CreateInteraction, Cases
<1>5. CASE \E j \in Interactions : SubmitFeedback(j)
  <2>1. PICK j \in Interactions, w \in {"helpful", "not_helpful"} :
            case' = [case EXCEPT ![j] = CaseAfter(j, w)]
      BY <1>5 DEF SubmitFeedback
  <2>2. case'[i] \in {case[i], CaseAfter(i, w)}
      BY <1>1, <2>1
  <2>3. case[i] # NoCase
      BY DEF NoCase
  <2> QED
      BY <2>2, <2>3 DEF CaseAfter
<1>6. CASE \E m \in Member : ListCases(m) \/ BeginDecision(m) \/ RollBackDecision(m)
    BY <1>2, <1>6 DEF ListCases, BeginDecision, RollBackDecision
<1> QED
    BY <1>2, <1>3, <1>4, <1>5, <1>6 DEF ReviewsNext, reviews

-----------------------------------------------------------------------------
(* Datasets.  Every version but the last is published, and its seal is the   *)
(* digest of its cases.                                                      *)

DatasetRow == [state : {"none", "active", "retired"}, owner : SUBSET Member,
               rev : Nat, current : 0 .. MaxVersion]
Drafts == [state : {"draft", "published"}, rev : 1 .. MaxImport + 2,
           parent : 0 .. MaxVersion, cases : Content \cup {NoCases}]
Lists == [rev : Nat, version : 0 .. MaxVersion, vrev : 0 .. MaxImport + 2,
          epoch : 0 .. MaxEpoch]
Texts == [version : 0 .. MaxVersion, cases : Content \cup {NoCases}]

Drafted ==
    /\ dataset \in DatasetRow
    /\ draft \in Seq(Drafts) /\ Len(draft) <= MaxVersion
    /\ sealed \in Seq(Content \cup {NoCases}) /\ Len(sealed) = Len(draft)
    /\ known \in [Member -> Lists] /\ text \in [Member -> Texts]

Owned ==
    /\ dataset.state = "none" => dataset.owner = {} /\ Len(draft) = 0
    /\ dataset.state # "none" => /\ \E m \in Member : dataset.owner = {m}
                                 /\ Len(draft) > 0
    /\ dataset.state = "retired" => \A v \in Versions : draft[v].state = "published"

Lined == \A v \in Versions :
    /\ draft[v].parent = v - 1
    /\ draft[v].state = "published" <=> v <= dataset.current
    /\ draft[v].state = "published" => sealed[v] = draft[v].cases
    /\ draft[v].state = "draft" => v = Len(draft) /\ draft[v].rev <= MaxImport + 1

Current == dataset.current <= Len(draft) /\ Len(draft) <= dataset.current + 1

Sealed == Drafted /\ Owned /\ Lined /\ Current

LEMMA SealedAtFirst == DatasetsInit => Sealed
<1> SUFFICES ASSUME DatasetsInit PROVE Sealed
    OBVIOUS
<1>1. Len(<<>>) = 0 /\ \A S : <<>> \in Seq(S)
    OBVIOUS
<1>2. Versions = {} /\ Len(draft) = 0
    BY <1>1 DEF DatasetsInit, Versions
<1> QED
    BY <1>1, <1>2, DatasetAssumption, StructureAssumption
    DEF DatasetsInit, Sealed, Drafted, Owned, Lined, Current, DatasetRow, Lists, Texts

LEMMA SealedStill == Sealed /\ UNCHANGED datasets => Sealed'
BY DEF datasets, Sealed, Drafted, Owned, Lined, Current, Versions

\* Whoever may write or read has a dataset before him.
LEMMA HasOwner ==
    ASSUME Sealed, NEW m \in Member, Writable(m) \/ Readable(m)
    PROVE  /\ dataset.state \in {"active", "retired"} /\ Len(draft) \in Versions
           /\ dataset.rev \in Nat /\ dataset.current \in 0 .. MaxVersion
           /\ \A v \in Versions : draft[v] \in Drafts /\ v \in 1 .. MaxVersion
<1> USE DEF Sealed, Drafted
<1>1. dataset.owner # {} /\ dataset \in DatasetRow
    BY DEF Writable, Readable
<1>2. Len(draft) > 0 /\ dataset.state \in {"active", "retired"}
    BY <1>1 DEF Owned, DatasetRow
<1> QED
    BY <1>1, <1>2, DatasetAssumption DEF Versions, DatasetRow

LEMMA CreateDatasetStep ==
    ASSUME Sealed, NEW m \in Member, CreateDataset(m)
    PROVE  Sealed'
<1> USE DatasetAssumption, StructureAssumption DEF Sealed, Drafted
<1>1. /\ dataset' = [state |-> "active", owner |-> {m}, rev |-> 1, current |-> 0]
      /\ draft' = <<NewVersion(0)>> /\ sealed' = <<NoCases>> /\ UNCHANGED text
    BY DEF CreateDataset
<1>2. NewVersion(0) \in Drafts
    BY DEF NewVersion, Drafts
<1>3. /\ draft' \in Seq(Drafts) /\ Len(draft') = 1 /\ draft'[1] = NewVersion(0)
      /\ sealed' \in Seq(Content \cup {NoCases}) /\ Len(sealed') = 1
    BY <1>1, <1>2
<1>4. PICK l \in Lists : known' = [known EXCEPT ![m] = l]
  <2>1. [rev |-> 1, version |-> 1, vrev |-> 1, epoch |-> 0] \in Lists
      BY DEF Lists
  <2> QED
      BY <2>1 DEF CreateDataset
<1>5. Drafted'
    BY <1>1, <1>3, <1>4 DEF DatasetRow
<1>6. Owned'
    BY <1>1, <1>3 DEF Owned
<1>7. Lined'
    BY <1>1, <1>3 DEF Lined, Versions, NewVersion
<1>8. Current'
    BY <1>1, <1>3 DEF Current
<1> QED
    BY <1>5, <1>6, <1>7, <1>8

LEMMA ReadStep ==
    ASSUME Sealed, Structured, NEW m \in Member, ListDatasets(m) \/ ReadCases(m)
    PROVE  Sealed'
<1>1. UNCHANGED <<dataset, draft, sealed>>
    BY DEF ListDatasets, ReadCases
<1>2. known' \in [Member -> Lists] /\ text' \in [Member -> Texts]
  <2>1. CASE ListDatasets(m)
    <3>1. /\ dataset.rev \in Nat /\ Len(draft) \in 0 .. MaxVersion
          /\ draft[Len(draft)] \in Drafts /\ epoch \in 0 .. MaxEpoch
        BY <2>1, HasOwner DEF ListDatasets, Structured, OrganisationType
    <3> QED
        BY <2>1, <3>1, DatasetAssumption
        DEF ListDatasets, Learned, Lists, Drafts, Sealed, Drafted
  <2>2. CASE ReadCases(m)
    <3>1. PICK v \in Versions :
              text' = [text EXCEPT ![m] = [version |-> v, cases |-> draft[v].cases]]
        BY <2>2 DEF ReadCases
    <3>2. draft[v] \in Drafts /\ v \in 0 .. MaxVersion
        BY <2>2, HasOwner DEF ReadCases
    <3> QED
        BY <2>2, <3>1, <3>2 DEF ReadCases, Texts, Drafts, Sealed, Drafted
  <2> QED
      BY <2>1, <2>2
<1> QED
    BY <1>1, <1>2 DEF Sealed, Drafted, Owned, Lined, Current, Versions

LEMMA CreateDraftStep ==
    ASSUME Sealed, NEW m \in Member, CreateDraft(m)
    PROVE  Sealed'
<1> USE DatasetAssumption DEF Sealed, Drafted
<1> DEFINE k == Len(draft) + 1
<1>0. /\ dataset.state = "active" /\ dataset.rev \in Nat /\ Len(draft) \in Versions
      /\ dataset.current \in 0 .. MaxVersion /\ k \in 1 .. MaxVersion
      /\ 1 .. k = Versions \cup {k} /\ k \notin Versions
    BY HasOwner DEF CreateDraft, Versions
<1>1. dataset.current = Len(draft)
  <2>1. draft[Len(draft)].state = "published"
      BY <1>0, HasOwner DEF CreateDraft, Drafts
  <2> QED
      BY <1>0, <2>1 DEF Lined, Current
<1>2. PICK n \in Drafts : n = NewVersion(dataset.current) /\ n.state = "draft"
                          /\ n.parent = dataset.current /\ n.rev = 1
  <2> DEFINE n == NewVersion(dataset.current)
  <2>1. n \in Drafts
      BY <1>0 DEF NewVersion, Drafts
  <2>2. n.state = "draft" /\ n.parent = dataset.current /\ n.rev = 1
      BY DEF NewVersion
  <2> QED
      BY <2>1, <2>2
<1>3. /\ draft' = Append(draft, n) /\ sealed' = Append(sealed, NoCases) /\ UNCHANGED text
      /\ dataset' = [dataset EXCEPT !.rev = dataset.rev + 1]
    BY <1>2 DEF CreateDraft
<1>4. /\ draft' \in Seq(Drafts) /\ Len(draft') = k /\ draft'[k] = n
      /\ sealed' \in Seq(Content \cup {NoCases}) /\ Len(sealed') = k
      /\ \A v \in Versions : draft'[v] = draft[v] /\ sealed'[v] = sealed[v]
    BY <1>3, AppendProperties DEF Versions
<1>5. /\ dataset' \in DatasetRow /\ dataset'.state = "active"
      /\ dataset'.owner = dataset.owner /\ dataset'.current = dataset.current
  <2>1. PICK r \in Nat : r = dataset.rev + 1
      BY <1>0
  <2>2. dataset' = [dataset EXCEPT !.rev = r]
      BY <1>3, <2>1
  <2> QED
      BY <1>0, <2>2 DEF DatasetRow
<1>6. known' \in [Member -> Lists]
  <2>1. PICK r \in Nat : r = dataset.rev + 1
      BY <1>0
  <2>2. PICK o \in Lists : o = known[m]
      OBVIOUS
  <2>3. PICK x \in 0 .. MaxVersion, u \in 0 .. MaxImport + 2 : x = k /\ u = 1
      BY <1>0
  <2>4. PICK l \in Lists : l = [o EXCEPT !.rev = r, !.version = x, !.vrev = u]
      BY DEF Lists
  <2>5. known' = [known EXCEPT ![m].rev = r, ![m].version = x, ![m].vrev = u]
      BY <2>1, <2>3 DEF CreateDraft
  <2>6. known' = [known EXCEPT ![m] = l]
      BY <2>2, <2>4, <2>5
  <2> QED
      BY <2>6
<1>7. Drafted'
    BY <1>0, <1>3, <1>4, <1>5, <1>6
<1>8. Owned'
    BY <1>0, <1>4, <1>5 DEF Owned
<1>9. Versions' = Versions \cup {k}
    BY <1>0, <1>4 DEF Versions
<1>10. Lined'
    BY <1>0, <1>1, <1>2, <1>4, <1>5, <1>9 DEF Lined, Versions
<1>11. Current'
    BY <1>1, <1>4, <1>5 DEF Current
<1> QED
    BY <1>7, <1>8, <1>10, <1>11

\* A draft that is written over: what is said of it and of all others.
LEMMA Rewritten ==
    ASSUME Sealed, NEW v \in Versions, NEW n \in Drafts,
           draft' = [draft EXCEPT ![v] = n]
    PROVE  /\ draft' \in Seq(Drafts) /\ Len(draft') = Len(draft) /\ draft'[v] = n
           /\ \A w \in Versions \ {v} : draft'[w] = draft[w]
           /\ Versions' = Versions
BY DEF Sealed, Drafted, Versions

LEMMA ReplaceCasesStep ==
    ASSUME Sealed, NEW m \in Member, ReplaceCases(m)
    PROVE  Sealed'
<1> USE DatasetAssumption DEF Sealed, Drafted
<1>1. PICK v \in Versions, c \in Content :
          /\ Writable(m) /\ draft[v].state = "draft"
          /\ draft[v].rev <= MaxImport
          /\ draft' = [draft EXCEPT ![v].cases = c, ![v].rev = @ + 1]
          /\ known' = [known EXCEPT ![m].vrev = draft[v].rev + 1]
          /\ text' = [text EXCEPT ![m] = [version |-> v, cases |-> c]]
          /\ UNCHANGED <<dataset, sealed>>
    BY DEF ReplaceCases
<1>2. /\ draft[v] \in Drafts /\ v \in 1 .. MaxVersion
      /\ draft[v].rev \in 1 .. MaxImport
    BY <1>1, HasOwner DEF Drafts
<1>3. PICK n \in Drafts : /\ draft' = [draft EXCEPT ![v] = n]
                          /\ n.state = "draft" /\ n.parent = draft[v].parent
                          /\ n.rev <= MaxImport + 1
  <2>1. PICK d \in Drafts, r \in 1 .. MaxImport + 2, x \in Content \cup {NoCases} :
            d = draft[v] /\ r = draft[v].rev + 1 /\ x = c /\ r <= MaxImport + 1
    <3>1. /\ draft[v].rev + 1 \in 1 .. MaxImport + 2
          /\ draft[v].rev + 1 <= MaxImport + 1
        BY <1>2
    <3>2. c \in Content \cup {NoCases}
        OBVIOUS
    <3> QED
        BY <1>2, <3>1, <3>2, Zenon
  <2> DEFINE n == [d EXCEPT !.cases = x, !.rev = r]
  <2>2. n \in Drafts /\ n.state = d.state /\ n.parent = d.parent /\ n.rev = r
      BY DEF Drafts
  <2>3. draft' = [draft EXCEPT ![v].cases = x, ![v].rev = r]
      BY <1>1, <2>1
  <2>4. draft' = [draft EXCEPT ![v] = n]
      BY <2>1, <2>3
  <2> HIDE DEF n
  <2> QED
      BY <1>1, <2>1, <2>2, <2>4
<1>5. /\ draft' \in Seq(Drafts) /\ Len(draft') = Len(draft) /\ draft'[v] = n
      /\ \A w \in Versions \ {v} : draft'[w] = draft[w]
      /\ Versions' = Versions
    BY <1>3, Rewritten
<1>6. known' \in [Member -> Lists] /\ text' \in [Member -> Texts]
  <2>1. PICK r \in 0 .. MaxImport + 2 : r = draft[v].rev + 1
      BY <1>2
  <2>2. known[m] \in Lists /\ known' = [known EXCEPT ![m].vrev = r]
      BY <1>1, <2>1
  <2>3. PICK l \in Lists : l = [known[m] EXCEPT !.vrev = r]
      BY <2>2 DEF Lists
  <2>4. known' = [known EXCEPT ![m] = l]
      BY <2>2, <2>3
  <2>5. [version |-> v, cases |-> c] \in Texts
      BY <1>2 DEF Texts
  <2> QED
      BY <1>1, <2>4, <2>5
<1>7. Drafted'
    BY <1>1, <1>5, <1>6
<1>8. dataset.state # "retired"
    BY <1>1 DEF Owned
<1>9. Owned'
    BY <1>1, <1>5, <1>8 DEF Owned
<1>10. Lined'
    BY <1>1, <1>3, <1>5 DEF Lined
<1>11. Current'
    BY <1>1, <1>5 DEF Current
<1> QED
    BY <1>7, <1>9, <1>10, <1>11

\* What a publication does to its version.
LEMMA VersionCloses ==
    ASSUME Sealed, NEW m \in Member, PublishVersion(m)
    PROVE  \E v \in Versions, n \in Drafts :
              /\ v = Len(draft) /\ v = dataset.current + 1 /\ Writable(m)
              /\ dataset.state = "active" /\ draft[v].state = "draft"
              /\ n.state = "published" /\ n.rev = draft[v].rev + 1
              /\ n.parent = draft[v].parent /\ n.cases = draft[v].cases
              /\ draft' = [draft EXCEPT ![v] = n]
              /\ sealed' = [sealed EXCEPT ![v] = draft[v].cases]
              /\ dataset' = [dataset EXCEPT !.current = v, !.rev = dataset.rev + 1]
              /\ known' = Learned(m, dataset.rev + 1, v, draft[v].rev + 1)
              /\ text[m].version = v /\ text[m].cases = draft[v].cases
              /\ UNCHANGED text
<1> USE DatasetAssumption DEF Sealed, Drafted
<1>1. PICK v \in Versions :
          /\ Writable(m) /\ dataset.state = "active" /\ draft[v].state = "draft"
          /\ text[m].version = v /\ text[m].cases = draft[v].cases
          /\ draft' = [draft EXCEPT ![v].state = "published", ![v].rev = @ + 1]
          /\ sealed' = [sealed EXCEPT ![v] = draft[v].cases]
          /\ dataset' = [dataset EXCEPT !.current = v, !.rev = dataset.rev + 1]
          /\ known' = Learned(m, dataset.rev + 1, v, draft[v].rev + 1)
          /\ UNCHANGED text
    BY DEF PublishVersion, DraftSeen
<1>2. draft[v] \in Drafts /\ v = Len(draft) /\ draft[v].rev <= MaxImport + 1
    BY <1>1, HasOwner DEF Lined
<1>3. v = dataset.current + 1
    BY <1>1, <1>2, HasOwner DEF Lined, Current
<1>4. PICK n \in Drafts : /\ draft' = [draft EXCEPT ![v] = n]
                          /\ n.state = "published" /\ n.rev = draft[v].rev + 1
                          /\ n.parent = draft[v].parent /\ n.cases = draft[v].cases
  <2>1. PICK d \in Drafts, r \in 1 .. MaxImport + 2 : d = draft[v] /\ r = draft[v].rev + 1
    <3>1. draft[v].rev \in 1 .. MaxImport + 2
        BY <1>2 DEF Drafts
    <3>2. draft[v].rev + 1 \in 1 .. MaxImport + 2
        BY <1>2, <3>1
    <3> QED
        BY <1>2, <3>2
  <2> DEFINE n == [d EXCEPT !.state = "published", !.rev = r]
  <2>2. /\ n \in Drafts /\ n.state = "published" /\ n.parent = d.parent /\ n.rev = r
        /\ n.cases = d.cases
      BY DEF Drafts
  <2>3. draft' = [draft EXCEPT ![v].state = "published", ![v].rev = r]
      BY <1>1, <2>1
  <2>4. draft' = [draft EXCEPT ![v] = n]
      BY <2>1, <2>3
  <2> HIDE DEF n
  <2> QED
      BY <2>1, <2>2, <2>4
<1> QED
    BY <1>1, <1>2, <1>3, <1>4

LEMMA PublishStep ==
    ASSUME Sealed, Structured, NEW m \in Member, PublishVersion(m)
    PROVE  Sealed'
<1> USE DatasetAssumption DEF Sealed, Drafted
<1>1. PICK v \in Versions, n \in Drafts :
              /\ v = Len(draft) /\ v = dataset.current + 1 /\ Writable(m)
              /\ dataset.state = "active" /\ draft[v].state = "draft"
              /\ n.state = "published" /\ n.rev = draft[v].rev + 1
              /\ n.parent = draft[v].parent /\ n.cases = draft[v].cases
              /\ draft' = [draft EXCEPT ![v] = n]
              /\ sealed' = [sealed EXCEPT ![v] = draft[v].cases]
              /\ dataset' = [dataset EXCEPT !.current = v, !.rev = dataset.rev + 1]
              /\ known' = Learned(m, dataset.rev + 1, v, draft[v].rev + 1)
              /\ text[m].version = v /\ text[m].cases = draft[v].cases
              /\ UNCHANGED text
    BY VersionCloses
<1>2. /\ draft[v] \in Drafts /\ v \in 1 .. MaxVersion /\ dataset.rev \in Nat
      /\ draft[v].rev + 1 = n.rev /\ n.rev \in 0 .. MaxImport + 2
      /\ n.state = "published" /\ n.parent = draft[v].parent /\ n.cases = draft[v].cases
  <2>1. draft[v] \in Drafts /\ v \in 1 .. MaxVersion /\ dataset.rev \in Nat
      BY <1>1, HasOwner
  <2>2. n.rev \in 0 .. MaxImport + 2
      BY DEF Drafts
  <2> QED
      BY <1>1, <2>1, <2>2
<1>3. /\ draft' \in Seq(Drafts) /\ Len(draft') = Len(draft) /\ draft'[v] = n
      /\ \A w \in Versions \ {v} : draft'[w] = draft[w]
      /\ Versions' = Versions
    BY <1>1, Rewritten
<1>4. /\ sealed' \in Seq(Content \cup {NoCases}) /\ Len(sealed') = Len(sealed)
      /\ sealed'[v] = n.cases /\ \A w \in Versions \ {v} : sealed'[w] = sealed[w]
  <2>1. n.cases \in Content \cup {NoCases} /\ n.cases = draft[v].cases
      BY <1>2 DEF Drafts
  <2>2. sealed' = [sealed EXCEPT ![v] = n.cases]
      BY <1>1, <2>1
  <2>3. v \in 1 .. Len(sealed) /\ Versions = 1 .. Len(sealed)
      BY DEF Versions
  <2> QED
      BY <2>1, <2>2, <2>3
<1>5. /\ dataset' \in DatasetRow /\ dataset'.state = "active"
      /\ dataset'.owner = dataset.owner /\ dataset'.current = v
  <2>1. PICK r \in Nat : r = dataset.rev + 1
      BY <1>2
  <2>2. dataset' = [dataset EXCEPT !.current = v, !.rev = r] /\ v \in 0 .. MaxVersion
      BY <1>1, <1>2, <2>1
  <2> QED
      BY <1>1, <2>2 DEF DatasetRow
<1>6. known' \in [Member -> Lists]
  <2>1. PICK l \in Lists : l = [rev |-> dataset.rev + 1, version |-> v,
                               vrev |-> draft[v].rev + 1, epoch |-> epoch]
    <3>1. /\ dataset.rev + 1 \in Nat /\ v \in 0 .. MaxVersion
          /\ draft[v].rev + 1 \in 0 .. MaxImport + 2 /\ epoch \in 0 .. MaxEpoch
        BY <1>2 DEF Structured, OrganisationType
    <3> QED
        BY <3>1 DEF Lists
  <2> QED
      BY <1>1, <2>1 DEF Learned
<1>7. Drafted'
    BY <1>1, <1>3, <1>4, <1>5, <1>6
<1>8. Owned'
    BY <1>1, <1>3, <1>5 DEF Owned
<1>9. Lined'
  <2>1. dataset.current \in Nat /\ \A w \in Versions : w \in Nat
      BY <1>1, HasOwner DEF Versions
  <2>2. ASSUME NEW w \in Versions \ {v}
        PROVE  /\ draft'[w].parent = w - 1
               /\ draft'[w].state = "published" <=> w <= v
               /\ draft'[w].state = "published" => sealed'[w] = draft'[w].cases
               /\ draft'[w].state # "draft"
    <3>1. /\ draft'[w] = draft[w] /\ sealed'[w] = sealed[w]
          /\ draft[w].parent = w - 1 /\ draft[w].state # "draft"
          /\ draft[w].state = "published" <=> w <= dataset.current
          /\ draft[w].state = "published" => sealed[w] = draft[w].cases
        BY <1>1, <1>3, <1>4 DEF Lined
    <3> QED
        BY <1>1, <2>1, <3>1
  <2>3. /\ draft'[v].parent = v - 1 /\ draft'[v].state = "published"
        /\ sealed'[v] = draft'[v].cases
      BY <1>1, <1>2, <1>3, <1>4 DEF Lined
  <2> QED
      BY <1>1, <1>3, <1>5, <2>1, <2>2, <2>3 DEF Lined
<1>10. Current'
    BY <1>1, <1>3, <1>5 DEF Current
<1> QED
    BY <1>7, <1>8, <1>9, <1>10

LEMMA RetireStep ==
    ASSUME Sealed, NEW m \in Member, RetireDataset(m)
    PROVE  Sealed'
<1> USE DEF Sealed, Drafted
<1>1. /\ dataset.state = "active" /\ dataset.rev \in Nat /\ UNCHANGED <<draft, sealed, text>>
      /\ \A v \in Versions : draft[v].state = "published"
      /\ dataset' = [dataset EXCEPT !.state = "retired", !.rev = dataset.rev + 1]
      /\ known' = [known EXCEPT ![m].rev = dataset.rev + 1]
    BY HasOwner DEF RetireDataset, Drafts
<1>2. /\ dataset' \in DatasetRow /\ dataset'.state = "retired"
      /\ dataset'.owner = dataset.owner /\ dataset'.current = dataset.current
  <2>1. PICK r \in Nat : r = dataset.rev + 1
      BY <1>1
  <2>2. dataset' = [dataset EXCEPT !.state = "retired", !.rev = r]
      BY <1>1, <2>1
  <2> QED
      BY <2>2 DEF DatasetRow
<1>3. known' \in [Member -> Lists]
  <2>1. PICK r \in Nat : r = dataset.rev + 1
      BY <1>1
  <2>2. known[m] \in Lists /\ known' = [known EXCEPT ![m].rev = r]
      BY <1>1, <2>1
  <2>3. PICK l \in Lists : l = [known[m] EXCEPT !.rev = r]
      BY <2>2 DEF Lists
  <2> QED
      BY <2>2, <2>3
<1> QED
    BY <1>1, <1>2, <1>3 DEF Owned, Lined, Current, Versions

LEMMA SealedStep == Sealed /\ Structured /\ DatasetsNext => Sealed'
BY CreateDatasetStep, ReadStep, CreateDraftStep, ReplaceCasesStep, PublishStep, RetireStep
DEF DatasetsNext

\* The published versions are the first ones.
LEMMA VersionsFit == Sealed => DatasetsType /\ VersionsFormALine
<1> SUFFICES ASSUME Sealed PROVE DatasetsType /\ VersionsFormALine
    OBVIOUS
<1> USE DEF Sealed, Drafted
<1>1. \A v \in Versions : draft[v] \in Drafts /\ sealed[v] \in Content \cup {NoCases}
    BY DEF Versions
<1>2. DatasetsType
    BY <1>1 DEF DatasetsType, DatasetRow, Drafts, Lists, Texts, Versions
<1>3. dataset.current \in Nat
    BY DatasetAssumption DEF DatasetRow
<1>4. {v \in Versions : draft[v].state = "published"} = 1 .. dataset.current
    BY <1>3 DEF Lined, Current, Versions
<1>5. Cardinality(1 .. dataset.current) = dataset.current
  <2>1. Cardinality(1 .. dataset.current) =
            IF 1 > dataset.current THEN 0 ELSE dataset.current - 1 + 1
    <3>1. 1 \in Int /\ dataset.current \in Int
        BY <1>3
    <3> QED
        BY <3>1, FS_Interval, Zenon
  <2> QED
      BY <1>3, <2>1
<1> QED
    BY <1>2, <1>4, <1>5 DEF VersionsFormALine, Lined

\* What is published in a step, and what no step changes.
LEMMA SealingStep ==
    ASSUME Sealed, Structured, DatasetsNext \/ UNCHANGED datasets
    PROVE  /\ \A v \in Versions :
                 draft[v].state = "draft" /\ draft'[v].state = "published" =>
                    \E m \in Member :
                       /\ MayWrite(m, CHOOSE o \in dataset.owner : TRUE)
                       /\ text[m] = [version |-> v, cases |-> sealed'[v]]
           /\ \A v \in Versions : draft[v].state = "published" =>
                 draft'[v] = draft[v] /\ sealed'[v] = draft[v].cases
           /\ dataset.state = "retired" => draft' = draft /\ dataset' = dataset
<1> USE DEF Sealed, Drafted
<1>1. \A v \in Versions : draft[v].state = "published" => sealed[v] = draft[v].cases
    BY DEF Lined
<1>2. CASE \E m \in Member : CreateDataset(m)
    BY <1>2 DEF CreateDataset, Owned, Versions
<1>3. CASE \E m \in Member : ListDatasets(m) \/ ReadCases(m) \/ RetireDataset(m)
    BY <1>1, <1>3 DEF ListDatasets, ReadCases, RetireDataset
<1>4. CASE \E m \in Member : CreateDraft(m)
  <2>1. PICK m \in Member : CreateDraft(m)
      BY <1>4
  <2>3. NewVersion(dataset.current) \in Drafts
    <3>1. dataset.current \in 0 .. MaxVersion
        BY <2>1, HasOwner DEF CreateDraft
    <3> QED
        BY <3>1, DatasetAssumption DEF NewVersion, Drafts
  <2>2. \A v \in Versions : draft'[v] = draft[v] /\ sealed'[v] = sealed[v]
      BY <2>1, <2>3, AppendProperties DEF CreateDraft, Versions
  <2> QED
      BY <1>1, <2>1, <2>2 DEF CreateDraft
<1>5. CASE \E m \in Member : ReplaceCases(m)
  <2>1. PICK w \in Versions, c \in Content :
            /\ draft[w].state = "draft" /\ UNCHANGED <<dataset, sealed>>
            /\ draft' = [draft EXCEPT ![w].cases = c, ![w].rev = @ + 1]
      BY <1>5 DEF ReplaceCases
  <2>2. draft[w] \in Drafts
      BY DEF Versions
  <2>3. /\ \A v \in Versions \ {w} : draft'[v] = draft[v]
        /\ draft'[w].state = "draft"
      BY <2>1, <2>2 DEF Versions, Drafts
  <2> QED
      BY <1>1, <2>1, <2>3 DEF Owned
<1>6. CASE \E m \in Member : PublishVersion(m)
  <2>0. PICK m \in Member : PublishVersion(m)
      BY <1>6
  <2>1. PICK w \in Versions, n \in Drafts :
              /\ Writable(m) /\ dataset.state = "active" /\ draft[w].state = "draft"
              /\ draft' = [draft EXCEPT ![w] = n]
              /\ sealed' = [sealed EXCEPT ![w] = draft[w].cases]
              /\ text[m].version = w /\ text[m].cases = draft[w].cases
      BY <2>0, VersionCloses
  <2>2. /\ \A v \in Versions \ {w} : draft'[v] = draft[v] /\ sealed'[v] = sealed[v]
        /\ sealed'[w] = draft[w].cases
      BY <2>1 DEF Versions
  <2>3. MayWrite(m, CHOOSE o \in dataset.owner : TRUE)
    <3>1. PICK o \in Member : dataset.owner = {o}
        BY <2>1 DEF Owned
    <3> QED
        BY <2>1, <3>1 DEF Writable
  <2>4. text[m] = [version |-> w, cases |-> sealed'[w]]
      BY <2>1, <2>2 DEF Texts
  <2> QED
      BY <1>1, <2>1, <2>2, <2>3, <2>4
<1>7. CASE UNCHANGED datasets
    BY <1>1, <1>7 DEF datasets
<1> QED
    BY <1>2, <1>3, <1>4, <1>5, <1>6, <1>7 DEF DatasetsNext

-----------------------------------------------------------------------------
(* Tickets.  The row of a member knows which token it is, so that a spent    *)
(* one is told from the one that replaced it.                                *)

Previews == [token : 0 .. MaxTicket, chunk : SUBSET Chunk, live : BOOLEAN, used : BOOLEAN]
Issues   == [actor : Member, chunk : Chunk]
Passages == [token : 1 .. MaxTicket, actor : Member, chunk : Chunk]

Previewed ==
    /\ served \subseteq stored /\ stored \subseteq Chunk /\ reference \subseteq stored
    /\ preview \in [Member -> Previews]
    /\ issued \in Seq(Issues) /\ Len(issued) <= MaxTicket
    /\ shown \in Seq(Passages)

\* A row is empty or carries a token of its member, for a chunk that is stored.
TokensCarried == \A m \in Member :
    \/ preview[m] = NoPreview
    \/ /\ preview[m].token \in Tokens
       /\ preview[m].chunk = {issued[preview[m].token].chunk}
       /\ preview[m].chunk \subseteq stored
       /\ issued[preview[m].token].actor = m

Spent ==
    /\ \A i \in 1 .. Len(shown) :
          /\ shown[i].token \in Tokens
          /\ issued[shown[i].token] = [actor |-> shown[i].actor, chunk |-> shown[i].chunk]
          /\ \A m \in Member : preview[m].token = shown[i].token => preview[m].used
    /\ \A i, j \in 1 .. Len(shown) : shown[i].token = shown[j].token => i = j

Shown == Previewed /\ TokensCarried /\ Spent

LEMMA ShownAtFirst == TicketsInit => Shown
<1> SUFFICES ASSUME TicketsInit PROVE Shown
    OBVIOUS
<1>1. Len(<<>>) = 0 /\ \A S : <<>> \in Seq(S)
    OBVIOUS
<1>2. NoPreview \in Previews
    BY TicketAssumption DEF NoPreview, Previews
<1> QED
    BY <1>1, <1>2, TicketAssumption DEF TicketsInit, Shown, Previewed, TokensCarried, Spent

LEMMA ShownStill == Shown /\ UNCHANGED evidence => Shown'
BY DEF evidence, Shown, Previewed, TokensCarried, Spent, Tokens

LEMMA ChunksMove == Shown /\ (ServeOthers \/ Sweep \/ RegisterReferences) => Shown'
<1> SUFFICES ASSUME Shown, ServeOthers \/ Sweep \/ RegisterReferences PROVE Shown'
    OBVIOUS
<1> USE DEF Shown, Previewed
<1>1. UNCHANGED <<issued, shown>> /\ Tokens' = Tokens
    BY DEF ServeOthers, Sweep, RegisterReferences, Tokens
<1>2. CASE ServeOthers
  <2>1. /\ served' \subseteq stored
        /\ UNCHANGED <<stored, reference, preview>>
      BY <1>2 DEF ServeOthers
  <2>2. Previewed'
      BY <1>1, <2>1
  <2>3. TokensCarried'
      BY <1>1, <2>1 DEF TokensCarried
  <2>4. Spent'
      BY <1>1, <2>1 DEF Spent
  <2> QED
      BY <2>2, <2>3, <2>4
<1>3. CASE RegisterReferences
    BY <1>1, <1>3 DEF RegisterReferences, TokensCarried, Spent
<1>4. CASE Sweep
  <2>1. PICK c \in stored \ served :
            /\ stored' = stored \ {c} /\ reference' = reference \ {c} /\ UNCHANGED served
            /\ preview' = [m \in Member |-> IF preview[m].chunk = {c} THEN NoPreview
                                            ELSE preview[m]]
      BY <1>4 DEF Sweep
  <2>2. NoPreview \in Previews /\ NoPreview.token = 0 /\ 0 \notin Tokens
      BY TicketAssumption DEF NoPreview, Previews, Tokens
  <2>3. Previewed'
      BY <1>1, <2>1, <2>2
  <2>4. TokensCarried'
      BY <1>1, <2>1 DEF TokensCarried
  <2>5. Spent'
      BY <1>1, <2>1, <2>2 DEF Spent
  <2> QED
      BY <2>3, <2>4, <2>5
<1> QED
    BY <1>2, <1>3, <1>4

LEMMA MintPreviewStep ==
    ASSUME Shown, NEW m \in Member, MintPreview(m)
    PROVE  Shown'
<1> USE TicketAssumption DEF Shown, Previewed
<1> DEFINE k == Len(issued) + 1
<1>1. PICK c \in reference :
          /\ issued' = Append(issued, [actor |-> m, chunk |-> c])
          /\ preview' = [preview EXCEPT ![m] =
                [token |-> k, chunk |-> {c}, live |-> TRUE, used |-> FALSE]]
          /\ UNCHANGED <<stored, served, reference, shown>>
    BY DEF MintPreview
<1>2. /\ k \in 1 .. MaxTicket /\ 1 .. k = Tokens \cup {k} /\ k \notin Tokens
      /\ c \in stored /\ c \in Chunk
    BY DEF MintPreview, Tokens
<1>3. [actor |-> m, chunk |-> c] \in Issues
    BY <1>2 DEF Issues
<1>4. /\ issued' \in Seq(Issues) /\ Len(issued') = k
      /\ issued'[k] = [actor |-> m, chunk |-> c]
      /\ \A t \in Tokens : issued'[t] = issued[t]
    BY <1>1, <1>3, AppendProperties DEF Tokens
<1>5. Tokens' = Tokens \cup {k}
    BY <1>2, <1>4 DEF Tokens
<1> HIDE DEF k
<1>6. PICK p \in Previews : /\ p = [token |-> k, chunk |-> {c}, live |-> TRUE, used |-> FALSE]
                            /\ preview' = [preview EXCEPT ![m] = p]
  <2> DEFINE p == [token |-> k, chunk |-> {c}, live |-> TRUE, used |-> FALSE]
  <2>1. p \in Previews
      BY <1>2 DEF Previews
  <2> QED
      BY <1>1, <2>1
<1>7. preview' \in [Member -> Previews] /\ preview'[m] = p
      /\ \A n \in Member \ {m} : preview'[n] = preview[n]
    BY <1>6
<1>8. Previewed'
    BY <1>1, <1>2, <1>4, <1>7
<1>9. TokensCarried'
    BY <1>1, <1>2, <1>4, <1>5, <1>6, <1>7 DEF TokensCarried
<1>10. Spent'
  <2>1. \A i \in 1 .. Len(shown) :
            /\ shown[i].token \in Tokens
            /\ issued[shown[i].token] = [actor |-> shown[i].actor, chunk |-> shown[i].chunk]
      BY DEF Spent
  <2>2. ASSUME NEW i \in 1 .. Len(shown), NEW n \in Member,
               preview'[n].token = shown[i].token
        PROVE  preview'[n].used
    <3>1. preview'[m].token \notin Tokens
        BY <1>2, <1>6, <1>7
    <3>2. preview'[n] = preview[n]
        BY <1>7, <2>1, <2>2, <3>1
    <3> QED
        BY <2>2, <3>2 DEF Spent
  <2>3. \A i, j \in 1 .. Len(shown) : shown[i].token = shown[j].token => i = j
      BY DEF Spent
  <2> QED
      BY <1>1, <1>4, <1>5, <2>1, <2>2, <2>3 DEF Spent
<1> QED
    BY <1>8, <1>9, <1>10

LEMMA ConsumePreviewStep ==
    ASSUME Shown, NEW m \in Member, ConsumePreview(m)
    PROVE  Shown'
<1> USE TicketAssumption DEF Shown, Previewed
<1>1. PICK t \in Tokens, c \in preview[m].chunk :
          /\ HoldsTicket(m, t)
          /\ preview' = [preview EXCEPT ![m].used = TRUE]
          /\ shown' = Append(shown, [token |-> t, actor |-> m, chunk |-> c])
          /\ UNCHANGED <<stored, served, reference, issued>>
    BY DEF ConsumePreview
<1>2. /\ preview[m].token = t /\ ~preview[m].used
      /\ issued[t] = [actor |-> m, chunk |-> c] /\ issued[t] \in Issues
      /\ t \in 1 .. MaxTicket /\ t # 0
  <2>1. preview[m].token = t /\ ~preview[m].used /\ t \in 1 .. MaxTicket /\ t # 0
      BY <1>1 DEF HoldsTicket, Tokens
  <2>2. preview[m] # NoPreview
      BY <2>1 DEF NoPreview
  <2>3. /\ preview[m].chunk = {issued[t].chunk} /\ issued[t].actor = m
      BY <2>1, <2>2 DEF TokensCarried
  <2>4. issued[t] \in Issues
      BY DEF Tokens
  <2> QED
      BY <1>1, <2>1, <2>3, <2>4 DEF Issues
<1>3. PICK s \in Passages : s = [token |-> t, actor |-> m, chunk |-> c]
  <2>1. c \in Chunk
      BY <1>2 DEF Issues
  <2> QED
      BY <1>2, <2>1 DEF Passages
<1> DEFINE k == Len(shown) + 1
<1>4. /\ shown' \in Seq(Passages) /\ Len(shown') = k /\ shown'[k] = s
      /\ \A i \in 1 .. Len(shown) : shown'[i] = shown[i]
      /\ 1 .. k = (1 .. Len(shown)) \cup {k}
    BY <1>1, <1>3, AppendProperties
<1> HIDE DEF k
<1>5. /\ preview' \in [Member -> Previews]
      /\ preview'[m].token = t /\ preview'[m].chunk = preview[m].chunk /\ preview'[m].used
      /\ \A n \in Member \ {m} : preview'[n] = preview[n]
    BY <1>1, <1>2 DEF Previews
<1>6. Tokens' = Tokens
    BY <1>1 DEF Tokens
<1>7. \A n \in Member \ {m} : preview[n].token # t
    BY <1>2 DEF TokensCarried, NoPreview
<1>8. \A i \in 1 .. Len(shown) : shown[i].token # t
    BY <1>2 DEF Spent
<1>9. Previewed'
    BY <1>1, <1>4, <1>5
<1>10. TokensCarried'
  <2>1. ASSUME NEW n \in Member \ {m}
        PROVE  \/ preview'[n] = NoPreview
               \/ /\ preview'[n].token \in Tokens'
                  /\ preview'[n].chunk = {issued'[preview'[n].token].chunk}
                  /\ preview'[n].chunk \subseteq stored'
                  /\ issued'[preview'[n].token].actor = n
      BY <1>1, <1>5, <1>6 DEF TokensCarried
  <2>2. preview[m] # NoPreview
      BY <1>2 DEF NoPreview
  <2>3. /\ preview'[m].token \in Tokens'
        /\ preview'[m].chunk = {issued'[preview'[m].token].chunk}
        /\ preview'[m].chunk \subseteq stored'
        /\ issued'[preview'[m].token].actor = m
      BY <1>1, <1>5, <1>6, <2>2 DEF TokensCarried
  <2> QED
      BY <2>1, <2>3 DEF TokensCarried
<1>11. Spent'
    BY <1>1, <1>2, <1>3, <1>4, <1>5, <1>6, <1>7, <1>8 DEF Spent
<1> QED
    BY <1>9, <1>10, <1>11

LEMMA PreviewExpiresStep ==
    ASSUME Shown, NEW m \in Member, PreviewExpires(m)
    PROVE  Shown'
<1> USE DEF Shown, Previewed
<1>1. /\ preview[m].live /\ preview' = [preview EXCEPT ![m].live = FALSE]
      /\ UNCHANGED <<stored, served, reference, issued, shown>>
    BY DEF PreviewExpires
<1>2. /\ preview' \in [Member -> Previews]
      /\ preview'[m].token = preview[m].token /\ preview'[m].chunk = preview[m].chunk
      /\ preview'[m].used = preview[m].used
      /\ \A n \in Member \ {m} : preview'[n] = preview[n]
    BY <1>1 DEF Previews
<1>3. preview[m] # NoPreview /\ Tokens' = Tokens
    BY <1>1 DEF NoPreview, Tokens
<1> QED
    BY <1>1, <1>2, <1>3 DEF TokensCarried, Spent

LEMMA ShownStep == Shown /\ EvidenceNext => Shown'
BY ChunksMove, MintPreviewStep, ConsumePreviewStep, PreviewExpiresStep DEF EvidenceNext

\* A download spends its ticket before it reads, and each ticket is in flight or
\* answered once.
Tickets == [actor : Member, live : BOOLEAN, used : BOOLEAN]
Fetches == [ticket : 1 .. MaxTicket, sum : Sum]
Deliveries == [ticket : 1 .. MaxTicket, sum : Sum, due : Sum]

Exported ==
    /\ file \in Sum \cup {NoFile}
    /\ export \in [actor : SUBSET Member, sum : SUBSET Sum, live : BOOLEAN]
    /\ ticket \in Seq(Tickets) /\ Len(ticket) <= MaxTicket
    /\ fetching \subseteq Fetches
    /\ sent \in Seq(Deliveries)

InFlight ==
    /\ \A f \in fetching : f.ticket \in Downloads /\ ticket[f.ticket].used
    /\ \A f, g \in fetching : f.ticket = g.ticket => f = g

AnsweredOnce ==
    /\ \A i \in 1 .. Len(sent) :
          /\ sent[i].ticket \in Downloads /\ ticket[sent[i].ticket].used
          /\ sent[i].sum = sent[i].due
          /\ \A f \in fetching : f.ticket # sent[i].ticket
    /\ \A i, j \in 1 .. Len(sent) : sent[i].ticket = sent[j].ticket => i = j

Sent == Exported /\ InFlight /\ AnsweredOnce

LEMMA SentAtFirst == TicketsInit => Sent
<1> SUFFICES ASSUME TicketsInit PROVE Sent
    OBVIOUS
<1>1. Len(<<>>) = 0 /\ \A S : <<>> \in Seq(S)
    OBVIOUS
<1> QED
    BY <1>1, TicketAssumption
    DEF TicketsInit, Sent, Exported, InFlight, AnsweredOnce, NoExport

LEMMA SentStill == Sent /\ UNCHANGED exports => Sent'
BY DEF exports, Sent, Exported, InFlight, AnsweredOnce, Downloads

LEMMA FileStep ==
    ASSUME Sent,
           \/ \E m \in Member : RegisterExport(m)
           \/ FileChanges \/ ExportExpires
    PROVE  Sent'
<1> USE DEF Sent, Exported
<1>1. UNCHANGED <<ticket, fetching, sent>> /\ Downloads' = Downloads
    BY DEF RegisterExport, FileChanges, ExportExpires, Downloads
<1>2. Exported'
  <2>1. CASE \E m \in Member : RegisterExport(m)
      BY <1>1, <2>1 DEF RegisterExport
  <2>2. CASE FileChanges
      BY <1>1, <2>2 DEF FileChanges
  <2>3. CASE ExportExpires
      BY <1>1, <2>3 DEF ExportExpires
  <2> QED
      BY <2>1, <2>2, <2>3
<1> QED
    BY <1>1, <1>2 DEF InFlight, AnsweredOnce

LEMMA MintDownloadStep ==
    ASSUME Sent, NEW m \in Member, MintDownload(m)
    PROVE  Sent'
<1> USE TicketAssumption DEF Sent, Exported
<1> DEFINE k == Len(ticket) + 1
<1>1. PICK t \in Tickets : ticket' = Append(ticket, t)
    BY DEF MintDownload, Tickets
<1>2. /\ ticket' \in Seq(Tickets) /\ Len(ticket') = k /\ k <= MaxTicket
      /\ \A i \in Downloads : ticket'[i] = ticket[i]
      /\ Downloads \subseteq Downloads' /\ UNCHANGED <<file, export, fetching, sent>>
    BY <1>1, AppendProperties DEF MintDownload, Downloads
<1> QED
    BY <1>2 DEF InFlight, AnsweredOnce

\* A ticket that is written again, and stays spent if it was.
LEMMA Stamped ==
    ASSUME Sent, NEW t \in Downloads, NEW n \in Tickets,
           ticket' = [ticket EXCEPT ![t] = n]
    PROVE  /\ ticket' \in Seq(Tickets) /\ Len(ticket') = Len(ticket) /\ ticket'[t] = n
           /\ \A i \in Downloads \ {t} : ticket'[i] = ticket[i]
           /\ Downloads' = Downloads
BY DEF Sent, Exported, Downloads

LEMMA TicketExpiresStep ==
    ASSUME Sent, NEW t \in Downloads, TicketExpires(t)
    PROVE  Sent'
<1> USE DEF Sent, Exported
<1>1. ticket[t] \in Tickets /\ ticket' = [ticket EXCEPT ![t].live = FALSE]
      /\ UNCHANGED <<file, export, fetching, sent>>
    BY DEF TicketExpires, Downloads
<1>2. PICK n \in Tickets : n = [ticket[t] EXCEPT !.live = FALSE] /\ n.used = ticket[t].used
  <2>1. PICK o \in Tickets : o = ticket[t]
      BY <1>1
  <2>2. [o EXCEPT !.live = FALSE] \in Tickets /\ [o EXCEPT !.live = FALSE].used = o.used
      BY DEF Tickets
  <2> QED
      BY <2>1, <2>2
<1>3. ticket' = [ticket EXCEPT ![t] = n]
    BY <1>1, <1>2
<1>4. /\ ticket' \in Seq(Tickets) /\ Len(ticket') = Len(ticket) /\ ticket'[t] = n
      /\ \A i \in Downloads \ {t} : ticket'[i] = ticket[i]
      /\ Downloads' = Downloads
    BY <1>3, Stamped
<1> QED
    BY <1>1, <1>2, <1>4 DEF InFlight, AnsweredOnce

LEMMA ConsumeDownloadStep ==
    ASSUME Sent, NEW m \in Member, NEW t \in Downloads, ConsumeDownload(m, t)
    PROVE  Sent'
<1> USE TicketAssumption DEF Sent, Exported
<1>1. PICK s \in export.sum :
          /\ ~ticket[t].used /\ ticket' = [ticket EXCEPT ![t].used = TRUE]
          /\ fetching' = fetching \cup {[ticket |-> t, sum |-> s]}
          /\ UNCHANGED <<file, export, sent>>
    BY DEF ConsumeDownload
<1>2. ticket[t] \in Tickets /\ s \in Sum /\ t \in 1 .. MaxTicket
    BY <1>1 DEF Downloads
<1>3. PICK n \in Tickets : n = [ticket[t] EXCEPT !.used = TRUE] /\ n.used
  <2>1. PICK o \in Tickets : o = ticket[t]
      BY <1>2
  <2>2. [o EXCEPT !.used = TRUE] \in Tickets /\ [o EXCEPT !.used = TRUE].used
      BY DEF Tickets
  <2> QED
      BY <2>1, <2>2
<1>4. ticket' = [ticket EXCEPT ![t] = n]
    BY <1>1, <1>3
<1>5. /\ ticket' \in Seq(Tickets) /\ Len(ticket') = Len(ticket) /\ ticket'[t] = n
      /\ \A i \in Downloads \ {t} : ticket'[i] = ticket[i]
      /\ Downloads' = Downloads
    BY <1>4, Stamped
<1>6. PICK f \in Fetches : /\ f.ticket = t /\ f.sum = s /\ fetching' = fetching \cup {f}
    BY <1>1, <1>2 DEF Fetches
<1>7. /\ \A g \in fetching : g.ticket # t
      /\ \A i \in 1 .. Len(sent) : sent[i].ticket # t
    BY <1>1 DEF InFlight, AnsweredOnce
<1>8. Exported'
    BY <1>1, <1>5, <1>6
<1>9. InFlight'
    BY <1>3, <1>5, <1>6, <1>7 DEF InFlight
<1>10. AnsweredOnce'
    BY <1>1, <1>3, <1>5, <1>6, <1>7 DEF AnsweredOnce
<1> QED
    BY <1>8, <1>9, <1>10

LEMMA SendStep ==
    ASSUME Sent, NEW f \in fetching, SendMeasured(f)
    PROVE  Sent'
<1> USE TicketAssumption DEF Sent, Exported
<1>1. /\ fetching' = fetching \ {f} /\ UNCHANGED <<file, export, ticket>>
      /\ f \in Fetches /\ f.ticket \in Downloads /\ ticket[f.ticket].used
      /\ \A g \in fetching \ {f} : g.ticket # f.ticket
      /\ Downloads' = Downloads
    BY DEF SendMeasured, InFlight, Downloads
<1>2. InFlight'
    BY <1>1 DEF InFlight
<1>3. CASE UNCHANGED sent
    BY <1>1, <1>2, <1>3 DEF AnsweredOnce
<1>4. CASE /\ file = f.sum
           /\ sent' = Append(sent, [ticket |-> f.ticket, sum |-> file, due |-> f.sum])
  <2>1. PICK a \in Deliveries : /\ a.ticket = f.ticket /\ a.sum = a.due
                              /\ sent' = Append(sent, a)
      BY <1>1, <1>4 DEF Deliveries, Fetches
  <2> DEFINE k == Len(sent) + 1
  <2>2. /\ sent' \in Seq(Deliveries) /\ Len(sent') = k /\ sent'[k] = a
        /\ \A i \in 1 .. Len(sent) : sent'[i] = sent[i]
        /\ 1 .. k = (1 .. Len(sent)) \cup {k}
      BY <2>1, AppendProperties
  <2> HIDE DEF k
  <2>3. \A i \in 1 .. Len(sent) : sent[i].ticket # f.ticket
      BY DEF AnsweredOnce
  <2>4. Exported'
      BY <1>1, <2>2
  <2>5. AnsweredOnce'
      BY <1>1, <2>1, <2>2, <2>3 DEF AnsweredOnce
  <2> QED
      BY <1>2, <2>4, <2>5
<1> QED
    BY <1>3, <1>4 DEF SendMeasured

LEMMA SentStep == Sent /\ ExportsNext => Sent'
BY FileStep, MintDownloadStep, TicketExpiresStep, ConsumeDownloadStep, SendStep
DEF ExportsNext

\* What tickets promise.
LEMMA TicketsFit == Shown /\ Sent => TicketsType /\ ShownOnce /\ SentAsMeasured
<1> SUFFICES ASSUME Shown, Sent PROVE TicketsType /\ ShownOnce /\ SentAsMeasured
    OBVIOUS
<1> USE DEF Shown, Previewed, Sent, Exported
<1>1. /\ DOMAIN shown = 1 .. Len(shown) /\ DOMAIN sent = 1 .. Len(sent)
      /\ \A t \in Tokens : issued[t] \in Issues
      /\ \A t \in Downloads : ticket[t] \in Tickets
      /\ \A i \in 1 .. Len(shown) : shown[i] \in Passages
      /\ \A i \in 1 .. Len(sent) : sent[i] \in Deliveries
    BY DEF Tokens, Downloads
<1>2. ShownOnce /\ SentAsMeasured
    BY <1>1 DEF Spent, AnsweredOnce, ShownOnce, SentAsMeasured
<1>3. preview \in [Member -> [token : 0 .. MaxTicket, chunk : SUBSET stored,
                              live : BOOLEAN, used : BOOLEAN]]
  <2>1. ASSUME NEW m \in Member
        PROVE  preview[m] \in [token : 0 .. MaxTicket, chunk : SUBSET stored,
                               live : BOOLEAN, used : BOOLEAN]
    <3>1. preview[m].chunk \subseteq stored /\ preview[m] \in Previews
        BY DEF TokensCarried, NoPreview
    <3> QED
        BY <3>1 DEF Previews
  <2> QED
      BY <2>1
<1>4. /\ \A i \in DOMAIN shown :
            shown[i] \in [token : Tokens, actor : Member, chunk : Chunk]
      /\ \A i \in DOMAIN sent : sent[i] \in [ticket : Downloads, sum : Sum, due : Sum]
    BY <1>1 DEF Spent, AnsweredOnce, Passages, Deliveries
<1>5. fetching \subseteq [ticket : Downloads, sum : Sum]
    BY DEF InFlight, Fetches
<1> QED
    BY <1>1, <1>2, <1>3, <1>4, <1>5 DEF TicketsType, Issues, Tickets

-----------------------------------------------------------------------------
(* The records together.  Each kind moves alone, beside the structure.       *)

Kept == Structured /\ Reviewed /\ Sealed /\ Shown /\ Sent /\ use \in Use

LEMMA KeptStays == Kept /\ [Next]_vars => Kept'
<1> SUFFICES ASSUME Kept, [Next]_vars PROVE Kept'
    OBVIOUS
<1> USE DEF Kept
<1>1. Structured'
    BY StructuredStep DEF Next, vars
<1>2. Reviewed'
    BY ReviewedStep, ReviewedStill DEF Next, vars
<1>3. Sealed'
    BY SealedStep, SealedStill DEF Next, vars
<1>4. Shown' /\ Sent'
  <2>1. CASE EvidenceNext
    <3>1. UNCHANGED exports
        BY <2>1 DEF EvidenceNext, ServeOthers, Sweep, RegisterReferences, MintPreview,
           ConsumePreview, PreviewExpires
    <3> QED
        BY <2>1, <3>1, ShownStep, SentStill
  <2>2. CASE ExportsNext
    <3>1. UNCHANGED evidence
        BY <2>2 DEF ExportsNext, RegisterExport, MintDownload, ConsumeDownload,
           TicketExpires, SendMeasured, FileChanges, ExportExpires
    <3> QED
        BY <2>2, <3>1, SentStep, ShownStill
  <2>3. CASE UNCHANGED tickets
      BY <2>3, ShownStill, SentStill DEF tickets, evidence, exports
  <2> QED
      BY <2>1, <2>2, <2>3 DEF Next, vars
<1>5. use' \in Use
    BY DEF Next, vars
<1> QED
    BY <1>1, <1>2, <1>3, <1>4, <1>5

\* db.py, schema.sql: what the tables of a tenant say of each other always holds,
\* whatever the structure has become since.
THEOREM KeptAlways == Spec => []Kept
<1>1. Init => Kept
    BY StructuredAtFirst, ReviewedAtFirst, SealedAtFirst, ShownAtFirst, SentAtFirst
    DEF Init, Kept
<1> QED
    BY <1>1, KeptStays, PTL DEF Spec

\* For any members, structures, answers, versions and tickets, a case comes from
\* a verdict or a guarded answer and is decided once, versions form one line, a
\* preview shows its passage once and a download sends what was measured.
THEOREM TenantRecordsAgree == Spec => []RecordsAgree
<1>1. Kept => RecordsAgree
    BY CasesFit, VersionsFit, TicketsFit DEF Kept, Structured, RecordsAgree, TypeOK
<1> QED
    BY <1>1, KeptAlways, PTL

\* A case is decided by one who stands above its subject when he writes, and a
\* version is published as its editor read it and never changes after that.
THEOREM RecordsAreClosedByRight == Spec => ClosedByRight
<1>1. Kept /\ [Next]_vars =>
          [\A i \in Interactions :
              case[i].state = "open" /\ case'[i].state # "open" =>
                 \E m \in case'[i].reviewer :
                    CanMonitor(m, interaction[i].actor)
                       /\ m # interaction[i].actor]_vars
    BY DecisionStep DEF Next, vars, Kept
<1>2. Kept /\ [Next]_vars =>
          [\A v \in Versions :
              draft[v].state = "draft" /\ draft'[v].state = "published" =>
                 \E m \in Member :
                    /\ MayWrite(m, CHOOSE o \in dataset.owner : TRUE)
                    /\ text[m] = [version |-> v, cases |-> sealed'[v]]]_vars
    BY SealingStep DEF Next, vars, Kept
<1>3. Kept /\ [Next]_vars =>
          [/\ \A v \in Versions : draft[v].state = "published" =>
                 draft'[v] = draft[v] /\ sealed'[v] = draft[v].cases
           /\ dataset.state = "retired" =>
                 draft' = draft /\ dataset' = dataset]_vars
    BY SealingStep DEF Next, vars, Kept
<1> QED
    BY <1>1, <1>2, <1>3, KeptAlways, PTL
    DEF Spec, ClosedByRight, DecidedFromAbove, PublishedStandsAsRead, PublishedAsRead,
        SealedStays

-----------------------------------------------------------------------------
(* A question.  The snapshot of the one that is asked and the library       *)
(* agree on the rows it has locked; what it has found are the keys of       *)
(* locked rows, as long as its window is open; and what it has been told    *)
(* stays with it until it is delivered or withdrawn.                        *)

LibRow == [edition : 1 .. MaxEdition, served : 1 .. MaxEdition,
           state : {"active", "archived", "purged"}, labelled : BOOLEAN]
Snapshot == [Doc -> LibRow]
Figures == {"none", "quoted", "passage", "invented"}
Reply == [cited : SUBSET (Key \cup {Invented}), pages : SUBSET Page,
          figures : Figures]
Citation == [page : Page \cup {None}, chunk : Key \cup {None}]

Questions ==
    [pc : Pcs, engine : {"native", "llamaindex"},
     ids : {None} \cup SUBSET Doc, label : BOOLEAN, epoch : Nat,
     snap : Snapshot \cup {[d \in {} |-> 0]}, fresh : BOOLEAN,
     scope : SUBSET Doc, locked : SUBSET Doc, found : SUBSET Key,
     status : {"none", "review", "abstained", "answered"},
     cites : SUBSET Citation, reply : Reply, browser : BOOLEAN,
     noted : BOOLEAN, refs : SUBSET Key]

Shelved ==
    /\ lib \in Snapshot /\ policy \in Nat
    /\ store \subseteq Key /\ changes \in Nat
    /\ build \in [pc : {"idle", "copied"}, rows : SUBSET Key]

\* Places of a question: its scope is settled, its rows are locked, it has
\* found what it will be answered from, it has been told.
Scoped  == {"rows", "dense", "sparse", "index", "keys", "cover", "nodes", "leave"}
LockedScope  == {"dense", "sparse", "cover", "nodes"}
Ranked  == {"sparse", "leave"}
Holding == Ranked \cup {"generate", "note", "register", "delivered"}
Spoken  == {"note", "register", "delivered"}

\* A document whose row the question r holds is as the snapshot of r shows it.
Unmoved(r, d) ==
    /\ lib[d].served = r.snap[d].served
    /\ lib[d].edition = r.snap[d].edition
    /\ lib[d].state = r.snap[d].state

\* The window of the question r.
Snapped(r) ==
    /\ r.pc \in Scoped \cup {"scope"} => r.snap \in Snapshot /\ r.epoch = policy
    /\ r.pc \in Scoped =>
          \A d \in r.scope : /\ d \in Own /\ r.snap[d].state = "active"
                             /\ r.ids # None => d \in r.ids
    /\ r.locked \subseteq r.scope
    /\ r.locked # {} => r.pc \in LockedScope \cup {"leave"}
    /\ r.pc \in LockedScope => r.locked = r.scope
    /\ \A d \in r.locked : Unmoved(r, d)

\* What it has found.
Found(r) ==
    /\ r.found # {} => r.pc \in Holding
    /\ r.pc \in Ranked => \A k \in r.found :
                             k[1] \in r.locked /\ k = <<k[1], r.snap[k[1]].served>>
    /\ r.pc = "nodes" => \A d \in r.scope : <<d, r.snap[d].served>> \in store
    /\ \A j, k \in r.found : j[1] = k[1] => j = k
    /\ r.ids # None => \A k \in r.found : k[1] \in r.ids

CitedBy(r) == {c.chunk : c \in r.cites} \ {None}

\* What its answer stands on.
Stands(r) ==
    /\ r.reply.cited # {} /\ r.reply.cited \subseteq r.found
    /\ r.reply.figures \in {"none", "quoted"}
    /\ CitedBy(r) \subseteq r.reply.cited
    /\ \/ PagesOf(r.reply.cited) = {None}
       \/ \A c \in r.cites : c.page \in PagesOf(r.reply.cited)

Told(r) ==
    /\ r.status # "none" => r.pc \in Spoken
    /\ r.status # "answered" => r.cites = {}
    /\ r.status = "answered" => Stands(r)
    /\ r.pc \in {"register", "delivered"} /\ r.browser /\ CitedBy(r) # {} => r.noted
    /\ r.pc = "delivered" /\ r.browser => r.refs = CitedBy(r)

Fit(r) == r \in Questions /\ Snapped(r) /\ Found(r) /\ Told(r)

Answered == Shelved /\ Fit(q)

-----------------------------------------------------------------------------
(* What a question becomes.  The lemmas speak of its next value r.          *)

LEMMA Invention == Invented \notin Key
BY DEF Invented, Key

LEMMA KeyShape ==
    ASSUME NEW s \in Snapshot, NEW d \in Doc
    PROVE  <<d, s[d].served>> \in Key
BY DEF Snapshot, LibRow, Key

LEMMA Start == AnsweringInit => Answered
<1> SUFFICES ASSUME AnsweringInit PROVE Answered
    OBVIOUS
<1> USE PagesAssumption DEF AnsweringInit
<1>1. Shelved
  <2>1. 1 \in 1 .. MaxEdition
      OBVIOUS
  <2>2. lib \in Snapshot
      BY <2>1 DEF Snapshot, LibRow
  <2>3. store \subseteq Key
      BY <2>1 DEF Key
  <2> QED
      BY <2>2, <2>3 DEF Shelved
<1>2. q \in Questions
    BY DEF Questions, QuestionStart, Pcs, Reply, NoReply, Figures
<1>3. q.pc = "idle" /\ q.locked = {} /\ q.scope = {} /\ q.found = {} /\ q.status = "none"
      /\ q.cites = {}
    BY DEF QuestionStart
<1>4. Snapped(q)
    BY <1>3 DEF Snapped, Scoped, LockedScope
<1>5. Found(q)
    BY <1>3 DEF Found, Ranked
<1>6. Told(q)
    BY <1>3 DEF Told
<1> QED
    BY <1>1, <1>2, <1>4, <1>5, <1>6 DEF Answered, Fit

\* A question that fails holds nothing.
LEMMA Refusal ==
    ASSUME Fit(q), NEW r, r = Refuse, q.status = "none"
    PROVE  Fit(r)
<1>1. r \in Questions
    BY DEF Fit, Questions, Refuse, Pcs
<1>2. /\ r.pc = "refused" /\ r.locked = {} /\ r.found = {} /\ r.status = "none"
      /\ r.cites = q.cites
    BY DEF Fit, Questions, Refuse
<1>3. Snapped(r)
    BY <1>2 DEF Snapped, Scoped, LockedScope
<1>4. Found(r)
    BY <1>2 DEF Found, Ranked
<1>5. Told(r)
    BY <1>2 DEF Fit, Told
<1> QED
    BY <1>1, <1>3, <1>4, <1>5 DEF Fit

LEMMA Withdrawal ==
    ASSUME Fit(q), NEW r, r = [Refuse EXCEPT !.status = "none", !.cites = {}]
    PROVE  Fit(r)
<1>1. r \in Questions
    BY DEF Fit, Questions, Refuse, Pcs
<1>2. /\ r.pc = "refused" /\ r.locked = {} /\ r.found = {} /\ r.status = "none"
      /\ r.cites = {}
    BY DEF Fit, Questions, Refuse
<1>3. Snapped(r)
    BY <1>2 DEF Snapped, Scoped, LockedScope
<1>4. Found(r)
    BY <1>2 DEF Found, Ranked
<1>5. Told(r)
    BY <1>2 DEF Told
<1> QED
    BY <1>1, <1>3, <1>4, <1>5 DEF Fit

\* Until there is an answer there is nothing to keep of one.
LEMMA Untold ==
    ASSUME NEW r, r.status = "none", r.cites = {},
           r.pc \notin {"register", "delivered"}
    PROVE  Told(r)
BY DEF Told

LEMMA Asked ==
    ASSUME Fit(q), q.pc = "idle", NEW r,
           NEW engine \in {"native", "llamaindex"}, NEW label \in BOOLEAN,
           NEW browser \in BOOLEAN, NEW ids \in {None} \cup (SUBSET Doc \ {{}}),
           r = [q EXCEPT !.pc = "epoch", !.engine = engine, !.ids = ids,
                         !.label = label, !.browser = browser]
    PROVE  Fit(r)
<1>1. r \in Questions
    BY DEF Fit, Questions, Pcs
<1>2. /\ r.pc = "epoch" /\ r.locked = q.locked /\ r.found = q.found
      /\ r.status = q.status /\ r.cites = q.cites
    BY DEF Fit, Questions
<1>3. q.locked = {} /\ q.found = {} /\ q.status = "none" /\ q.cites = {}
    BY DEF Fit, Snapped, Found, Told, LockedScope, Holding, Ranked, Spoken
<1>4. Snapped(r)
    BY <1>2, <1>3 DEF Snapped, Scoped, LockedScope
<1>5. Found(r)
    BY <1>2, <1>3 DEF Found, Ranked
<1> QED
    BY <1>1, <1>2, <1>3, <1>4, <1>5, Untold DEF Fit

LEMMA Opened ==
    ASSUME Shelved, Fit(q), q.pc = "epoch", NEW r,
           r = [q EXCEPT !.pc = "scope", !.epoch = policy, !.snap = lib]
    PROVE  Fit(r)
<1>1. r \in Questions
    BY DEF Shelved, Fit, Questions, Pcs
<1>2. /\ r.pc = "scope" /\ r.epoch = policy /\ r.snap = lib
      /\ r.locked = q.locked /\ r.found = q.found
      /\ r.status = q.status /\ r.cites = q.cites
    BY DEF Fit, Questions
<1>3. q.locked = {} /\ q.found = {} /\ q.status = "none" /\ q.cites = {}
    BY DEF Fit, Snapped, Found, Told, LockedScope, Holding, Ranked, Spoken
<1>4. Snapped(r)
    BY <1>2, <1>3 DEF Snapped, Scoped, LockedScope, Shelved
<1>5. Found(r)
    BY <1>2, <1>3 DEF Found, Ranked
<1> QED
    BY <1>1, <1>2, <1>3, <1>4, <1>5, Untold DEF Fit

LEMMA ScopeResolved ==
    ASSUME Fit(q), q.pc = "scope", NEW r, NEW scope, NEW pc \in {"leave", "rows", "index"},
           scope = {d \in Own : /\ Serving(q.snap, d)
                                /\ q.ids = None \/ d \in q.ids
                                /\ q.label => q.snap[d].labelled},
           r = [q EXCEPT !.scope = scope, !.pc = pc]
    PROVE  Fit(r)
<1>1. r \in Questions
    BY PagesAssumption DEF Fit, Questions, Pcs
<1>2. /\ r.pc = pc /\ r.scope = scope /\ r.epoch = q.epoch /\ r.snap = q.snap
      /\ r.ids = q.ids /\ r.locked = q.locked /\ r.found = q.found
      /\ r.status = q.status /\ r.cites = q.cites
    BY DEF Fit, Questions
<1>3. q.locked = {} /\ q.found = {} /\ q.status = "none" /\ q.cites = {}
    BY DEF Fit, Snapped, Found, Told, LockedScope, Holding, Ranked, Spoken
<1>4. q.snap \in Snapshot /\ q.epoch = policy
    BY DEF Fit, Snapped
<1>5. \A d \in r.scope : /\ d \in Own /\ r.snap[d].state = "active"
                         /\ r.ids # None => d \in r.ids
    BY <1>2 DEF Serving
<1>6. Snapped(r)
    BY <1>2, <1>3, <1>4, <1>5 DEF Snapped, Scoped, LockedScope
<1>7. Found(r)
    BY <1>2, <1>3 DEF Found, Ranked
<1> QED
    BY <1>1, <1>2, <1>3, <1>6, <1>7, Untold DEF Fit

\* FOR SHARE: rows that somebody changed refuse the question.
LEMMA RowsLocked ==
    ASSUME Fit(q), q.pc \in {"rows", "keys"}, NEW r, NEW pc \in {"dense", "cover"},
           \A d \in q.scope : ~RowChanged(d),
           r = [q EXCEPT !.pc = pc, !.locked = q.scope]
    PROVE  Fit(r)
<1>1. r \in Questions
    BY DEF Fit, Questions, Pcs
<1>2. /\ r.pc = pc /\ r.locked = q.scope
      /\ r.scope = q.scope /\ r.epoch = q.epoch /\ r.snap = q.snap
      /\ r.ids = q.ids /\ r.found = q.found
      /\ r.status = q.status /\ r.cites = q.cites
    BY DEF Fit, Questions
<1>3. q.found = {} /\ q.status = "none" /\ q.cites = {}
    BY DEF Fit, Found, Told, Holding, Ranked, Spoken
<1>4. \A d \in r.locked : Unmoved(r, d)
    BY <1>2 DEF RowChanged, Unmoved
<1>5. Snapped(r)
    BY <1>2, <1>4 DEF Fit, Snapped, Scoped, LockedScope
<1>6. Found(r)
    BY <1>2, <1>3 DEF Found, Ranked
<1> QED
    BY <1>1, <1>2, <1>3, <1>5, <1>6, Untold DEF Fit

\* A ranking, or the nodes of the store, are keys of rows that are locked.
LEMMA Ranking ==
    ASSUME Fit(q), q.pc \in {"dense", "sparse", "nodes"}, NEW r,
           NEW pc \in {"sparse", "leave"}, NEW found \in SUBSET (SnapKeys \cup q.found),
           r = [q EXCEPT !.pc = pc, !.found = found]
    PROVE  Fit(r)
<1>0. q.snap \in Snapshot /\ q.locked = q.scope /\ q.scope \subseteq Doc
    BY DEF Fit, Questions, Snapped, Scoped, LockedScope
<1>1. \A k \in found : /\ k[1] \in q.locked
                       /\ k = <<k[1], q.snap[k[1]].served>>
  <2> SUFFICES ASSUME NEW k \in found
               PROVE  k[1] \in q.locked /\ k = <<k[1], q.snap[k[1]].served>>
      OBVIOUS
  <2>1. CASE k \in SnapKeys
    <3>1. PICK d \in q.scope : k = <<d, q.snap[d].served>>
        BY <2>1 DEF SnapKeys, KeyOf
    <3> QED
        BY <3>1, <1>0
  <2>2. CASE k \in q.found
      BY <2>2 DEF Fit, Found, Ranked, Holding
  <2> QED
      BY <2>1, <2>2
<1>2. found \subseteq Key
    BY <1>0, <1>1, KeyShape
<1>3. r \in Questions
    BY <1>2 DEF Fit, Questions, Pcs
<1>4. /\ r.pc = pc /\ r.found = found /\ r.locked = q.locked
      /\ r.scope = q.scope /\ r.epoch = q.epoch /\ r.snap = q.snap
      /\ r.ids = q.ids /\ r.status = q.status /\ r.cites = q.cites
    BY DEF Fit, Questions
<1>5. q.status = "none" /\ q.cites = {}
    BY DEF Fit, Told, Spoken
<1>6. Snapped(r)
  <2>1. \A d \in r.locked : Unmoved(r, d)
      BY <1>4 DEF Fit, Snapped, Unmoved
  <2> QED
      BY <1>0, <1>4, <2>1 DEF Fit, Snapped, Scoped, LockedScope
<1>7. Found(r)
  <2>1. \A k \in r.found : k[1] \in r.locked /\ k = <<k[1], r.snap[k[1]].served>>
      BY <1>1, <1>4
  <2>2. \A j, k \in r.found : j[1] = k[1] => j = k
      BY <2>1
  <2>3. r.ids # None => \A k \in r.found : k[1] \in r.ids
      BY <1>0, <1>4, <2>1 DEF Fit, Snapped, Scoped
  <2> QED
      BY <1>4, <2>1, <2>2, <2>3 DEF Found, Holding, Ranked
<1> QED
    BY <1>3, <1>4, <1>5, <1>6, <1>7, Untold DEF Fit

LEMMA IndexTaken ==
    ASSUME Fit(q), q.pc = "index", NEW r, r = [q EXCEPT !.pc = "keys"]
    PROVE  Fit(r)
<1>1. r \in Questions
    BY DEF Fit, Questions, Pcs
<1>2. /\ r.pc = "keys" /\ r.found = q.found /\ r.locked = q.locked
      /\ r.scope = q.scope /\ r.epoch = q.epoch /\ r.snap = q.snap
      /\ r.ids = q.ids /\ r.status = q.status /\ r.cites = q.cites
    BY DEF Fit, Questions
<1>3. q.locked = {} /\ q.found = {} /\ q.status = "none" /\ q.cites = {}
    BY DEF Fit, Snapped, Found, Told, LockedScope, Holding, Ranked, Spoken
<1>4. Snapped(r)
    BY <1>2, <1>3 DEF Fit, Snapped, Scoped, LockedScope
<1>5. Found(r)
    BY <1>2, <1>3 DEF Found, Ranked
<1> QED
    BY <1>1, <1>2, <1>3, <1>4, <1>5, Untold DEF Fit

LEMMA IndexCovers ==
    ASSUME Fit(q), q.pc = "cover", NEW r, SnapKeys \subseteq store,
           r = [q EXCEPT !.pc = "nodes"]
    PROVE  Fit(r)
<1>1. r \in Questions
    BY DEF Fit, Questions, Pcs
<1>2. /\ r.pc = "nodes" /\ r.found = q.found /\ r.locked = q.locked
      /\ r.scope = q.scope /\ r.epoch = q.epoch /\ r.snap = q.snap
      /\ r.ids = q.ids /\ r.status = q.status /\ r.cites = q.cites
    BY DEF Fit, Questions
<1>3. q.found = {} /\ q.status = "none" /\ q.cites = {}
    BY DEF Fit, Found, Told, Holding, Ranked, Spoken
<1>4. Snapped(r)
  <2>1. \A d \in r.locked : Unmoved(r, d)
      BY <1>2 DEF Fit, Snapped, Unmoved
  <2> QED
      BY <1>2, <2>1 DEF Fit, Snapped, Scoped, LockedScope
<1>5. Found(r)
  <2>1. \A d \in r.scope : <<d, r.snap[d].served>> \in store
      BY <1>2 DEF SnapKeys, KeyOf
  <2> QED
      BY <1>2, <1>3, <2>1 DEF Found, Ranked
<1> QED
    BY <1>1, <1>2, <1>3, <1>4, <1>5, Untold DEF Fit

LEMMA WindowLeft ==
    ASSUME Fit(q), q.pc = "leave", NEW r,
           r = [q EXCEPT !.pc = "generate", !.locked = {},
                         !.snap = [d \in {} |-> 0], !.fresh = TRUE]
    PROVE  Fit(r)
<1>1. r \in Questions
    BY DEF Fit, Questions, Pcs
<1>2. /\ r.pc = "generate" /\ r.locked = {} /\ r.found = q.found
      /\ r.ids = q.ids /\ r.status = q.status /\ r.cites = q.cites
    BY DEF Fit, Questions
<1>3. q.status = "none" /\ q.cites = {}
    BY DEF Fit, Told, Spoken
<1>4. Snapped(r)
    BY <1>2 DEF Snapped, Scoped, LockedScope
<1>5. Found(r)
    BY <1>2 DEF Fit, Found, Ranked, Holding
<1> QED
    BY <1>1, <1>2, <1>3, <1>4, <1>5, Untold DEF Fit

-----------------------------------------------------------------------------
(* The answer.                                                             *)

\* A citation is a page, of the answer or of its evidence, with a passage of the
\* evidence or with none.
LEMMA CitationShape ==
    ASSUME NEW a, NEW c \in Citations(a)
    PROVE  \E p \in (IF a.pages # {} THEN a.pages ELSE PagesOf(a.cited)),
             k \in Known(a) \cup {None} : c = [page |-> p, chunk |-> k]
<1> DEFINE pages == IF a.pages # {} THEN a.pages ELSE PagesOf(a.cited)
           at(p) == {k \in Known(a) : PageOf[k[1]] = p}
           of(p) == IF at(p) = {} THEN {[page |-> p, chunk |-> None]}
                    ELSE {[page |-> p, chunk |-> k] : k \in at(p)}
<1>1. Citations(a) = UNION {of(p) : p \in pages}
    BY DEF Citations
<1>2. PICK p \in pages : c \in of(p)
    BY <1>1
<1>3. \E k \in Known(a) \cup {None} : c = [page |-> p, chunk |-> k]
    BY <1>2
<1> QED
    BY <1>2, <1>3

LEMMA Withheld ==
    ASSUME Fit(q), q.pc = "generate", NEW r, NEW s \in {"review", "abstained"},
           r = [q EXCEPT !.pc = "note", !.status = s]
    PROVE  Fit(r)
<1>1. r \in Questions
    BY DEF Fit, Questions, Pcs
<1>2. /\ r.pc = "note" /\ r.locked = q.locked /\ r.found = q.found
      /\ r.ids = q.ids /\ r.status = s /\ r.cites = q.cites
    BY DEF Fit, Questions
<1>3. q.locked = {} /\ q.status = "none" /\ q.cites = {}
    BY DEF Fit, Snapped, Told, LockedScope, Spoken
<1>4. Snapped(r)
    BY <1>2, <1>3 DEF Snapped, Scoped, LockedScope
<1>5. Found(r)
    BY <1>2 DEF Fit, Found, Ranked, Holding
<1>6. Told(r)
    BY <1>2, <1>3 DEF Told, Spoken
<1> QED
    BY <1>1, <1>4, <1>5, <1>6 DEF Fit

LEMMA Published ==
    ASSUME Fit(q), q.pc = "generate", NEW r, NEW a \in Replies,
           ~Flagged(a), ~a.abstains,
           r = [q EXCEPT !.pc = "note", !.status = "answered",
                         !.cites = Citations(a),
                         !.reply = [cited |-> a.cited, pages |-> a.pages,
                                    figures |-> a.figures]]
    PROVE  Fit(r)
<1>1. /\ a.cited \subseteq q.found \cup {Invented} /\ a.pages \subseteq Page
      /\ a.figures \in Figures
    BY DEF Replies, Figures
<1>2. /\ a.cited # {} /\ Invented \notin a.cited /\ a.figures \in {"none", "quoted"}
      /\ ~StrayPages(a)
    BY <1>1 DEF Flagged, Figures
<1>3. Known(a) = a.cited /\ a.cited \subseteq q.found
    BY <1>1, <1>2 DEF Known
<1>4. q.found \subseteq Key
    BY DEF Fit, Questions
<1>5. \A k \in Key : PageOf[k[1]] \in Page \cup {None}
    BY PagesAssumption DEF Key
<1>6. PagesOf(a.cited) \subseteq Page \cup {None} /\ PagesOf(a.cited) # {}
    BY <1>2, <1>3, <1>4, <1>5 DEF PagesOf
<1>7. Citations(a) \subseteq Citation
  <2> SUFFICES ASSUME NEW c \in Citations(a) PROVE c \in Citation
      OBVIOUS
  <2>1. PICK p \in (IF a.pages # {} THEN a.pages ELSE PagesOf(a.cited)),
             k \in Known(a) \cup {None} : c = [page |-> p, chunk |-> k]
      BY CitationShape
  <2>2. p \in Page \cup {None} /\ k \in Key \cup {None}
      BY <2>1, <1>1, <1>3, <1>4, <1>6
  <2> QED
      BY <2>1, <2>2 DEF Citation
<1> DEFINE told == [cited |-> a.cited, pages |-> a.pages, figures |-> a.figures]
<1>8. told \in Reply
    BY <1>1, <1>4 DEF Reply
<1>9. told.cited = a.cited /\ told.figures = a.figures
    OBVIOUS
<1> HIDE DEF told
<1>10. r = [q EXCEPT !.pc = "note", !.status = "answered",
                     !.cites = Citations(a), !.reply = told]
    BY DEF told
<1>11. r \in Questions
    BY <1>7, <1>8, <1>10 DEF Fit, Questions, Pcs
<1>12. /\ r.pc = "note" /\ r.locked = q.locked /\ r.found = q.found
       /\ r.ids = q.ids /\ r.status = "answered" /\ r.cites = Citations(a)
       /\ r.reply = told
    BY <1>10 DEF Fit, Questions
<1>13. q.locked = {}
    BY DEF Fit, Snapped, LockedScope
<1>14. Snapped(r)
    BY <1>12, <1>13 DEF Snapped, Scoped, LockedScope
<1>15. Found(r)
    BY <1>12 DEF Fit, Found, Ranked, Holding
<1>16. CitedBy(r) \subseteq r.reply.cited
  <2> SUFFICES ASSUME NEW c \in Citations(a), c.chunk # None PROVE c.chunk \in a.cited
      BY <1>9, <1>12 DEF CitedBy
  <2>1. PICK p \in (IF a.pages # {} THEN a.pages ELSE PagesOf(a.cited)),
             k \in Known(a) \cup {None} : c = [page |-> p, chunk |-> k]
      BY CitationShape
  <2> QED
      BY <2>1, <1>3
<1>17. \/ PagesOf(a.cited) = {None}
       \/ \A c \in Citations(a) : c.page \in PagesOf(a.cited)
  <2>1. CASE PagesOf(Known(a)) \ {None} = {}
      BY <2>1, <1>3, <1>6
  <2>2. CASE PagesOf(Known(a)) \ {None} # {}
    <3>1. a.pages \subseteq PagesOf(a.cited)
        BY <2>2, <1>2, <1>3 DEF StrayPages
    <3> SUFFICES ASSUME NEW c \in Citations(a) PROVE c.page \in PagesOf(a.cited)
        OBVIOUS
    <3>2. PICK p \in (IF a.pages # {} THEN a.pages ELSE PagesOf(a.cited)),
               k \in Known(a) \cup {None} : c = [page |-> p, chunk |-> k]
        BY CitationShape
    <3> QED
        BY <3>1, <3>2
  <2> QED
      BY <2>1, <2>2
<1>18. Stands(r)
    BY <1>2, <1>3, <1>9, <1>12, <1>16, <1>17 DEF Stands
<1>19. Told(r)
    BY <1>12, <1>18 DEF Told, Spoken
<1> QED
    BY <1>11, <1>14, <1>15, <1>19 DEF Fit

\* What an answer stands on goes with its reply and its citations.
LEMMA StillStands ==
    ASSUME NEW r, r.found = q.found, r.cites = q.cites, r.reply = q.reply,
           r.status = q.status, q.status = "answered" => Stands(q)
    PROVE  /\ r.status = "answered" => Stands(r)
           /\ CitedBy(r) = CitedBy(q)
BY DEF Stands, CitedBy

LEMMA Noted ==
    ASSUME Fit(q), q.pc = "note", NEW r, NEW noted \in BOOLEAN,
           noted = (q.browser /\ (q.status = "review" \/ Cited # {})),
           r = [q EXCEPT !.pc = "register", !.noted = noted]
    PROVE  Fit(r)
<1>1. r \in Questions
    BY DEF Fit, Questions, Pcs
<1>2. /\ r.pc = "register" /\ r.locked = q.locked /\ r.found = q.found
      /\ r.ids = q.ids /\ r.status = q.status /\ r.cites = q.cites
      /\ r.reply = q.reply /\ r.browser = q.browser /\ r.noted = noted
    BY DEF Fit, Questions
<1>3. q.locked = {}
    BY DEF Fit, Snapped, LockedScope
<1>4. Snapped(r)
    BY <1>2, <1>3 DEF Snapped, Scoped, LockedScope
<1>5. Found(r)
    BY <1>2 DEF Fit, Found, Ranked, Holding
<1>6. (r.status = "answered" => Stands(r)) /\ CitedBy(r) = Cited
    BY <1>2, StillStands DEF Fit, Told, CitedBy, Cited
<1>7. Told(r)
    BY <1>2, <1>6 DEF Fit, Told, Spoken
<1> QED
    BY <1>1, <1>4, <1>5, <1>7 DEF Fit

LEMMA Delivered ==
    ASSUME Fit(q), q.pc = "register", NEW r, NEW refs \in SUBSET Key,
           q.browser => refs = Cited,
           r = [q EXCEPT !.pc = "delivered", !.refs = refs]
    PROVE  Fit(r)
<1>1. r \in Questions
    BY DEF Fit, Questions, Pcs
<1>2. /\ r.pc = "delivered" /\ r.locked = q.locked /\ r.found = q.found
      /\ r.ids = q.ids /\ r.status = q.status /\ r.cites = q.cites
      /\ r.reply = q.reply /\ r.browser = q.browser /\ r.noted = q.noted
      /\ r.refs = refs
    BY DEF Fit, Questions
<1>3. q.locked = {}
    BY DEF Fit, Snapped, LockedScope
<1>4. Snapped(r)
    BY <1>2, <1>3 DEF Snapped, Scoped, LockedScope
<1>5. Found(r)
    BY <1>2 DEF Fit, Found, Ranked, Holding
<1>6. (r.status = "answered" => Stands(r)) /\ CitedBy(r) = Cited
    BY <1>2, StillStands DEF Fit, Told, CitedBy, Cited
<1>7. Told(r)
    BY <1>2, <1>6 DEF Fit, Told, Spoken, CitedBy, Cited
<1> QED
    BY <1>1, <1>4, <1>5, <1>7 DEF Fit

-----------------------------------------------------------------------------
(* The steps.                                                              *)

\* A step of the question leaves the library as it is.
LEMMA Carried ==
    ASSUME Shelved, Library, Fit(q')
    PROVE  Answered'
<1>1. Shelved'
    BY DEF Shelved, Library
<1>2. Snapped(q)' /\ Found(q)' /\ Told(q)'
    BY DEF Fit, Library, Snapped, Found, Told, Unmoved, Stands, CitedBy
<1> QED
    BY <1>1, <1>2 DEF Answered, Fit

LEMMA QuestionSteps ==
    ASSUME Answered, Question
    PROVE  Answered'
<1> USE DEF Answered
<1>0. Library
    BY DEF Question, Ask, BeginRetrievalSnapshot, ResolveScope, LockDocuments,
           LockRows, DenseRanking, SparseRanking, LockIndex,
           LockRetrievalScopeKeys, Covered, RetrieveNodes, LeaveWindow,
           RetrievalFails, Answer, PersistInteraction, RegisterEvidence
<1> SUFFICES Fit(q')
    BY <1>0, Carried
<1>1. CASE Ask
    BY <1>1, Asked DEF Ask
<1>2. CASE BeginRetrievalSnapshot
    BY <1>2, Opened DEF BeginRetrievalSnapshot
<1>3. CASE ResolveScope
  <2> DEFINE scope == {d \in Own : /\ Serving(q.snap, d)
                                   /\ q.ids = None \/ d \in q.ids
                                   /\ q.label => q.snap[d].labelled}
             pc == IF ~(q.engine = "native" /\ Unscoped) /\ scope = {} THEN "leave"
                   ELSE IF q.engine = "native" THEN "rows" ELSE "index"
  <2>1. q.pc = "scope" /\ q' = [q EXCEPT !.scope = scope, !.pc = pc]
      BY <1>3 DEF ResolveScope
  <2>2. pc \in {"leave", "rows", "index"}
      OBVIOUS
  <2> QED
      BY <2>1, <2>2, ScopeResolved
<1>4. ASSUME NEW pc \in {"dense", "cover"}, q.pc \in {"rows", "keys"}, LockRows(pc)
      PROVE  Fit(q')
  <2>1. CASE \E d \in q.scope : RowChanged(d)
    <3>1. q' = Refuse /\ q.status = "none"
        BY <1>4, <2>1 DEF LockRows, Fit, Told, Spoken
    <3> QED
        BY <3>1, Refusal
  <2>2. CASE ~\E d \in q.scope : RowChanged(d)
    <3>1. q' = [q EXCEPT !.pc = pc, !.locked = q.scope]
        BY <1>4, <2>2 DEF LockRows
    <3> QED
        BY <1>4, <2>2, <3>1, RowsLocked
  <2> QED
      BY <2>1, <2>2
<1>5. CASE LockDocuments
    BY <1>4, <1>5 DEF LockDocuments
<1>6. CASE DenseRanking
    BY <1>6, Ranking DEF DenseRanking
<1>7. CASE SparseRanking
  <2>1. PICK ranked \in SUBSET SnapKeys :
          \E fused \in SUBSET (q.found \cup ranked) :
             q' = [q EXCEPT !.pc = "leave", !.found = fused]
      BY <1>7 DEF SparseRanking
  <2>2. PICK fused \in SUBSET (q.found \cup ranked) :
             q' = [q EXCEPT !.pc = "leave", !.found = fused]
      BY <2>1
  <2>3. fused \in SUBSET (SnapKeys \cup q.found) /\ q.pc = "sparse"
      BY <1>7 DEF SparseRanking
  <2> QED
      BY <2>2, <2>3, Ranking
<1>8. CASE LockIndex
    BY <1>8, IndexTaken DEF LockIndex
<1>9. CASE LockRetrievalScopeKeys
    BY <1>4, <1>9 DEF LockRetrievalScopeKeys
<1>10. CASE Covered
  <2>1. q.pc = "cover" /\ q.status = "none"
      BY <1>10 DEF Covered, Fit, Told, Spoken
  <2> QED
      BY <1>10, <2>1, IndexCovers, Refusal DEF Covered
<1>11. CASE RetrieveNodes
  <2>1. SnapKeys \cap store \in SUBSET (SnapKeys \cup q.found)
      OBVIOUS
  <2> QED
      BY <1>11, <2>1, Ranking DEF RetrieveNodes
<1>12. CASE LeaveWindow
    BY <1>12, WindowLeft DEF LeaveWindow
<1>13. CASE RetrievalFails
  <2>1. q' = Refuse /\ q.status = "none"
      BY <1>13 DEF RetrievalFails, Fit, Told, Spoken, Pcs
  <2> QED
      BY <2>1, Refusal
<1>14. CASE Answer
  <2>1. PICK a \in Replies :
          q' = IF Flagged(a) THEN [q EXCEPT !.pc = "note", !.status = "review"]
               ELSE IF a.abstains THEN [q EXCEPT !.pc = "note", !.status = "abstained"]
               ELSE [q EXCEPT !.pc = "note", !.status = "answered",
                              !.cites = Citations(a),
                              !.reply = [cited |-> a.cited, pages |-> a.pages,
                                         figures |-> a.figures]]
      BY <1>14 DEF Answer
  <2>2. q.pc = "generate"
      BY <1>14 DEF Answer
  <2>3. CASE Flagged(a) \/ a.abstains
    <3>1. \E s \in {"review", "abstained"} : q' = [q EXCEPT !.pc = "note", !.status = s]
        BY <2>1, <2>3
    <3> QED
        BY <2>2, <3>1, Withheld
  <2>4. CASE ~Flagged(a) /\ ~a.abstains
      BY <2>1, <2>2, <2>4, Published
  <2> QED
      BY <2>3, <2>4
<1>15. CASE PersistInteraction
  <2> DEFINE noted == q.browser /\ (q.status = "review" \/ Cited # {})
  <2>1. q.pc = "note" /\ noted \in BOOLEAN
      BY <1>15 DEF PersistInteraction, Fit, Questions
  <2>2. CASE q' = [q EXCEPT !.pc = "register", !.noted = noted]
      BY <2>1, <2>2, Noted
  <2>3. CASE q' = [Refuse EXCEPT !.status = "none", !.cites = {}]
      BY <2>3, Withdrawal
  <2> QED
      BY <1>15, <2>2, <2>3 DEF PersistInteraction
<1>16. CASE RegisterEvidence
  <2>1. q.pc = "register"
      BY <1>16 DEF RegisterEvidence
  <2>2. CASE ~q.browser
    <3>1. q.refs \in SUBSET Key /\ q' = [q EXCEPT !.pc = "delivered", !.refs = q.refs]
        BY <1>16, <2>2 DEF RegisterEvidence, Fit, Questions
    <3> QED
        BY <2>1, <2>2, <3>1, Delivered
  <2>3. CASE q.browser /\ Cited \subseteq Served
    <3>1. Served \subseteq Key
        BY KeyShape, PagesAssumption DEF Served, KeyOf, Shelved
    <3>2. q' = [q EXCEPT !.pc = "delivered", !.refs = Cited]
        BY <1>16, <2>3 DEF RegisterEvidence
    <3> QED
        BY <2>1, <2>3, <3>1, <3>2, Delivered
  <2>4. CASE q.browser /\ ~(Cited \subseteq Served)
      BY <1>16, <2>4, Withdrawal DEF RegisterEvidence
  <2> QED
      BY <2>2, <2>3, <2>4
<1> QED
    BY <1>1, <1>2, <1>3, <1>5, <1>6, <1>7, <1>8, <1>9, <1>10, <1>11, <1>12,
       <1>13, <1>14, <1>15, <1>16 DEF Question

\* A change of the library leaves a question whose rows it does not touch.
LEMMA LibraryStep ==
    ASSUME Answered, q' = q, store' = store, Shelved',
           InWindow => policy' = policy,
           \A d \in q.locked : /\ lib'[d].served = lib[d].served
                               /\ lib'[d].edition = lib[d].edition
                               /\ lib'[d].state = lib[d].state
    PROVE  Answered'
<1> USE DEF Answered
<1>1. Snapped(q)'
  <2>1. \A d \in q.locked : Unmoved(q, d)'
      BY DEF Fit, Snapped, Unmoved
  <2>2. q.pc \in Scoped \cup {"scope"} => InWindow
      BY DEF InWindow, Scoped
  <2> QED
      BY <2>1, <2>2 DEF Fit, Snapped
<1>2. (q \in Questions)' /\ Found(q)' /\ Told(q)'
    BY DEF Fit, Found, Told, Stands, CitedBy
<1> QED
    BY <1>1, <1>2 DEF Fit

LEMMA RowsMove ==
    ASSUME Answered, NEW d \in Own, NEW row \in LibRow,
           lib' = [lib EXCEPT ![d] = row],
           d \notin q.locked \/ (/\ row.served = lib[d].served
                                 /\ row.edition = lib[d].edition
                                 /\ row.state = lib[d].state),
           changes' = changes + 1, UNCHANGED <<policy, store, build, q>>
    PROVE  Answered'
<1>0. d \in Doc
    BY PagesAssumption
<1>1. Shelved'
    BY <1>0 DEF Answered, Shelved, Snapshot
<1>2. \A e \in q.locked : /\ lib'[e].served = lib[e].served
                          /\ lib'[e].edition = lib[e].edition
                          /\ lib'[e].state = lib[e].state
  <2>1. \A e \in q.locked : e \in Doc
      BY DEF Answered, Fit, Questions
  <2>2. \A e \in Doc : lib'[e] = IF e = d THEN row ELSE lib[e]
      BY DEF Answered, Shelved, Snapshot
  <2> QED
      BY <2>1, <2>2
<1> QED
    BY <1>1, <1>2, LibraryStep

\* Fields of a row that change one by one.
LEMMA RowFields ==
    ASSUME NEW x \in LibRow, NEW e \in 1 .. MaxEdition, NEW f \in 1 .. MaxEdition,
           NEW s \in {"active", "archived", "purged"}, NEW b \in BOOLEAN
    PROVE  /\ [x EXCEPT !.edition = e, !.served = f] \in LibRow
           /\ [x EXCEPT !.served = f] \in LibRow
           /\ [x EXCEPT !.state = s] \in LibRow
           /\ [x EXCEPT !.state = s, !.labelled = b] \in LibRow
           /\ [x EXCEPT !.labelled = b] \in LibRow
           /\ [x EXCEPT !.labelled = b].served = x.served
           /\ [x EXCEPT !.labelled = b].edition = x.edition
           /\ [x EXCEPT !.labelled = b].state = x.state
BY DEF LibRow

LEMMA LibrarySteps ==
    ASSUME Answered, LibraryMoves
    PROVE  Answered'
<1>0. \A d \in Own : lib[d] \in LibRow
    BY PagesAssumption DEF Answered, Shelved, Snapshot
<1>1. ASSUME NEW d \in Own, Publish(d) PROVE Answered'
  <2>1. lib[d].edition + 1 \in 1 .. MaxEdition
      BY <1>0, <1>1, PagesAssumption DEF Publish, LibRow
  <2> DEFINE row == [lib[d] EXCEPT !.edition = lib[d].edition + 1,
                                   !.served = lib[d].edition + 1]
  <2>2. row \in LibRow
      BY <1>0, <2>1, RowFields
  <2>3. lib' = [lib EXCEPT ![d] = row]
      BY <1>1 DEF Publish
  <2> HIDE DEF row
  <2> QED
      BY <1>1, <2>2, <2>3, RowsMove DEF Publish, Changes
<1>2. ASSUME NEW d \in Own, Activate(d) PROVE Answered'
  <2>1. PICK e \in 1 .. lib[d].edition : lib' = [lib EXCEPT ![d].served = e]
      BY <1>2 DEF Activate
  <2>2. e \in 1 .. MaxEdition
      BY <1>0, PagesAssumption DEF LibRow
  <2> DEFINE row == [lib[d] EXCEPT !.served = e]
  <2>3. row \in LibRow
      BY <1>0, <2>2, RowFields
  <2>4. lib' = [lib EXCEPT ![d] = row]
      BY <2>1
  <2> HIDE DEF row
  <2> QED
      BY <1>2, <2>3, <2>4, RowsMove DEF Activate, Changes
<1>3. ASSUME NEW d \in Own, Archive(d) \/ Restore(d) PROVE Answered'
  <2>1. PICK s \in {"active", "archived"} : lib' = [lib EXCEPT ![d].state = s]
      BY <1>3 DEF Archive, Restore
  <2> DEFINE row == [lib[d] EXCEPT !.state = s]
  <2>2. row \in LibRow
      BY <1>0 DEF LibRow
  <2>3. lib' = [lib EXCEPT ![d] = row]
      BY <2>1
  <2> HIDE DEF row
  <2> QED
      BY <1>3, <2>2, <2>3, RowsMove DEF Archive, Restore, Changes
<1>4. ASSUME NEW d \in Own, Purge(d) PROVE Answered'
  <2> DEFINE row == [lib[d] EXCEPT !.state = "purged", !.labelled = FALSE]
  <2>1. row \in LibRow
      BY <1>0 DEF LibRow
  <2>2. lib' = [lib EXCEPT ![d] = row]
      BY <1>4 DEF Purge
  <2> HIDE DEF row
  <2> QED
      BY <1>4, <2>1, <2>2, RowsMove DEF Purge, Changes
<1>5. ASSUME NEW d \in Own, SetCollectionDocument(d) PROVE Answered'
  <2> DEFINE b == ~lib[d].labelled
             row == [lib[d] EXCEPT !.labelled = b]
  <2>1. b \in BOOLEAN
      OBVIOUS
  <2>2. lib' = [lib EXCEPT ![d] = row]
      BY <1>5 DEF SetCollectionDocument
  <2> HIDE DEF b
  <2>3. /\ row \in LibRow /\ row.served = lib[d].served
        /\ row.edition = lib[d].edition /\ row.state = lib[d].state
      BY <1>0, <2>1 DEF LibRow
  <2> HIDE DEF row
  <2> QED
      BY <1>5, <2>2, <2>3, RowsMove DEF SetCollectionDocument
<1>6. CASE ChangePolicy
  <2>1. Shelved'
      BY <1>6 DEF ChangePolicy, Answered, Shelved
  <2> QED
      BY <1>6, <2>1, LibraryStep DEF ChangePolicy
<1>7. CASE CopyRows \/ BuildFails
  <2>1. Shelved'
      BY <1>7 DEF CopyRows, BuildFails, Answered, Shelved
  <2> QED
      BY <1>7, <2>1, LibraryStep DEF CopyRows, BuildFails
<1>8. CASE SwapIndex
  <2>1. Shelved'
      BY <1>8 DEF SwapIndex, Answered, Shelved
  <2>2. q \in Questions /\ Snapped(q) /\ Found(q) /\ Told(q)
      BY DEF Answered, Fit
  <2>3. PICK fresh \in BOOLEAN : q' = [q EXCEPT !.fresh = fresh]
    <3>1. (q.fresh /\ ~InWindow) \in BOOLEAN
        BY <2>2 DEF Questions
    <3> QED
        BY <1>8, <3>1 DEF SwapIndex
  <2>4. q' \in Questions
      BY <2>2, <2>3 DEF Questions
  <2>5. /\ q'.pc = q.pc /\ q'.ids = q.ids /\ q'.epoch = q.epoch /\ q'.snap = q.snap
        /\ q'.scope = q.scope /\ q'.locked = q.locked /\ q'.found = q.found
        /\ q'.status = q.status /\ q'.cites = q.cites /\ q'.reply = q.reply
        /\ q'.browser = q.browser /\ q'.noted = q.noted /\ q'.refs = q.refs
      BY <2>2, <2>3 DEF Questions
  <2>6. q.pc # "nodes" /\ lib' = lib /\ policy' = policy
      BY <1>8 DEF SwapIndex, IndexShared
  <2>7. Snapped(q)'
    <3>1. \A d \in q.locked : Unmoved(q, d)'
        BY <2>2, <2>5, <2>6 DEF Snapped, Unmoved
    <3> QED
        BY <2>2, <2>5, <2>6, <3>1 DEF Snapped
  <2>8. Found(q)'
      BY <2>2, <2>5, <2>6 DEF Found
  <2>9. Told(q)'
      BY <2>2, <2>5 DEF Told, Stands, CitedBy
  <2> QED
      BY <2>1, <2>4, <2>7, <2>8, <2>9 DEF Answered, Fit
<1> QED
    BY <1>1, <1>2, <1>3, <1>4, <1>5, <1>6, <1>7, <1>8 DEF LibraryMoves

\* The invariant of the library and the question.
THEOREM AnsweredAlways == AnsweringSpec => []Answered
<1>1. Answered /\ [AnsweringNext]_answering => Answered'
  <2> SUFFICES ASSUME Answered, [AnsweringNext]_answering PROVE Answered'
      OBVIOUS
  <2>1. CASE Question
      BY <2>1, QuestionSteps
  <2>2. CASE LibraryMoves
      BY <2>2, LibrarySteps
  <2>3. CASE UNCHANGED answering
    <3>1. Shelved'
        BY <2>3 DEF answering, Answered, Shelved
    <3> QED
        BY <2>3, <3>1, LibraryStep DEF answering
  <2> QED
      BY <2>1, <2>2, <2>3 DEF AnsweringNext
<1> QED
  BY <1>1, Start, PTL DEF AnsweringSpec

\* hybrid_search and lock_retrieval_scope_keys: whatever is published, archived,
\* purged or rebuilt meanwhile, what a question has found is served to its
\* asker, in one edition of a document, under the policy it has read.
THEOREM RetrievalStaysCurrent == AnsweringSpec => []RetrievalIsCurrent
<1>1. Answered => RetrievalIsCurrent
  <2> SUFFICES ASSUME Answered PROVE RetrievalIsCurrent
      OBVIOUS
  <2> USE DEF Answered, Fit
  <2>1. AnsweringType
      BY DEF Shelved, Snapshot, LibRow, Questions, Snapped, AnsweringType
  <2>2. InWindow => q.epoch = policy
      BY DEF InWindow, Snapped, Scoped
  <2>3. ASSUME InWindow PROVE q.found \subseteq Served
    <3> SUFFICES ASSUME NEW k \in q.found PROVE k \in Served
        OBVIOUS
    <3>1. q.pc \in Ranked
        BY <2>3 DEF Found, Holding, Ranked, InWindow
    <3>2. k[1] \in q.locked /\ k = <<k[1], q.snap[k[1]].served>>
        BY <3>1 DEF Found
    <3>3. /\ k[1] \in Own /\ q.snap[k[1]].state = "active"
          /\ Unmoved(q, k[1])
        BY <3>1, <3>2 DEF Snapped, Ranked, Scoped
    <3>4. lib[k[1]].state = "active" /\ k = <<k[1], lib[k[1]].served>>
        BY <3>2, <3>3 DEF Unmoved
    <3> QED
        BY <3>3, <3>4 DEF Served, Serving, KeyOf
  <2>4. FoundIsServed
      BY <2>2, <2>3 DEF FoundIsServed, Found
  <2>5. IndexCoversScope
    <3> SUFFICES ASSUME q.pc = "nodes", NEW d \in q.scope
                 PROVE  <<d, lib[d].served>> \in store
        BY DEF IndexCoversScope, KeyOf
    <3>1. Unmoved(q, d)
        BY DEF Snapped, LockedScope
    <3> QED
        BY <3>1 DEF Found, Unmoved
  <2> QED
      BY <2>1, <2>4, <2>5 DEF RetrievalIsCurrent
<1> QED
  BY <1>1, AnsweredAlways, PTL

\* answer_guard.py, app.py: an answer that is published cites what was found and
\* names no page but its own; what a browser is given can be opened and has been
\* recorded.
THEOREM AnswersKeepTheirEvidence == AnsweringSpec => []AnswersStandOnEvidence
<1>1. Answered => AnswersStandOnEvidence
  <2> SUFFICES ASSUME Answered PROVE AnswersStandOnEvidence
      OBVIOUS
  <2>1. Told(q) /\ Cited = CitedBy(q)
      BY DEF Answered, Fit, Cited, CitedBy
  <2> QED
      BY <2>1 DEF Told, Stands, AnswersStandOnEvidence
<1> QED
  BY <1>1, AnsweredAlways, PTL
==============================================================================
