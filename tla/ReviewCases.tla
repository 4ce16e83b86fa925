----------------------------- MODULE ReviewCases -----------------------------
(***************************************************************************)
(* Reviews of published answers.  A guarded answer or an unhelpful verdict *)
(* opens a case; somebody above its subject decides it from a list he has  *)
(* read before.  Deciding reads and locks the case in one statement and    *)
(* writes it in another, and the structure may change between the two.     *)
(***************************************************************************)
EXTENDS TenantOrganisation, Sequences

CONSTANTS MaxInteraction, MaxFeedback

ASSUME ReviewAssumption == MaxInteraction \in Nat /\ MaxFeedback \in Nat

VARIABLES interaction,  \* review_interactions: actor and outcome
          feedback,     \* review_feedback of each interaction
          case,         \* review_cases of each interaction
          event,        \* review_case_events
          queue,        \* what each member was last shown of the queue
          deciding      \* the case that each member's open transaction locks

reviews == <<interaction, feedback, case, event, queue, deciding>>

Interactions == 1 .. Len(interaction)
Decision == {"resolved", "dismissed"}

ReviewsType ==
    /\ Len(interaction) <= MaxInteraction
    /\ \A i \in Interactions :
          interaction[i] \in [actor : Member,
                              outcome : {"answered", "review_required"}]
    /\ DOMAIN feedback = Interactions /\ DOMAIN case = Interactions
    /\ \A i \in Interactions :
          /\ feedback[i] \in [verdict : {"none", "helpful", "not_helpful"},
                              rev : 0 .. MaxFeedback]
          /\ case[i] \in [state : {"none", "open"} \cup Decision,
                          rev : 0 .. 2, reviewer : SUBSET Member]
    /\ \A n \in DOMAIN event :
          event[n] \in [case : Interactions, reviewer : Member, rev : 2 .. 3,
                        decision : Decision]
    /\ queue \in [Member -> SUBSET [case : Interactions, rev : {1, 2},
                                    epoch : 1 .. MaxEpoch]]
    /\ deciding \in [Member -> 0 .. MaxInteraction]

ReviewsInit ==
    /\ interaction = <<>> /\ feedback = <<>> /\ case = <<>> /\ event = <<>>
    /\ queue = [m \in Member |-> {}]
    /\ deciding = [m \in Member |-> 0]

-----------------------------------------------------------------------------
NoCase == [state |-> "none", rev |-> 0, reviewer |-> {}]
OpenCase == [state |-> "open", rev |-> 1, reviewer |-> {}]

\* An answer is published; one that needs review opens its case with it.
CreateInteraction(m) == \E outcome \in {"answered", "review_required"} :
    /\ Len(interaction) < MaxInteraction
    /\ Active(m)
    /\ interaction' = Append(interaction, [actor |-> m, outcome |-> outcome])
    /\ feedback' = Append(feedback, [verdict |-> "none", rev |-> 0])
    /\ case' = Append(case, IF outcome = "review_required" THEN OpenCase
                            ELSE NoCase)
    /\ UNCHANGED <<event, queue, deciding>>

\* Mutant: a verdict opens the case again.
FeedbackAgain(i, verdict) ==
    IF verdict = "not_helpful" THEN OpenCase ELSE case[i]

\* The case after a verdict: an unhelpful one opens at most one.
CaseAfter(i, verdict) ==
    IF verdict = "not_helpful" /\ case[i] = NoCase THEN OpenCase ELSE case[i]

\* Only an answer carries a reference that its reader can send back.
SubmitFeedback(i) == \E verdict \in {"helpful", "not_helpful"} :
    /\ interaction[i].outcome = "answered"
    /\ Active(interaction[i].actor)
    /\ feedback[i].rev < MaxFeedback
    /\ feedback' = [feedback EXCEPT ![i] =
          [verdict |-> verdict,
           rev |-> IF @.verdict = verdict THEN @.rev ELSE @.rev + 1]]
    /\ case' = [case EXCEPT ![i] = CaseAfter(i, verdict)]
    /\ UNCHANGED <<interaction, event, queue, deciding>>

ListCases(m) ==
    /\ queue' = [queue EXCEPT ![m] =
          {[case |-> i, rev |-> case[i].rev, epoch |-> epoch] :
             i \in {j \in Interactions : /\ case[j].state = "open"
                                         /\ CanMonitor(m, interaction[j].actor)}}]
    /\ UNCHANGED <<interaction, feedback, case, event, deciding>>

-----------------------------------------------------------------------------
Locked(i) == \E m \in Member : deciding[m] = i

\* The first statement of a decision, made for a case of the list.
LockCase(m, seen) ==
    /\ ~Locked(seen.case)
    /\ case[seen.case].state = "open"
    /\ CanMonitor(m, interaction[seen.case].actor)
    /\ case[seen.case].rev = seen.rev /\ epoch = seen.epoch

BeginDecision(m) == \E seen \in queue[m] :
    /\ deciding[m] = 0
    /\ LockCase(m, seen)
    /\ deciding' = [deciding EXCEPT ![m] = seen.case]
    /\ UNCHANGED <<interaction, feedback, case, event, queue>>

\* Mutant: the row policies are those of the service.
FinishAnyDecision(m) == \E decision \in Decision :
    LET i == deciding[m] IN
    /\ i # 0
    /\ case' = [case EXCEPT ![i] = [state |-> decision, rev |-> @.rev + 1,
                                    reviewer |-> {m}]]
    /\ event' = Append(event, [case |-> i, reviewer |-> m,
                               rev |-> case[i].rev + 1,
                               decision |-> decision])
    /\ deciding' = [deciding EXCEPT ![m] = 0]
    /\ UNCHANGED <<interaction, feedback, queue>>

\* The statements after it, each of which the row policies let through only
\* while the reviewer stands above the subject.
FinishDecision(m) == \E decision \in Decision :
    LET i == deciding[m] IN
    /\ i # 0
    /\ CanMonitor(m, interaction[i].actor)
    /\ case' = [case EXCEPT ![i] = [state |-> decision, rev |-> @.rev + 1,
                                    reviewer |-> {m}]]
    /\ event' = Append(event, [case |-> i, reviewer |-> m,
                               rev |-> case[i].rev + 1,
                               decision |-> decision])
    /\ deciding' = [deciding EXCEPT ![m] = 0]
    /\ UNCHANGED <<interaction, feedback, queue>>

\* The row is not written, or the connection is lost.
RollBackDecision(m) ==
    /\ deciding[m] # 0
    /\ deciding' = [deciding EXCEPT ![m] = 0]
    /\ UNCHANGED <<interaction, feedback, case, event, queue>>

ReviewsNext ==
    \/ \E m \in Member : \/ CreateInteraction(m) \/ ListCases(m)
                         \/ BeginDecision(m) \/ FinishDecision(m)
                         \/ RollBackDecision(m)
    \/ \E i \in Interactions : SubmitFeedback(i)
=============================================================================
