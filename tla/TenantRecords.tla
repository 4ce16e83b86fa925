---------------------------- MODULE TenantRecords ----------------------------
(***************************************************************************)
(* The records of a tenant beside the structure that decides over them.    *)
(* Reviews, evaluation datasets and tickets never touch each other's       *)
(* tables; they meet in the structure and the policy epoch.  A behaviour   *)
(* uses the kinds of records that "use" names, so that an instance may     *)
(* look at each kind beside every change of the structure.                 *)
(***************************************************************************)
EXTENDS ReviewCases, EvalDatasets, AccessTickets

CONSTANT Use   \* sets of kinds of records

VARIABLE use

vars == <<organisation, reviews, datasets, tickets, use>>

TypeOK ==
    /\ OrganisationType /\ ReviewsType /\ DatasetsType /\ TicketsType
    /\ use \in Use

Init ==
    /\ OrganisationInit /\ ReviewsInit /\ DatasetsInit /\ TicketsInit
    /\ use \in Use

Next ==
    \/ OrganisationNext /\ UNCHANGED <<reviews, datasets, tickets, use>>
    \/ /\ "reviews" \in use /\ ReviewsNext
       /\ UNCHANGED <<organisation, datasets, tickets, use>>
    \/ /\ "datasets" \in use /\ DatasetsNext
       /\ UNCHANGED <<organisation, reviews, tickets, use>>
    \/ /\ \/ "evidence" \in use /\ EvidenceNext
          \/ "exports" \in use /\ ExportsNext
       /\ UNCHANGED <<organisation, reviews, datasets, use>>

Spec == Init /\ [][Next]_vars

-----------------------------------------------------------------------------
(* Properties.                                                             *)

\* No unhelpful verdict and no guarded answer is lost to the queue, a case
\* comes from nothing else, and it is decided once: the events and the case
\* agree on who decided what, in whatever order verdicts and decisions come.
CasesFollowVerdicts == \A i \in Interactions :
    LET decided == {n \in DOMAIN event : event[n].case = i} IN
    /\ (interaction[i].outcome = "review_required"
          \/ feedback[i].verdict = "not_helpful") => case[i] # NoCase
    /\ case[i] # NoCase =>
          interaction[i].outcome = "review_required" \/ feedback[i].rev > 0
    /\ Cardinality(decided) = IF case[i].state \in Decision THEN 1 ELSE 0
    /\ \A n \in decided : /\ case[i].state = event[n].decision
                          /\ case[i].rev = event[n].rev
                          /\ case[i].reviewer = {event[n].reviewer}

\* A case is decided by somebody who stands above its subject when the decision
\* is written, although he was shown it, and locked it, under structures that
\* may have been replaced since.
DecidedFromAbove ==
    [][\A i \in Interactions :
          case[i].state = "open" /\ case'[i].state # "open" =>
             \E m \in case'[i].reviewer :
                CanMonitor(m, interaction[i].actor)
                   /\ m # interaction[i].actor]_vars

\* What is published is what its publisher has read, although revisions and
\* cases are read apart and others import between the two.
PublishedAsRead ==
    [][\A v \in Versions :
          draft[v].state = "draft" /\ draft'[v].state = "published" =>
             \E m \in Member :
                /\ MayWrite(m, CHOOSE o \in dataset.owner : TRUE)
                /\ text[m] = [version |-> v, cases |-> sealed'[v]]]_vars

\* schema.sql:1475: published versions are sealed.  Their cases stay what the
\* digest says, and those of a retired dataset do not change at all.
SealedStays ==
    [][/\ \A v \in Versions : draft[v].state = "published" =>
             draft'[v] = draft[v] /\ sealed'[v] = draft[v].cases
       /\ dataset.state = "retired" =>
             draft' = draft /\ dataset' = dataset]_vars

\* db.py:1304 "exactly one next draft": versions form one line, each continues
\* the published one before it, and only the last may be open.
VersionsFormALine ==
    /\ \A v \in Versions : /\ draft[v].parent = v - 1
                           /\ draft[v].state = "draft" => v = Len(draft)
    /\ dataset.current = Cardinality({v \in Versions :
                                        draft[v].state = "published"})

\* db.py:809: a preview ticket works once and shows the passage it was issued
\* for, although a newer ticket takes over the row of an older one.
ShownOnce ==
    /\ \A i, j \in DOMAIN shown : shown[i].token = shown[j].token => i = j
    /\ \A i \in DOMAIN shown :
          issued[shown[i].token] = [actor |-> shown[i].actor,
                                    chunk |-> shown[i].chunk]

\* A download returns the bytes that were measured when its ticket was spent,
\* and no ticket returns bytes twice, although the file is read afterwards.
SentAsMeasured ==
    /\ \A i, j \in DOMAIN sent : sent[i].ticket = sent[j].ticket => i = j
    /\ \A i \in DOMAIN sent : sent[i].sum = sent[i].due

\* Every record fits the others of its kind: cases the verdicts they come from,
\* drafts the line of published versions, and a ticket of either kind what it was
\* issued for, once.
RecordsAgree ==
    /\ TypeOK /\ CasesFollowVerdicts /\ VersionsFormALine
    /\ ShownOnce /\ SentAsMeasured

\* A published version is what one editor read and nobody changed since.
PublishedStandsAsRead == PublishedAsRead /\ SealedStays

\* What closes a record for good, a decision or a publication, is done by one
\* who still has the right to it, over what he saw.
ClosedByRight == DecidedFromAbove /\ PublishedStandsAsRead
=============================================================================
