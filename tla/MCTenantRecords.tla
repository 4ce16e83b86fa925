-------------------------- MODULE MCTenantRecords --------------------------
(* The records of a tenant, and a question that is answered from them, for    *)
(* model checking.  A behaviour is of one kind of record, beside the changes  *)
(* of the structure, or of a question, beside those of the library.           *)
EXTENDS TenantRecords, Answering

CONSTANTS m1, m2, c1, d1, d2, d3, p1, p2

records == <<vars, answering>>

RecordsInit ==
    /\ Init /\ AnsweringInit
    \* A question does not look at the structure.
    /\ use = {"answers"} => org.active # org.editor

\* Contents are alike, so the first may be any one of them.
Written(drafts) == {drafts[v].cases : v \in DOMAIN drafts} \ {NoCases}
StartsWith(content) ==
    IF Written(draft) = {} /\ Written(draft') # {} THEN Written(draft') = {content}
    ELSE TRUE

RecordsNext ==
    \/ use # {"answers"} /\ Next /\ StartsWith(c1) /\ UNCHANGED answering
    \/ use = {"answers"} /\ AnsweringNext /\ UNCHANGED vars

RecordsSpec == RecordsInit /\ [][RecordsNext]_records

\* The second member stands above the first; neither above the other, with the
\* second a reader; and the first alone.
Structures == {
    [active |-> {m1, m2}, editor |-> {m1, m2}, over |-> {<<m2, m1>>}],
    [active |-> {m1, m2}, editor |-> {m1}, over |-> {}],
    [active |-> {m2}, editor |-> {m2}, over |-> {}]}

EachKind == {{"reviews"}, {"datasets"}, {"evidence"}, {"exports"}, {"answers"}}
JustAnswers == {{"answers"}}

\* Two documents of the asker's tenant, one whose chunks carry a trusted page and
\* one without, and one of another tenant.
Pages == [d \in {d1, d2, d3} |-> IF d = d2 THEN None ELSE p1]
=============================================================================
