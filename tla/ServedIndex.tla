----------------------------- MODULE ServedIndex -----------------------------
(***************************************************************************)
(* What the index promises retrieval about one document, with the runs,    *)
(* leases and staging generations that produce it left out: a search sees  *)
(* nothing of the document, or one complete edition whose source bytes are *)
(* in storage, and moves from one edition to another in a single step.     *)
(***************************************************************************)
CONSTANTS Sha, Manifest, None

VARIABLES
    stored,     \* contents whose immutable bytes can be read back
    edition,    \* the content being served, None before the first promotion
    hidden,     \* archived
    visible     \* the content keys a search can return

vars == <<stored, edition, hidden, visible>>

Shown(e, h) == IF h \/ e = None THEN {} ELSE Manifest[e]

Init == stored = {} /\ edition = None /\ hidden = FALSE /\ visible = {}

Store ==
    /\ \E s \in Sha : stored' = stored \cup {s}
    /\ UNCHANGED <<edition, hidden, visible>>

\* A promotion or an activation: content and visible keys switch together.
Serve ==
    /\ ~hidden
    /\ edition' \in stored
    /\ visible' = Shown(edition', hidden)
    /\ UNCHANGED <<stored, hidden>>

\* Archive and restore change nothing but visibility.
Hide ==
    /\ hidden' = ~hidden
    /\ visible' = Shown(edition, hidden')
    /\ UNCHANGED <<stored, edition>>

Next == Store \/ Serve \/ Hide

Spec == Init /\ [][Next]_vars
=============================================================================
