------------------------------ MODULE Answering ------------------------------
(***************************************************************************)
(* A question from its scope to its published answer, with either          *)
(* retrieval engine, while documents are published, archived, relabelled   *)
(* and purged, the policy changes and the comparison index is rebuilt.     *)
(* A chunk stands for all chunks of one edition of a document.             *)
(***************************************************************************)
EXTENDS Naturals, FiniteSets

CONSTANTS Doc, Page, None,
          Own,         \* the documents of the asker's tenant
          PageOf,      \* the trusted page of a document's chunk, or None
          MaxEdition, MaxChange

ASSUME PagesAssumption ==
    /\ PageOf \in [Doc -> Page \cup {None}]
    /\ None \notin Page
    /\ Own \subseteq Doc
    /\ MaxEdition \in Nat \ {0} /\ MaxChange \in Nat

VARIABLES lib,       \* documents: [edition, served, state, labelled]
          policy,    \* org_tenants.policy_epoch
          store,     \* the comparison engine's table, with its manifest
          build,     \* a run of build_index
          changes,   \* how much the library has changed
          q          \* the question

answering == <<lib, policy, store, build, changes, q>>

Key == Doc \X (1 .. MaxEdition)
Invented == <<None, 0>>      \* a handle no passage carries
NoReply == [cited |-> {}, pages |-> {}, figures |-> "none"]

Pcs == {"idle", "epoch", "scope", "rows", "dense", "sparse", "index", "keys",
        "cover", "nodes", "leave", "generate", "note", "register",
        "delivered", "refused"}

QuestionStart ==
    [pc |-> "idle", engine |-> "native", ids |-> None, label |-> FALSE,
     epoch |-> 0, snap |-> [d \in {} |-> 0], fresh |-> TRUE,
     scope |-> {}, locked |-> {}, found |-> {}, status |-> "none",
     cites |-> {}, reply |-> NoReply, browser |-> FALSE, noted |-> FALSE,
     refs |-> {}]

AnsweringInit ==
    /\ lib = [d \in Doc |-> [edition |-> 1, served |-> 1, state |-> "active",
                             labelled |-> TRUE]]
    /\ policy = 1
    /\ store = {<<d, 1>> : d \in Doc}
    /\ build = [pc |-> "idle", rows |-> {}]
    /\ changes = 0
    /\ q = QuestionStart

-----------------------------------------------------------------------------
(* What the question holds.  The policy row is shared from its read, the      *)
(* documents from their lock, the swap of the index from the advisory lock.   *)

InWindow == q.pc \in {"scope", "rows", "dense", "sparse", "index", "keys",
                      "cover", "nodes", "leave"}

IndexShared == q.pc \in {"keys", "cover", "nodes"}

Serving(l, d) == l[d].state = "active"
KeyOf(l, d) == <<d, l[d].served>>

\* What the asker may be answered from at this moment: row level security knows
\* the tenant, and nothing of the structure inside it.
Served == {KeyOf(lib, d) : d \in {e \in Own : Serving(lib, e)}}

-----------------------------------------------------------------------------
(* The library.  Every change of a document's row waits for its shared locks. *)

Changes(d) ==
    /\ d \notin q.locked /\ changes < MaxChange
    /\ changes' = changes + 1
    /\ UNCHANGED <<policy, store, build, q>>

\* A new edition is indexed and served; earlier ready editions are retained.
Publish(d) ==
    /\ Changes(d)
    /\ lib[d].state = "active" /\ lib[d].edition < MaxEdition
    /\ lib' = [lib EXCEPT ![d].edition = @ + 1, ![d].served = lib[d].edition + 1]

Activate(d) ==
    /\ Changes(d)
    /\ lib[d].state = "active"
    /\ \E e \in 1 .. lib[d].edition :
          lib' = [lib EXCEPT ![d].served = e]

Archive(d) ==
    /\ Changes(d)
    /\ lib[d].state = "active"
    /\ lib' = [lib EXCEPT ![d].state = "archived"]

Restore(d) ==
    /\ Changes(d)
    /\ lib[d].state = "archived"
    /\ lib' = [lib EXCEPT ![d].state = "active"]

\* purge_worker: the chunks and the sources go, the tombstone stays.
Purge(d) ==
    /\ Changes(d)
    /\ lib[d].state = "archived"
    /\ lib' = [lib EXCEPT ![d].state = "purged", ![d].labelled = FALSE]

\* Membership of a collection is not the document's row and waits for nobody.
SetCollectionDocument(d) ==
    /\ changes < MaxChange
    /\ lib[d].state # "purged"
    /\ lib' = [lib EXCEPT ![d].labelled = ~@]
    /\ changes' = changes + 1
    /\ UNCHANGED <<policy, store, build, q>>

\* A structure is published, or a membership changes, under the tenant's row.
ChangePolicy ==
    /\ ~InWindow /\ changes < MaxChange
    /\ policy' = policy + 1
    /\ changes' = changes + 1
    /\ UNCHANGED <<lib, store, build, q>>

-----------------------------------------------------------------------------
(* build_index: every retained edition is copied into a shadow, which one     *)
(* transaction swaps in.                                                      *)

CopyRows ==
    /\ build.pc = "idle"
    /\ build' = [pc |-> "copied",
                 rows |-> {k \in Key : /\ lib[k[1]].state # "purged"
                                       /\ k[2] <= lib[k[1]].edition}]
    /\ UNCHANGED <<lib, policy, store, changes, q>>

\* A manifest swapped in after the question's snapshot is invisible to it.
SwapIndex ==
    /\ build.pc = "copied" /\ ~IndexShared
    /\ store' = build.rows
    /\ build' = [pc |-> "idle", rows |-> {}]
    /\ q' = [q EXCEPT !.fresh = @ /\ ~InWindow]
    /\ UNCHANGED <<lib, policy, changes>>

BuildFails ==
    /\ build.pc = "copied"
    /\ build' = [pc |-> "idle", rows |-> {}]
    /\ UNCHANGED <<lib, policy, store, changes, q>>

-----------------------------------------------------------------------------
(* Retrieval: one repeatable-read window.                                     *)

Library == UNCHANGED <<lib, policy, store, build, changes>>

\* chat_completions: the shape of the scope is settled, its meaning is not.
Ask ==
    /\ q.pc = "idle"
    /\ \E engine \in {"native", "llamaindex"}, label, browser \in BOOLEAN,
          ids \in {None} \cup (SUBSET Doc \ {{}}) :
          q' = [q EXCEPT !.pc = "epoch", !.engine = engine, !.ids = ids,
                         !.label = label, !.browser = browser]
    /\ Library

\* The context is bound and committed; the first read takes the snapshot and
\* shares the tenant's row.
BeginRetrievalSnapshot ==
    /\ q.pc = "epoch"
    /\ q' = [q EXCEPT !.pc = "scope", !.epoch = policy, !.snap = lib]
    /\ Library

Unscoped == q.ids = None /\ ~q.label

\* resolve_document_scope: dimensions intersect; no document is an empty scope,
\* never no scope.
ResolveScope ==
    /\ q.pc = "scope"
    /\ LET scope == {d \in Own :
                       /\ Serving(q.snap, d)
                       /\ q.ids = None \/ d \in q.ids
                       /\ q.label => q.snap[d].labelled}
           resolved == ~(q.engine = "native" /\ Unscoped)
       IN q' = [q EXCEPT !.scope = scope,
                  !.pc = IF resolved /\ scope = {} THEN "leave"
                         ELSE IF q.engine = "native" THEN "rows" ELSE "index"]
    /\ Library

Refuse == [q EXCEPT !.pc = "refused", !.locked = {}, !.found = {}]

\* What FOR SHARE does in this window: a row somebody changed since the snapshot
\* cannot be locked, and the question fails.
RowChanged(d) ==
    \/ lib[d].served # q.snap[d].served
    \/ lib[d].edition # q.snap[d].edition
    \/ lib[d].state # q.snap[d].state

\* Mutant: the two rankings read the snapshot without the rows' locks.
RowsUnlocked(next) ==
    /\ q' = [q EXCEPT !.pc = next]
    /\ Library

LockRows(next) ==
    /\ q' = IF \E d \in q.scope : RowChanged(d) THEN Refuse
            ELSE [q EXCEPT !.pc = next, !.locked = q.scope]
    /\ Library

SnapKeys == {KeyOf(q.snap, d) : d \in q.scope}

\* hybrid_search: the rows, then one statement for each ranking.
LockDocuments == q.pc = "rows" /\ LockRows("dense")

DenseRanking ==
    /\ q.pc = "dense"
    /\ \E ranked \in SUBSET SnapKeys :
          q' = [q EXCEPT !.pc = "sparse", !.found = ranked]
    /\ Library

\* The fusion keeps the best of both.
SparseRanking ==
    /\ q.pc = "sparse"
    /\ \E ranked \in SUBSET SnapKeys :
          \E fused \in SUBSET (q.found \cup ranked) :
             /\ fused = {} => q.found \cup ranked = {}
             /\ q' = [q EXCEPT !.pc = "leave", !.found = fused]
    /\ Library

\* The comparison engine: shared lock on the index, the rows, the manifest.
LockIndex ==
    /\ q.pc = "index"
    /\ q' = [q EXCEPT !.pc = "keys"]
    /\ Library

LockRetrievalScopeKeys == q.pc = "keys" /\ LockRows("cover")

\* A key the manifest does not hold is a refusal, not an empty answer.
Covered ==
    /\ q.pc = "cover"
    /\ q' = IF q.fresh /\ SnapKeys \subseteq store
            THEN [q EXCEPT !.pc = "nodes"] ELSE Refuse
    /\ Library

\* The store answers on a connection of its own, filtered by the keys.
RetrieveNodes ==
    /\ q.pc = "nodes"
    /\ q' = [q EXCEPT !.pc = "leave", !.found = SnapKeys \cap store]
    /\ Library

\* Rollback, and the context is cleared.
LeaveWindow ==
    /\ q.pc = "leave"
    /\ q' = [q EXCEPT !.pc = "generate", !.locked = {}, !.snap = [d \in {} |-> 0],
                      !.fresh = TRUE]
    /\ Library

\* A statement, the pool, an embedding or a model fails: nothing is published.
RetrievalFails ==
    /\ q.pc \in Pcs \ {"idle", "note", "register", "delivered", "refused"}
    /\ q' = Refuse
    /\ Library

-----------------------------------------------------------------------------
(* The answer.  The model may say anything about what it was shown.           *)

Replies ==
    {r \in [form : BOOLEAN, abstains : BOOLEAN, cited : SUBSET (q.found \cup {Invented}),
            quoted : BOOLEAN, figures : {"none", "quoted", "passage", "invented"},
            pages : SUBSET Page] :
        /\ r.abstains => r.pages = {} /\ r.figures = "none"
        /\ r.figures = "passage" => r.cited \ {Invented} # {}}

Known(r) == r.cited \ {Invented}
PagesOf(keys) == {PageOf[k[1]] : k \in keys}

\* _unambiguous_evidence_page: every handle is real and all stand on one page.
OnOnePage(r) ==
    /\ r.cited # {} /\ Invented \notin r.cited
    /\ \E p \in Page : PagesOf(r.cited) = {p}

\* Mutant: one right page vouches for the others.
NoPageIsRight(r) ==
    /\ PagesOf(Known(r)) \ {None} # {}
    /\ r.pages # {} /\ r.pages \cap PagesOf(Known(r)) = {}

\* Passages without a trusted page give no pages to compare with.
StrayPages(r) ==
    /\ PagesOf(Known(r)) \ {None} # {}
    /\ r.pages \ PagesOf(Known(r)) # {}

\* check_structured.
Flagged(r) ==
    \/ ~r.form
    \/ ~r.abstains /\ r.cited = {}
    \/ Invented \in r.cited
    \/ Known(r) # {} /\ ~r.quoted
    \/ ~r.abstains /\ r.pages = {} /\ ~OnOnePage(r)
    \/ r.figures \in {"passage", "invented"}
    \/ StrayPages(r)

\* _page_citations: the pages the answer names, or else the one page of its
\* evidence, each with the passages that stand on it.
Citations(r) ==
    LET pages == IF r.pages # {} THEN r.pages ELSE PagesOf(r.cited)
        at(p) == {k \in Known(r) : PageOf[k[1]] = p}
    IN UNION {IF at(p) = {} THEN {[page |-> p, chunk |-> None]}
              ELSE {[page |-> p, chunk |-> k] : k \in at(p)} : p \in pages}

Cited == {c.chunk : c \in q.cites} \ {None}

\* The reranker orders what was found and drops nothing; then come
\* generate_structured, validate_structured and _publish_checked.  A reply that
\* is withheld leaves nothing of itself.
Answer ==
    /\ q.pc = "generate"
    /\ \E r \in Replies :
          q' = IF Flagged(r) THEN [q EXCEPT !.pc = "note", !.status = "review"]
               ELSE IF r.abstains THEN [q EXCEPT !.pc = "note", !.status = "abstained"]
               ELSE [q EXCEPT !.pc = "note", !.status = "answered",
                              !.cites = Citations(r),
                              !.reply = [cited |-> r.cited, pages |-> r.pages,
                                         figures |-> r.figures]]
    /\ Library

\* _persist_review_interaction, in a transaction of its own.
PersistInteraction ==
    /\ q.pc = "note"
    /\ LET noted == q.browser /\ (q.status = "review" \/ Cited # {})
       IN \/ q' = [q EXCEPT !.pc = "register", !.noted = noted]
          \/ noted /\ q' = [Refuse EXCEPT !.status = "none", !.cites = {}]
    /\ Library

\* register_evidence_references: all passages of the answer, or no answer.  The
\* interaction recorded before stays.
RegisterEvidence ==
    /\ q.pc = "register"
    /\ q' = IF ~q.browser THEN [q EXCEPT !.pc = "delivered"]
            ELSE IF Cited \subseteq Served
            THEN [q EXCEPT !.pc = "delivered", !.refs = Cited]
            ELSE [Refuse EXCEPT !.status = "none", !.cites = {}]
    /\ Library

-----------------------------------------------------------------------------
Question ==
    \/ Ask \/ BeginRetrievalSnapshot \/ ResolveScope
    \/ LockDocuments \/ DenseRanking \/ SparseRanking
    \/ LockIndex \/ LockRetrievalScopeKeys \/ Covered \/ RetrieveNodes
    \/ LeaveWindow \/ RetrievalFails
    \/ Answer \/ PersistInteraction \/ RegisterEvidence

\* What other tenants do to their documents is left out: they are there to be
\* found by mistake.
LibraryMoves ==
    \/ \E d \in Own :
          \/ Publish(d) \/ Activate(d) \/ Archive(d) \/ Restore(d)
          \/ Purge(d) \/ SetCollectionDocument(d)
    \/ ChangePolicy
    \/ CopyRows \/ SwapIndex \/ BuildFails

\* Observed until the question has its answer.
AnsweringNext ==
    /\ q.pc \notin {"delivered", "refused"}
    /\ Question \/ LibraryMoves

AnsweringSpec == AnsweringInit /\ [][AnsweringNext]_answering

-----------------------------------------------------------------------------
AnsweringType ==
    /\ \A d \in Doc :
          lib[d] \in [edition : 1 .. MaxEdition, served : 1 .. MaxEdition,
                     state : {"active", "archived", "purged"}, labelled : BOOLEAN]
    /\ policy \in Nat
    /\ store \subseteq Key /\ build.rows \subseteq Key
    /\ q.pc \in Pcs /\ q.found \subseteq Key /\ q.refs \subseteq Key
    /\ q.scope \subseteq Doc /\ q.locked \subseteq q.scope

\* hybrid_search and lock_retrieval_scope_keys: until the window closes, what a
\* question has found is what its asker may see and what is served, in one
\* edition of a document, under the policy it has read.
FoundIsServed ==
    /\ InWindow => q.epoch = policy
    /\ InWindow => q.found \subseteq Served
    /\ \A j, k \in q.found : j[1] = k[1] => j = k
    /\ q.ids # None => \A k \in q.found : k[1] \in q.ids

\* rag_llamaindex.py: the index a question is answered from holds every edition
\* it may be answered from; an index that lags is a refusal, not a false answer.
IndexCoversScope ==
    q.pc = "nodes" => {KeyOf(lib, d) : d \in q.scope} \subseteq store

RetrievalIsCurrent == AnsweringType /\ FoundIsServed /\ IndexCoversScope

\* answer_guard.py, app.py: an answer that is published cites passages that were
\* found, carries no figure outside its quotes, and names no page but theirs
\* when they have any; in a browser each passage it cites can be opened.
AnswersStandOnEvidence ==
    /\ q.status = "answered" =>
          /\ q.reply.cited # {} /\ q.reply.cited \subseteq q.found
          /\ q.reply.figures \in {"none", "quoted"}
          /\ Cited \subseteq q.reply.cited
          /\ \/ PagesOf(q.reply.cited) = {None}
             \/ \A c \in q.cites : c.page \in PagesOf(q.reply.cited)
    /\ q.pc = "delivered" /\ q.browser => q.refs = Cited
    /\ q.pc = "delivered" /\ q.browser /\ Cited # {} => q.noted

\* answer_guard.py:8 "every PAGE the answer cites is a page that was actually
\* supplied".
PagesWereSupplied ==
    q.status = "answered" => \A c \in q.cites : c.page \in PagesOf(q.found)
=============================================================================
