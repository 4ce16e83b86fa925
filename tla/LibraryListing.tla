--------------------------- MODULE LibraryListing ---------------------------
(* Listings that a client reads page by page, newest first, while rows are    *)
(* inserted, archived, labelled and purged: the inventory of documents by     *)
(* cursor or by offset, and by cursor the retention inventory, the governance *)
(* events and the versions of a document.                                     *)
(*                                                                            *)
(* A row carries the time at which its transaction began and is visible when  *)
(* that commits, so a row may appear behind others that are younger.  A label *)
(* is a collection or a tag.                                                  *)
EXTENDS Integers, FiniteSets, Sequences

CONSTANTS
    Entry,                 \* ids, which are compared like numbers
    Limit,                 \* rows of a page
    Kinds,                 \* the listings looked at
    Collection, Tag,       \* labels
    Filter,                \* what an inventory is narrowed to
    Top,                   \* no cursor
    MaxInstant, MaxShift   \* bounds on time and on changes beside a walk

ASSUME ListingAssumption ==
    /\ Entry \subseteq Nat /\ IsFiniteSet(Entry) /\ Limit \in Nat \ {0}
    /\ Top \notin Nat \X Nat
    /\ Collection \cap Tag = {} /\ MaxInstant \in Nat \ {0} /\ MaxShift \in Nat

VARIABLES
    instant,
    entry,     \* the table that is listed
    label,     \* collections and tags that exist
    shifts,    \* changes so far
    reading    \* the client, walking from page to page

listing == <<instant, entry, label, shifts, reading>>

NoEntry == [state |-> "none", at |-> 0, archived |-> FALSE, purged |-> FALSE,
            labels |-> {}]
Visible == {r \in Entry : entry[r].state = "in"}
Free == {r \in Entry : entry[r].state = "none"}

-----------------------------------------------------------------------------
(* One page.                                                                  *)

\* The clauses of the WHERE that narrow a listing.
Matches(table, kind, filter, r) ==
    /\ table[r].state = "in"
    /\ kind = "documents" => /\ table[r].archived = filter.archived
                             /\ filter.labels \subseteq table[r].labels

KeyOf(r) == <<entry[r].at, r>>
Below(k, l) == k[1] < l[1] \/ (k[1] = l[1] /\ k[2] < l[2])

\* ORDER BY of a listing: the id decides between rows of one instant.
Newer(r, s) == Below(KeyOf(s), KeyOf(r))

Sequence(kind, filter, cursor) ==
    LET rows == {r \in Entry : /\ Matches(entry, kind, filter, r)
                               /\ cursor # Top => Below(KeyOf(r), cursor)}
    IN [i \in 1..Cardinality(rows) |->
          CHOOSE r \in rows : Cardinality({s \in rows : Newer(s, r)}) = i - 1]

Least(m, n) == IF m < n THEN m ELSE n
First(n, rows) == [i \in 1..Least(n, Len(rows)) |-> rows[i]]
After(n, rows) == [i \in 1..(Len(rows) - Least(n, Len(rows))) |-> rows[i + n]]

\* One row more than the page is asked for.
Probe(w) == LET all == Sequence(w.kind, w.filter, w.cursor)
            IN First(Limit + 1, After(w.offset, all))

\* Mutant: the cursor is taken from the row that was asked for in addition.
WindowFromProbe(rows) ==
    LET more == Len(rows) > Limit
    IN [items |-> First(Limit, rows), more |-> more,
        next |-> IF more THEN KeyOf(rows[Len(rows)]) ELSE Top]

PageWindow(rows) ==
    LET items == First(Limit, rows)
        more == Len(rows) > Limit
    IN [items |-> items, more |-> more,
        next |-> IF more THEN KeyOf(items[Len(items)]) ELSE Top]

-----------------------------------------------------------------------------
(* The client.                                                                *)

Unread == [pc |-> "idle", kind |-> "documents",
           filter |-> [archived |-> FALSE, labels |-> {}], by |-> "cursor",
           cursor |-> Top, offset |-> 0, listed |-> <<>>, steady |-> {},
           still |-> TRUE]

ListingInit ==
    /\ instant = 2 /\ shifts = 0
    /\ \E some \in SUBSET Entry : \E at \in [some -> {1, 2}],
             full \in SUBSET some :
          entry = [r \in Entry |->
             IF r \in some
             THEN [NoEntry EXCEPT
                     !.state = "in", !.at = at[r],
                     !.labels = IF r \in full THEN Collection \cup Tag ELSE {}]
             ELSE NoEntry]
    /\ label = Collection \cup Tag
    /\ reading = Unread

\* Versions of a document have different numbers.
Numbered == Cardinality({entry[r].at : r \in Visible}) = Cardinality(Visible)

\* A first page: no cursor, no offset.
Ask(kind, filter, by) ==
    /\ reading.pc = "idle"
    /\ IF kind = "documents" THEN TRUE
       ELSE filter = Unread.filter /\ by = "cursor"
    /\ IF kind = "versions" THEN Numbered ELSE TRUE
    /\ reading' = [Unread EXCEPT
         !.pc = "walking", !.kind = kind, !.filter = filter, !.by = by,
         !.steady = {r \in Entry : Matches(entry, kind, filter, r)}]
    /\ UNCHANGED <<instant, entry, label, shifts>>

\* The transaction that reads a page of the events records that it did.
Viewed == \E r \in Free :
    entry' = [entry EXCEPT ![r] =
                [NoEntry EXCEPT !.state = "in", !.at = instant]]

ReadPage ==
    /\ reading.pc = "walking"
    /\ LET page == PageWindow(Probe(reading))
       IN reading' = [reading EXCEPT
            !.listed = @ \o page.items,
            !.cursor = IF reading.by = "cursor" THEN page.next ELSE Top,
            !.offset = IF reading.by = "offset" THEN @ + Limit ELSE 0,
            !.still = @ /\ reading.kind # "events",
            !.pc = IF page.more THEN "walking" ELSE "done"]
    /\ IF reading.kind = "events" THEN Viewed ELSE UNCHANGED entry
    /\ UNCHANGED <<instant, label, shifts>>

-----------------------------------------------------------------------------
(* The others.                                                                *)

\* What a change leaves of the rows that were there from the first page on.
Becomes(table) ==
    /\ entry' = table
    /\ reading.pc = "walking"
    /\ shifts < MaxShift /\ shifts' = shifts + 1
    /\ reading' = [reading EXCEPT
         !.steady = {r \in @ : Matches(table, reading.kind, reading.filter, r)},
         !.still = FALSE]
    /\ UNCHANGED instant

\* A row takes its time when its transaction begins, a version its number under
\* the lock of its document.
BeginInsert(r) ==
    /\ r \in Free
    /\ IF reading.kind = "versions"
       THEN \A s \in Entry : entry[s].state # "begun" /\ entry[s].at < instant
       ELSE TRUE
    /\ Becomes([entry EXCEPT ![r] =
                   [NoEntry EXCEPT !.state = "begun", !.at = instant]])
    /\ UNCHANGED label

CommitInsert(r) ==
    /\ entry[r].state = "begun"
    /\ entry' = [entry EXCEPT ![r].state = "in"]
    /\ reading' = [reading EXCEPT !.still = FALSE]
    /\ UNCHANGED <<instant, label, shifts>>

SetDocumentArchived(r) ==
    /\ r \in Visible /\ ~entry[r].purged
    /\ reading.kind \notin {"events", "versions"}
    /\ Becomes([entry EXCEPT ![r].archived = ~@])
    /\ UNCHANGED label

\* A tombstone keeps its row, archived for ever, and loses its memberships.
PurgeRow(r) ==
    /\ r \in Visible /\ entry[r].archived /\ ~entry[r].purged
    /\ Becomes([entry EXCEPT ![r].purged = TRUE, ![r].labels = {}])
    /\ UNCHANGED label

\* Idempotent, and of no effect without the collection or the document.
SetCollectionDocument(c, r, present) ==
    /\ c \in label /\ r \in Visible
    /\ Becomes([entry EXCEPT ![r].labels =
                   IF present THEN @ \cup {c} ELSE @ \ {c}])
    /\ UNCHANGED label

\* The set is replaced; tags that nobody knew are made.
ReplaceDocumentTags(r, tags) ==
    /\ r \in Visible
    /\ Becomes([entry EXCEPT ![r].labels = (@ \ Tag) \cup tags])
    /\ label' = label \cup tags

CreateCollection(c) ==
    /\ Becomes(entry) /\ label' = label \cup {c}

\* A collection or a tag goes with its memberships, never with a document.
DeleteLabel(l) ==
    /\ l \in label
    /\ Becomes([r \in Entry |-> [entry[r] EXCEPT !.labels = @ \ {l}]])
    /\ label' = label \ {l}

InstantPasses ==
    /\ reading.pc = "walking"
    /\ instant < MaxInstant /\ instant' = instant + 1
    /\ UNCHANGED <<entry, label, shifts, reading>>

Client ==
    \/ \E kind \in Kinds, filter \in Filter, by \in {"cursor", "offset"} :
          Ask(kind, filter, by)
    \/ ReadPage

Labelling ==
    \/ \E c \in Collection, r \in Entry, present \in BOOLEAN :
          SetCollectionDocument(c, r, present)
    \/ \E r \in Entry, tags \in SUBSET Tag : ReplaceDocumentTags(r, tags)
    \/ \E c \in Collection : CreateCollection(c)
    \/ \E l \in Collection \cup Tag : DeleteLabel(l)

ListingNext ==
    \/ Client \/ InstantPasses
    \/ \E r \in Entry : BeginInsert(r) \/ CommitInsert(r)
    \/ \E r \in Entry : SetDocumentArchived(r) \/ PurgeRow(r)
    \/ /\ reading.kind \in {"documents", "retention"} /\ Labelling

ListingSpec == ListingInit /\ [][ListingNext]_listing

-----------------------------------------------------------------------------
Listed(w) == {w.listed[i] : i \in DOMAIN w.listed}

\* A membership names a collection or a tag that exists.
LabelsExist == \A r \in Entry : entry[r].labels \subseteq label

\* list_documents, page_window: a walk by cursor lists no row twice and, by its
\* end, every row that matched from its first page to its last, newest first,
\* whatever was inserted, archived or labelled between; the walk by offset
\* promises this of a table that stands still.
PagesAreExact ==
    LET w == reading IN
    /\ w.by = "cursor" \/ w.still =>
          /\ \A i, j \in DOMAIN w.listed :
                i < j => Newer(w.listed[i], w.listed[j])
          /\ w.pc = "done" => w.steady \subseteq Listed(w)
    /\ (w.pc = "done" /\ w.still) => Listed(w) = w.steady

ListingsAreWhole == LabelsExist /\ PagesAreExact
=============================================================================
