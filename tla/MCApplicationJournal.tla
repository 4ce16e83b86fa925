------------------------ MODULE MCApplicationJournal ------------------------
(* Instances of ApplicationJournal for model checking.                     *)
EXTENDS ApplicationJournal

CONSTANTS kept, added, gone, note, pkg, e1, e2

\* One change of each kind; the added file needs a new directory, in which
\* the operator may put a note.
EachKind == << [path |-> added, kind |-> "added"],
               [path |-> gone,  kind |-> "deleted"],
               [path |-> kept,  kind |-> "modified"] >>

ParentOf == [p \in {kept, added, gone, note} |->
                IF p \in {added, note} THEN pkg ELSE None]
=============================================================================
