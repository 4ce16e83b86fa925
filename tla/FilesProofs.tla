----------------------------- MODULE FilesProofs -----------------------------
(* Theorems about what lives in files: VersionSources, for every number of    *)
(* publishers, readers and purgers and any contents; AgentRun, for any        *)
(* processes, candidates, runs, faults and outside edits; EvidenceScan, for   *)
(* any tree, any layout and whatever others do to it.                         *)
EXTENDS VersionSources, AgentRun, EvidenceScan, FiniteSetTheorems, TLAPS

-----------------------------------------------------------------------------
(*                        The source of a version                             *)

(* The inductive invariant.  What a call may say rests on who made which   *)
(* object and on whether a purge began since: an object keeps its body and *)
(* its completeness, and the name source.bin keeps its object while the    *)
(* count of purges stands.                                                 *)

Pc == {"idle", "tree", "enter", "look", "create", "write", "link", "unlink",
       "check", "compare", "done", "find", "open", "read", "bind", "remove",
       "release", "rmdir"}

Answer == {"refused", "created", "kept", "different", "missing", "corrupt",
           "read", "removed"}

Row == [pc : Pc, in : Nat, body : Body \cup {NoBody}, made : Nat, seen : Nat,
        purges : Nat, result : Answer \cup {NoBody}]

Object == [body : Body \cup {NoBody}, whole : BOOLEAN]

Made == 1..Len(object)

StorageTyped ==
    /\ folder \in Nat /\ lastFolder \in Nat /\ source \in Nat /\ purges \in Nat
    /\ object \in Seq(Object)
    /\ actor \in [Caller -> Row]

\* The name leads to a complete object of the directory that is there.
NameStands ==
    /\ folder <= lastFolder
    /\ source # 0 => folder # 0 /\ source \in Made /\ object[source].whole

\* Every object was made by one publisher.
Authors ==
    /\ \A p, q \in Publisher :
          p # q /\ actor[p].made # 0 => actor[p].made # actor[q].made
    /\ \A o \in Made : \E p \in Publisher : actor[p].made = o

\* Somebody published other bytes than the row of the version names.
Spoiled == \E p \in Publisher : actor[p].body \notin {NoBody, Expected}

\* What the publisher p knows, and what it was told.
PublisherFits(r) ==
    /\ r.pc = "idle" => r.body = NoBody
    /\ r.pc # "idle" => r.body \in Body
    /\ r.pc \in {"idle", "tree", "enter", "look", "create"} => r.made = 0
    /\ r.pc \in {"write", "link", "unlink", "check"} => r.made # 0
    /\ r.pc \in {"link", "unlink", "check"} => object[r.made].whole
    /\ r.made # 0 => r.made \in Made /\ object[r.made].body = r.body
    /\ r.result = "created" => r.made # 0
    /\ (r.result = "created" /\ r.purges = purges) => source = r.made
    /\ (r.result = "kept" /\ r.purges = purges) =>
          source # 0 /\ object[source].body = r.body

ReaderFits(r) ==
    /\ r.pc \in {"open", "read"} => r.seen \in Made /\ object[r.seen].whole
    /\ (r.pc = "open" /\ purges = 0) =>
          folder # 0 /\ r.in = folder /\ source = r.seen
    /\ (r.result = "corrupt" /\ purges = 0) => Spoiled

PurgerFits(r) ==
    /\ r.pc \in {"find", "bind", "remove", "release", "rmdir"} => r.in # 0
    /\ r.result = "removed" => r.in # 0 /\ folder # r.in

Fits(a, r) ==
    /\ r.purges <= purges /\ r.in <= lastFolder
    /\ a \in Publisher => PublisherFits(r)
    /\ a \in Reader => ReaderFits(r)
    /\ a \in Purger => PurgerFits(r)

Stored ==
    /\ StorageTyped /\ NameStands /\ Authors
    /\ \A a \in Caller : Fits(a, actor[a])
-----------------------------------------------------------------------------
(* How one call moves.                                                     *)

\* What a step of any call leaves to the others.
Keeps ==
    /\ \A o \in Made : /\ o \in Made' /\ object'[o].body = object[o].body
                       /\ object[o].whole => object'[o].whole
    /\ lastFolder <= lastFolder' /\ purges <= purges'
    /\ purges' = purges =>
          (source # 0 => source' = source /\ folder' = folder)
    /\ folder' \in {folder, 0} \/ folder' > lastFolder

\* What the invariant reads of the storage.
Tables == <<folder, lastFolder, source, object, purges>>

\* A publisher keeps the body it was started with.
KeepsBody(a, r) ==
    a \in Publisher => r.body = actor[a].body \/ actor[a].body = NoBody

LEMMA GoesStep ==
    ASSUME StorageTyped, NEW a \in Caller, NEW p \in Pc, Goes(a, p)
    PROVE  \E r \in Row : /\ Steps(a, r) /\ r.pc = p
                          /\ r.in = actor[a].in /\ r.body = actor[a].body
                          /\ r.made = actor[a].made /\ r.seen = actor[a].seen
                          /\ r.purges = actor[a].purges
                          /\ r.result = actor[a].result
<1>1. actor[a] \in Row
    BY DEF StorageTyped
<1>2. PICK r : r = [actor[a] EXCEPT !.pc = p]
    OBVIOUS
<1>3. /\ r \in Row /\ r.pc = p
      /\ r.in = actor[a].in /\ r.body = actor[a].body
      /\ r.made = actor[a].made /\ r.seen = actor[a].seen
      /\ r.purges = actor[a].purges /\ r.result = actor[a].result
    BY <1>1, <1>2 DEF Row
<1> QED BY <1>2, <1>3 DEF Goes

LEMMA EndsStep ==
    ASSUME StorageTyped, NEW a \in Caller, NEW what \in Answer, Ends(a, what)
    PROVE  \E r \in Row : /\ Steps(a, r) /\ r.pc = "done" /\ r.result = what
                          /\ r.in = actor[a].in /\ r.body = actor[a].body
                          /\ r.made = actor[a].made /\ r.seen = actor[a].seen
                          /\ r.purges = actor[a].purges
<1>1. actor[a] \in Row
    BY DEF StorageTyped
<1>2. PICK r : r = [actor[a] EXCEPT !.pc = "done", !.result = what]
    OBVIOUS
<1>3. /\ r \in Row /\ r.pc = "done" /\ r.result = what
      /\ r.in = actor[a].in /\ r.body = actor[a].body
      /\ r.made = actor[a].made /\ r.seen = actor[a].seen
      /\ r.purges = actor[a].purges
    BY <1>1, <1>2 DEF Row, Pc
<1> QED BY <1>2, <1>3 DEF Ends

LEMMA OneSteps ==
    ASSUME StorageTyped, NEW a \in Caller, NEW r \in Row, Steps(a, r)
    PROVE  /\ actor' \in [Caller -> Row]
           /\ actor'[a] = r
           /\ \A b \in Caller \ {a} : actor'[b] = actor[b]
BY DEF StorageTyped, Steps

\* What was published stays published.
LEMMA SpoiledStays ==
    ASSUME StorageTyped, NEW a \in Caller, NEW r \in Row, Steps(a, r),
           KeepsBody(a, r), Spoiled
    PROVE  Spoiled'
<1>1. PICK p \in Publisher : actor[p].body \notin {NoBody, Expected}
    BY DEF Spoiled
<1>2. actor'[p].body = actor[p].body
    BY <1>1, OneSteps DEF KeepsBody, Caller
<1> QED BY <1>1, <1>2 DEF Spoiled

\* What a call knows stays true under the steps of the others.
LEMMA FitsStays ==
    ASSUME Stored, Keeps, Spoiled => Spoiled', folder' \in Nat, purges' \in Nat,
           lastFolder' \in Nat, NEW a \in Caller, NEW r \in Row, Fits(a, r)
    PROVE  Fits(a, r)'
<1>1. /\ r.made \in Nat /\ r.purges \in Nat /\ r.in \in Nat
      /\ purges \in Nat /\ lastFolder \in Nat /\ folder \in Nat
      /\ source # 0 => source \in Made
    BY DEF Row, Stored, StorageTyped, NameStands
<1>2. r.purges <= purges' /\ r.in <= lastFolder'
    BY <1>1 DEF Keeps, Fits
<1>3. r.purges = purges' => r.purges = purges /\ purges' = purges
    BY <1>1 DEF Keeps, Fits
<1>4. purges' = 0 => purges = 0
    BY <1>1 DEF Keeps
<1>5. a \in Publisher => PublisherFits(r)'
  <2> SUFFICES ASSUME a \in Publisher, PublisherFits(r) PROVE PublisherFits(r)'
      BY DEF Fits
  <2>1. r.made # 0 => r.made \in Made' /\ object'[r.made].body = r.body
      BY DEF PublisherFits, Keeps
  <2>2. r.pc \in {"link", "unlink", "check"} => object'[r.made].whole
      BY DEF PublisherFits, Keeps
  <2>3. r.result = "created" /\ r.purges = purges' => source' = r.made
      BY <1>3 DEF PublisherFits, Keeps
  <2>4. r.result = "kept" /\ r.purges = purges' =>
           source' # 0 /\ object'[source'].body = r.body
      BY <1>1, <1>3 DEF PublisherFits, Keeps
  <2> QED BY <2>1, <2>2, <2>3, <2>4 DEF PublisherFits
<1>6. a \in Reader => ReaderFits(r)'
  <2> SUFFICES ASSUME a \in Reader, ReaderFits(r) PROVE ReaderFits(r)'
      BY DEF Fits
  <2>1. r.pc \in {"open", "read"} => r.seen \in Made' /\ object'[r.seen].whole
      BY DEF ReaderFits, Keeps
  <2>2. r.pc = "open" /\ purges' = 0 =>
           folder' # 0 /\ r.in = folder' /\ source' = r.seen
    <3>1. r.seen \in Made => r.seen # 0
        BY DEF Made
    <3> QED BY <1>4, <3>1 DEF ReaderFits, Keeps
  <2>3. r.result = "corrupt" /\ purges' = 0 => Spoiled'
      BY <1>4 DEF ReaderFits
  <2> QED BY <2>1, <2>2, <2>3 DEF ReaderFits
<1>7. a \in Purger => PurgerFits(r)'
    BY <1>1 DEF Fits, PurgerFits, Keeps
<1> QED BY <1>2, <1>5, <1>6, <1>7 DEF Fits

\* A step that moves one call to a state that fits.
LEMMA OneMoves ==
    ASSUME Stored, Keeps, folder' \in Nat, purges' \in Nat, lastFolder' \in Nat,
           NEW a \in Caller, NEW r \in Row, Steps(a, r), KeepsBody(a, r),
           Fits(a, r)'
    PROVE  /\ actor' \in [Caller -> Row]
           /\ \A b \in Caller : Fits(b, actor[b])'
<1>1. /\ actor' \in [Caller -> Row] /\ actor'[a] = r
      /\ \A b \in Caller \ {a} : actor'[b] = actor[b]
      /\ actor \in [Caller -> Row]
    BY OneSteps DEF Stored, StorageTyped
<1>2. Spoiled => Spoiled'
    BY SpoiledStays DEF Stored
<1>3. ASSUME NEW b \in Caller PROVE Fits(b, actor[b])'
  <2>1. CASE b = a
      BY <1>1, <2>1 DEF Fits, PublisherFits, ReaderFits, PurgerFits
  <2>2. CASE b # a
    <3>1. PICK q \in Row : q = actor[b] /\ q = actor'[b]
        BY <1>1, <2>2
    <3>2. Fits(b, q)
        BY <3>1 DEF Stored, Fits, PublisherFits, ReaderFits, PurgerFits
    <3>3. Fits(b, q)'
        BY <1>2, <3>2, FitsStays
    <3> QED BY <3>1, <3>3 DEF Fits, PublisherFits, ReaderFits, PurgerFits
  <2> QED BY <2>1, <2>2
<1> QED BY <1>1, <1>3

\* A call that made nothing now leaves the authors as they are.
LEMMA AuthorsStay ==
    ASSUME Stored, NEW a \in Caller, NEW r \in Row, Steps(a, r),
           a \in Publisher => r.made = actor[a].made, Len(object') = Len(object)
    PROVE  Authors'
<1>1. \A p \in Publisher : actor'[p].made = actor[p].made
    BY OneSteps DEF Stored, Caller
<1> QED BY <1>1 DEF Stored, Authors, Made

LEMMA QuietStep ==
    ASSUME Stored, UNCHANGED Tables, NEW a \in Caller, NEW r \in Row, Steps(a, r),
           KeepsBody(a, r), a \in Publisher => r.made = actor[a].made, Fits(a, r)
    PROVE  Stored'
<1>1. StorageTyped /\ NameStands
    BY DEF Stored
<1>2. Keeps
    BY <1>1 DEF Tables, Keeps, Made, StorageTyped
<1>3. folder' \in Nat /\ purges' \in Nat /\ lastFolder' \in Nat
    BY <1>1 DEF Tables, StorageTyped
<1>4. Spoiled => Spoiled'
    BY <1>1, SpoiledStays
<1>5. Fits(a, r)'
    BY <1>2, <1>3, <1>4, FitsStays
<1>6. actor' \in [Caller -> Row] /\ \A b \in Caller : Fits(b, actor[b])'
    BY <1>2, <1>3, <1>5, OneMoves
<1>7. Authors'
    BY AuthorsStay DEF Tables
<1>8. NameStands'
    BY <1>1 DEF Tables, NameStands, Made
<1>9. StorageTyped'
    BY <1>1, <1>6 DEF Tables, StorageTyped
<1> QED BY <1>6, <1>7, <1>8, <1>9 DEF Stored
-----------------------------------------------------------------------------
(* Steps that move nothing in storage.                                     *)

\* The roles exclude each other.
LEMMA Roles ==
    /\ Publisher \subseteq Caller /\ Reader \subseteq Caller /\ Purger \subseteq Caller
    /\ \A a \in Publisher : a \notin Reader /\ a \notin Purger
    /\ \A a \in Reader : a \notin Publisher /\ a \notin Purger
    /\ \A a \in Purger : a \notin Publisher /\ a \notin Reader
BY SourcesAssumption DEF Caller

\* An answer that the call a may give.
MayAnswer(a, what) ==
    /\ a \in Publisher => /\ actor[a].pc # "idle"
                          /\ what = "created" => actor[a].made # 0
                                                 /\ source = actor[a].made
                          /\ what = "kept" => source # 0
                                /\ object[source].body = actor[a].body
    /\ (a \in Reader /\ what = "corrupt" /\ purges = 0) => Spoiled
    /\ a \in Purger => what # "removed"

LEMMA EndsQuietly ==
    ASSUME Stored, UNCHANGED Tables, NEW a \in Caller, NEW what \in Answer,
           Ends(a, what), MayAnswer(a, what)
    PROVE  Stored'
<1>1. PICK r \in Row : /\ Steps(a, r) /\ r.pc = "done" /\ r.result = what
                       /\ r.in = actor[a].in /\ r.body = actor[a].body
                       /\ r.made = actor[a].made /\ r.seen = actor[a].seen
                       /\ r.purges = actor[a].purges
    BY EndsStep DEF Stored
<1>2. actor[a] \in Row /\ Fits(a, actor[a])
    BY DEF Stored, StorageTyped
<1>3. a \in Publisher => PublisherFits(r)
  <2> SUFFICES ASSUME a \in Publisher PROVE PublisherFits(r)
      OBVIOUS
  <2>1. PublisherFits(actor[a]) /\ actor[a].pc # "idle"
      BY <1>2 DEF Fits, MayAnswer
  <2>2. r.body \in Body
      BY <1>1, <2>1 DEF PublisherFits
  <2>3. r.made # 0 => r.made \in Made /\ object[r.made].body = r.body
      BY <1>1, <2>1 DEF PublisherFits
  <2> QED BY <1>1, <2>2, <2>3 DEF PublisherFits, MayAnswer
<1>4. a \in Reader => ReaderFits(r)
    BY <1>1 DEF ReaderFits, MayAnswer
<1>5. a \in Purger => PurgerFits(r)
    BY <1>1 DEF PurgerFits, MayAnswer
<1>6. Fits(a, r)
    BY <1>1, <1>2, <1>3, <1>4, <1>5 DEF Fits
<1> QED BY <1>1, <1>6, QuietStep DEF KeepsBody

\* A publisher that goes on, with what the new place asks of it.
LEMMA PublisherGoes ==
    ASSUME Stored, UNCHANGED Tables, NEW p \in Publisher, NEW pc \in Pc,
           Goes(p, pc), actor[p].pc # "idle", pc # "idle",
           pc \in {"tree", "enter", "look", "create"} => actor[p].made = 0,
           pc \in {"write", "link", "unlink", "check"} => actor[p].made # 0,
           pc \in {"link", "unlink", "check"} => object[actor[p].made].whole
    PROVE  Stored'
<1>1. p \in Caller /\ p \notin Reader /\ p \notin Purger
    BY Roles
<1>2. PICK r \in Row : /\ Steps(p, r) /\ r.pc = pc
                       /\ r.in = actor[p].in /\ r.body = actor[p].body
                       /\ r.made = actor[p].made /\ r.seen = actor[p].seen
                       /\ r.purges = actor[p].purges
                       /\ r.result = actor[p].result
    BY <1>1, GoesStep DEF Stored
<1>3. Fits(p, actor[p]) /\ PublisherFits(actor[p])
    BY <1>1 DEF Stored, Fits
<1>4. PublisherFits(r)
    BY <1>2, <1>3 DEF PublisherFits
<1>5. Fits(p, r)
    BY <1>1, <1>2, <1>3, <1>4 DEF Fits
<1> QED BY <1>1, <1>2, <1>5, QuietStep DEF KeepsBody

\* A reader that has opened what it found.
LEMMA ReaderReads ==
    ASSUME Stored, UNCHANGED Tables, NEW a \in Reader, Goes(a, "read"),
           actor[a].pc = "open"
    PROVE  Stored'
<1>1. a \in Caller /\ a \notin Publisher /\ a \notin Purger
    BY Roles
<1>2. PICK r \in Row : /\ Steps(a, r) /\ r.pc = "read"
                       /\ r.in = actor[a].in /\ r.body = actor[a].body
                       /\ r.made = actor[a].made /\ r.seen = actor[a].seen
                       /\ r.purges = actor[a].purges
                       /\ r.result = actor[a].result
    BY <1>1, GoesStep DEF Stored, Pc
<1>3. Fits(a, actor[a]) /\ ReaderFits(actor[a])
    BY <1>1 DEF Stored, Fits
<1>4. ReaderFits(r)
    BY <1>2, <1>3 DEF ReaderFits
<1>5. Fits(a, r)
    BY <1>1, <1>2, <1>3, <1>4 DEF Fits
<1> QED BY <1>1, <1>2, <1>5, QuietStep DEF KeepsBody

\* A purger that goes on inside its directory.
LEMMA PurgerGoes ==
    ASSUME Stored, UNCHANGED Tables, NEW u \in Purger, NEW r \in Row, Steps(u, r),
           r.body = actor[u].body, r.in = actor[u].in,
           r.purges = actor[u].purges, r.result = actor[u].result,
           actor[u].pc \in {"find", "bind", "remove", "release", "rmdir"}
    PROVE  Stored'
<1>1. u \in Caller /\ u \notin Publisher /\ u \notin Reader
    BY Roles
<1>2. Fits(u, actor[u]) /\ PurgerFits(actor[u])
    BY <1>1 DEF Stored, Fits
<1>3. PurgerFits(r)
    BY <1>2 DEF PurgerFits
<1>4. Fits(u, r)
    BY <1>1, <1>2, <1>3 DEF Fits
<1> QED BY <1>1, <1>4, QuietStep DEF KeepsBody

-----------------------------------------------------------------------------
(* publish_version_source.                                                 *)

LEMMA PublishKeeps ==
    ASSUME Stored, NEW p \in Publisher, NEW b \in Body, Publish(p, b)
    PROVE  Stored'
<1>1. p \in Caller /\ p \notin Reader /\ p \notin Purger
    BY Roles
<1>2. actor[p].pc = "idle" /\ actor[p] \in Row /\ Fits(p, actor[p])
    BY <1>1 DEF Publish, Stored, StorageTyped
<1>3. PICK r : r = [Waiting EXCEPT !.pc = "tree", !.body = b, !.purges = purges]
    OBVIOUS
<1>4. purges \in Nat /\ lastFolder \in Nat
    BY DEF Stored, StorageTyped
<1>5. /\ r \in Row /\ r.pc = "tree" /\ r.body = b /\ r.made = 0 /\ r.in = 0
      /\ r.purges = purges /\ r.result = NoBody
    BY <1>3, <1>4 DEF Waiting, Row, Pc
<1>6. PublisherFits(r)
    BY <1>5, SourcesAssumption DEF PublisherFits
<1>7. Fits(p, r)
    BY <1>1, <1>4, <1>5, <1>6 DEF Fits
<1>8. actor[p].body = NoBody /\ actor[p].made = 0
    BY <1>2 DEF Fits, PublisherFits
<1>9. Steps(p, r) /\ UNCHANGED Tables
    BY <1>3 DEF Publish, Names, Tables
<1> QED BY <1>1, <1>5, <1>7, <1>8, <1>9, QuietStep DEF KeepsBody

LEMMA MakeTreeKeeps ==
    ASSUME Stored, NEW p \in Publisher, MakeTree(p)
    PROVE  Stored'
<1>1. p \in Caller /\ p \notin Reader /\ p \notin Purger
    BY Roles
<1>2. /\ StorageTyped /\ NameStands /\ folder \in Nat /\ lastFolder \in Nat
      /\ Fits(p, actor[p]) /\ PublisherFits(actor[p])
    BY <1>1 DEF Stored, StorageTyped, Fits
<1>3. /\ actor[p].pc = "tree" /\ Goes(p, "enter")
      /\ UNCHANGED <<source, temporary, object, purges>>
    BY DEF MakeTree
<1>4. \/ folder' = folder /\ lastFolder' = lastFolder
      \/ folder = 0 /\ folder' = lastFolder + 1 /\ lastFolder' = lastFolder + 1
    BY DEF MakeTree
<1>5. Keeps
    BY <1>2, <1>3, <1>4 DEF Keeps, Made, NameStands, StorageTyped
<1>6. folder' \in Nat /\ lastFolder' \in Nat /\ purges' \in Nat
    BY <1>2, <1>3, <1>4 DEF StorageTyped
<1>7. PICK r \in Row : /\ Steps(p, r) /\ r.pc = "enter"
                       /\ r.in = actor[p].in /\ r.body = actor[p].body
                       /\ r.made = actor[p].made /\ r.seen = actor[p].seen
                       /\ r.purges = actor[p].purges
                       /\ r.result = actor[p].result
    BY <1>1, <1>2, <1>3, GoesStep DEF Pc
<1>8. PublisherFits(r)
    BY <1>2, <1>3, <1>7 DEF PublisherFits
<1>9. Fits(p, r)
    BY <1>1, <1>2, <1>7, <1>8 DEF Fits
<1>10. Fits(p, r)'
    BY <1>1, <1>2, <1>5, <1>6, <1>7, <1>9, FitsStays, SpoiledStays DEF KeepsBody
<1>11. actor' \in [Caller -> Row] /\ \A b \in Caller : Fits(b, actor[b])'
    BY <1>1, <1>5, <1>6, <1>7, <1>10, OneMoves DEF KeepsBody
<1>12. Authors'
    BY <1>1, <1>3, <1>7, AuthorsStay
<1>13. NameStands'
    BY <1>2, <1>3, <1>4 DEF NameStands, Made
<1>14. StorageTyped'
    BY <1>2, <1>3, <1>6, <1>11 DEF StorageTyped
<1> QED BY <1>11, <1>12, <1>13, <1>14 DEF Stored

LEMMA EnterTreeKeeps ==
    ASSUME Stored, NEW p \in Publisher, EnterTree(p)
    PROVE  Stored'
<1>1. p \in Caller /\ p \notin Reader /\ p \notin Purger
    BY Roles
<1>2. actor[p].pc = "enter" /\ UNCHANGED Tables
    BY DEF EnterTree, Names, Tables
<1>3. CASE folder = 0
  <2>1. Ends(p, "refused")
      BY <1>3 DEF EnterTree
  <2> QED BY <1>1, <1>2, <2>1, EndsQuietly DEF MayAnswer, Answer
<1>4. CASE folder # 0
  <2>1. Steps(p, [actor[p] EXCEPT !.pc = "look", !.in = folder])
      BY <1>4 DEF EnterTree
  <2>2. /\ actor[p] \in Row /\ folder \in Nat /\ folder <= lastFolder
        /\ Fits(p, actor[p]) /\ PublisherFits(actor[p])
      BY <1>1 DEF Stored, StorageTyped, NameStands, Fits
  <2>3. PICK r : r = [actor[p] EXCEPT !.pc = "look", !.in = folder]
      OBVIOUS
  <2>4. /\ r \in Row /\ r.pc = "look" /\ r.in = folder
        /\ r.body = actor[p].body /\ r.made = actor[p].made
        /\ r.purges = actor[p].purges /\ r.result = actor[p].result
      BY <2>2, <2>3 DEF Row, Pc
  <2>5. PublisherFits(r)
      BY <1>2, <2>2, <2>4 DEF PublisherFits
  <2>6. Fits(p, r)
      BY <1>1, <2>2, <2>4, <2>5 DEF Fits
  <2> QED BY <1>1, <1>2, <2>1, <2>3, <2>4, <2>6, QuietStep DEF KeepsBody
<1> QED BY <1>3, <1>4

LEMMA CreateTemporaryKeeps ==
    ASSUME Stored, NEW p \in Publisher, CreateTemporary(p)
    PROVE  Stored'
<1>1. p \in Caller /\ p \notin Reader /\ p \notin Purger
    BY Roles
<1>2. CASE ~Holds(p)
  <2>1. Ends(p, "refused") /\ UNCHANGED Tables /\ actor[p].pc = "create"
      BY <1>2 DEF CreateTemporary, Tables
  <2> QED BY <1>1, <2>1, EndsQuietly DEF MayAnswer, Answer
<1>3. CASE Holds(p)
  <2> DEFINE n == Len(object) + 1
  <2>1. /\ actor[p].pc = "create"
        /\ object' = Append(object, [body |-> actor[p].body, whole |-> FALSE])
        /\ Steps(p, [actor[p] EXCEPT !.pc = "write", !.made = n])
        /\ UNCHANGED <<folder, lastFolder, source, purges>>
      BY <1>3 DEF CreateTemporary
  <2>2. /\ StorageTyped /\ NameStands /\ Authors /\ actor[p] \in Row
        /\ Fits(p, actor[p]) /\ PublisherFits(actor[p])
      BY <1>1 DEF Stored, StorageTyped, Fits
  <2>3. object \in Seq(Object) /\ Len(object) \in Nat /\ n \in Nat
      BY <2>2 DEF StorageTyped
  <2>4. PICK o \in Object : o = [body |-> actor[p].body, whole |-> FALSE]
    <3>1. actor[p].body \in Body \cup {NoBody}
        BY <2>2 DEF Row
    <3> QED BY <3>1 DEF Object
  <2>5. /\ object' \in Seq(Object) /\ Len(object') = n /\ object'[n] = o
        /\ \A i \in 1..Len(object) : object'[i] = object[i]
      BY <2>1, <2>3, <2>4
  <2>6. PICK r : r = [actor[p] EXCEPT !.pc = "write", !.made = n]
      OBVIOUS
  <2>7. /\ r \in Row /\ r.pc = "write" /\ r.made = n /\ r.in = actor[p].in
        /\ r.body = actor[p].body
        /\ r.purges = actor[p].purges /\ r.result = actor[p].result
      BY <2>2, <2>3, <2>6 DEF Row, Pc
  <2>8. Steps(p, r)
      BY <2>1, <2>6
  <2>9. Keeps
    <3>1. \A i \in Made : /\ i \in Made' /\ object'[i].body = object[i].body
                          /\ object[i].whole => object'[i].whole
        BY <2>3, <2>5 DEF Made
    <3>2. UNCHANGED <<folder, lastFolder, source, purges>>
          /\ lastFolder \in Nat /\ purges \in Nat
        BY <2>1, <2>2 DEF StorageTyped
    <3> HIDE DEF n
    <3> QED BY <3>1, <3>2 DEF Keeps
  <2>10. folder' \in Nat /\ lastFolder' \in Nat /\ purges' \in Nat
      BY <2>1, <2>2 DEF StorageTyped
  <2>11. n # 0 /\ n \in Made' /\ object'[n].body = r.body
      BY <2>3, <2>4, <2>5, <2>7 DEF Made
  <2>12. r.result \notin {"created"} /\ r.body \in Body
      BY <2>1, <2>2, <2>7 DEF PublisherFits
  <2>13. r.result = "kept" /\ r.purges = purges' =>
            source' # 0 /\ object'[source'].body = r.body
    <3>1. r.result = "kept" /\ r.purges = purges =>
             source # 0 /\ object[source].body = r.body
        BY <2>2, <2>7 DEF PublisherFits
    <3> QED BY <2>1, <2>2, <2>5, <3>1 DEF NameStands, Made
  <2>14. PublisherFits(r)'
      BY <2>7, <2>11, <2>12, <2>13 DEF PublisherFits
  <2>15. Fits(p, r)'
      BY <1>1, <2>1, <2>2, <2>7, <2>14 DEF Fits
  <2>16. actor' \in [Caller -> Row] /\ \A b \in Caller : Fits(b, actor[b])'
      BY <1>1, <2>7, <2>8, <2>9, <2>10, <2>15, OneMoves DEF KeepsBody
  <2>17. Authors'
    <3>1. actor'[p].made = n /\ \A q \in Publisher \ {p} : actor'[q] = actor[q]
        BY <1>1, <2>2, <2>7, <2>8, OneSteps, Roles
    <3>2. \A q \in Publisher : actor[q].made # 0 => actor[q].made \in 1..Len(object)
        BY Roles DEF Stored, Fits, PublisherFits, Made
    <3>3. \A q \in Publisher : actor[q].made # n
        BY <2>3, <2>11, <3>2
    <3>4. \A q, s \in Publisher :
             q # s /\ actor'[q].made # 0 => actor'[q].made # actor'[s].made
        BY <2>2, <3>1, <3>3 DEF Authors
    <3>5. ASSUME NEW i \in 1..n PROVE \E q \in Publisher : actor'[q].made = i
      <4>1. CASE i = n
          BY <3>1, <4>1
      <4>2. CASE i # n
        <5>1. i \in Made
            BY <2>3, <4>2 DEF Made
        <5>2. PICK q \in Publisher : actor[q].made = i
            BY <2>2, <5>1 DEF Authors
        <5>3. i # 0 /\ actor[p].made = 0
            BY <2>1, <2>2, <5>1 DEF PublisherFits, Made
        <5> QED BY <3>1, <5>2, <5>3
      <4> QED BY <4>1, <4>2
    <3> HIDE DEF n
    <3> QED BY <2>5, <3>4, <3>5 DEF Authors, Made
  <2>18. NameStands'
    <3>1. source # 0 => folder # 0 /\ source \in 1..n /\ object'[source].whole
        BY <2>2, <2>3, <2>5 DEF NameStands, Made
    <3> HIDE DEF n
    <3> QED BY <2>1, <2>2, <2>5, <3>1 DEF NameStands, Made
  <2>19. StorageTyped'
      BY <2>1, <2>2, <2>5, <2>16 DEF StorageTyped
  <2> QED BY <2>16, <2>17, <2>18, <2>19 DEF Stored
<1> QED BY <1>2, <1>3

LEMMA WriteTemporaryKeeps ==
    ASSUME Stored, NEW p \in Publisher, WriteTemporary(p)
    PROVE  Stored'
<1>1. p \in Caller /\ p \notin Reader /\ p \notin Purger
    BY Roles
<1>2. /\ StorageTyped /\ NameStands /\ object \in Seq(Object)
      /\ Fits(p, actor[p]) /\ PublisherFits(actor[p])
    BY <1>1 DEF Stored, StorageTyped, Fits
<1>3. /\ actor[p].pc = "write" /\ Goes(p, "link")
      /\ UNCHANGED <<folder, lastFolder, source, purges>>
    BY DEF WriteTemporary
<1>4. PICK m \in Made : m = actor[p].made
    BY <1>2, <1>3 DEF PublisherFits
<1>5. PICK o : o = [object[m] EXCEPT !.whole = TRUE]
    OBVIOUS
<1>6. o \in Object /\ o.whole /\ o.body = object[m].body
  <2>1. object[m] \in Object
      BY <1>2, <1>4 DEF Made
  <2> QED BY <1>5, <2>1 DEF Object
<1>7. object' = [object EXCEPT ![m] = o]
    BY <1>4, <1>5 DEF WriteTemporary
<1>8. /\ object' \in Seq(Object) /\ Len(object') = Len(object)
      /\ object'[m] = o /\ \A i \in Made \ {m} : object'[i] = object[i]
    BY <1>2, <1>4, <1>6, <1>7 DEF Made
<1>9. Keeps
  <2>1. \A i \in Made : /\ i \in Made' /\ object'[i].body = object[i].body
                        /\ object[i].whole => object'[i].whole
      BY <1>6, <1>8 DEF Made
  <2> QED BY <1>2, <1>3, <2>1 DEF Keeps, StorageTyped
<1>10. folder' \in Nat /\ lastFolder' \in Nat /\ purges' \in Nat
    BY <1>2, <1>3 DEF StorageTyped
<1>11. PICK r \in Row : /\ Steps(p, r) /\ r.pc = "link"
                        /\ r.in = actor[p].in /\ r.body = actor[p].body
                        /\ r.made = actor[p].made /\ r.seen = actor[p].seen
                        /\ r.purges = actor[p].purges
                        /\ r.result = actor[p].result
    BY <1>1, <1>2, <1>3, GoesStep DEF Pc
<1>12. PublisherFits(r)'
  <2>1. r.made = m /\ r.made # 0 /\ r.made \in Made'
      BY <1>4, <1>8, <1>11 DEF Made
  <2>2. object'[r.made].whole /\ object'[r.made].body = r.body
      BY <1>2, <1>4, <1>6, <1>8, <1>11, <2>1 DEF PublisherFits
  <2>3. r.result = "created" /\ r.purges = purges' => source' = r.made
      BY <1>2, <1>3, <1>11 DEF PublisherFits
  <2>4. r.result = "kept" /\ r.purges = purges' =>
           source' # 0 /\ object'[source'].body = r.body
    <3>1. r.result = "kept" /\ r.purges = purges =>
             source # 0 /\ object[source].body = r.body
        BY <1>2, <1>11 DEF PublisherFits
    <3> QED BY <1>2, <1>3, <1>9, <3>1 DEF NameStands, Keeps
  <2>5. r.body \in Body
      BY <1>2, <1>3, <1>11 DEF PublisherFits
  <2> QED BY <1>11, <2>1, <2>2, <2>3, <2>4, <2>5 DEF PublisherFits
<1>13. Fits(p, r)'
    BY <1>1, <1>2, <1>3, <1>11, <1>12 DEF Fits
<1>14. actor' \in [Caller -> Row] /\ \A b \in Caller : Fits(b, actor[b])'
    BY <1>1, <1>9, <1>10, <1>11, <1>13, OneMoves DEF KeepsBody
<1>15. Authors'
    BY <1>1, <1>8, <1>11, AuthorsStay
<1>16. NameStands'
    BY <1>2, <1>3, <1>9 DEF NameStands, Keeps
<1>17. StorageTyped'
    BY <1>2, <1>3, <1>8, <1>14 DEF StorageTyped
<1> QED BY <1>14, <1>15, <1>16, <1>17 DEF Stored
\* The name that was free leads to the complete object the publisher made.
LEMMA NamesSource ==
    ASSUME Stored, NEW p \in Publisher, LinkSource(p) \/ RenameSource(p)
    PROVE  Stored'
<1>1. p \in Caller /\ p \notin Reader /\ p \notin Purger
    BY Roles
<1>2. /\ StorageTyped /\ NameStands
      /\ Fits(p, actor[p]) /\ PublisherFits(actor[p])
    BY <1>1 DEF Stored, StorageTyped, Fits
<1>3. /\ actor[p].pc = "link" /\ folder # 0 /\ source = 0
      /\ source' = actor[p].made
      /\ UNCHANGED <<folder, lastFolder, object, purges>>
    BY DEF LinkSource, RenameSource, Holds
<1>4. PICK pc \in {"unlink", "check"} : Goes(p, pc)
    BY DEF LinkSource, RenameSource
<1>5. source' # 0 /\ source' \in Made /\ object[source'].whole
      /\ object[source'].body = actor[p].body
    BY <1>2, <1>3 DEF PublisherFits
<1>6. Keeps
    BY <1>2, <1>3 DEF Keeps, Made, StorageTyped
<1>7. folder' \in Nat /\ lastFolder' \in Nat /\ purges' \in Nat /\ source' \in Nat
    BY <1>2, <1>3, <1>5 DEF StorageTyped, Made
<1>8. PICK r \in Row : /\ Steps(p, r) /\ r.pc = pc
                       /\ r.in = actor[p].in /\ r.body = actor[p].body
                       /\ r.made = actor[p].made /\ r.seen = actor[p].seen
                       /\ r.purges = actor[p].purges
                       /\ r.result = actor[p].result
    BY <1>1, <1>2, <1>4, GoesStep DEF Pc
<1>9. PublisherFits(r)'
  <2>1. r.made # 0 /\ r.made \in Made' /\ object'[r.made].whole
        /\ object'[r.made].body = r.body
      BY <1>3, <1>5, <1>8 DEF Made
  <2>2. r.body \in Body
      BY <1>2, <1>3, <1>8 DEF PublisherFits
  <2> QED BY <1>3, <1>8, <2>1, <2>2 DEF PublisherFits
<1>10. Fits(p, r)'
    BY <1>1, <1>2, <1>3, <1>8, <1>9 DEF Fits
<1>11. actor' \in [Caller -> Row] /\ \A b \in Caller : Fits(b, actor[b])'
    BY <1>1, <1>6, <1>7, <1>8, <1>10, OneMoves DEF KeepsBody
<1>12. Authors'
    BY <1>1, <1>3, <1>8, AuthorsStay
<1>13. NameStands'
    BY <1>2, <1>3, <1>5 DEF NameStands, Made
<1>14. StorageTyped'
    BY <1>2, <1>3, <1>7, <1>11 DEF StorageTyped
<1> QED BY <1>11, <1>12, <1>13, <1>14 DEF Stored

LEMMA PublisherLooks ==
    ASSUME Stored, NEW p \in Publisher,
           LookForSource(p) \/ UnlinkTemporary(p) \/ SourceTaken(p)
    PROVE  Stored'
<1>1. Fits(p, actor[p]) /\ PublisherFits(actor[p]) /\ p \in Caller
    BY Roles DEF Stored, Fits
<1>2. UNCHANGED Tables
    BY DEF LookForSource, UnlinkTemporary, SourceTaken, Names, Tables
<1>3. CASE LookForSource(p)
  <2>1. PICK pc \in {"compare", "create"} : Goes(p, pc)
      BY <1>3 DEF LookForSource
  <2>2. actor[p].pc = "look" /\ actor[p].made = 0
      BY <1>1, <1>3 DEF LookForSource, PublisherFits
  <2> QED BY <1>2, <2>1, <2>2, PublisherGoes DEF Pc
<1>4. CASE UnlinkTemporary(p)
  <2>1. Goes(p, "check") /\ actor[p].pc = "unlink"
      BY <1>4 DEF UnlinkTemporary
  <2>2. actor[p].made # 0 /\ object[actor[p].made].whole
      BY <1>1, <2>1 DEF PublisherFits
  <2> QED BY <1>2, <2>1, <2>2, PublisherGoes DEF Pc
<1>5. CASE SourceTaken(p)
  <2>1. Goes(p, "compare") /\ actor[p].pc = "link"
      BY <1>5 DEF SourceTaken
  <2> QED BY <1>2, <2>1, PublisherGoes DEF Pc
<1> QED BY <1>3, <1>4, <1>5

\* What a publisher reports is what it found under the name.
LEMMA PublisherReports ==
    ASSUME Stored, NEW p \in Publisher, CheckPublished(p) \/ CompareSource(p)
    PROVE  Stored'
<1>1. /\ Fits(p, actor[p]) /\ PublisherFits(actor[p]) /\ p \in Caller
      /\ p \notin Reader /\ p \notin Purger
    BY Roles DEF Stored, Fits
<1>2. UNCHANGED Tables /\ actor[p].pc \in {"check", "compare"}
    BY DEF CheckPublished, CompareSource, Names, Tables
<1>3. ASSUME NEW what \in {"refused", "different"}, Ends(p, what)
      PROVE  Stored'
    BY <1>1, <1>2, <1>3, EndsQuietly DEF MayAnswer, Answer
<1>4. CASE CheckPublished(p)
  <2>1. CASE Finds(p) = actor[p].made
    <3>1. Ends(p, "created") /\ actor[p].pc = "check"
        BY <1>4, <2>1 DEF CheckPublished
    <3>2. actor[p].made # 0 /\ source = actor[p].made
        BY <1>1, <2>1, <3>1 DEF PublisherFits, Finds
    <3>3. MayAnswer(p, "created")
        BY <1>1, <1>2, <3>2 DEF MayAnswer
    <3> QED BY <1>1, <1>2, <3>1, <3>3, EndsQuietly DEF Answer
  <2>2. CASE Finds(p) # actor[p].made
      BY <1>3, <1>4, <2>2 DEF CheckPublished
  <2> QED BY <2>1, <2>2
<1>5. CASE CompareSource(p)
  <2>1. CASE Finds(p) # 0 /\ object[source].body = actor[p].body
    <3>1. Ends(p, "kept") /\ source # 0
        BY <1>5, <2>1 DEF CompareSource, Finds
    <3>2. MayAnswer(p, "kept")
        BY <1>1, <1>2, <2>1, <3>1 DEF MayAnswer
    <3> QED BY <1>1, <1>2, <3>1, <3>2, EndsQuietly DEF Answer
  <2>2. CASE Finds(p) = 0 \/ object[source].body # actor[p].body
      BY <1>3, <1>5, <2>2 DEF CompareSource
  <2> QED BY <2>1, <2>2
<1> QED BY <1>4, <1>5

-----------------------------------------------------------------------------
(* read_version_source, purge_version_source and failures.                 *)

LEMMA OpenTreeKeeps ==
    ASSUME Stored, NEW a \in Reader \cup Purger, OpenTree(a)
    PROVE  Stored'
<1>1. a \in Caller /\ a \notin Publisher /\ UNCHANGED Tables
    BY Roles DEF OpenTree, Names, Tables
<1>2. CASE folder = 0
  <2>1. Ends(a, "missing")
      BY <1>2 DEF OpenTree
  <2> QED BY <1>1, <2>1, EndsQuietly DEF MayAnswer, Answer
<1>3. CASE folder # 0
  <2>1. PICK r : r = [Waiting EXCEPT !.pc = "find", !.in = folder, !.purges = purges]
      OBVIOUS
  <2>2. /\ actor[a] \in Row /\ Fits(a, actor[a])
        /\ folder \in Nat /\ lastFolder \in Nat /\ purges \in Nat
        /\ folder <= lastFolder
      BY <1>1 DEF Stored, StorageTyped, NameStands
  <2>3. /\ r \in Row /\ r.pc = "find" /\ r.in = folder /\ r.purges = purges
        /\ r.body = NoBody /\ r.result = NoBody
      BY <2>1, <2>2 DEF Waiting, Row, Pc
  <2>4. ReaderFits(r) /\ PurgerFits(r)
      BY <1>3, <2>3, SourcesAssumption DEF ReaderFits, PurgerFits
  <2>5. Fits(a, r)
      BY <1>1, <2>2, <2>3, <2>4 DEF Fits
  <2>6. Steps(a, r)
      BY <1>3, <2>1 DEF OpenTree
  <2> QED BY <1>1, <2>3, <2>5, <2>6, QuietStep DEF KeepsBody
<1> QED BY <1>2, <1>3

LEMMA FindSourceKeeps ==
    ASSUME Stored, NEW a \in Reader, FindSource(a)
    PROVE  Stored'
<1>1. a \in Caller /\ a \notin Publisher /\ a \notin Purger /\ UNCHANGED Tables
    BY Roles DEF FindSource, Names, Tables
<1>2. CASE Finds(a) = 0
  <2>1. Ends(a, "missing")
      BY <1>2 DEF FindSource
  <2> QED BY <1>1, <2>1, EndsQuietly DEF MayAnswer, Answer
<1>3. CASE Finds(a) # 0
  <2>1. PICK r : r = [actor[a] EXCEPT !.pc = "open", !.seen = source]
      OBVIOUS
  <2>2. /\ actor[a] \in Row /\ Fits(a, actor[a]) /\ ReaderFits(actor[a])
        /\ source \in Nat
      BY <1>1 DEF Stored, StorageTyped, Fits
  <2>3. /\ source # 0 /\ folder # 0 /\ actor[a].in = folder
        /\ source \in Made /\ object[source].whole
      BY <1>3 DEF Finds, Holds, Stored, NameStands
  <2>4. /\ r \in Row /\ r.pc = "open" /\ r.seen = source /\ r.in = actor[a].in
        /\ r.body = actor[a].body /\ r.purges = actor[a].purges
        /\ r.result = actor[a].result
      BY <2>1, <2>2 DEF Row, Pc
  <2>5. ReaderFits(r)
      BY <2>2, <2>3, <2>4 DEF ReaderFits
  <2>6. Fits(a, r)
      BY <1>1, <2>2, <2>4, <2>5 DEF Fits
  <2>7. Steps(a, r)
      BY <1>3, <2>1 DEF FindSource
  <2> QED BY <1>1, <2>4, <2>6, <2>7, QuietStep DEF KeepsBody
<1> QED BY <1>2, <1>3

LEMMA OpenSourceKeeps ==
    ASSUME Stored, NEW a \in Reader, OpenSource(a)
    PROVE  Stored'
<1>1. /\ a \in Caller /\ a \notin Publisher /\ a \notin Purger
      /\ UNCHANGED Tables /\ actor[a].pc = "open"
    BY Roles DEF OpenSource, Names, Tables
<1>2. Fits(a, actor[a]) /\ ReaderFits(actor[a])
    BY <1>1 DEF Stored, Fits
<1>3. CASE Finds(a) = actor[a].seen
  <2>1. Goes(a, "read")
      BY <1>3 DEF OpenSource
  <2> QED BY <1>1, <2>1, ReaderReads
<1>4. CASE Finds(a) # actor[a].seen
  <2>1. Ends(a, "corrupt")
      BY <1>4 DEF OpenSource
  <2>2. purges # 0
      BY <1>1, <1>2, <1>4 DEF ReaderFits, Finds, Holds
  <2> QED BY <1>1, <2>1, <2>2, EndsQuietly DEF MayAnswer, Answer
<1> QED BY <1>3, <1>4

\* A source that does not have the row's digest was published like that.
LEMMA ReadSourceKeeps ==
    ASSUME Stored, NEW a \in Reader, ReadSource(a)
    PROVE  Stored'
<1>1. /\ a \in Caller /\ a \notin Publisher /\ a \notin Purger
      /\ UNCHANGED Tables /\ actor[a].pc = "read"
    BY Roles DEF ReadSource, Names, Tables
<1>2. actor[a].seen \in Made /\ object[actor[a].seen].whole
    BY <1>1 DEF Stored, Fits, ReaderFits
<1>3. CASE object[actor[a].seen].body = Expected
  <2>1. Ends(a, "read")
      BY <1>2, <1>3 DEF ReadSource
  <2> QED BY <1>1, <2>1, EndsQuietly DEF MayAnswer, Answer
<1>4. CASE object[actor[a].seen].body # Expected
  <2>1. Ends(a, "corrupt")
      BY <1>4 DEF ReadSource
  <2>2. PICK p \in Publisher : actor[p].made = actor[a].seen
      BY <1>2 DEF Stored, Authors
  <2>3. PublisherFits(actor[p])
      BY Roles DEF Stored, Fits
  <2>4. actor[p].made # 0
      BY <1>2, <2>2 DEF Made
  <2>5. /\ actor[p].body \in Body
        /\ actor[p].body = object[actor[a].seen].body
      BY <2>2, <2>3, <2>4 DEF PublisherFits
  <2>6. Spoiled
      BY <1>4, <2>5, SourcesAssumption DEF Spoiled
  <2> QED BY <1>1, <2>1, <2>6, EndsQuietly DEF MayAnswer, Answer
<1> QED BY <1>3, <1>4

\* A purger takes the name away, and counts.
LEMMA TakesSource ==
    ASSUME Stored, NEW u \in Purger, NEW pc \in {"release", "rmdir"}, Goes(u, pc),
           actor[u].pc \in {"remove", "bind"},
           source' = 0, purges' = purges + 1, UNCHANGED <<folder, lastFolder, object>>
    PROVE  Stored'
<1>1. u \in Caller /\ u \notin Publisher /\ u \notin Reader
    BY Roles
<1>2. /\ StorageTyped /\ NameStands /\ purges \in Nat
      /\ Fits(u, actor[u]) /\ PurgerFits(actor[u])
    BY <1>1 DEF Stored, StorageTyped, Fits
<1>3. Keeps
    BY <1>2 DEF Keeps, Made, StorageTyped
<1>4. folder' \in Nat /\ lastFolder' \in Nat /\ purges' \in Nat
    BY <1>2 DEF StorageTyped
<1>5. PICK r \in Row : /\ Steps(u, r) /\ r.pc = pc
                       /\ r.in = actor[u].in /\ r.body = actor[u].body
                       /\ r.made = actor[u].made /\ r.seen = actor[u].seen
                       /\ r.purges = actor[u].purges
                       /\ r.result = actor[u].result
    BY <1>1, <1>2, GoesStep DEF Pc
<1>6. PurgerFits(r)'
    BY <1>2, <1>5 DEF PurgerFits
<1>7. r.purges <= purges' /\ r.in <= lastFolder'
  <2>1. r.purges \in Nat /\ r.purges <= purges /\ r.in <= lastFolder
      BY <1>2, <1>5 DEF Fits, Row
  <2> QED BY <1>2, <2>1
<1>8. Fits(u, r)'
    BY <1>1, <1>6, <1>7 DEF Fits
<1>9. actor' \in [Caller -> Row] /\ \A b \in Caller : Fits(b, actor[b])'
    BY <1>1, <1>3, <1>4, <1>5, <1>8, OneMoves DEF KeepsBody
<1>10. Authors'
    BY <1>1, <1>5, AuthorsStay
<1>11. NameStands'
    BY <1>2 DEF NameStands
<1>12. StorageTyped'
    BY <1>2, <1>4, <1>9 DEF StorageTyped
<1> QED BY <1>9, <1>10, <1>11, <1>12 DEF Stored

LEMMA PurgerKeeps ==
    ASSUME Stored, NEW u \in Purger,
           \/ FindForPurge(u) \/ BindSource(u) \/ RemoveSource(u)
           \/ ReleaseSource(u) \/ DisposeSource(u)
    PROVE  Stored'
<1>1. u \in Caller /\ u \notin Publisher /\ u \notin Reader
    BY Roles
<1>2. StorageTyped /\ actor[u] \in Row
    BY <1>1 DEF Stored, StorageTyped
<1>3. ASSUME Ends(u, "refused"), UNCHANGED Tables
      PROVE  Stored'
    BY <1>1, <1>3, EndsQuietly DEF MayAnswer, Answer
<1>4. ASSUME NEW pc \in {"remove", "rmdir"}, Goes(u, pc), UNCHANGED Tables,
             actor[u].pc \in {"bind", "release"}
      PROVE  Stored'
  <2>1. PICK r \in Row : /\ Steps(u, r) /\ r.pc = pc
                         /\ r.in = actor[u].in /\ r.body = actor[u].body
                         /\ r.made = actor[u].made /\ r.seen = actor[u].seen
                         /\ r.purges = actor[u].purges
                         /\ r.result = actor[u].result
      BY <1>1, <1>2, <1>4, GoesStep DEF Pc
  <2> QED BY <1>4, <2>1, PurgerGoes
<1>5. CASE FindForPurge(u)
  <2>1. PICK r : r = [actor[u] EXCEPT !.pc = IF Finds(u) = 0 THEN "rmdir" ELSE "bind",
                                      !.seen = Finds(u)]
      OBVIOUS
  <2>2. Finds(u) \in Nat
      BY <1>2 DEF Finds, StorageTyped
  <2>3. PICK q \in {"rmdir", "bind"}, n \in Nat :
           r = [actor[u] EXCEPT !.pc = q, !.seen = n]
      BY <2>1, <2>2
  <2>4. /\ r \in Row /\ r.in = actor[u].in /\ r.body = actor[u].body
        /\ r.purges = actor[u].purges /\ r.result = actor[u].result
      BY <1>2, <2>3 DEF Row, Pc
  <2>5. Steps(u, r) /\ actor[u].pc = "find" /\ UNCHANGED Tables
      BY <1>5, <2>1 DEF FindForPurge, Names, Tables
  <2> QED BY <2>4, <2>5, PurgerGoes
<1>6. CASE BindSource(u) \/ ReleaseSource(u)
    BY <1>3, <1>4, <1>6 DEF BindSource, ReleaseSource, Names, Tables
<1>7. CASE RemoveSource(u) \/ DisposeSource(u)
  <2>1. CASE Ends(u, "refused") /\ UNCHANGED <<source, purges>>
      BY <1>3, <1>7, <2>1 DEF RemoveSource, DisposeSource, Tables
  <2>2. CASE ~(Ends(u, "refused") /\ UNCHANGED <<source, purges>>)
    <3>1. /\ actor[u].pc \in {"remove", "bind"}
          /\ Goes(u, "release") \/ Goes(u, "rmdir")
          /\ source' = 0 /\ purges' = purges + 1
          /\ UNCHANGED <<folder, lastFolder, object>>
        BY <1>7, <2>2 DEF RemoveSource, DisposeSource
    <3> QED BY <3>1, TakesSource
  <2> QED BY <2>1, <2>2
<1> QED BY <1>5, <1>6, <1>7

LEMMA RemoveDirectoryKeeps ==
    ASSUME Stored, NEW u \in Purger, RemoveDirectory(u)
    PROVE  Stored'
<1>1. u \in Caller /\ u \notin Publisher /\ u \notin Reader
    BY Roles
<1>2. CASE folder = 0 \/ source # 0 \/ temporary # {}
  <2>1. Ends(u, "refused") /\ UNCHANGED Tables
      BY <1>2 DEF RemoveDirectory, Tables
  <2> QED BY <1>1, <2>1, EndsQuietly DEF MayAnswer, Answer
<1>3. CASE ~(folder = 0 \/ source # 0 \/ temporary # {})
  <2>1. /\ actor[u].pc = "rmdir" /\ Ends(u, "removed")
        /\ folder' = 0 /\ source = 0
        /\ UNCHANGED <<lastFolder, source, object, purges>>
      BY <1>3 DEF RemoveDirectory
  <2>2. /\ StorageTyped /\ NameStands
        /\ Fits(u, actor[u]) /\ PurgerFits(actor[u])
      BY <1>1 DEF Stored, StorageTyped, Fits
  <2>3. Keeps
      BY <2>1, <2>2 DEF Keeps, Made, StorageTyped
  <2>4. folder' \in Nat /\ lastFolder' \in Nat /\ purges' \in Nat
      BY <2>1, <2>2 DEF StorageTyped
  <2>5. PICK r \in Row : /\ Steps(u, r) /\ r.pc = "done" /\ r.result = "removed"
                         /\ r.in = actor[u].in /\ r.body = actor[u].body
                         /\ r.made = actor[u].made /\ r.seen = actor[u].seen
                         /\ r.purges = actor[u].purges
      BY <1>1, <2>1, <2>2, EndsStep DEF Answer
  <2>6. PurgerFits(r)'
      BY <2>1, <2>2, <2>5 DEF PurgerFits
  <2>7. Fits(u, r)'
      BY <1>1, <2>1, <2>2, <2>5, <2>6 DEF Fits
  <2>8. actor' \in [Caller -> Row] /\ \A b \in Caller : Fits(b, actor[b])'
      BY <1>1, <2>3, <2>4, <2>5, <2>7, OneMoves DEF KeepsBody
  <2>9. Authors'
      BY <1>1, <2>1, <2>5, AuthorsStay
  <2>10. NameStands'
    <3>1. lastFolder' \in Nat
        BY <2>4
    <3> QED BY <2>1, <3>1 DEF NameStands
  <2>11. StorageTyped'
      BY <2>1, <2>2, <2>4, <2>8 DEF StorageTyped
  <2> QED BY <2>8, <2>9, <2>10, <2>11 DEF Stored
<1> QED BY <1>2, <1>3

LEMMA FailsKeeps ==
    ASSUME Stored, NEW a \in Caller, Fails(a)
    PROVE  Stored'
<1>1. Ends(a, "refused") /\ UNCHANGED Tables /\ actor[a].pc # "idle"
    BY DEF Fails, Names, Tables
<1> QED BY <1>1, EndsQuietly DEF MayAnswer, Answer

-----------------------------------------------------------------------------
(* The invariant.                                                          *)

LEMMA StoredInit == StorageInit => Stored
<1> SUFFICES ASSUME StorageInit PROVE Stored
    OBVIOUS
<1>1. Waiting \in Row /\ Waiting.pc = "idle" /\ Waiting.made = 0
      /\ Waiting.body = NoBody /\ Waiting.result = NoBody
      /\ Waiting.in = 0 /\ Waiting.purges = 0
    BY DEF Waiting, Row, Pc
<1>2. \A a \in Caller : actor[a] = Waiting
    BY DEF StorageInit
<1>3. object = <<>> /\ object \in Seq(Object) /\ Len(object) = 0
    BY DEF StorageInit
<1>4. StorageTyped
    BY <1>1, <1>3 DEF StorageInit, StorageTyped
<1>5. NameStands
    BY DEF StorageInit, NameStands
<1>6. Authors
    BY <1>1, <1>2, <1>3, Roles DEF Authors, Made
<1>7. ASSUME NEW a \in Caller PROVE Fits(a, actor[a])
  <2>1. PublisherFits(actor[a])
      BY <1>1, <1>2, SourcesAssumption DEF PublisherFits
  <2>2. ReaderFits(actor[a]) /\ PurgerFits(actor[a])
      BY <1>1, <1>2, SourcesAssumption DEF ReaderFits, PurgerFits
  <2> QED BY <1>1, <1>2, <2>1, <2>2 DEF Fits, StorageInit
<1> QED BY <1>4, <1>5, <1>6, <1>7 DEF Stored

LEMMA StoredStep == Stored /\ [StorageNext]_storage => Stored'
<1> SUFFICES ASSUME Stored, [StorageNext]_storage PROVE Stored'
    OBVIOUS
<1>1. CASE StorageNext
    BY <1>1, PublishKeeps, MakeTreeKeeps, EnterTreeKeeps, CreateTemporaryKeeps,
       WriteTemporaryKeeps, NamesSource, PublisherLooks, PublisherReports,
       OpenTreeKeeps, FindSourceKeeps, OpenSourceKeeps, ReadSourceKeeps,
       PurgerKeeps, RemoveDirectoryKeeps, FailsKeeps DEF StorageNext
<1>2. CASE UNCHANGED storage
    BY <1>2 DEF storage, Stored, StorageTyped, NameStands, Authors, Made, Spoiled,
       Fits, PublisherFits, ReaderFits, PurgerFits
<1> QED BY <1>1, <1>2

THEOREM StorageInvariant == StorageSpec => []Stored
BY StoredInit, StoredStep, PTL DEF StorageSpec

\* publish_version_source, read_version_source, purge_version_source: what the
\* calls answer is so, for any number of overlapping and failing processes.
THEOREM SourcesAnswerTruly == StorageSpec => []StorageAnswers
<1>1. Stored => StorageAnswers
  <2> SUFFICES ASSUME Stored PROVE StorageAnswers
      OBVIOUS
  <2>1. ASSUME NEW p \in Publisher
        PROVE  /\ PublisherFits(actor[p]) /\ actor[p].purges \in Nat
               /\ actor[p].purges <= purges
    <3>1. p \in Caller /\ actor[p] \in Row /\ Fits(p, actor[p])
        BY Roles DEF Stored, StorageTyped
    <3> QED BY <3>1 DEF Fits, Row
  <2>2. ASSUME NEW p \in Publisher, actor[p].result \in {"created", "kept"},
               actor[p].purges = purges
        PROVE  source # 0 /\ object[source].body = actor[p].body
      BY <2>1, <2>2 DEF PublisherFits
  <2>3. ASSUME NEW p \in Publisher, NEW q \in Publisher, p # q,
               actor[p].result = "created", actor[q].result = "created"
        PROVE  purges > 0
    <3>1. purges \in Nat
        BY DEF Stored, StorageTyped
    <3>2. CASE purges = 0
      <4>1. actor[p].purges = purges /\ actor[q].purges = purges
          BY <2>1, <3>2
      <4>2. actor[p].made = source /\ actor[q].made = source /\ actor[p].made # 0
          BY <2>1, <2>3, <4>1 DEF PublisherFits
      <4> QED BY <2>3, <4>2 DEF Stored, Authors
    <3> QED BY <3>1, <3>2
  <2>4. ASSUME NEW r \in Reader, actor[r].result = "corrupt", purges = 0
        PROVE  \E p \in Publisher : actor[p].body \notin {NoBody, Expected}
      BY <2>4, Roles DEF Stored, Fits, ReaderFits, Spoiled
  <2>5. ASSUME NEW u \in Purger, actor[u].result = "removed"
        PROVE  folder # actor[u].in
      BY <2>5, Roles DEF Stored, Fits, PurgerFits
  <2> QED BY <2>2, <2>3, <2>4, <2>5 DEF StorageAnswers
<1> QED BY <1>1, StorageInvariant, PTL

\* rename_child, write_all: a source appears whole, and only a purge takes it
\* away again; no call replaces or rewrites it, or loses its directory.
THEOREM SourcesStayImmutable == StorageSpec => SourceIsImmutable
<1> DEFINE Immutable ==
       /\ source # 0 => /\ source' \in {source, 0}
                        /\ source' = 0 => purges' > purges
                        /\ folder' = folder
                        /\ object'[source] = object[source]
       /\ source' # 0 => object'[source'].whole
<1>1. Stored /\ Stored' /\ [StorageNext]_storage => [Immutable]_storage
  <2> SUFFICES ASSUME Stored, Stored', StorageNext PROVE Immutable
      OBVIOUS
  <2>1. source' # 0 => object'[source'].whole
      BY DEF Stored, NameStands
  <2>2. ASSUME UNCHANGED Tables
        PROVE  Immutable
      BY <2>1, <2>2 DEF Tables
  <2>3. /\ source # 0 => folder # 0 /\ source \in Made /\ object[source].whole
        /\ object \in Seq(Object) /\ purges \in Nat
      BY DEF Stored, NameStands, StorageTyped
  <2>4. ASSUME NEW p \in Publisher, MakeTree(p)
        PROVE  Immutable
      BY <2>1, <2>3, <2>4 DEF MakeTree
  <2>5. ASSUME NEW p \in Publisher, CreateTemporary(p)
        PROVE  Immutable
    <3>1. UNCHANGED <<folder, source>>
        BY <2>5 DEF CreateTemporary
    <3>2. \/ object' = object
          \/ \E o : object' = Append(object, o)
        BY <2>5 DEF CreateTemporary
    <3>3. ASSUME NEW o, object' = Append(object, o), source # 0
          PROVE  object'[source] = object[source]
        BY <2>3, <3>3 DEF Made
    <3> QED BY <2>1, <3>1, <3>2, <3>3
  <2>6. ASSUME NEW p \in Publisher, WriteTemporary(p)
        PROVE  Immutable
    <3>1. UNCHANGED <<folder, source>>
          /\ object' = [object EXCEPT ![actor[p].made].whole = TRUE]
        BY <2>6 DEF WriteTemporary
    <3>2. ASSUME source # 0
          PROVE  object'[source] = object[source]
      <4>1. object[source] \in Object /\ object[source].whole = TRUE
        <5>1. object[source] \in Object /\ object[source].whole
            BY <2>3, <3>2 DEF Made
        <5> QED BY <5>1 DEF Object
      <4>2. CASE source = actor[p].made
        <5>1. PICK o : o = [object[source] EXCEPT !.whole = TRUE]
            OBVIOUS
        <5>2. o = object[source]
            BY <4>1, <5>1 DEF Object
        <5>3. object' = [object EXCEPT ![source] = o]
            BY <3>1, <4>2, <5>1
        <5> QED BY <2>3, <3>2, <5>2, <5>3 DEF Made
      <4>3. CASE source # actor[p].made
          BY <2>3, <3>1, <3>2, <4>3 DEF Made
      <4> QED BY <4>2, <4>3
    <3> QED BY <2>1, <3>1, <3>2
  <2>7. ASSUME NEW p \in Publisher, LinkSource(p) \/ RenameSource(p)
        PROVE  Immutable
      BY <2>1, <2>7 DEF LinkSource, RenameSource
  <2>8. ASSUME NEW u \in Purger, RemoveSource(u) \/ DisposeSource(u)
        PROVE  Immutable
      BY <2>1, <2>3, <2>8 DEF RemoveSource, DisposeSource
  <2>9. ASSUME NEW u \in Purger, RemoveDirectory(u)
        PROVE  Immutable
      BY <2>1, <2>9 DEF RemoveDirectory
  <2>10. ASSUME NEW p \in Publisher,
                \/ \E b \in Body : Publish(p, b)
                \/ EnterTree(p) \/ LookForSource(p) \/ UnlinkTemporary(p)
                \/ SourceTaken(p) \/ CheckPublished(p) \/ CompareSource(p)
         PROVE  UNCHANGED Tables
      BY <2>10 DEF Publish, EnterTree, LookForSource, UnlinkTemporary,
                   SourceTaken, CheckPublished, CompareSource, Names, Tables
  <2>11. ASSUME NEW a \in Caller,
                \/ OpenTree(a) \/ FindSource(a) \/ OpenSource(a) \/ ReadSource(a)
                \/ FindForPurge(a) \/ BindSource(a) \/ ReleaseSource(a) \/ Fails(a)
         PROVE  UNCHANGED Tables
      BY <2>11 DEF OpenTree, FindSource, OpenSource, ReadSource, FindForPurge,
                   BindSource, ReleaseSource, Fails, Names, Tables
  <2> HIDE DEF Immutable
  <2> QED BY <2>2, <2>4, <2>5, <2>6, <2>7, <2>8, <2>9, <2>10, <2>11, Roles
          DEF StorageNext
<1> QED BY <1>1, StorageInvariant, PTL DEF StorageSpec, SourceIsImmutable

-----------------------------------------------------------------------------
(*                      The runs of the agent loop                            *)

(* What the documents, the workspaces and the memory of a process hold.       *)

Statuses == {"none", "registered", "materializing", "ready", "failed"}
Bindings == [run : Run, task : 1..MaxTask]
Receipts == [run : Run, cand : Tree, status : {"pending", "passed", "failed"}]
Verdicts == [run : Run, verdict : Judged]
Written  == StateDoc \cup Bindings \cup Receipts \cup Verdicts \cup {None}
               \cup SUBSET Run
Copies   == [disk : [Doc -> Written], ledger : Statuses, tree : Tree \cup {None}]

\* The places of a run that has opened its state, in their order, and those of
\* a finalization.
Opening    == {"register", "make", "ready", "bind", "enter"}
Accepting  == {"derive", "measure", "accepted", "rejected"}
Auditing   == {"audit", "judge", "approved", "changes_requested", "stopped",
               "move", "close", "record"}
Open       == Opening \cup {"implement", "repair", "drop", "dropped"}
                 \cup Accepting \cup Auditing
Finalizing == {"bind_run", "verify", "clean", "cleaned", "unlink"}
Places     == {"idle", "recover", "reread", "preflight"} \cup Open \cup Finalizing

Memory ==
    [pc : Places, call : {"none", "run", "resume", "finalize"}, run : 0..MaxRun,
     task : Nat, verified : Tree \cup {None}, before : Tree \cup {None},
     repairs : 0..MaxRepair, evals : 0..MaxEval, index : 0..6, copy : Copies]

Documents ==
    /\ disk \in [Doc -> Written]
    /\ disk["state"] \in StateDoc \cup {None} /\ disk["backup"] \in StateDoc \cup {None}
    /\ disk["binding"] \in Bindings \cup {None} /\ disk["events"] \subseteq Run
    /\ disk["receipt"] \in Receipts \cup {None}
    /\ disk["findings"] \in Verdicts \cup {None}

Settled ==
    /\ ledger \in [Run -> Statuses] /\ holder \in [Run -> Tree \cup {None}]
    /\ checkout \in Tree
    /\ archive \in [Run -> [state : {"none", "partial", "complete"}, copy : Copies]]
    /\ task \in [number : 1..MaxTask, present : BOOLEAN]
    /\ runs \in 0..MaxRun
    /\ applied \in [Run -> BOOLEAN]

AtRest == Settled /\ mishap \in [faults : Nat, edits : Nat]

\* One process is inside a call, and it has the lock.
Locked ==
    /\ mem \in [Proc -> Memory] /\ lock \in Proc \cup {None}
    /\ \A p \in Proc : lock = p <=> mem[p].pc # "idle"

LEMMA DocumentNames ==
    /\ Len(Removable) = 6
    /\ Doc = {"state", "backup", "binding", "events", "receipt", "findings"}
    /\ \A i \in 1..6 : Removable[i] \in Doc
<1>1. Len(Removable) = 6
    BY DEF Removable
<1>2. Doc = {Removable[1], Removable[2], Removable[3], Removable[4], Removable[5],
             Removable[6]}
    BY <1>1 DEF Doc
<1>3. /\ Removable[1] = "state" /\ Removable[2] = "backup" /\ Removable[3] = "binding"
      /\ Removable[4] = "events" /\ Removable[5] = "receipt"
      /\ Removable[6] = "findings"
    BY DEF Removable
<1>4. \A i \in 1..6 : Removable[i] \in Doc
    BY <1>1 DEF Doc
<1> QED
    BY <1>1, <1>2, <1>3, <1>4

LEMMA CopyTypes ==
    /\ NoCopy \in Copies /\ Idle \in Memory
    /\ \A r \in Run : Documents /\ AtRest => Copied(r) \in Copies
<1>1. \A d \in Doc : Absent(d) \in Written
    BY DEF Absent, Written
<1>2. [d \in Doc |-> Absent(d)] \in [Doc -> Written]
    BY <1>1
<1>3. NoCopy \in Copies
    BY <1>2 DEF NoCopy, Copies, Statuses
<1>4. Idle \in Memory
    BY <1>3, AgentRunAssumption DEF Idle, Memory, Places
<1>5. \A r \in Run : Documents /\ AtRest => Copied(r) \in Copies
    BY DEF Documents, AtRest, Settled, Copied, Copies
<1> QED
    BY <1>3, <1>4, <1>5

-----------------------------------------------------------------------------
(* What the process that has the lock may rely on, by its place.              *)

Begins(m) ==
    /\ m.pc = "recover" => /\ m.call \in {"run", "resume"}
                           /\ m.call = "run" => m.run = 0 /\ runs < MaxRun
    /\ m.pc = "preflight" => /\ m.call = "run" /\ m.run = 0 /\ runs < MaxRun
                             /\ pending = None
    /\ m.pc = "reread" => m.call = "resume"

\* The state document is that of the run, saved twice, and of its place.
Records(m) == m.pc \in Open =>
    /\ m.call = "run" /\ m.run \in Run /\ m.task \in 1..MaxTask
    /\ disk["state"] \in StateDoc /\ disk["state"].run = m.run
    /\ disk["backup"] = disk["state"]
    /\ m.pc \in Opening => disk["state"].phase = "preflight"
    /\ m.pc = "implement" => disk["state"].phase = "implementing"
    /\ m.pc \in Accepting => disk["state"].phase \in {"acceptance", "acceptance_2"}
    /\ m.pc \in Auditing => disk["state"].phase \in {"auditing", "final_auditing"}
    /\ m.pc = "repair" => disk["state"].phase = "repairing"
    /\ m.pc \in {"drop", "dropped"} => disk["state"].phase = "approved"

\* A second acceptance is that of a repair.
Rounds(m) == m.pc \in Open =>
    /\ m.pc = "repair" => m.repairs < MaxRepair
    /\ m.pc = "judge" => m.evals < MaxEval
    /\ disk["state"].phase \in {"acceptance_2", "final_auditing"} => m.repairs > 0

Houses(m) ==
    /\ m.pc \in Open \ {"register", "make", "dropped"} => holder[m.run] # None
    /\ m.pc \in {"dropped", "cleaned"} => holder[m.run] = None

\* The candidate that was verified, what was said of it, and where it went.
Judges(m) ==
    /\ m.pc \in Accepting \cup Auditing => m.verified \in Tree
    /\ m.pc = "measure" =>
          disk["receipt"] = [run |-> m.run, cand |-> m.verified, status |-> "pending"]
    /\ m.pc \in {"approved", "move"} =>
          disk["findings"] = [run |-> m.run, verdict |-> "approved"]
    /\ m.pc = "move" =>
          disk["receipt"] = [run |-> m.run, cand |-> m.verified, status |-> "passed"]
    /\ m.pc \in {"close", "record"} => applied[m.run]

Finalizes(m) == m.pc \in Finalizing =>
    /\ m.call = "finalize" /\ m.run \in Run
    /\ m.pc # "bind_run" => \/ disk["state"] = None
                            \/ disk["state"].phase \in Terminal
    /\ m.pc \in {"clean", "cleaned", "unlink"} => archive[m.run].state = "complete"

FitsPlace(m) == Begins(m) /\ Records(m) /\ Rounds(m) /\ Houses(m) /\ Judges(m)
              /\ Finalizes(m)

\* An approval on file, or in the backup, is of a candidate that was moved.
Vouched == \A d \in {"state", "backup"} :
    disk[d] # None /\ disk[d].phase = "approved" => applied[disk[d].run]

Walked == Documents /\ AtRest /\ Locked /\ HoldersAreRecorded /\ Vouched
             /\ \A p \in Proc : mem[p].pc # "idle" => FitsPlace(mem[p])

-----------------------------------------------------------------------------
(* A call goes on, or it ends.                                                *)

LEMMA GoesOn ==
    ASSUME Walked, NEW p \in Proc, lock = p, NEW n \in Memory, n.pc # "idle",
           mem' = [mem EXCEPT ![p] = n], lock' = lock,
           Documents', AtRest', HoldersAreRecorded', Vouched', FitsPlace(n)'
    PROVE  Walked'
<1>1. Locked'
    BY DEF Walked, Locked
<1>2. \A q \in Proc : mem'[q].pc # "idle" => q = p /\ mem'[q] = n
    BY DEF Walked, Locked
<1>3. ASSUME NEW q \in Proc, mem'[q].pc # "idle" PROVE FitsPlace(mem[q])'
  <2>1. mem'[q] = n
      BY <1>2, <1>3
  <2> QED
      BY <2>1 DEF FitsPlace, Begins, Records, Rounds, Houses, Judges, Finalizes
<1> QED
    BY <1>1, <1>3 DEF Walked

LEMMA CallEnds ==
    ASSUME Walked, NEW p \in Proc, lock = p, Left(p),
           Documents', AtRest', HoldersAreRecorded', Vouched'
    PROVE  Walked'
<1>1. Idle \in Memory /\ Idle.pc = "idle"
    BY CopyTypes DEF Idle
<1>2. mem' = [mem EXCEPT ![p] = Idle] /\ lock' = None
    BY DEF Left
<1>3. mem' \in [Proc -> Memory] /\ \A q \in Proc : mem'[q].pc = "idle"
    BY <1>1, <1>2 DEF Walked, Locked
<1>4. Locked'
    BY <1>2, <1>3, AgentRunAssumption DEF Locked
<1> QED
    BY <1>3, <1>4 DEF Walked

\* The state document is written, and its backup unless the process dies.
LEMMA Saved ==
    ASSUME Documents, AtRest, NEW p \in Proc, NEW doc \in StateDoc, NEW next \in Memory,
           Save(p, doc, next)
    PROVE  /\ Documents' /\ disk'["state"] = doc
           /\ \A d \in {"binding", "receipt", "findings"} : disk'[d] = disk[d]
           /\ \/ /\ disk'["backup"] = doc /\ mem' = [mem EXCEPT ![p] = next]
                 /\ lock' = (IF next = Idle THEN None ELSE lock) /\ mishap' = mishap
              \/ disk'["backup"] = disk["backup"] /\ Left(p) /\ mishap' # mishap
           /\ mishap' \in [faults : Nat, edits : Nat]
<1>1. CASE /\ disk' = [disk EXCEPT !["state"] = doc, !["backup"] = doc,
                                   !["events"] = @ \cup {doc.run}]
           /\ mem' = [mem EXCEPT ![p] = next]
           /\ lock' = IF next = Idle THEN None ELSE lock
           /\ UNCHANGED mishap
  <2>1. /\ disk'["state"] = doc /\ disk'["backup"] = doc
        /\ disk'["events"] = disk["events"] \cup {doc.run}
        /\ \A d \in {"binding", "receipt", "findings"} : disk'[d] = disk[d]
      BY <1>1, DocumentNames DEF Documents
  <2>2. doc.run \in Run /\ doc \in Written /\ disk'["events"] \in Written
      BY <2>1 DEF StateDoc, Documents, Written
  <2>3. disk' \in [Doc -> Written]
    <3> DEFINE ev == disk["events"] \cup {doc.run}
    <3>1. disk' = [disk EXCEPT !["state"] = doc, !["backup"] = doc, !["events"] = ev]
        BY <1>1, DocumentNames DEF Documents
    <3>2. ev \in Written
        BY <2>1, <2>2
    <3> HIDE DEF ev
    <3> QED
        BY <2>2, <3>1, <3>2 DEF Documents
  <2>4. Documents'
      BY <2>1, <2>2, <2>3 DEF Documents
  <2> QED
      BY <1>1, <2>1, <2>4 DEF AtRest
<1>2. CASE disk' = [disk EXCEPT !["state"] = doc] /\ Fault /\ Left(p)
  <2>1. /\ disk'["state"] = doc /\ disk'["backup"] = disk["backup"]
        /\ disk'["events"] = disk["events"]
        /\ \A d \in {"binding", "receipt", "findings"} : disk'[d] = disk[d]
      BY <1>2, DocumentNames DEF Documents
  <2>2. disk' \in [Doc -> Written]
      BY <1>2, DocumentNames DEF Documents, Written
  <2>3. Documents'
      BY <2>1, <2>2 DEF Documents
  <2>4. mishap' \in [faults : Nat, edits : Nat] /\ mishap' # mishap
      BY <1>2 DEF Fault, AtRest
  <2> QED
      BY <1>2, <2>1, <2>3, <2>4
<1> QED
    BY <1>1, <1>2 DEF Save

\* A phase that the table allows is written, and the call goes on or is over.
LEMMA Advances ==
    ASSUME Walked, NEW p \in Proc, lock = p, mem[p].pc \in Open,
           NEW phase \in Phases, phase \in Allowed(disk["state"].phase),
           NEW next \in Memory, Advance(p, phase, next),
           Settled', HoldersAreRecorded',
           phase = "approved" => applied'[mem[p].run],
           \A r \in Run \ {mem[p].run} : applied'[r] = applied[r]
    PROVE  /\ Documents' /\ AtRest' /\ Vouched'
           /\ disk'["state"] \in StateDoc /\ disk'["state"].run = mem[p].run
           /\ disk'["state"].phase = phase
           /\ \A d \in {"binding", "receipt", "findings"} : disk'[d] = disk[d]
           /\ \/ /\ disk'["backup"] = disk'["state"] /\ mem' = [mem EXCEPT ![p] = next]
                 /\ lock' = (IF next = Idle THEN None ELSE lock) /\ mishap' = mishap
              \/ Walked' /\ Left(p) /\ mishap' # mishap
<1> DEFINE doc == [disk["state"] EXCEPT !.phase = phase]
<1>1. /\ Documents /\ AtRest /\ disk["state"] \in StateDoc
      /\ disk["state"].run = mem[p].run /\ disk["backup"] = disk["state"]
    BY DEF Walked, FitsPlace, Records, Open, Opening, Accepting, Auditing
<1>2. doc \in StateDoc /\ doc.run = mem[p].run /\ doc.phase = phase
    BY <1>1 DEF StateDoc
<1>3. Save(p, doc, next)
    BY DEF Advance
<1>4. disk["state"].phase # "approved"
    BY DEF Allowed
<1> HIDE DEF doc
<1>5. /\ Documents' /\ disk'["state"] = doc
      /\ \A d \in {"binding", "receipt", "findings"} : disk'[d] = disk[d]
      /\ \/ /\ disk'["backup"] = doc /\ mem' = [mem EXCEPT ![p] = next]
            /\ lock' = (IF next = Idle THEN None ELSE lock) /\ mishap' = mishap
         \/ disk'["backup"] = disk["backup"] /\ Left(p) /\ mishap' # mishap
      /\ mishap' \in [faults : Nat, edits : Nat]
    BY <1>1, <1>2, <1>3, Saved
<1>6. AtRest'
    BY <1>5 DEF AtRest
<1>7. disk'["backup"] \in {doc, disk["state"]}
    BY <1>1, <1>5
<1>8. Vouched'
    BY <1>1, <1>2, <1>4, <1>5, <1>7 DEF Vouched
<1>9. Left(p) => Walked'
    BY <1>5, <1>6, <1>8, CallEnds
<1> QED
    BY <1>2, <1>5, <1>6, <1>8, <1>9

LEMMA Stops ==
    ASSUME Walked, NEW p \in Proc, lock = p, mem[p].pc \in Open \ {"drop", "dropped"},
           Advance(p, "stopped", Idle), Settled', HoldersAreRecorded',
           \A r \in Run \ {mem[p].run} : applied'[r] = applied[r]
    PROVE  /\ Walked' /\ disk'["state"].phase = "stopped"
           /\ \A d \in {"binding", "receipt", "findings"} : disk'[d] = disk[d]
<1>1. Idle \in Memory
    BY CopyTypes
<1>2. "stopped" \in Phases /\ "stopped" \in Allowed(disk["state"].phase)
    BY DEF Phases, Terminal, Allowed, Walked, FitsPlace, Records, Open, Opening, Accepting,
       Auditing
<1>3. /\ Documents' /\ AtRest' /\ Vouched' /\ disk'["state"].phase = "stopped"
      /\ \A d \in {"binding", "receipt", "findings"} : disk'[d] = disk[d]
      /\ \/ mem' = [mem EXCEPT ![p] = Idle] /\ lock' = None
         \/ Walked'
    BY <1>1, <1>2, Advances
<1>4. mem' = [mem EXCEPT ![p] = Idle] /\ lock' = None => Walked'
    BY <1>3, CallEnds DEF Left
<1> QED
    BY <1>3, <1>4

-----------------------------------------------------------------------------
(* Every step keeps the invariant: the operator, and the calls that begin.    *)

LEMMA WorldStays == Settled /\ UNCHANGED World => Settled'
BY DEF Settled, World

LEMMA VouchedStays == Vouched /\ UNCHANGED <<disk, applied>> => Vouched'
BY DEF Vouched

LEMMA TouchStep == ASSUME Walked, Touch PROVE Walked'
<1>1. PICK r \in Run, c \in Tree :
          /\ holder[r] # None /\ holder' = [holder EXCEPT ![r] = c]
          /\ mishap' = [mishap EXCEPT !.edits = @ + 1]
          /\ UNCHANGED <<disk, ledger, checkout, pending, archive, task, lock, mem,
                         runs, applied>>
    BY DEF Touch
<1>2. /\ holder' \in [Run -> Tree \cup {None}]
      /\ \A q \in Run : holder'[q] = None <=> holder[q] = None
    BY <1>1, AgentRunAssumption DEF Walked, AtRest, Settled, Tree
<1>3. Documents' /\ AtRest' /\ Locked'
    BY <1>1, <1>2 DEF Walked, Documents, AtRest, Settled, Locked
<1>4. HoldersAreRecorded' /\ Vouched'
    BY <1>1, <1>2 DEF Walked, HoldersAreRecorded, Vouched
<1>5. ASSUME NEW p \in Proc, mem'[p].pc # "idle" PROVE FitsPlace(mem[p])'
  <2>1. FitsPlace(mem[p]) /\ mem[p] \in Memory /\ mem' = mem
      BY <1>1, <1>5 DEF Walked, Locked
  <2>2. Houses(mem[p])'
      BY <1>1, <1>2, <2>1 DEF FitsPlace, Houses, Records, Finalizes, Finalizing, Open
  <2> QED
      BY <1>1, <2>1, <2>2 DEF FitsPlace, Begins, Records, Rounds, Judges, Finalizes
<1> QED
    BY <1>3, <1>4, <1>5 DEF Walked

LEMMA DamageStep == ASSUME Walked, Damage PROVE Walked'
<1>1. /\ lock = None /\ disk["state"] \in StateDoc
      /\ disk' = [disk EXCEPT !["state"].phase = "damaged"]
      /\ mishap' = [mishap EXCEPT !.edits = @ + 1] /\ UNCHANGED <<World, lock, mem>>
    BY DEF Damage, Walked, Documents
<1> DEFINE doc == [disk["state"] EXCEPT !.phase = "damaged"]
<1>2. doc \in StateDoc /\ doc.phase = "damaged"
    BY <1>1 DEF StateDoc
<1>3. disk' = [disk EXCEPT !["state"] = doc]
    BY <1>1
<1> HIDE DEF doc
<1>4. /\ disk'["state"] = doc
      /\ \A d \in Doc \ {"state"} : disk'[d] = disk[d]
      /\ disk' \in [Doc -> Written]
    BY <1>2, <1>3, DocumentNames DEF Walked, Documents, Written
<1>5. Documents'
    BY <1>2, <1>4, DocumentNames DEF Walked, Documents
<1>6. AtRest' /\ Locked' /\ HoldersAreRecorded' /\ Vouched'
    BY <1>1, <1>2, <1>4, DocumentNames
    DEF Walked, AtRest, Settled, World, Locked, HoldersAreRecorded, Vouched
<1>7. \A p \in Proc : mem'[p].pc = "idle"
    BY <1>1, AgentRunAssumption DEF Walked, Locked
<1> QED
    BY <1>5, <1>6, <1>7 DEF Walked

LEMMA NextTaskStep == ASSUME Walked, NextTask PROVE Walked'
<1>1. task' \in [number : 1..MaxTask, present : BOOLEAN]
    BY AgentRunAssumption DEF NextTask, Walked, AtRest, Settled
<1>2. AtRest' /\ Documents' /\ Locked' /\ HoldersAreRecorded' /\ Vouched'
    BY <1>1 DEF NextTask, Walked, AtRest, Settled, Documents, Locked, HoldersAreRecorded,
                Vouched, Tree
<1>3. \A p \in Proc : mem'[p].pc = "idle"
    BY AgentRunAssumption DEF NextTask, Walked, Locked
<1> QED
    BY <1>2, <1>3 DEF Walked

LEMMA StaysInside ==
    ASSUME Walked, NEW p \in Proc, ~At(p, "idle")
    PROVE  /\ lock = p /\ FitsPlace(mem[p]) /\ mem[p] \in Memory
           /\ Documents /\ AtRest /\ Settled /\ HoldersAreRecorded /\ Vouched
BY DEF Walked, Locked, At, AtRest

\* A step that changes the place of its process and nothing else in its memory.
LEMMA Jumps ==
    ASSUME Walked, NEW p \in Proc, NEW pc \in Places, Goto(p, pc)
    PROVE  \E n \in Memory : /\ n = [mem[p] EXCEPT !.pc = pc]
                             /\ mem' = [mem EXCEPT ![p] = n] /\ lock' = lock
<1>1. mem[p] \in Memory
    BY DEF Walked, Locked
<1>2. [mem[p] EXCEPT !.pc = pc] \in Memory
    BY <1>1 DEF Memory
<1> QED
    BY <1>2 DEF Goto

LEMMA CallStep ==
    ASSUME Walked, NEW p \in Proc, StartRun(p) \/ StartResume(p) \/ StartFinalize(p)
    PROVE  Walked'
<1>1. PICK call \in {"run", "resume", "finalize"}, r \in 0..MaxRun :
          /\ Call(p, call, r)
          /\ call = "run" => r = 0 /\ runs < MaxRun
          /\ call = "finalize" => r \in Run
    BY AgentRunAssumption DEF StartRun, StartResume, StartFinalize, Walked, AtRest, Settled,
       Run
<1>2. PICK pc \in {"bind_run", "recover"} :
          pc = IF call = "finalize" THEN "bind_run" ELSE "recover"
    OBVIOUS
<1>3. PICK n \in Memory : n = [mem[p] EXCEPT !.call = call, !.run = r, !.pc = pc]
  <2>1. mem[p] \in Memory /\ pc \in Places
      BY DEF Walked, Locked, Places, Finalizing
  <2>2. [mem[p] EXCEPT !.call = call, !.run = r, !.pc = pc] \in Memory
      BY <2>1 DEF Memory
  <2> QED
      BY <2>2
<1>4. /\ lock = None /\ lock' = p /\ UNCHANGED <<World, disk, mishap>>
      /\ mem' = [mem EXCEPT ![p] = n]
  <2>1. /\ lock = None /\ lock' = p /\ UNCHANGED <<World, disk, mishap>>
        /\ mem' = [mem EXCEPT ![p].call = call, ![p].run = r, ![p].pc = pc]
      BY <1>1, <1>2 DEF Call
  <2>2. mem \in [Proc -> Memory]
      BY DEF Walked, Locked
  <2> QED
      BY <1>3, <2>1, <2>2
<1>5. n.pc = pc /\ n.call = call /\ n.run = r
    BY <1>3 DEF Memory, Walked, Locked
<1>6. FitsPlace(n)'
  <2>1. pc \notin Open /\ pc # "preflight" /\ pc # "reread" /\ pc # "cleaned"
        /\ (pc \in Finalizing => pc = "bind_run")
      BY DEF Open, Opening, Accepting, Auditing, Finalizing
  <2>2. Begins(n)' /\ Finalizes(n)'
      BY <1>1, <1>2, <1>4, <1>5, <2>1 DEF Begins, Finalizes, World
  <2>3. Records(n)' /\ Rounds(n)' /\ Houses(n)'
      BY <1>5, <2>1 DEF Records, Rounds, Houses
  <2>4. Judges(n)'
      BY <1>5, <2>1 DEF Judges, Open, Accepting, Auditing
  <2> QED
      BY <2>2, <2>3, <2>4 DEF FitsPlace
<1>7. \A q \in Proc : mem[q].pc = "idle"
    BY <1>4, AgentRunAssumption DEF Walked, Locked
<1>8. Locked'
    BY <1>4, <1>5, <1>7 DEF Walked, Locked
<1>9. Documents' /\ AtRest' /\ HoldersAreRecorded' /\ Vouched'
    BY <1>4, WorldStays, VouchedStays DEF Walked, Documents, AtRest, HoldersAreRecorded, World
<1>10. ASSUME NEW q \in Proc, mem'[q].pc # "idle" PROVE FitsPlace(mem[q])'
  <2>1. mem'[q] = n
      BY <1>4, <1>7, <1>10 DEF Walked, Locked
  <2> QED
      BY <1>6, <2>1 DEF FitsPlace, Begins, Records, Rounds, Houses, Judges, Finalizes
<1> QED
    BY <1>8, <1>9, <1>10 DEF Walked

\* The call is over and has written nothing.
LEMMA SilentEnd ==
    ASSUME Walked, NEW p \in Proc, ~At(p, "idle"), Left(p), UNCHANGED <<World, disk>>,
           UNCHANGED mishap \/ Fault
    PROVE  Walked'
<1>1. Documents' /\ HoldersAreRecorded' /\ Vouched'
    BY VouchedStays DEF Walked, Documents, HoldersAreRecorded, World
<1>2. AtRest'
    BY WorldStays DEF Walked, AtRest, Fault
<1> QED
    BY <1>1, <1>2, StaysInside, CallEnds

LEMMA RecoverStep == ASSUME Walked, NEW p \in Proc, Recover(p) PROVE Walked'
<1>1. /\ At(p, "recover") /\ ~At(p, "idle") /\ checkout' \in {checkout, Base}
      /\ pending' = None
      /\ UNCHANGED <<disk, ledger, holder, archive, task, runs, mishap, applied>>
    BY DEF Recover, At
<1> DEFINE pc == IF mem[p].call = "run" THEN "preflight" ELSE "reread"
<1>2. PICK n \in Memory : /\ n = [mem[p] EXCEPT !.pc = pc]
                          /\ mem' = [mem EXCEPT ![p] = n] /\ lock' = lock
    BY Jumps DEF Recover, Places
<1>3. Begins(mem[p]) /\ mem[p] \in Memory
    BY <1>1, StaysInside DEF FitsPlace
<1>4. n.pc = pc /\ n.call = mem[p].call /\ n.run = mem[p].run
    BY <1>2, <1>3 DEF Memory
<1>5. pc \in {"preflight", "reread"} /\ pc \notin Open \cup Finalizing
    BY DEF Open, Opening, Accepting, Auditing, Finalizing
<1>6. Begins(n)'
    BY <1>1, <1>3, <1>4, <1>5 DEF Begins, At
<1>7. FitsPlace(n)'
    BY <1>4, <1>5, <1>6
    DEF FitsPlace, Records, Rounds, Houses, Judges, Finalizes, Open, Finalizing
<1>8. Documents' /\ AtRest' /\ HoldersAreRecorded' /\ Vouched'
    BY <1>1, VouchedStays DEF Walked, Documents, AtRest, Settled, HoldersAreRecorded, Tree
<1> QED
    BY <1>1, <1>2, <1>4, <1>5, <1>7, <1>8, StaysInside, GoesOn

LEMMA RereadStep == ASSUME Walked, NEW p \in Proc, Reread(p) PROVE Walked'
<1>1. /\ ~At(p, "idle") /\ Left(p) /\ UNCHANGED World /\ UNCHANGED mishap
    BY DEF Reread, End, At
<1>2. PICK doc \in {disk["state"], disk["backup"]} :
          disk' = [disk EXCEPT !["state"] = doc]
    BY DocumentNames DEF Reread, Walked, Documents
<1>3. doc \in StateDoc \cup {None} /\ doc \in Written
    BY <1>2 DEF Walked, Documents, Written
<1>4. /\ disk' \in [Doc -> Written] /\ disk'["state"] = doc
      /\ \A d \in Doc \ {"state"} : disk'[d] = disk[d]
    BY <1>2, <1>3, DocumentNames DEF Walked, Documents
<1>5. Documents'
    BY <1>3, <1>4, DocumentNames DEF Walked, Documents
<1>6. Vouched'
    BY <1>1, <1>2, <1>4, DocumentNames DEF Walked, Vouched, World
<1>7. AtRest' /\ HoldersAreRecorded'
    BY <1>1, WorldStays DEF Walked, AtRest, HoldersAreRecorded, World
<1> QED
    BY <1>1, <1>5, <1>6, <1>7, StaysInside, CallEnds

LEMMA PreflightStep == ASSUME Walked, NEW p \in Proc, Preflight(p) PROVE Walked'
<1>1. /\ At(p, "preflight") /\ ~At(p, "idle") /\ runs' = runs + 1
      /\ UNCHANGED <<ledger, holder, checkout, pending, archive, task, applied>>
    BY DEF Preflight, At
<1>2. /\ mem[p] \in Memory /\ runs + 1 \in Run /\ task.number \in 1..MaxTask
      /\ mem[p].call = "run"
    BY <1>1, StaysInside, AgentRunAssumption DEF FitsPlace, Begins, At, AtRest, Settled, Run
<1>3. PICK doc \in StateDoc :
          doc = [run |-> runs + 1, task |-> task.number, phase |-> "preflight"]
  <2>1. [run |-> runs + 1, task |-> task.number, phase |-> "preflight"] \in StateDoc
      BY <1>2 DEF StateDoc, Phases
  <2> QED
      BY <2>1
<1>4. PICK n \in Memory : n = [mem[p] EXCEPT !.pc = "register", !.run = runs + 1,
                                              !.task = task.number]
  <2>1. PICK k \in 0..MaxRun, i \in Nat, pc \in Places :
            k = runs + 1 /\ i = task.number /\ pc = "register"
      BY <1>2, AgentRunAssumption DEF Run, Places, Open, Opening
  <2>2. [mem[p] EXCEPT !.pc = pc, !.run = k, !.task = i] \in Memory
      BY <1>2 DEF Memory
  <2> QED
      BY <2>1, <2>2
<1>5. /\ doc.run = runs + 1 /\ doc.phase = "preflight" /\ n.pc = "register"
      /\ n.call = "run" /\ n.run = runs + 1 /\ n.task = task.number /\ n # Idle
    BY <1>2, <1>3, <1>4 DEF Memory, Idle
<1>6. /\ Documents' /\ disk'["state"] = doc
      /\ \/ /\ disk'["backup"] = doc /\ mem' = [mem EXCEPT ![p] = n] /\ lock' = lock
            /\ mishap' = mishap
         \/ disk'["backup"] = disk["backup"] /\ Left(p)
      /\ mishap' \in [faults : Nat, edits : Nat]
  <2>1. Save(p, doc, n)
      BY <1>3, <1>4 DEF Preflight
  <2> QED
      BY <1>5, <2>1, Saved DEF Walked
<1>7. AtRest' /\ HoldersAreRecorded'
    BY <1>1, <1>2, <1>6 DEF Walked, AtRest, Settled, HoldersAreRecorded, Run
<1>8. Vouched'
    BY <1>1, <1>5, <1>6 DEF Walked, Vouched
<1>9. disk'["backup"] = doc => FitsPlace(n)'
  <2>1. n.pc \in Open /\ n.pc \in Opening /\ n.pc \notin Accepting \cup Auditing
        /\ n.pc \notin Finalizing
      BY <1>5 DEF Open, Opening, Accepting, Auditing, Finalizing
  <2>2. disk'["backup"] = doc => Records(n)'
      BY <1>1, <1>2, <1>3, <1>5, <1>6, <2>1 DEF Records
  <2>3. Begins(n)' /\ Rounds(n)' /\ Houses(n)' /\ Judges(n)' /\ Finalizes(n)'
      BY <1>5, <1>6, <2>1 DEF Begins, Rounds, Houses, Judges, Finalizes
  <2> QED
      BY <2>2, <2>3 DEF FitsPlace
<1> QED
    BY <1>1, <1>4, <1>5, <1>6, <1>7, <1>8, <1>9, StaysInside, GoesOn, CallEnds

-----------------------------------------------------------------------------
(* A run that advances or stops.                                              *)

\* What Records and its neighbours say of a place of a run.
LEMMA OfRun ==
    ASSUME Walked, NEW p \in Proc, mem[p].pc \in Open
    PROVE  /\ ~At(p, "idle") /\ lock = p /\ mem[p] \in Memory
           /\ mem[p].call = "run" /\ mem[p].run \in Run /\ mem[p].task \in 1..MaxTask
           /\ disk["state"] \in StateDoc /\ disk["state"].run = mem[p].run
           /\ disk["backup"] = disk["state"]
           /\ Records(mem[p]) /\ Rounds(mem[p]) /\ Houses(mem[p]) /\ Judges(mem[p])
           /\ Documents /\ Settled /\ AtRest /\ HoldersAreRecorded /\ Vouched
<1>1. ~At(p, "idle")
    BY DEF At, Open, Opening, Accepting, Auditing
<1> QED
    BY <1>1, StaysInside DEF FitsPlace, Records

\* A run that ends without a fault has a terminal state on file.
EndIsRecorded(p) ==
    mem'[p].pc # "idle" \/ mishap' # mishap \/ disk'["state"].phase \in Terminal

LEMMA AdvancesOn ==
    ASSUME Walked, NEW p \in Proc, mem[p].pc \in Open,
           NEW phase \in Phases, phase \in Allowed(disk["state"].phase),
           NEW next \in Memory, Advance(p, phase, next),
           next.call = "run", next.run = mem[p].run, next.task = mem[p].task,
           \/ next.pc = "implement" /\ phase = "implementing"
           \/ next.pc = "derive" /\ phase \in {"acceptance", "acceptance_2"}
           \/ next.pc = "audit" /\ phase \in {"auditing", "final_auditing"}
           \/ next.pc = "repair" /\ phase = "repairing" /\ next.repairs < MaxRepair
           \/ next.pc = "drop" /\ phase = "approved" /\ applied'[mem[p].run],
           phase \in {"acceptance_2", "final_auditing"} => next.repairs > 0,
           next.pc \in {"derive", "audit"} => next.verified \in Tree,
           Settled', HoldersAreRecorded', holder'[mem[p].run] # None,
           \A r \in Run \ {mem[p].run} : applied'[r] = applied[r]
    PROVE  Walked' /\ EndIsRecorded(p)
<1>1. next.pc \in Open /\ next.pc \notin {"idle", "recover", "preflight", "reread"}
          /\ next.pc \notin Opening /\ next.pc \notin Finalizing
    BY DEF Open, Opening, Accepting, Auditing, Finalizing
<1>2. next # Idle /\ (phase = "approved" => applied'[mem[p].run])
    BY <1>1 DEF Idle
<1>3. /\ Documents' /\ AtRest' /\ Vouched'
      /\ disk'["state"] \in StateDoc /\ disk'["state"].run = mem[p].run
      /\ disk'["state"].phase = phase
      /\ \/ /\ disk'["backup"] = disk'["state"] /\ mem' = [mem EXCEPT ![p] = next]
            /\ lock' = lock /\ mishap' = mishap
         \/ Walked' /\ mishap' # mishap
    BY <1>2, OfRun, Advances
<1>4. Begins(next)' /\ Finalizes(next)'
    BY <1>1 DEF Begins, Finalizes
<1>5. Houses(next)'
    BY <1>1 DEF Houses, Finalizing
<1>6. Rounds(next)'
    BY <1>3 DEF Rounds
<1>7. Judges(next)'
    BY DEF Judges, Accepting, Auditing
<1>8. disk'["backup"] = disk'["state"] => Records(next)'
    BY <1>1, <1>3, OfRun DEF Records, Accepting, Auditing, Opening
<1>9. mem' = [mem EXCEPT ![p] = next] => mem'[p].pc # "idle"
    BY <1>1 DEF Walked, Locked
<1> QED
    BY <1>1, <1>3, <1>4, <1>5, <1>6, <1>7, <1>8, <1>9, OfRun, GoesOn
    DEF FitsPlace, EndIsRecorded

LEMMA StopStep ==
    ASSUME Walked, NEW p \in Proc, mem[p].pc \in Open \ {"drop", "dropped"}, Stop(p)
    PROVE  Walked' /\ disk'["state"].phase = "stopped"
<1>1. Advance(p, "stopped", Idle) /\ UNCHANGED World
    BY DEF Stop
<1>2. Settled' /\ HoldersAreRecorded' /\ applied' = applied
    BY <1>1, OfRun, WorldStays DEF HoldersAreRecorded, World
<1> QED
    BY <1>1, <1>2, OfRun, Stops

\* The workspace of a run gets another tree.
LEMMA Housed ==
    ASSUME Walked, NEW p \in Proc, mem[p].pc \in Open, holder[mem[p].run] # None,
           NEW c \in Tree, holder' = [holder EXCEPT ![mem[p].run] = c],
           UNCHANGED <<ledger, checkout, archive, task, runs, applied>>
    PROVE  Settled' /\ HoldersAreRecorded' /\ holder'[mem[p].run] = c /\ c # None
<1>1. /\ holder \in [Run -> Tree \cup {None}] /\ mem[p].run \in Run
      /\ Settled /\ HoldersAreRecorded
    BY OfRun DEF Settled
<1>2. /\ holder' \in [Run -> Tree \cup {None}] /\ holder'[mem[p].run] = c
      /\ \A r \in Run \ {mem[p].run} : holder'[r] = holder[r]
    BY <1>1
<1>3. c # None
    BY AgentRunAssumption DEF Tree
<1>4. Settled'
    BY <1>1, <1>2 DEF Settled
<1>5. HoldersAreRecorded'
    BY <1>1, <1>2 DEF HoldersAreRecorded
<1> QED
    BY <1>2, <1>3, <1>4, <1>5

LEMMA ModelFailsStep ==
    ASSUME Walked, NEW p \in Proc, ModelFails(p)
    PROVE  Walked' /\ disk'["state"].phase = "stopped"
<1>1. PICK c \in Tree : /\ mem[p].pc \in {"implement", "repair"}
                        /\ holder' = [holder EXCEPT ![mem[p].run] = c]
                        /\ Advance(p, "stopped", Idle)
                        /\ UNCHANGED <<ledger, checkout, archive, task, runs, applied>>
    BY DEF ModelFails, At
<1>2. mem[p].pc \in Open \ {"register", "make", "drop", "dropped"}
    BY <1>1 DEF Open, Opening, Accepting, Auditing
<1>3. holder[mem[p].run] # None
    BY <1>2, OfRun DEF Houses
<1>4. Settled' /\ HoldersAreRecorded'
    BY <1>1, <1>2, <1>3, Housed
<1> QED
    BY <1>1, <1>2, <1>4, OfRun, Stops

LEMMA ApplyFailsStep ==
    ASSUME Walked, NEW p \in Proc, ApplyFails(p)
    PROVE  Walked' /\ disk'["state"].phase = "stopped"
<1>1. /\ mem[p].pc \in {"move", "close"} /\ Advance(p, "stopped", Idle)
      /\ checkout' \in {checkout, Base}
      /\ applied' \in {applied, [applied EXCEPT ![mem[p].run] = FALSE]}
      /\ UNCHANGED <<ledger, holder, archive, task, runs>>
    BY DEF ApplyFails, At
<1>2. mem[p].pc \in Open \ {"drop", "dropped"}
    BY <1>1 DEF Open, Opening, Accepting, Auditing
<1>3. /\ applied' \in [Run -> BOOLEAN]
      /\ \A r \in Run \ {mem[p].run} : applied'[r] = applied[r]
    BY <1>1, <1>2, OfRun DEF Settled
<1>4. Settled' /\ HoldersAreRecorded'
    BY <1>1, <1>2, <1>3, OfRun DEF Settled, Tree, HoldersAreRecorded
<1> QED
    BY <1>1, <1>2, <1>3, <1>4, OfRun, Stops

\* A run goes on in the phase it is in.
LEMMA StepsOn ==
    ASSUME Walked, NEW p \in Proc, mem[p].pc \in Open,
           NEW n \in Memory, mem' = [mem EXCEPT ![p] = n], lock' = lock,
           NEW S \in {Opening, Accepting, Auditing, {"drop", "dropped"}},
           mem[p].pc \in S, n.pc \in S,
           n.call = "run", n.run = mem[p].run, n.task = mem[p].task,
           n.repairs = mem[p].repairs, n.pc = "judge" => n.evals < MaxEval,
           disk'["state"] = disk["state"], disk'["backup"] = disk["backup"],
           Documents', AtRest', HoldersAreRecorded',
           \A r \in Run : applied[r] => applied'[r],
           Houses(n)', Judges(n)'
    PROVE  Walked' /\ EndIsRecorded(p)
<1>1. /\ n.pc \in Open /\ n.pc \notin {"idle", "recover", "preflight", "reread"}
      /\ n.pc \notin Finalizing /\ n.pc \notin {"implement", "repair"}
    BY DEF Open, Opening, Accepting, Auditing, Finalizing
<1>2. Records(n)'
  <2>1. CASE S = Opening
      BY <1>1, <2>1, OfRun DEF Records, Opening, Accepting, Auditing, Open
  <2>2. CASE S = Accepting
      BY <1>1, <2>2, OfRun DEF Records, Opening, Accepting, Auditing, Open
  <2>3. CASE S = Auditing
      BY <1>1, <2>3, OfRun DEF Records, Opening, Accepting, Auditing, Open
  <2>4. CASE S = {"drop", "dropped"}
      BY <1>1, <2>4, OfRun DEF Records, Opening, Accepting, Auditing, Open
  <2> QED
      BY <2>1, <2>2, <2>3, <2>4
<1>3. Begins(n)' /\ Finalizes(n)'
    BY <1>1 DEF Begins, Finalizes
<1>4. Rounds(n)'
    BY <1>1, OfRun DEF Rounds
<1>5. Vouched'
  <2>1. /\ disk["state"] \in StateDoc \cup {None} /\ disk["backup"] \in StateDoc \cup {None}
        /\ Vouched
      BY OfRun DEF Documents
  <2> QED
      BY <2>1 DEF Vouched, StateDoc
<1>6. mem'[p].pc # "idle"
    BY <1>1 DEF Walked, Locked
<1> QED
    BY <1>1, <1>2, <1>3, <1>4, <1>5, <1>6, OfRun, GoesOn DEF FitsPlace, EndIsRecorded

-----------------------------------------------------------------------------
(* The workspace is made.                                                     *)

LEMMA RegisterStep ==
    ASSUME Walked, NEW p \in Proc, Register(p)
    PROVE  Walked' /\ EndIsRecorded(p)
<1>1. /\ mem[p].pc = "register" /\ Goto(p, "make")
      /\ ledger' = [ledger EXCEPT ![mem[p].run] = "registered"]
      /\ UNCHANGED <<disk, holder, checkout, pending, archive, task, runs, mishap, applied>>
    BY DEF Register, At
<1>2. mem[p].pc \in Open \cap Opening /\ "make" \in Places /\ "make" \in Opening
    BY <1>1 DEF Open, Opening, Places
<1>3. PICK n \in Memory : /\ n = [mem[p] EXCEPT !.pc = "make"]
                          /\ mem' = [mem EXCEPT ![p] = n] /\ lock' = lock
    BY <1>1, <1>2, Jumps
<1>4. /\ n.pc = "make" /\ n.call = "run" /\ n.run = mem[p].run /\ n.task = mem[p].task
      /\ n.repairs = mem[p].repairs
    BY <1>2, <1>3, OfRun DEF Memory
<1>5. /\ ledger' \in [Run -> Statuses] /\ ledger'[mem[p].run] = "registered"
      /\ \A r \in Run \ {mem[p].run} : ledger'[r] = ledger[r]
    BY <1>1, <1>2, OfRun DEF Settled, Statuses
<1>6. Documents' /\ AtRest' /\ HoldersAreRecorded'
    BY <1>1, <1>2, <1>5, OfRun DEF Documents, AtRest, Settled, HoldersAreRecorded
<1>7. Houses(n)' /\ Judges(n)'
    BY <1>4 DEF Houses, Judges, Accepting, Auditing
<1> QED
    BY <1>1, <1>2, <1>3, <1>4, <1>6, <1>7, StepsOn

LEMMA MaterialiseStep ==
    ASSUME Walked, NEW p \in Proc, Materialise(p)
    PROVE  Walked' /\ EndIsRecorded(p)
<1>1. /\ mem[p].pc = "make" /\ Goto(p, "ready")
      /\ ledger' = [ledger EXCEPT ![mem[p].run] = "materializing"]
      /\ holder' = [holder EXCEPT ![mem[p].run] = Base]
      /\ UNCHANGED <<disk, checkout, pending, archive, task, runs, mishap, applied>>
    BY DEF Materialise, At
<1>2. mem[p].pc \in Open \cap Opening /\ "ready" \in Places /\ "ready" \in Opening
    BY <1>1 DEF Open, Opening, Places
<1>3. PICK n \in Memory : /\ n = [mem[p] EXCEPT !.pc = "ready"]
                          /\ mem' = [mem EXCEPT ![p] = n] /\ lock' = lock
    BY <1>1, <1>2, Jumps
<1>4. /\ n.pc = "ready" /\ n.call = "run" /\ n.run = mem[p].run /\ n.task = mem[p].task
      /\ n.repairs = mem[p].repairs
    BY <1>2, <1>3, OfRun DEF Memory
<1>5. /\ ledger' \in [Run -> Statuses] /\ ledger'[mem[p].run] = "materializing"
      /\ holder' \in [Run -> Tree \cup {None}] /\ holder'[mem[p].run] = Base
      /\ \A r \in Run \ {mem[p].run} : ledger'[r] = ledger[r] /\ holder'[r] = holder[r]
    BY <1>1, <1>2, OfRun DEF Settled, Statuses, Tree
<1>6. Documents' /\ AtRest' /\ HoldersAreRecorded'
    BY <1>1, <1>2, <1>5, OfRun DEF Documents, AtRest, Settled, HoldersAreRecorded
<1>7. Houses(n)' /\ Judges(n)'
    BY <1>4, <1>5, AgentRunAssumption DEF Houses, Judges, Accepting, Auditing
<1> QED
    BY <1>1, <1>2, <1>3, <1>4, <1>6, <1>7, StepsOn

LEMMA MaterialiseFailsStep ==
    ASSUME Walked, NEW p \in Proc, MaterialiseFails(p)
    PROVE  Walked' /\ mishap' # mishap
<1> DEFINE r == mem[p].run
<1>1. /\ mem[p].pc \in {"make", "ready"} /\ Fault /\ Left(p)
      /\ \/ /\ holder' = [holder EXCEPT ![r] = None]
            /\ ledger' = [ledger EXCEPT ![r] = "none"]
         \/ /\ UNCHANGED holder
            /\ ledger' = [ledger EXCEPT ![r] = "failed"]
      /\ UNCHANGED <<disk, checkout, pending, archive, task, runs, applied>>
    BY DEF MaterialiseFails, At
<1>2. mem[p].pc \in Open
    BY <1>1 DEF Open, Opening
<1>3. r \in Run /\ Settled /\ HoldersAreRecorded
    BY <1>2, OfRun
<1> HIDE DEF r
<1>4. ledger' \in [Run -> Statuses] /\ holder' \in [Run -> Tree \cup {None}]
    BY <1>1, <1>3 DEF Settled, Statuses
<1>5. HoldersAreRecorded'
    BY <1>1, <1>3 DEF Settled, HoldersAreRecorded
<1>6. mishap' \in [faults : Nat, edits : Nat] /\ mishap' # mishap
    BY <1>1, <1>2, OfRun DEF Fault, AtRest
<1>7. Documents' /\ AtRest' /\ Vouched'
    BY <1>1, <1>2, <1>4, <1>6, OfRun, VouchedStays DEF Documents, AtRest, Settled
<1> QED
    BY <1>1, <1>2, <1>5, <1>6, <1>7, OfRun, CallEnds

LEMMA BindStep ==
    ASSUME Walked, NEW p \in Proc, Bind(p)
    PROVE  Walked' /\ EndIsRecorded(p)
<1>1. /\ mem[p].pc \in {"ready", "bind"}
      /\ UNCHANGED <<holder, checkout, pending, archive, task, runs, mishap, applied>>
    BY DEF Bind, At
<1>2. mem[p].pc \in Open \cap Opening
    BY <1>1 DEF Open, Opening
<1>3. PICK pc \in {"bind", "enter"} :
          /\ Goto(p, pc)
          /\ pc = "bind" => /\ ledger' = [ledger EXCEPT ![mem[p].run] = "ready"]
                            /\ UNCHANGED disk
          /\ pc = "enter" => /\ disk' = [disk EXCEPT !["binding"] =
                                           [run |-> mem[p].run, task |-> mem[p].task]]
                             /\ UNCHANGED ledger
    BY DEF Bind
<1>4. pc \in Places /\ pc \in Opening
    BY DEF Opening, Open, Places
<1>5. PICK n \in Memory : /\ n = [mem[p] EXCEPT !.pc = pc]
                          /\ mem' = [mem EXCEPT ![p] = n] /\ lock' = lock
    BY <1>3, <1>4, Jumps
<1>6. /\ n.pc = pc /\ n.call = "run" /\ n.run = mem[p].run /\ n.task = mem[p].task
      /\ n.repairs = mem[p].repairs
    BY <1>2, <1>5, OfRun DEF Memory
<1>7. ledger' \in [Run -> Statuses] /\ \A r \in Run : ledger'[r] \in {ledger[r], "ready"}
    BY <1>2, <1>3, OfRun DEF Settled, Statuses
<1>8. AtRest' /\ HoldersAreRecorded'
    BY <1>1, <1>2, <1>7, OfRun DEF AtRest, Settled, HoldersAreRecorded
<1>9. Documents' /\ disk'["state"] = disk["state"] /\ disk'["backup"] = disk["backup"]
  <2>1. PICK b \in Bindings : b = [run |-> mem[p].run, task |-> mem[p].task]
      BY <1>2, OfRun DEF Bindings
  <2>2. b \in Written
      BY DEF Written
  <2>3. CASE disk' = [disk EXCEPT !["binding"] = b]
    <3>1. disk' \in [Doc -> Written] /\ disk'["binding"] = b
          /\ \A d \in Doc \ {"binding"} : disk'[d] = disk[d]
        BY <1>2, <2>2, <2>3, DocumentNames, OfRun DEF Documents
    <3> QED
        BY <1>2, <3>1, DocumentNames, OfRun DEF Documents
  <2>4. CASE UNCHANGED disk
      BY <1>2, <2>4, OfRun DEF Documents
  <2> QED
      BY <1>3, <2>1, <2>3, <2>4
<1>10. Houses(n)' /\ Judges(n)'
  <2>1. holder[mem[p].run] # None
      BY <1>1, <1>2, OfRun DEF Houses
  <2> QED
      BY <1>1, <1>6, <2>1 DEF Houses, Judges, Accepting, Auditing
<1> QED
    BY <1>1, <1>2, <1>4, <1>5, <1>6, <1>8, <1>9, <1>10, StepsOn

-----------------------------------------------------------------------------
(* Implementation, acceptance, audit, repair.                                 *)

LEMMA Filed ==
    ASSUME Documents, NEW d \in {"receipt", "findings"}, NEW v,
           d = "receipt" => v \in Receipts, d = "findings" => v \in Verdicts,
           disk' = [disk EXCEPT ![d] = v]
    PROVE  /\ Documents' /\ disk'[d] = v
           /\ \A e \in Doc \ {d} : disk'[e] = disk[e]
<1>1. v \in Written
    BY DEF Written
<1>2. /\ disk' \in [Doc -> Written] /\ disk'[d] = v
      /\ \A e \in Doc \ {d} : disk'[e] = disk[e]
    BY <1>1, DocumentNames DEF Documents
<1>3. Documents'
    BY <1>2, DocumentNames DEF Documents
<1> QED
    BY <1>2, <1>3

LEMMA EnterStep ==
    ASSUME Walked, NEW p \in Proc, Enter(p)
    PROVE  Walked' /\ EndIsRecorded(p)
<1>1. mem[p].pc = "enter" /\ UNCHANGED World
    BY DEF Enter, At
<1>2. mem[p].pc \in Open /\ mem[p].pc \in Opening
    BY <1>1 DEF Open, Opening
<1>3. PICK n \in Memory : n = [mem[p] EXCEPT !.pc = "implement"]
  <2>1. [mem[p] EXCEPT !.pc = "implement"] \in Memory
      BY <1>2, OfRun DEF Memory, Places, Open
  <2> QED
      BY <2>1
<1>4. n.pc = "implement" /\ n.call = "run" /\ n.run = mem[p].run /\ n.task = mem[p].task
    BY <1>2, <1>3, OfRun DEF Memory
<1>5. Advance(p, "implementing", n)
    BY <1>3 DEF Enter
<1>6. "implementing" \in Phases /\ "implementing" \in Allowed(disk["state"].phase)
    BY <1>2, OfRun DEF Records, Allowed, Phases
<1>7. holder'[mem[p].run] # None
    BY <1>1, <1>2, OfRun DEF Houses, World
<1>8. Settled' /\ HoldersAreRecorded' /\ applied' = applied
    BY <1>1, <1>2, OfRun, WorldStays DEF HoldersAreRecorded, World
<1> QED
    BY <1>2, <1>4, <1>5, <1>6, <1>7, <1>8, AdvancesOn

LEMMA ImplementStep ==
    ASSUME Walked, NEW p \in Proc, Implement(p) \/ Repair(p)
    PROVE  Walked' /\ EndIsRecorded(p)
<1>1. PICK c \in Tree, phase \in {"acceptance", "acceptance_2"},
           k \in {mem[p].repairs, mem[p].repairs + 1} :
          /\ holder' = [holder EXCEPT ![mem[p].run] = c]
          /\ Advance(p, phase, [mem[p] EXCEPT !.pc = "derive", !.verified = c,
                                              !.repairs = k])
          /\ UNCHANGED <<ledger, checkout, archive, task, runs, applied>>
          /\ \/ /\ mem[p].pc = "implement" /\ phase = "acceptance"
                /\ k = mem[p].repairs
             \/ /\ mem[p].pc = "repair" /\ phase = "acceptance_2"
                /\ k = mem[p].repairs + 1
  <2>1. CASE Implement(p)
    <3>1. mem[p] \in Memory
        BY DEF Walked, Locked
    <3>2. PICK c \in Tree :
              /\ holder' = [holder EXCEPT ![mem[p].run] = c] /\ mem[p].pc = "implement"
              /\ Advance(p, "acceptance", [mem[p] EXCEPT !.pc = "derive", !.verified = c])
              /\ UNCHANGED <<ledger, checkout, archive, task, runs, applied>>
        BY <2>1 DEF Implement, At
    <3>3. [mem[p] EXCEPT !.pc = "derive", !.verified = c] =
             [mem[p] EXCEPT !.pc = "derive", !.verified = c, !.repairs = mem[p].repairs]
        BY <3>1 DEF Memory
    <3> QED
        BY <3>2, <3>3
  <2>2. CASE Repair(p)
      BY <2>2 DEF Repair, At
  <2> QED
      BY <2>1, <2>2
<1>2. mem[p].pc \in Open \ {"register", "make", "dropped"}
    BY <1>1 DEF Open, Opening
<1>3. k \in 0..MaxRepair /\ (phase = "acceptance_2" => k > 0)
    BY <1>1, <1>2, OfRun, AgentRunAssumption DEF Rounds, Memory
<1>4. PICK n \in Memory : n = [mem[p] EXCEPT !.pc = "derive", !.verified = c,
                                             !.repairs = k]
  <2>1. mem[p] \in Memory /\ "derive" \in Places /\ c \in Tree \cup {None}
      BY <1>2, OfRun DEF Places, Open, Accepting
  <2>2. [mem[p] EXCEPT !.pc = "derive", !.verified = c, !.repairs = k] \in Memory
      BY <1>3, <2>1 DEF Memory
  <2> QED
      BY <2>2
<1>5. /\ n.pc = "derive" /\ n.call = "run" /\ n.run = mem[p].run /\ n.task = mem[p].task
      /\ n.verified = c /\ n.repairs = k
    BY <1>2, <1>4, OfRun DEF Memory
<1>6. Advance(p, phase, n)
    BY <1>1, <1>4
<1>7. phase \in Phases /\ phase \in Allowed(disk["state"].phase)
    BY <1>1, <1>2, OfRun DEF Records, Allowed, Phases
<1>8. holder[mem[p].run] # None
    BY <1>2, OfRun DEF Houses
<1>9. /\ Settled' /\ HoldersAreRecorded' /\ applied' = applied
      /\ holder'[mem[p].run] # None
    BY <1>1, <1>2, <1>8, Housed
<1> QED
    BY <1>1, <1>2, <1>3, <1>5, <1>6, <1>7, <1>9, AdvancesOn

LEMMA DeriveStep ==
    ASSUME Walked, NEW p \in Proc, Derive(p)
    PROVE  Walked' /\ EndIsRecorded(p)
<1> DEFINE r == [run |-> mem[p].run, cand |-> mem[p].verified, status |-> "pending"]
<1>1. /\ mem[p].pc = "derive" /\ Goto(p, "measure") /\ UNCHANGED <<World, mishap>>
      /\ disk' = [disk EXCEPT !["receipt"] = r]
    BY DEF Derive, At
<1>2. mem[p].pc \in Open /\ mem[p].pc \in Accepting /\ "measure" \in Accepting
         /\ "measure" \in Places
    BY <1>1 DEF Open, Accepting, Places
<1>3. PICK n \in Memory : /\ n = [mem[p] EXCEPT !.pc = "measure"]
                          /\ mem' = [mem EXCEPT ![p] = n] /\ lock' = lock
    BY <1>1, <1>2, Jumps
<1>4. /\ n.pc = "measure" /\ n.call = "run" /\ n.run = mem[p].run /\ n.task = mem[p].task
      /\ n.repairs = mem[p].repairs /\ n.verified = mem[p].verified
    BY <1>2, <1>3, OfRun DEF Memory
<1>5. mem[p].verified \in Tree /\ r \in Receipts
    BY <1>2, OfRun DEF Judges, Receipts
<1> HIDE DEF r
<1>6. /\ Documents' /\ disk'["receipt"] = r
      /\ disk'["state"] = disk["state"] /\ disk'["backup"] = disk["backup"]
    BY <1>1, <1>2, <1>5, Filed, DocumentNames, OfRun
<1>7. AtRest' /\ HoldersAreRecorded' /\ applied' = applied
    BY <1>1, <1>2, OfRun, WorldStays DEF AtRest, HoldersAreRecorded, World
<1>8. holder'[mem[p].run] # None
    BY <1>1, <1>2, OfRun DEF Houses, World
<1>9. Houses(n)' /\ Judges(n)'
    BY <1>4, <1>5, <1>6, <1>8 DEF Houses, Judges, r
<1> QED
    BY <1>1, <1>2, <1>3, <1>4, <1>6, <1>7, <1>9, StepsOn

LEMMA MeasureStep ==
    ASSUME Walked, NEW p \in Proc, Measure(p)
    PROVE  Walked' /\ EndIsRecorded(p)
<1>1. PICK pc \in {"accepted", "rejected"}, status \in {"passed", "failed"} :
          /\ mem[p].pc = "measure" /\ Goto(p, pc) /\ UNCHANGED <<World, mishap>>
          /\ disk' = [disk EXCEPT !["receipt"].status = status]
    BY DEF Measure, At, Receipt
<1>2. mem[p].pc \in Open /\ mem[p].pc \in Accepting /\ pc \in Accepting /\ pc \in Places
    BY <1>1 DEF Open, Accepting, Places
<1>3. PICK n \in Memory : /\ n = [mem[p] EXCEPT !.pc = pc]
                          /\ mem' = [mem EXCEPT ![p] = n] /\ lock' = lock
    BY <1>1, <1>2, Jumps
<1>4. /\ n.pc = pc /\ n.call = "run" /\ n.run = mem[p].run /\ n.task = mem[p].task
      /\ n.repairs = mem[p].repairs /\ n.verified = mem[p].verified
    BY <1>2, <1>3, OfRun DEF Memory
<1>5. PICK v \in Receipts : disk' = [disk EXCEPT !["receipt"] = v]
  <2>1. mem[p].verified \in Tree
        /\ disk["receipt"] = [run |-> mem[p].run, cand |-> mem[p].verified,
                              status |-> "pending"]
      BY <1>1, <1>2, OfRun DEF Judges
  <2>2. [disk["receipt"] EXCEPT !.status = status] \in Receipts
      BY <1>2, <2>1, OfRun DEF Receipts
  <2> QED
      BY <1>1, <2>2
<1>6. /\ Documents' /\ disk'["state"] = disk["state"] /\ disk'["backup"] = disk["backup"]
    BY <1>2, <1>5, Filed, DocumentNames, OfRun
<1>7. AtRest' /\ HoldersAreRecorded' /\ applied' = applied
    BY <1>1, <1>2, OfRun, WorldStays DEF AtRest, HoldersAreRecorded, World
<1>8. holder'[mem[p].run] # None /\ mem[p].verified \in Tree
    BY <1>1, <1>2, OfRun DEF Houses, Judges, World
<1>9. Houses(n)' /\ Judges(n)'
    BY <1>4, <1>8 DEF Houses, Judges
<1> QED
    BY <1>1, <1>2, <1>3, <1>4, <1>6, <1>7, <1>9, StepsOn

\* What an advance to the audit or to a repair asks for.
LEMMA NextRound ==
    ASSUME Walked, NEW p \in Proc, mem[p].pc \in Open \ {"register", "make", "dropped"},
           NEW pc \in {"audit", "repair", "drop"}, UNCHANGED World
    PROVE  /\ Settled' /\ HoldersAreRecorded' /\ applied' = applied
           /\ holder'[mem[p].run] # None
           /\ \E n \in Memory :
                 /\ n = [mem[p] EXCEPT !.pc = pc]
                 /\ n.pc = pc /\ n.call = "run" /\ n.run = mem[p].run
                 /\ n.task = mem[p].task /\ n.repairs = mem[p].repairs
                 /\ n.verified = mem[p].verified
<1>1. mem[p] \in Memory /\ pc \in Places
    BY OfRun DEF Places, Open, Auditing
<1>2. [mem[p] EXCEPT !.pc = pc] \in Memory
    BY <1>1 DEF Memory
<1>3. \E n \in Memory :
         /\ n = [mem[p] EXCEPT !.pc = pc] /\ n.pc = pc /\ n.call = mem[p].call
         /\ n.run = mem[p].run /\ n.task = mem[p].task /\ n.repairs = mem[p].repairs
         /\ n.verified = mem[p].verified
    BY <1>1, <1>2 DEF Memory
<1>4. Settled' /\ HoldersAreRecorded' /\ applied' = applied
    BY OfRun, WorldStays DEF HoldersAreRecorded, World
<1>5. holder'[mem[p].run] # None
    BY OfRun DEF Houses, World
<1> QED
    BY <1>3, <1>4, <1>5, OfRun

LEMMA AcceptedStep ==
    ASSUME Walked, NEW p \in Proc, Accepted(p)
    PROVE  Walked' /\ EndIsRecorded(p)
<1>1. mem[p].pc = "accepted" /\ UNCHANGED World
    BY DEF Accepted, At
<1>2. /\ mem[p].pc \in Open \ {"register", "make", "dropped"} /\ mem[p].pc \in Accepting
    BY <1>1 DEF Open, Accepting
<1>3. PICK phase \in {"auditing", "final_auditing"} :
          /\ phase = IF disk["state"].phase = "acceptance" THEN "auditing"
                     ELSE "final_auditing"
          /\ Advance(p, phase, [mem[p] EXCEPT !.pc = "audit"])
    BY DEF Accepted
<1>4. PICK n \in Memory :
          /\ n = [mem[p] EXCEPT !.pc = "audit"] /\ n.pc = "audit" /\ n.call = "run"
          /\ n.run = mem[p].run /\ n.task = mem[p].task /\ n.repairs = mem[p].repairs
          /\ n.verified = mem[p].verified
    BY <1>1, <1>2, NextRound
<1>5. /\ phase \in Phases /\ phase \in Allowed(disk["state"].phase)
      /\ phase = "final_auditing" => n.repairs > 0
    BY <1>2, <1>3, <1>4, OfRun DEF Records, Rounds, Allowed, Phases
<1>6. n.verified \in Tree
    BY <1>2, <1>4, OfRun DEF Judges
<1> QED
    BY <1>1, <1>2, <1>3, <1>4, <1>5, <1>6, NextRound, AdvancesOn

\* A repair is bought at the end of a first acceptance or a first audit.
LEMMA RepairOwed ==
    ASSUME Walked, NEW p \in Proc, mem[p].pc \in {"rejected", "changes_requested"},
           disk["state"].phase \in {"acceptance", "auditing"}, MayRepair(p),
           Advance(p, "repairing", [mem[p] EXCEPT !.pc = "repair"]), UNCHANGED World
    PROVE  Walked' /\ EndIsRecorded(p)
<1>1. mem[p].pc \in Open \ {"register", "make", "dropped"}
    BY DEF Open, Accepting, Auditing
<1>2. PICK n \in Memory :
          /\ n = [mem[p] EXCEPT !.pc = "repair"] /\ n.pc = "repair" /\ n.call = "run"
          /\ n.run = mem[p].run /\ n.task = mem[p].task /\ n.repairs = mem[p].repairs
          /\ n.verified = mem[p].verified
    BY <1>1, NextRound
<1>3. "repairing" \in Phases /\ "repairing" \in Allowed(disk["state"].phase)
    BY DEF Phases, Allowed
<1>4. n.repairs < MaxRepair
    BY <1>2 DEF MayRepair
<1> QED
    BY <1>1, <1>2, <1>3, <1>4, NextRound, AdvancesOn

LEMMA RejectedStep ==
    ASSUME Walked, NEW p \in Proc, Rejected(p)
    PROVE  Walked' /\ EndIsRecorded(p)
<1>1. mem[p].pc = "rejected"
    BY DEF Rejected, At
<1>2. mem[p].pc \in Open \ {"drop", "dropped"}
    BY <1>1 DEF Open, Accepting
<1>3. CASE Stop(p)
    BY <1>2, <1>3, StopStep DEF EndIsRecorded, Terminal
<1>4. CASE /\ disk["state"].phase = "acceptance" /\ MayRepair(p)
           /\ Advance(p, "repairing", [mem[p] EXCEPT !.pc = "repair"])
           /\ UNCHANGED World
    BY <1>1, <1>4, RepairOwed
<1> QED
    BY <1>3, <1>4 DEF Rejected

LEMMA AuditStep ==
    ASSUME Walked, NEW p \in Proc, Audit(p)
    PROVE  Walked' /\ EndIsRecorded(p)
<1>1. /\ mem[p].pc = "audit" /\ mem[p].evals < MaxEval
      /\ mem' = [mem EXCEPT ![p].pc = "judge", ![p].before = holder[mem[p].run]]
      /\ UNCHANGED <<World, disk, lock, mishap>>
    BY DEF Audit, At, Workspace
<1>2. mem[p].pc \in Open /\ mem[p].pc \in Auditing /\ "judge" \in Auditing
    BY <1>1 DEF Open, Auditing
<1>3. PICK n \in Memory :
          n = [mem[p] EXCEPT !.pc = "judge", !.before = holder[mem[p].run]]
  <2>1. /\ mem[p] \in Memory /\ "judge" \in Places
        /\ holder[mem[p].run] \in Tree \cup {None}
      BY <1>2, OfRun DEF Places, Open, Settled
  <2>2. [mem[p] EXCEPT !.pc = "judge", !.before = holder[mem[p].run]] \in Memory
      BY <2>1 DEF Memory
  <2> QED
      BY <2>2
<1>4. mem' = [mem EXCEPT ![p] = n]
    BY <1>1, <1>3 DEF Walked, Locked
<1>5. /\ n.pc = "judge" /\ n.call = "run" /\ n.run = mem[p].run /\ n.task = mem[p].task
      /\ n.repairs = mem[p].repairs /\ n.verified = mem[p].verified
      /\ n.evals = mem[p].evals
    BY <1>2, <1>3, OfRun DEF Memory
<1>6. Documents' /\ AtRest' /\ HoldersAreRecorded' /\ applied' = applied
    BY <1>1, <1>2, OfRun, WorldStays DEF Documents, AtRest, HoldersAreRecorded, World
<1>7. holder'[mem[p].run] # None /\ mem[p].verified \in Tree
    BY <1>1, <1>2, OfRun DEF Houses, Judges, World
<1>8. Houses(n)' /\ Judges(n)'
    BY <1>5, <1>7 DEF Houses, Judges
<1> QED
    BY <1>1, <1>2, <1>4, <1>5, <1>6, <1>8, StepsOn

LEMMA JudgeStep ==
    ASSUME Walked, NEW p \in Proc, Judge(p)
    PROVE  Walked' /\ EndIsRecorded(p)
<1>1. PICK verdict \in Judged :
          /\ mem[p].pc = "judge" /\ UNCHANGED <<World, lock, mishap>>
          /\ disk' = [disk EXCEPT !["findings"] = [run |-> mem[p].run,
                                                   verdict |-> verdict]]
          /\ mem' = [mem EXCEPT ![p].pc = verdict, ![p].before = None, ![p].evals = @ + 1]
    BY DEF Judge, At, Findings
<1>2. mem[p].pc \in Open /\ mem[p].pc \in Auditing /\ verdict \in Auditing
    BY <1>1 DEF Open, Auditing, Judged
<1>3. mem[p].evals + 1 \in 0..MaxEval /\ mem[p] \in Memory /\ verdict \in Places
  <2>1. mem[p].evals \in 0..MaxEval
      BY <1>2, OfRun DEF Memory
  <2>2. mem[p].evals < MaxEval
      BY <1>1, <1>2, OfRun DEF Rounds
  <2>3. mem[p] \in Memory /\ verdict \in Places
      BY <1>2, OfRun DEF Places, Open
  <2> QED
      BY <2>1, <2>2, <2>3, AgentRunAssumption
<1>4. PICK n \in Memory : n = [mem[p] EXCEPT !.pc = verdict, !.before = None,
                                             !.evals = mem[p].evals + 1]
  <2>1. [mem[p] EXCEPT !.pc = verdict, !.before = None, !.evals = mem[p].evals + 1]
           \in Memory
      BY <1>3 DEF Memory
  <2> QED
      BY <2>1
<1>5. mem' = [mem EXCEPT ![p] = n]
    BY <1>1, <1>4 DEF Walked, Locked
<1>6. /\ n.pc = verdict /\ n.call = "run" /\ n.run = mem[p].run /\ n.task = mem[p].task
      /\ n.repairs = mem[p].repairs /\ n.verified = mem[p].verified
    BY <1>2, <1>4, OfRun DEF Memory
<1>7. PICK v \in Verdicts : /\ v = [run |-> mem[p].run, verdict |-> verdict]
                            /\ disk' = [disk EXCEPT !["findings"] = v]
  <2>1. [run |-> mem[p].run, verdict |-> verdict] \in Verdicts
      BY <1>2, OfRun DEF Verdicts
  <2> QED
      BY <1>1, <2>1
<1>8. /\ Documents' /\ disk'["findings"] = v
      /\ disk'["state"] = disk["state"] /\ disk'["backup"] = disk["backup"]
    BY <1>2, <1>7, Filed, DocumentNames, OfRun
<1>9. AtRest' /\ HoldersAreRecorded' /\ applied' = applied
    BY <1>1, <1>2, OfRun, WorldStays DEF AtRest, HoldersAreRecorded, World
<1>10. holder'[mem[p].run] # None /\ mem[p].verified \in Tree
    BY <1>1, <1>2, OfRun DEF Houses, Judges, World
<1>11. Houses(n)' /\ Judges(n)'
    BY <1>6, <1>7, <1>8, <1>10 DEF Houses, Judges, Judged
<1>12. n.pc # "judge"
    BY <1>6 DEF Judged
<1> QED
    BY <1>1, <1>2, <1>5, <1>6, <1>8, <1>9, <1>11, <1>12, StepsOn

\* The budget of repairs is spent when a final audit ends.
LEMMA ChangesRequestedStep ==
    ASSUME Walked, NEW p \in Proc, ChangesRequested(p)
    PROVE  Walked' /\ EndIsRecorded(p)
<1>1. mem[p].pc = "changes_requested"
    BY DEF ChangesRequested, At
<1>2. mem[p].pc \in Open \ {"drop", "dropped"} /\ mem[p].pc \in Auditing
    BY <1>1 DEF Open, Auditing
<1>3. CASE Stop(p)
    BY <1>2, <1>3, StopStep DEF EndIsRecorded, Terminal
<1>4. CASE MayRepair(p) /\ ~Stop(p)
  <2>1. mem[p].repairs \in 0..MaxRepair /\ ~(mem[p].repairs > 0)
      BY <1>2, <1>4, OfRun, AgentRunAssumption DEF MayRepair, Memory
  <2>2. disk["state"].phase = "auditing"
      BY <1>2, <2>1, OfRun DEF Records, Rounds
  <2> QED
      BY <1>1, <1>4, <2>2, RepairOwed DEF ChangesRequested
<1> QED
    BY <1>3, <1>4 DEF ChangesRequested

\* Four steps of a run that write nothing but its end.
LEMMA RefusalStep ==
    ASSUME Walked, NEW p \in Proc,
           NothingLeft(p) \/ ReadOnlyViolated(p) \/ EvaluatorStops(p) \/ PhaseRefuses(p)
    PROVE  Walked' /\ disk'["state"].phase = "stopped"
<1>1. /\ mem[p].pc \in {"register", "judge", "stopped", "implement", "derive", "audit",
                        "repair", "approved"}
      /\ Stop(p)
    BY DEF NothingLeft, ReadOnlyViolated, EvaluatorStops, PhaseRefuses, At
<1>2. mem[p].pc \in Open \ {"drop", "dropped"}
    BY <1>1 DEF Open, Opening, Accepting, Auditing
<1> QED
    BY <1>1, <1>2, StopStep

-----------------------------------------------------------------------------
(* The candidate reaches the checkout, and the workspace goes.                *)

LEMMA ApplyStep ==
    ASSUME Walked, NEW p \in Proc, Apply(p)
    PROVE  Walked' /\ EndIsRecorded(p)
<1>1. /\ mem[p].pc = "approved" /\ Goto(p, "move") /\ Receipted(p)
      /\ UNCHANGED <<disk, ledger, holder, checkout, archive, task, runs, mishap, applied>>
    BY DEF Apply, At
<1>2. mem[p].pc \in Open /\ mem[p].pc \in Auditing /\ "move" \in Auditing
         /\ "move" \in Places
    BY <1>1 DEF Open, Auditing, Places
<1>3. PICK n \in Memory : /\ n = [mem[p] EXCEPT !.pc = "move"]
                          /\ mem' = [mem EXCEPT ![p] = n] /\ lock' = lock
    BY <1>1, <1>2, Jumps
<1>4. /\ n.pc = "move" /\ n.call = "run" /\ n.run = mem[p].run /\ n.task = mem[p].task
      /\ n.repairs = mem[p].repairs /\ n.verified = mem[p].verified
    BY <1>2, <1>3, OfRun DEF Memory
<1>5. Documents' /\ AtRest' /\ HoldersAreRecorded' /\ applied' = applied
    BY <1>1, <1>2, OfRun DEF Documents, AtRest, Settled, HoldersAreRecorded
<1>6. /\ holder[mem[p].run] # None /\ mem[p].verified \in Tree
      /\ disk["findings"] = [run |-> mem[p].run, verdict |-> "approved"]
      /\ disk["receipt"] = [run |-> mem[p].run, cand |-> mem[p].verified,
                            status |-> "passed"]
    BY <1>1, <1>2, OfRun DEF Houses, Judges, Receipted
<1>7. Houses(n)' /\ Judges(n)'
    BY <1>1, <1>4, <1>6 DEF Houses, Judges
<1> QED
    BY <1>1, <1>2, <1>3, <1>4, <1>5, <1>7, StepsOn

LEMMA MoveStep ==
    ASSUME Walked, NEW p \in Proc, Move(p) \/ Close(p)
    PROVE  Walked' /\ EndIsRecorded(p)
<1>1. PICK pc \in {"close", "record"} :
          /\ Goto(p, pc) /\ mem[p].pc \in {"move", "close"}
          /\ pc = "close" => /\ checkout' = mem[p].verified
                             /\ applied' = [applied EXCEPT ![mem[p].run] = TRUE]
          /\ pc = "record" => mem[p].pc = "close" /\ UNCHANGED <<checkout, applied>>
          /\ UNCHANGED <<disk, ledger, holder, archive, task, runs, mishap>>
    BY DEF Move, Close, At
<1>2. mem[p].pc \in Open /\ mem[p].pc \in Auditing /\ pc \in Auditing /\ pc \in Places
    BY <1>1 DEF Open, Auditing, Places
<1>3. PICK n \in Memory : /\ n = [mem[p] EXCEPT !.pc = pc]
                          /\ mem' = [mem EXCEPT ![p] = n] /\ lock' = lock
    BY <1>1, <1>2, Jumps
<1>4. /\ n.pc = pc /\ n.call = "run" /\ n.run = mem[p].run /\ n.task = mem[p].task
      /\ n.repairs = mem[p].repairs /\ n.verified = mem[p].verified
    BY <1>2, <1>3, OfRun DEF Memory
<1>5. /\ holder[mem[p].run] # None /\ mem[p].verified \in Tree
      /\ mem[p].pc = "close" => applied[mem[p].run]
    BY <1>1, <1>2, OfRun DEF Houses, Judges
<1>6. /\ checkout' \in Tree /\ applied' \in [Run -> BOOLEAN] /\ applied'[mem[p].run]
      /\ \A r \in Run : applied[r] => applied'[r]
    BY <1>1, <1>2, <1>5, OfRun DEF Settled
<1>7. Documents' /\ AtRest' /\ HoldersAreRecorded'
    BY <1>1, <1>2, <1>6, OfRun DEF Documents, AtRest, Settled, HoldersAreRecorded
<1>8. Houses(n)' /\ Judges(n)'
    BY <1>1, <1>4, <1>5, <1>6 DEF Houses, Judges
<1> QED
    BY <1>1, <1>2, <1>3, <1>4, <1>6, <1>7, <1>8, StepsOn

LEMMA ApproveStep ==
    ASSUME Walked, NEW p \in Proc, Approve(p)
    PROVE  Walked' /\ EndIsRecorded(p)
<1>1. mem[p].pc = "record" /\ UNCHANGED World
    BY DEF Approve, At
<1>2. /\ mem[p].pc \in Open \ {"register", "make", "dropped"} /\ mem[p].pc \in Auditing
    BY <1>1 DEF Open, Auditing
<1>3. PICK n \in Memory :
          /\ n = [mem[p] EXCEPT !.pc = "drop"] /\ n.pc = "drop" /\ n.call = "run"
          /\ n.run = mem[p].run /\ n.task = mem[p].task /\ n.repairs = mem[p].repairs
          /\ n.verified = mem[p].verified
    BY <1>1, <1>2, NextRound
<1>4. Advance(p, "approved", n)
    BY <1>3 DEF Approve
<1>5. "approved" \in Phases /\ "approved" \in Allowed(disk["state"].phase)
    BY <1>2, OfRun DEF Records, Allowed, Phases, Terminal
<1>6. applied'[mem[p].run]
    BY <1>1, <1>2, OfRun DEF Judges, World
<1> QED
    BY <1>1, <1>2, <1>3, <1>4, <1>5, <1>6, NextRound, AdvancesOn

\* A holder goes, and then its record.
LEMMA HolderGone ==
    ASSUME Settled, HoldersAreRecorded, NEW r \in Run,
           holder' = [holder EXCEPT ![r] = None],
           UNCHANGED <<ledger, checkout, archive, task, runs, applied>>
    PROVE  Settled' /\ HoldersAreRecorded' /\ holder'[r] = None
BY DEF Settled, HoldersAreRecorded

LEMMA RecordGone ==
    ASSUME Settled, HoldersAreRecorded, NEW r \in Run, holder[r] = None,
           RemoveRecord(r)
    PROVE  Settled' /\ HoldersAreRecorded'
BY DEF Settled, HoldersAreRecorded, RemoveRecord, Statuses

LEMMA ReleaseStep ==
    ASSUME Walked, NEW p \in Proc, Release(p)
    PROVE  Walked' /\ EndIsRecorded(p)
<1>1. CASE At(p, "drop") /\ RemoveHolder(p, mem[p].run, "dropped")
  <2>1. mem[p].pc \in Open /\ mem[p].pc = "drop" /\ "dropped" \in Places
        /\ mem[p].pc \notin Opening \cup Accepting \cup Auditing
      BY <1>1 DEF At, Open, Places, Opening, Accepting, Auditing
  <2>2. PICK n \in Memory : /\ n = [mem[p] EXCEPT !.pc = "dropped"]
                            /\ mem' = [mem EXCEPT ![p] = n] /\ lock' = lock
      BY <1>1, <2>1, Jumps DEF RemoveHolder
  <2>3. /\ n.pc = "dropped" /\ n.call = "run" /\ n.run = mem[p].run
        /\ n.task = mem[p].task /\ n.repairs = mem[p].repairs
      BY <2>1, <2>2, OfRun DEF Memory
  <2>4. Settled' /\ HoldersAreRecorded' /\ holder'[mem[p].run] = None
      BY <1>1, <2>1, OfRun, HolderGone DEF RemoveHolder
  <2>5. Documents' /\ AtRest' /\ applied' = applied /\ disk' = disk
      BY <1>1, <2>1, <2>4, OfRun DEF RemoveHolder, Documents, AtRest
  <2>6. Houses(n)' /\ Judges(n)'
      BY <2>3, <2>4 DEF Houses, Judges, Accepting, Auditing
  <2> QED
      BY <2>1, <2>2, <2>3, <2>4, <2>5, <2>6, StepsOn
<1>2. CASE At(p, "dropped") /\ Left(p) /\ RemoveRecord(mem[p].run)
  <2>1. mem[p].pc \in Open /\ mem[p].pc = "dropped"
      BY <1>2 DEF At, Open
  <2>2. holder[mem[p].run] = None
      BY <2>1, OfRun DEF Houses
  <2>3. Settled' /\ HoldersAreRecorded'
      BY <1>2, <2>1, <2>2, OfRun, RecordGone
  <2>4. Documents' /\ AtRest' /\ Vouched'
      BY <1>2, <2>1, <2>3, OfRun, VouchedStays DEF RemoveRecord, Documents, AtRest
  <2>5. disk'["state"].phase \in Terminal
      BY <1>2, <2>1, OfRun DEF Records, Terminal, RemoveRecord
  <2> QED
      BY <1>2, <2>1, <2>3, <2>4, <2>5, OfRun, CallEnds DEF EndIsRecorded
<1> QED
    BY <1>1, <1>2 DEF Release

-----------------------------------------------------------------------------
(* A finalization.                                                            *)

LEMMA OfFinalize ==
    ASSUME Walked, NEW p \in Proc, mem[p].pc \in Finalizing
    PROVE  /\ ~At(p, "idle") /\ lock = p /\ mem[p] \in Memory
           /\ mem[p].call = "finalize" /\ mem[p].run \in Run
           /\ Houses(mem[p]) /\ Finalizes(mem[p])
           /\ Documents /\ Settled /\ AtRest /\ HoldersAreRecorded /\ Vouched
<1>1. ~At(p, "idle")
    BY DEF At, Finalizing
<1> QED
    BY <1>1, StaysInside DEF FitsPlace, Finalizes

LEMMA FinalizeOn ==
    ASSUME Walked, NEW p \in Proc, mem[p].pc \in Finalizing,
           NEW n \in Memory, mem' = [mem EXCEPT ![p] = n], lock' = lock,
           n.pc \in Finalizing, n.call = "finalize", n.run = mem[p].run,
           disk'["state"] = None \/ disk'["state"].phase \in Terminal,
           n.pc \in {"clean", "cleaned", "unlink"} =>
              archive'[mem[p].run].state = "complete",
           n.pc = "cleaned" => holder'[mem[p].run] = None,
           Documents', AtRest', HoldersAreRecorded', Vouched'
    PROVE  Walked'
<1>1. n.pc \notin {"idle", "recover", "preflight", "reread"} \cup Open
    BY DEF Open, Opening, Accepting, Auditing, Finalizing
<1>2. Begins(n)' /\ Records(n)' /\ Rounds(n)' /\ Houses(n)'
    BY <1>1 DEF Begins, Records, Rounds, Houses, Open
<1>3. Judges(n)' /\ Finalizes(n)'
    BY <1>1, OfFinalize DEF Judges, Finalizes, Open, Auditing, Accepting
<1> QED
    BY <1>1, <1>2, <1>3, OfFinalize, GoesOn DEF FitsPlace

LEMMA BindRunStep == ASSUME Walked, NEW p \in Proc, BindRun(p) PROVE Walked'
<1>1. PICK given \in BOOLEAN :
          /\ mem[p].pc = "bind_run" /\ Finalizable(p, given)
          /\ \/ /\ archive' = [archive EXCEPT ![mem[p].run].state = "partial"]
                /\ mem' = [mem EXCEPT ![p].pc = "verify", ![p].copy = Copied(mem[p].run),
                                      ![p].task = IF given THEN 1 ELSE 0]
             \/ /\ archive[mem[p].run].state = "complete" /\ UNCHANGED archive
                /\ mem' = [mem EXCEPT ![p].pc = "clean",
                                      ![p].task = IF given THEN 1 ELSE 0]
          /\ UNCHANGED <<disk, ledger, holder, checkout, pending, task, lock, runs, mishap,
                         applied>>
    BY DEF BindRun, At, Recovered
<1>2. mem[p].pc \in Finalizing
    BY <1>1 DEF Finalizing
<1>3. /\ mem[p] \in Memory /\ mem[p].run \in Run /\ Copied(mem[p].run) \in Copies
      /\ mem \in [Proc -> Memory] /\ "verify" \in Places /\ "clean" \in Places
    BY <1>2, OfFinalize, CopyTypes DEF Walked, Locked, Places, Finalizing
<1>4. PICK k \in Nat : k = IF given THEN 1 ELSE 0
    OBVIOUS
<1>5. /\ [mem[p] EXCEPT !.pc = "verify", !.copy = Copied(mem[p].run), !.task = k]
            \in Memory
      /\ [mem[p] EXCEPT !.pc = "clean", !.task = k] \in Memory
    BY <1>3 DEF Memory
<1>6. PICK n \in Memory :
          /\ mem' = [mem EXCEPT ![p] = n] /\ n.pc \in {"verify", "clean"}
          /\ n.call = mem[p].call /\ n.run = mem[p].run
          /\ n.pc = "clean" => archive'[mem[p].run].state = "complete"
          /\ \/ archive' = [archive EXCEPT ![mem[p].run].state = "partial"]
             \/ archive' = archive
  <2>1. CASE /\ archive' = [archive EXCEPT ![mem[p].run].state = "partial"]
             /\ mem' = [mem EXCEPT ![p].pc = "verify", ![p].copy = Copied(mem[p].run),
                                   ![p].task = IF given THEN 1 ELSE 0]
    <3>1. PICK n \in Memory :
              n = [mem[p] EXCEPT !.pc = "verify", !.copy = Copied(mem[p].run), !.task = k]
        BY <1>5
    <3>2. mem' = [mem EXCEPT ![p] = n]
        BY <1>3, <1>4, <2>1, <3>1
    <3>3. n.pc = "verify" /\ n.call = mem[p].call /\ n.run = mem[p].run
        BY <1>3, <3>1 DEF Memory
    <3> QED
        BY <2>1, <3>2, <3>3
  <2>2. CASE /\ archive[mem[p].run].state = "complete" /\ UNCHANGED archive
             /\ mem' = [mem EXCEPT ![p].pc = "clean",
                                   ![p].task = IF given THEN 1 ELSE 0]
    <3>1. PICK n \in Memory : n = [mem[p] EXCEPT !.pc = "clean", !.task = k]
        BY <1>5
    <3>2. mem' = [mem EXCEPT ![p] = n]
        BY <1>3, <1>4, <2>2, <3>1
    <3>3. n.pc = "clean" /\ n.call = mem[p].call /\ n.run = mem[p].run
        BY <1>3, <3>1 DEF Memory
    <3> QED
        BY <2>2, <3>2, <3>3
  <2> QED
      BY <1>1, <2>1, <2>2
<1>7. archive' \in [Run -> [state : {"none", "partial", "complete"}, copy : Copies]]
    BY <1>2, <1>3, <1>6, OfFinalize DEF Settled
<1>8. Documents' /\ AtRest' /\ HoldersAreRecorded' /\ Vouched'
    BY <1>1, <1>2, <1>7, OfFinalize, VouchedStays
    DEF Documents, AtRest, Settled, HoldersAreRecorded
<1>9. disk'["state"].phase \in Terminal
    BY <1>1 DEF Finalizable, RunBound
<1>10. n.pc \in Finalizing /\ n.pc # "cleaned" /\ n.call = "finalize"
    BY <1>2, <1>6, OfFinalize DEF Finalizing
<1> QED
    BY <1>1, <1>2, <1>6, <1>8, <1>9, <1>10, FinalizeOn

LEMMA VerifyStep == ASSUME Walked, NEW p \in Proc, Verify(p) PROVE Walked'
<1>1. /\ mem[p].pc = "verify"
      /\ archive' = [archive EXCEPT ![mem[p].run] = [state |-> "complete",
                                                     copy |-> mem[p].copy]]
      /\ mem' = [mem EXCEPT ![p].pc = "clean", ![p].copy = NoCopy]
      /\ UNCHANGED <<disk, ledger, holder, checkout, pending, task, lock, runs, mishap,
                     applied>>
    BY DEF Verify, At
<1>2. mem[p].pc \in Finalizing
    BY <1>1 DEF Finalizing
<1>3. /\ mem[p] \in Memory /\ mem[p].run \in Run /\ mem[p].copy \in Copies
      /\ mem \in [Proc -> Memory] /\ "clean" \in Places
    BY <1>2, OfFinalize DEF Walked, Locked, Places, Finalizing, Memory
<1>4. PICK n \in Memory : n = [mem[p] EXCEPT !.pc = "clean", !.copy = NoCopy]
  <2>1. [mem[p] EXCEPT !.pc = "clean", !.copy = NoCopy] \in Memory
      BY <1>3, CopyTypes DEF Memory
  <2> QED
      BY <2>1
<1>5. mem' = [mem EXCEPT ![p] = n]
    BY <1>1, <1>3, <1>4
<1>6. n.pc = "clean" /\ n.call = "finalize" /\ n.run = mem[p].run /\ n.pc \in Finalizing
    BY <1>2, <1>3, <1>4, OfFinalize DEF Memory, Finalizing
<1>7. /\ archive' \in [Run -> [state : {"none", "partial", "complete"}, copy : Copies]]
      /\ archive'[mem[p].run].state = "complete"
    BY <1>1, <1>2, <1>3, OfFinalize DEF Settled
<1>8. Documents' /\ AtRest' /\ HoldersAreRecorded' /\ Vouched'
    BY <1>1, <1>2, <1>7, OfFinalize, VouchedStays
    DEF Documents, AtRest, Settled, HoldersAreRecorded
<1>9. disk'["state"] = None \/ disk'["state"].phase \in Terminal
    BY <1>1, <1>2, OfFinalize DEF Finalizes
<1> QED
    BY <1>1, <1>2, <1>5, <1>6, <1>7, <1>8, <1>9, FinalizeOn

LEMMA CleanWorkspaceStep == ASSUME Walked, NEW p \in Proc, CleanWorkspace(p) PROVE Walked'
<1>1. PICK pc \in {"cleaned", "unlink"} :
          /\ mem[p].pc \in {"clean", "cleaned"} /\ Goto(p, pc)
          /\ UNCHANGED <<disk, checkout, archive, task, runs, applied, mishap>>
          /\ \/ UNCHANGED <<ledger, holder>> /\ pc = "unlink"
             \/ /\ holder' = [holder EXCEPT ![mem[p].run] = None] /\ pc = "cleaned"
                /\ UNCHANGED ledger
             \/ mem[p].pc = "cleaned" /\ RemoveRecord(mem[p].run) /\ pc = "unlink"
    BY DEF CleanWorkspace, At, RemoveHolder, RemoveRecord, World
<1>2. mem[p].pc \in Finalizing /\ pc \in Finalizing /\ pc \in Places
    BY <1>1 DEF Finalizing, Places
<1>3. PICK n \in Memory : /\ n = [mem[p] EXCEPT !.pc = pc]
                          /\ mem' = [mem EXCEPT ![p] = n] /\ lock' = lock
    BY <1>1, <1>2, Jumps
<1>4. n.pc = pc /\ n.call = "finalize" /\ n.run = mem[p].run
    BY <1>2, <1>3, OfFinalize DEF Memory
<1>5. /\ disk["state"] = None \/ disk["state"].phase \in Terminal
      /\ archive[mem[p].run].state = "complete"
      /\ mem[p].pc = "cleaned" => holder[mem[p].run] = None
    BY <1>1, <1>2, OfFinalize DEF Finalizes, Houses
<1>6. Settled' /\ HoldersAreRecorded' /\ (pc = "cleaned" => holder'[mem[p].run] = None)
  <2>1. CASE UNCHANGED <<ledger, holder>> /\ pc = "unlink"
      BY <1>1, <1>2, <2>1, OfFinalize DEF Settled, HoldersAreRecorded
  <2>2. CASE holder' = [holder EXCEPT ![mem[p].run] = None] /\ UNCHANGED ledger
      BY <1>1, <1>2, <2>2, OfFinalize, HolderGone
  <2>3. CASE /\ mem[p].pc = "cleaned" /\ RemoveRecord(mem[p].run) /\ pc = "unlink"
      BY <1>2, <1>5, <2>3, OfFinalize, RecordGone
  <2> QED
      BY <1>1, <2>1, <2>2, <2>3
<1>7. Documents' /\ AtRest' /\ Vouched'
    BY <1>1, <1>2, <1>6, OfFinalize, VouchedStays DEF Documents, AtRest
<1> QED
    BY <1>1, <1>2, <1>3, <1>4, <1>5, <1>6, <1>7, FinalizeOn

\* The document that goes is one that was archived.
LEMMA Unlinked ==
    ASSUME Walked, NEW p \in Proc, Unlink(p)
    PROVE  /\ mem[p].pc = "unlink" /\ UNCHANGED <<World, lock, mishap>>
           /\ mem[p].index + 1 \in 1..6 /\ mem' = [mem EXCEPT ![p].index = @ + 1]
           /\ \E d \in Doc :
                 \/ UNCHANGED disk
                 \/ /\ disk' = [disk EXCEPT ![d] = Absent(d)]
                    /\ disk[d] = archive[mem[p].run].copy.disk[d] \/ disk[d] = Absent(d)
<1>1. /\ mem[p].pc = "unlink" /\ mem[p].index < Len(Removable)
      /\ UNCHANGED <<World, lock, mishap>> /\ mem' = [mem EXCEPT ![p].index = @ + 1]
    BY DEF Unlink, At
<1>2. mem[p].index \in 0..6
    BY DEF Walked, Locked, Memory
<1>3. mem[p].index + 1 \in 1..6
    BY <1>1, <1>2, DocumentNames
<1>4. PICK d \in Doc : d = Removable[mem[p].index + 1]
    BY <1>3, DocumentNames
<1>5. \/ UNCHANGED disk
      \/ /\ disk' = [disk EXCEPT ![d] = Absent(d)]
         /\ disk[d] = archive[mem[p].run].copy.disk[d] \/ disk[d] = Absent(d)
    BY <1>4 DEF Unlink, StillArchived
<1> QED
    BY <1>1, <1>3, <1>5

LEMMA UnlinkStep == ASSUME Walked, NEW p \in Proc, Unlink(p) PROVE Walked'
<1>1. /\ mem[p].pc = "unlink" /\ UNCHANGED <<World, lock, mishap>>
      /\ mem[p].index + 1 \in 1..6 /\ mem' = [mem EXCEPT ![p].index = @ + 1]
    BY Unlinked
<1>2. mem[p].pc \in Finalizing
    BY <1>1 DEF Finalizing
<1>3. mem[p] \in Memory /\ mem \in [Proc -> Memory]
    BY DEF Walked, Locked
<1>4. PICK n \in Memory : n = [mem[p] EXCEPT !.index = mem[p].index + 1]
  <2>1. PICK i \in 0..6 : i = mem[p].index + 1
      BY <1>1
  <2>2. [mem[p] EXCEPT !.index = i] \in Memory
      BY <1>3 DEF Memory
  <2> QED
      BY <2>1, <2>2
<1>5. mem' = [mem EXCEPT ![p] = n]
    BY <1>1, <1>3, <1>4
<1>6. n.pc = "unlink" /\ n.call = "finalize" /\ n.run = mem[p].run
    BY <1>1, <1>2, <1>3, <1>4, OfFinalize DEF Memory
<1>7. PICK d \in Doc : UNCHANGED disk \/ disk' = [disk EXCEPT ![d] = Absent(d)]
    BY Unlinked
<1>8. /\ disk' \in [Doc -> Written]
      /\ \A e \in Doc : disk'[e] = disk[e] \/ disk'[e] = Absent(e)
  <2>1. Absent(d) \in Written
      BY DEF Absent, Written
  <2>2. disk \in [Doc -> Written]
      BY DEF Walked, Documents
  <2> QED
      BY <1>7, <2>1, <2>2
<1>9. Documents'
    BY <1>2, <1>8, DocumentNames, OfFinalize DEF Documents, Absent
<1>10. disk'["state"] = None \/ disk'["state"].phase \in Terminal
    BY <1>1, <1>2, <1>8, DocumentNames, OfFinalize DEF Finalizes, Absent
<1>11. Vouched'
    BY <1>1, <1>2, <1>8, DocumentNames, OfFinalize DEF Vouched, Absent, World
<1>12. AtRest' /\ HoldersAreRecorded' /\ archive'[mem[p].run].state = "complete"
    BY <1>1, <1>2, OfFinalize, WorldStays DEF AtRest, HoldersAreRecorded, Finalizes, World
<1> QED
    BY <1>1, <1>2, <1>5, <1>6, <1>9, <1>10, <1>11, <1>12, FinalizeOn

LEMMA CleanTaskStep == ASSUME Walked, NEW p \in Proc, CleanTask(p) PROVE Walked'
<1>1. /\ mem[p].pc = "unlink" /\ Left(p)
      /\ task' = [task EXCEPT !.present = @ /\ mem[p].task = 0]
      /\ archive' = [archive EXCEPT ![mem[p].run].copy = NoCopy]
      /\ UNCHANGED <<disk, ledger, holder, checkout, pending, runs, applied, mishap>>
    BY DEF CleanTask, At, End
<1>2. mem[p].pc \in Finalizing
    BY <1>1 DEF Finalizing
<1>3. task' \in [number : 1..MaxTask, present : BOOLEAN]
  <2>1. PICK b \in BOOLEAN : b = (task.present /\ mem[p].task = 0)
      OBVIOUS
  <2>2. task' = [task EXCEPT !.present = b]
      BY <1>1, <2>1
  <2> QED
      BY <1>2, <2>2, OfFinalize DEF Settled
<1>4. archive' \in [Run -> [state : {"none", "partial", "complete"}, copy : Copies]]
    BY <1>1, <1>2, CopyTypes, OfFinalize DEF Settled
<1>5. Documents' /\ AtRest' /\ HoldersAreRecorded' /\ Vouched'
    BY <1>1, <1>2, <1>3, <1>4, OfFinalize, VouchedStays
    DEF Documents, AtRest, Settled, HoldersAreRecorded
<1> QED
    BY <1>1, <1>2, <1>5, OfFinalize, CallEnds

-----------------------------------------------------------------------------
(* The invariant, and what it says of the documents and of every step.        *)

LEMMA WalkedAtFirst == Init => Walked
<1> SUFFICES ASSUME Init PROVE Walked
    OBVIOUS
<1> USE AgentRunAssumption
<1>1. Documents
  <2>1. \A d \in Doc : disk[d] = Absent(d) /\ Absent(d) \in Written
      BY DEF Init, Absent, Written
  <2>2. disk \in [Doc -> Written]
      BY <2>1 DEF Init
  <2> QED
      BY <2>1, <2>2, DocumentNames DEF Documents, Absent
<1>2. AtRest
    BY CopyTypes DEF Init, AtRest, Settled, Statuses, Tree, NoArchive
<1>3. Locked /\ \A p \in Proc : mem[p].pc = "idle"
    BY CopyTypes DEF Init, Locked, Idle
<1>4. HoldersAreRecorded
    BY DEF Init, HoldersAreRecorded
<1>5. Vouched
    BY DocumentNames DEF Init, Vouched, Absent
<1> QED
    BY <1>1, <1>2, <1>3, <1>4, <1>5 DEF Walked

\* A step of a run is one behind its preflight, or that.
LEMMA RunStepKeeps ==
    ASSUME Walked, NEW p \in Proc, RunStep(p)
    PROVE  /\ Walked'
           /\ mem[p].pc \in Open \cup {"preflight"}
           /\ mem[p].pc \in Open => EndIsRecorded(p)
<1>1. CASE Preflight(p)
    BY <1>1, PreflightStep DEF Preflight, At, Open, Opening, Accepting, Auditing
<1>2. CASE PreflightRefuses(p)
  <2>1. /\ mem[p].pc = "preflight" /\ ~At(p, "idle") /\ Left(p)
        /\ UNCHANGED <<World, disk, mishap>>
      BY <1>2 DEF PreflightRefuses, At, End
  <2>2. Walked'
      BY <2>1, SilentEnd
  <2> QED
      BY <2>1, <2>2 DEF Open, Opening, Accepting, Auditing
<1>3. CASE Register(p) \/ Materialise(p) \/ Bind(p) \/ Enter(p)
    BY <1>3, RegisterStep, MaterialiseStep, BindStep, EnterStep
    DEF Register, Materialise, Bind, Enter, At, Open, Opening
<1>4. CASE MaterialiseFails(p)
    BY <1>4, MaterialiseFailsStep DEF MaterialiseFails, At, Open, Opening, EndIsRecorded
<1>5. CASE NothingLeft(p) \/ ReadOnlyViolated(p) \/ EvaluatorStops(p) \/ PhaseRefuses(p)
  <2>1. mem[p].pc \in {"register", "judge", "stopped", "implement", "derive", "audit",
                       "repair", "approved"}
      BY <1>5 DEF NothingLeft, ReadOnlyViolated, EvaluatorStops, PhaseRefuses, At
  <2>2. mem[p].pc \in Open
      BY <2>1 DEF Open, Opening, Accepting, Auditing
  <2> QED
      BY <1>5, <2>2, RefusalStep DEF EndIsRecorded, Terminal
<1>6. CASE Implement(p) \/ Repair(p) \/ ModelFails(p)
    BY <1>6, ImplementStep, ModelFailsStep
    DEF Implement, Repair, ModelFails, At, Open, EndIsRecorded, Terminal
<1>7. CASE Derive(p) \/ Measure(p) \/ Accepted(p) \/ Rejected(p)
    BY <1>7, DeriveStep, MeasureStep, AcceptedStep, RejectedStep
    DEF Derive, Measure, Accepted, Rejected, At, Open, Accepting
<1>8. CASE Audit(p) \/ Judge(p) \/ ChangesRequested(p)
    BY <1>8, AuditStep, JudgeStep, ChangesRequestedStep
    DEF Audit, Judge, ChangesRequested, At, Open, Auditing
<1>9. CASE Apply(p) \/ Move(p) \/ Close(p) \/ Approve(p)
    BY <1>9, ApplyStep, MoveStep, ApproveStep
    DEF Apply, Move, Close, Approve, At, Open, Auditing
<1>10. CASE ApplyFails(p)
    BY <1>10, ApplyFailsStep DEF ApplyFails, At, Open, Auditing, EndIsRecorded, Terminal
<1>11. CASE Release(p)
    BY <1>11, ReleaseStep DEF Release, At, Open
<1> QED
    BY <1>1, <1>2, <1>3, <1>4, <1>5, <1>6, <1>7, <1>8, <1>9, <1>10, <1>11 DEF RunStep

LEMMA FinalizeStepKeeps ==
    ASSUME Walked, NEW p \in Proc, FinalizeStep(p)
    PROVE  Walked' /\ mem[p].pc \in Finalizing
<1>1. CASE FinalizeRefuses(p)
  <2>1. /\ mem[p].pc \in {"bind_run", "verify"} /\ ~At(p, "idle") /\ Left(p)
        /\ UNCHANGED <<World, disk, mishap>>
      BY <1>1 DEF FinalizeRefuses, At, End
  <2> QED
      BY <2>1, SilentEnd DEF Finalizing
<1>2. CASE BindRun(p) \/ Verify(p)
    BY <1>2, BindRunStep, VerifyStep DEF BindRun, Verify, At, Finalizing
<1>3. CASE CleanWorkspace(p) \/ Unlink(p) \/ CleanTask(p)
    BY <1>3, CleanWorkspaceStep, UnlinkStep, CleanTaskStep
    DEF CleanWorkspace, Unlink, CleanTask, At, Finalizing
<1> QED
    BY <1>1, <1>2, <1>3 DEF FinalizeStep

LEMMA WalkedStays == Walked /\ [Next]_vars => Walked'
<1> SUFFICES ASSUME Walked, [Next]_vars PROVE Walked'
    OBVIOUS
<1>1. ASSUME NEW p \in Proc, StartRun(p) \/ StartResume(p) \/ StartFinalize(p)
      PROVE  Walked'
    BY <1>1, CallStep
<1>2. ASSUME NEW p \in Proc, Crash(p) PROVE Walked'
    BY <1>2, SilentEnd DEF Crash
<1>3. ASSUME NEW p \in Proc, Recover(p) \/ Reread(p) PROVE Walked'
    BY <1>3, RecoverStep, RereadStep
<1>4. ASSUME NEW p \in Proc, RecoverFails(p) PROVE Walked'
    BY <1>4, SilentEnd DEF RecoverFails, At
<1>5. ASSUME NEW p \in Proc, RunStep(p) \/ FinalizeStep(p) PROVE Walked'
    BY <1>5, RunStepKeeps, FinalizeStepKeeps
<1>6. CASE Touch \/ Damage \/ NextTask
    BY <1>6, TouchStep, DamageStep, NextTaskStep
<1>7. CASE UNCHANGED vars
  <2>1. Documents' /\ AtRest' /\ Locked' /\ HoldersAreRecorded' /\ Vouched'
      BY <1>7 DEF Walked, Documents, AtRest, Settled, Locked, HoldersAreRecorded, Vouched,
                  vars
  <2>2. ASSUME NEW p \in Proc, mem'[p].pc # "idle" PROVE FitsPlace(mem[p])'
      BY <1>7, <2>2
      DEF Walked, vars, FitsPlace, Begins, Records, Rounds, Houses, Judges, Finalizes
  <2> QED
      BY <2>1, <2>2 DEF Walked
<1> QED
    BY <1>1, <1>2, <1>3, <1>4, <1>5, <1>6, <1>7 DEF Next, Step

\* runner.py, state.py, flat_workspace.py, finalize.py: the process that is inside a
\* call may rely on what its place says of every document and workspace.
THEOREM WalkedAlways == Spec => []Walked
BY WalkedAtFirst, WalkedStays, PTL DEF Spec

LEMMA TypesFit == Walked => TypeOK
<1> SUFFICES ASSUME Walked PROVE TypeOK
    OBVIOUS
<1>1. \A p \in Proc : (lock = p) <=> ~At(p, "idle")
    BY DEF Walked, Locked, At
<1>2. \A p \in Proc : mem[p].repairs <= MaxRepair /\ mem[p].evals <= MaxEval
    BY AgentRunAssumption DEF Walked, Locked, Memory
<1> QED
    BY <1>1, <1>2
    DEF TypeOK, Walked, Documents, AtRest, Settled, Bindings, Receipts, Verdicts, Statuses

\* Who moves a candidate into the checkout.
LEMMA MovedByMove ==
    ASSUME Walked, Next, NEW r \in Run, ~applied[r], applied'[r]
    PROVE  \E p \in Proc : Move(p) /\ r = mem[p].run
<1>1. applied \in [Run -> BOOLEAN]
    BY DEF Walked, AtRest, Settled
<1>2. applied' # applied
    OBVIOUS
<1>3. PICK p \in Proc : RunStep(p)
    BY <1>2 DEF Next, Step, StartRun, StartResume, StartFinalize, Call, Crash, Recover,
       RecoverFails, Reread, FinalizeStep, BindRun, FinalizeRefuses, Verify,
       CleanWorkspace, RemoveHolder, RemoveRecord, Unlink, CleanTask, Touch, Damage,
       NextTask, World
<1>4. Move(p) \/ ApplyFails(p)
    BY <1>2, <1>3 DEF RunStep, Preflight, PreflightRefuses, Register, NothingLeft,
       Materialise, MaterialiseFails, Bind, Enter, Implement, Repair, ModelFails, Derive,
       Measure, Accepted, Rejected, Audit, Judge, ReadOnlyViolated, ChangesRequested,
       EvaluatorStops, PhaseRefuses, Stop, Apply, Close, Approve, Release, RemoveHolder,
       RemoveRecord, World
<1>5. Move(p)
    BY <1>1, <1>4 DEF ApplyFails
<1> QED
    BY <1>1, <1>5 DEF Move

LEMMA MovedWasAccepted ==
    ASSUME Walked, Next, NEW r \in Run, ~applied[r], applied'[r]
    PROVE  /\ disk["receipt"] = [run |-> r, cand |-> checkout', status |-> "passed"]
           /\ disk["findings"].run = r /\ disk["findings"].verdict = "approved"
<1>1. PICK p \in Proc : Move(p) /\ r = mem[p].run
    BY MovedByMove
<1>2. mem[p].pc = "move" /\ mem[p].pc \in Open /\ checkout' = mem[p].verified
    BY <1>1 DEF Move, At, Open, Auditing
<1>3. /\ disk["receipt"] = [run |-> mem[p].run, cand |-> mem[p].verified,
                            status |-> "passed"]
      /\ disk["findings"] = [run |-> mem[p].run, verdict |-> "approved"]
  <2>1. Judges(mem[p])
      BY <1>2, OfRun
  <2> QED
      BY <1>2, <2>1 DEF Judges
<1> QED
    BY <1>1, <1>2, <1>3

\* For any processes, candidates, faults and edits, the state directory tells the truth
\* about workspaces and approvals, and a candidate comes into the checkout only if this
\* run's last acceptance passed on it and this run's last verdict approved it.
THEOREM RecordsAlwaysTellTheTree == Spec => RecordsTellTheTree
<1>1. Walked => TypeOK /\ HoldersAreRecorded /\ ApprovedMeansApplied
    BY TypesFit DEF Walked, Vouched, ApprovedMeansApplied
<1>2. Walked /\ [Next]_vars =>
          [\A r \in Run :
              ~applied[r] /\ applied'[r] =>
                 /\ disk["receipt"] = [run |-> r, cand |-> checkout',
                                       status |-> "passed"]
                 /\ disk["findings"].run = r
                 /\ disk["findings"].verdict = "approved"]_vars
    BY MovedWasAccepted
<1> QED
    BY <1>1, <1>2, WalkedAlways, PTL DEF Spec, RecordsTellTheTree, AppliedWasAccepted

-----------------------------------------------------------------------------
(* What a step may do to the record of a run.                                 *)

LEMMA Acts ==
    ASSUME Walked, NEW p \in Proc, Step(p) \/ Crash(p)
    PROVE  ~At(p, "idle") /\ lock = p
<1>1. CASE Recover(p) \/ RecoverFails(p) \/ Reread(p) \/ Crash(p)
  <2>1. ~At(p, "idle")
      BY <1>1 DEF Recover, RecoverFails, Reread, Crash, At
  <2> QED
      BY <2>1, StaysInside
<1>2. CASE RunStep(p)
  <2>1. mem[p].pc \in Open \cup {"preflight"}
      BY <1>2, RunStepKeeps
  <2>2. ~At(p, "idle")
      BY <2>1 DEF At, Open, Opening, Accepting, Auditing
  <2> QED
      BY <2>2, StaysInside
<1>3. CASE FinalizeStep(p)
    BY <1>3, FinalizeStepKeeps, OfFinalize
<1> QED
    BY <1>1, <1>2, <1>3 DEF Step

\* While a process has the lock, the others wait; only an edit of a workspace is
\* not its own.
LEMMA OneWorks ==
    ASSUME Walked, Next, NEW p \in Proc, lock = p
    PROVE  Step(p) \/ Crash(p) \/ Touch
<1>1. lock # None
    BY AgentRunAssumption
<1>2. \A q \in Proc : ~StartRun(q) /\ ~StartResume(q) /\ ~StartFinalize(q)
    BY <1>1 DEF StartRun, StartResume, StartFinalize, Call
<1>3. ~Damage /\ ~NextTask
    BY <1>1 DEF Damage, NextTask
<1>4. \A q \in Proc : Step(q) \/ Crash(q) => q = p
    BY Acts
<1> QED
    BY <1>2, <1>3, <1>4 DEF Next

LEMMA RunOpens ==
    ASSUME Walked, Next, runs' # runs
    PROVE  /\ pending = None /\ checkout = Base
           /\ disk["state"] = None \/ disk["state"].phase \in Terminal
<1>1. PICK p \in Proc : RunStep(p)
    BY DEF Next, Step, StartRun, StartResume, StartFinalize, Call, Crash, Recover,
       RecoverFails, Reread, FinalizeStep, BindRun, FinalizeRefuses, Verify,
       CleanWorkspace, RemoveHolder, RemoveRecord, Unlink, CleanTask, Touch, Damage,
       NextTask, World
<1>2. Preflight(p)
    BY <1>1 DEF RunStep, PreflightRefuses, Register, NothingLeft,
       Materialise, MaterialiseFails, Bind, Enter, Implement, Repair, ModelFails, Derive,
       Measure, Accepted, Rejected, Audit, Judge, ReadOnlyViolated, ChangesRequested,
       EvaluatorStops, PhaseRefuses, Stop, Apply, Move, ApplyFails, Close, Approve,
       Release, RemoveHolder, RemoveRecord, World
<1>3. mem[p].pc = "preflight" /\ Gates
    BY <1>2 DEF Preflight, At
<1>4. Begins(mem[p])
    BY <1>3, StaysInside DEF At, FitsPlace
<1> QED
    BY <1>3, <1>4 DEF Begins, Gates, StateDirectoryAllows

LEMMA RecordKept ==
    ASSUME Walked, Next, disk["state"] # None, disk["state"].phase \in Phases \ Terminal,
           disk'["state"] # disk["state"],
           disk'["state"] # [disk["state"] EXCEPT !.phase = "damaged"]
    PROVE  \E p \in Proc : /\ lock = p /\ mem[p].call = "run"
                           /\ mem[p].run = disk["state"].run
<1>1. "damaged" \notin Phases
    BY DEF Phases, Terminal
<1>2. ~Damage
    BY DocumentNames DEF Damage, Walked, Documents
<1>3. PICK p \in Proc : Step(p)
    BY <1>2 DEF Next, StartRun, StartResume, StartFinalize, Call, Crash, Touch, NextTask
<1>4. ~Recover(p) /\ ~RecoverFails(p) /\ ~Reread(p)
    BY <1>1 DEF Recover, RecoverFails, Reread
<1>5. CASE FinalizeStep(p)
  <2>1. mem[p].pc = "unlink"
      BY <1>5 DEF FinalizeStep, BindRun, FinalizeRefuses, Verify, CleanWorkspace,
         RemoveHolder, RemoveRecord, CleanTask, Unlink, At, World
  <2>2. Finalizes(mem[p])
      BY <2>1, OfFinalize DEF Finalizing
  <2> QED
      BY <2>1, <2>2 DEF Finalizes, Finalizing
<1>6. CASE RunStep(p)
  <2>1. ~Preflight(p)
      BY DEF Preflight, Gates, StateDirectoryAllows
  <2>2. ~PreflightRefuses(p)
      BY DEF PreflightRefuses
  <2>3. mem[p].pc # "preflight"
      BY <1>6, <2>1, <2>2 DEF RunStep, Register, NothingLeft, Materialise,
         MaterialiseFails, Bind, Enter, Implement, Repair, ModelFails, Derive, Measure,
         Accepted, Rejected, Audit, Judge, ReadOnlyViolated, ChangesRequested,
         EvaluatorStops, PhaseRefuses, Apply, Move, ApplyFails, Close, Approve, Release,
         At
  <2>4. mem[p].pc \in Open
      BY <1>6, <2>3, RunStepKeeps
  <2> QED
      BY <2>4, OfRun
<1> QED
    BY <1>3, <1>4, <1>5, <1>6 DEF Step

LEMMA StopRecorded ==
    ASSUME Walked, Next, NEW p \in Proc, ~At(p, "idle"), mem'[p].pc = "idle",
           mishap' = mishap, mem[p].call = "run", mem[p].run # 0
    PROVE  disk'["state"].phase \in Terminal
<1>1. lock = p /\ FitsPlace(mem[p])
    BY StaysInside
<1>2. ~Fault
    BY DEF Fault, Walked, AtRest
<1>3. ~Touch /\ ~Crash(p) /\ ~RecoverFails(p)
    BY <1>2 DEF Touch, Crash, RecoverFails, At
<1>4. Step(p)
    BY <1>1, <1>3, OneWorks
<1>5. ~Recover(p) /\ ~Reread(p)
    BY <1>1 DEF Recover, Reread, At, FitsPlace, Begins
<1>6. ~FinalizeStep(p)
    BY <1>1, FinalizeStepKeeps, OfFinalize
<1>7. RunStep(p)
    BY <1>3, <1>4, <1>5, <1>6 DEF Step
<1>8. mem[p].pc # "preflight"
    BY <1>1 DEF FitsPlace, Begins
<1>9. EndIsRecorded(p)
    BY <1>7, <1>8, RunStepKeeps
<1> QED
    BY <1>9 DEF EndIsRecorded

LEMMA CleanupArchived ==
    ASSUME Walked, Next, NEW p \in Proc, lock = p, mem[p].call = "finalize"
    PROVE  /\ \A d \in Doc : disk'[d] # disk[d] =>
                 /\ archive[mem[p].run].state = "complete"
                 /\ archive[mem[p].run].copy.disk[d] = disk[d]
           /\ holder'[mem[p].run] = None /\ holder[mem[p].run] # None
                 => archive[mem[p].run].state = "complete"
<1>1. ~At(p, "idle") /\ FitsPlace(mem[p])
    BY DEF Walked, Locked, At
<1>2. Step(p) \/ Crash(p) \/ Touch
    BY OneWorks
<1>3. CASE Touch
    BY <1>3, AgentRunAssumption DEF Touch, Walked, AtRest, Settled, Tree
<1>4. CASE Crash(p)
    BY <1>4 DEF Crash, World
<1>5. CASE Step(p)
  <2>1. ~Recover(p) /\ ~RecoverFails(p) /\ ~Reread(p)
      BY <1>1 DEF Recover, RecoverFails, Reread, At, FitsPlace, Begins
  <2>2. ~RunStep(p)
      BY <1>1, RunStepKeeps DEF FitsPlace, Begins, Records
  <2>3. FinalizeStep(p)
      BY <1>5, <2>1, <2>2 DEF Step
  <2>4. mem[p].pc \in Finalizing /\ Finalizes(mem[p]) /\ Settled /\ mem[p].run \in Run
      BY <2>3, FinalizeStepKeeps, OfFinalize
  <2>5. CASE BindRun(p) \/ FinalizeRefuses(p) \/ Verify(p) \/ CleanTask(p)
      BY <2>5 DEF BindRun, FinalizeRefuses, Verify, CleanTask, World
  <2>6. CASE CleanWorkspace(p)
    <3>1. mem[p].pc \in {"clean", "cleaned"} /\ UNCHANGED disk
        BY <2>6 DEF CleanWorkspace, At, RemoveHolder, RemoveRecord
    <3> QED
        BY <2>4, <3>1 DEF Finalizes
  <2>7. CASE Unlink(p)
    <3>1. mem[p].pc = "unlink" /\ UNCHANGED World
        BY <2>7, Unlinked
    <3>2. PICK d \in Doc :
             \/ UNCHANGED disk
             \/ /\ disk' = [disk EXCEPT ![d] = Absent(d)]
                /\ disk[d] = archive[mem[p].run].copy.disk[d] \/ disk[d] = Absent(d)
        BY <2>7, Unlinked
    <3>3. disk \in [Doc -> Written]
        BY DEF Walked, Documents
    <3>4. \A e \in Doc : disk'[e] # disk[e] =>
                            archive[mem[p].run].copy.disk[e] = disk[e]
        BY <3>2, <3>3
    <3>5. archive[mem[p].run].state = "complete"
        BY <2>4, <3>1 DEF Finalizes
    <3>6. holder' = holder
        BY <3>1 DEF World
    <3> QED
        BY <3>4, <3>5, <3>6
  <2> QED
      BY <2>3, <2>5, <2>6, <2>7 DEF FinalizeStep
<1> QED
    BY <1>2, <1>3, <1>4, <1>5

\* For any processes, candidates, faults and edits, a run opens over nothing half
\* applied and nothing unfinished, keeps its record to itself, ends with a terminal one,
\* and loses it only to its archive.
THEOREM RunsKeepTheRecord == Spec => RunsKeepTheirRecord
<1>1. Walked /\ [Next]_vars =>
          [runs' # runs => /\ pending = None /\ checkout = Base
                           /\ disk["state"] = None
                              \/ disk["state"].phase \in Terminal]_vars
    BY RunOpens
<1>2. Walked /\ [Next]_vars =>
          [LET s == disk["state"] IN
              s # None /\ s.phase \in Phases \ Terminal /\ disk'["state"] # s =>
                  \/ disk'["state"] = [s EXCEPT !.phase = "damaged"]
                  \/ \E p \in Proc : /\ lock = p /\ mem[p].call = "run"
                                     /\ mem[p].run = s.run]_vars
    BY RecordKept
<1>3. Walked /\ [Next]_vars =>
          [\A p \in Proc :
              /\ ~At(p, "idle") /\ mem'[p].pc = "idle" /\ mishap' = mishap
              /\ mem[p].call = "run" /\ mem[p].run # 0 /\ ~MaterialiseFails(p)
              => disk'["state"].phase \in Terminal]_vars
    BY StopRecorded
<1>4. Walked /\ [Next]_vars =>
          [\A p \in Proc :
              lock = p /\ mem[p].call = "finalize" =>
                  LET a == archive[mem[p].run] IN
                  /\ \A d \in Doc : disk'[d] # disk[d] =>
                                      a.state = "complete" /\ a.copy.disk[d] = disk[d]
                  /\ holder'[mem[p].run] = None /\ holder[mem[p].run] # None
                        => a.state = "complete"]_vars
    BY CleanupArchived
<1>5. Spec => RunsStartWhole
    BY <1>1, WalkedAlways, PTL DEF Spec, RunsStartWhole
<1>6. Spec => UnfinishedIsKept
    BY <1>2, WalkedAlways, PTL DEF Spec, UnfinishedIsKept
<1>7. Spec => EveryStopIsRecorded
    BY <1>3, WalkedAlways, PTL DEF Spec, EveryStopIsRecorded
<1>8. Spec => CleanupFollowsArchive
    BY <1>4, WalkedAlways, PTL DEF Spec, CleanupFollowsArchive
<1> QED
    BY <1>5, <1>6, <1>7, <1>8 DEF RunsKeepTheirRecord

-----------------------------------------------------------------------------
(*                   The reading of a tree that moves                         *)

(* The inductive invariant.  What a manifest may say of objects rests on what *)
(* a directory was when it was listed, whatever moves; what two of them may   *)
(* say of the bytes rests on their timestamps, and on the names that are      *)
(* still to be asked for while nobody moves anything.                         *)

FileKinds == {"dir", "file", "link"}
Listings == [name : Name, id : Obj, kind : FileKinds, stamp : Nat, nlink : Nat]
FrameSet == [dir : Dirs, path : Seq(Name), unasked : SUBSET Name,
             records : SUBSET Listings]
Walkers ==
    [pc : {"start", "quiesce", "open", "walk", "hash", "link", "relink", "decided",
           "holder", "roots", "answered", "refused"},
     os : {"posix", "windows"}, since : Nat, frames : Seq(FrameSet),
     record : Listings \cup {Nil}, held : Obj \cup {Nil},
     read : {Nil} \cup Obj \cup (Nat \X Nat \X Nat)]
Entries == [path : Seq(Name), kind : FileKinds, id : Obj, stamp : Nat, nlink : Nat,
            mac : Obj \cup {Nil}, sha : {Nil} \cup (Obj \X Nat \X Nat)]
Sights == Name \X (Name \cup {Nil}) \X Obj \X Nat
Manifests == [root : Dirs, entries : SUBSET Entries, shown : SUBSET Sights]

\* Times do not lie ahead, nobody moves what is outside or into it, and a
\* directory without a timestamp is as it was.
Grounded ==
    /\ tick \in Nat \ {0} /\ root \in Dirs
    /\ at \in [Dirs -> [Name -> Obj \cup {Nil}]]
    /\ version \in [Files -> Nat] /\ stamp \in [Obj -> Nat]
    /\ twice \in SUBSET Files /\ policy \in SUBSET Name
    /\ \A o \in Obj : stamp[o] <= tick
    /\ \A d \in Dirs \cap Outside : at[d] = Layout[d]
    /\ \A d \in Dirs \ Outside, n \in Name : at[d][n] \notin Dirs \cap Outside
    /\ \A d \in Dirs : stamp[d] = 0 => at[d] = Layout[d]

Walking(w) == w.pc \in {"walk", "hash", "link", "relink"}
AtHolder(w) == w.pc \in {"holder", "roots", "answered"}
Last(q) == q[Len(q)]

\* Where the walker is: what it has at hand, and how many readings there are.
Paced(w, ms) ==
    /\ w \in Walkers /\ ms \in Seq(Manifests) /\ Len(ms) <= 2
    /\ w.pc = "start" \/ AtHolder(w) => Len(ms) = 0
    /\ w.pc = "start" => Len(w.frames) = 0
    /\ w.pc \in {"quiesce", "open"} => Len(w.frames) = 0 /\ Len(ms) <= 1
    /\ Walking(w) => Len(w.frames) > 0 /\ Len(ms) > 0
    /\ AtHolder(w) => Len(w.frames) = 1
    /\ w.pc = "decided" => Len(ms) = 2
    /\ \A i \in 1..Len(w.frames) : Len(w.frames[i].path) = i - 1

\* The record that is being read is one of the directory that is open.
AtHand(w) ==
    w.pc \in {"hash", "link", "relink"} =>
        /\ w.record \in Last(w.frames).records /\ Last(w.frames).unasked = {}
        /\ w.pc = "hash" => /\ w.record.kind = "file" /\ w.record.nlink = 1
                            /\ Head(Append(Last(w.frames).path, w.record.name)) \notin policy
                            /\ w.held = w.record.id /\ w.held \in Files
                            /\ w.read \in Nat \X Nat \X Nat
        /\ w.pc # "hash" => w.record.kind = "link" /\ w.os = "posix"
        /\ w.pc = "relink" => w.read \in Links

-----------------------------------------------------------------------------
(* Whatever others do.                                                        *)

\* What would be a way out was listed in a directory that is outside.
Fenced(f) ==
    \A r \in f.records :
        /\ r.kind = KindOf[r.id]
        /\ r.id \in Outside /\ (r.kind = "dir" \/ (r.kind = "file" /\ r.nlink = 1))
              => f.dir \in Outside

Sober(e, m, os) ==
    /\ e.sha # Nil => /\ e.sha[1] = e.id
                      /\ e.sha[2] # e.sha[3] => e.id \in twice
                      /\ e.id \in Outside => m.root \in Outside
    /\ os = "windows" => e.mac \in {Nil, e.id}

\* Between two blocks a file is written under a new timestamp, or twice.
Hashing(w) ==
    w.pc = "hash" =>
        /\ version[w.held] >= w.read[1] /\ stamp[w.held] >= w.read[2]
        /\ version[w.held] # w.read[1] /\ stamp[w.held] = w.read[2] => w.held \in twice

Fences(w, ms) ==
    /\ \A i \in 1..Len(w.frames) :
          /\ Fenced(w.frames[i])
          /\ Len(ms) > 0 /\ w.frames[i].dir \in Outside => Last(ms).root \in Outside
    /\ \A i \in 1..Len(ms) : \A e \in ms[i].entries : Sober(e, ms[i], w.os)
    /\ Hashing(w)

\* An open directory whose names nobody changed is as it was.
Opened(w, a) ==
    /\ a \in [marker : Obj \cup {Nil}, root : Obj \cup {Nil}]
    /\ AtHolder(w) =>
          LET f == w.frames[1] IN
          /\ stamp[f.dir] = 0 =>
                /\ \A r \in f.records : r.id = Layout[f.dir][r.name]
                /\ w.pc # "holder" => a.marker = Layout[f.dir][Marker]
                /\ w.pc = "answered" => a.root = Layout[f.dir][HolderRoot]
          /\ w.pc = "answered" =>
                a.root \in Dirs /\ (stamp[a.root] = 0 => Layout[a.root][Git] = Nil)

-----------------------------------------------------------------------------
(* While nobody moves anything under a scan.                                  *)

Place(t) == IF t[2] = Nil THEN <<t[1]>> ELSE <<t[1], t[2]>>

Tells(e, t) ==
    /\ e.path = Place(t) /\ e.id = t[3] /\ e.kind = KindOf[t[3]]
    /\ e.mac = IF KindOf[t[3]] = "link" THEN t[3] ELSE Nil
    /\ e.sha = IF KindOf[t[3]] = "file" /\ t[1] \notin policy
               THEN <<t[3], t[4], t[4]>> ELSE Nil

\* A view has one thing at a place; only files have versions.
Clear(m) ==
    /\ \A t, u \in m.shown : Place(t) = Place(u) => t = u
    /\ \A t \in m.shown : KindOf[t[3]] # "file" => t[4] = 0

\* What was described was there, and all there was.
Sound(m) == \A e \in m.entries : Len(e.path) <= 2 => \E t \in m.shown : Tells(e, t)
Told(m, t) == \E e \in m.entries : Tells(e, t)
Whole(m) == \A t \in m.shown : Told(m, t)

Pending(f, n) == n \in f.unasked \/ \E r \in f.records : r.name = n
ToCome(F, t) ==
    \/ Pending(F[1], t[1])
    \/ Len(F) > 1 /\ t[2] # Nil /\ F[2].path = <<t[1]>> /\ Pending(F[2], t[2])

\* The reading that is under way is of the tree as it is.
Current(w, m) ==
    /\ m.root = root /\ m.shown = Shown /\ w.frames[1].dir = root
    /\ Len(w.frames) > 1 =>
          \E n \in Name : w.frames[2].path = <<n>> /\ w.frames[2].dir = at[root][n]
    /\ \A i \in 1..Len(w.frames) : \A r \in w.frames[i].records :
          r = RecordOf(w.frames[i].dir, r.name)
    /\ \A e \in m.entries : e.stamp = stamp[e.id]
    /\ \A t \in m.shown : Told(m, t) \/ ToCome(w.frames, t)
    /\ w.pc = "hash" => w.read[1] = version[w.held]
    /\ w.pc = "relink" => w.read = w.record.id

\* A file that was described at the first reading, and has its timestamp still,
\* has its bytes.
Dated(ms) ==
    \A e \in ms[1].entries, t \in ms[1].shown :
        Tells(e, t) /\ KindOf[t[3]] = "file" =>
           /\ e.stamp < tick /\ e.stamp <= stamp[t[3]]
           /\ stamp[t[3]] = e.stamp => version[t[3]] = t[4]
           /\ Len(ms) > 1 =>
                 \A d \in ms[2].entries, u \in ms[2].shown :
                     Tells(d, u) /\ u[3] = t[3] /\ d.stamp = e.stamp => u[4] = t[4]

\* The first reading waits until its timestamps are past.
Waited(w, ms) ==
    /\ w.pc = "quiesce" /\ Len(ms) = 0 => \A o \in Obj : stamp[o] <= w.since
    /\ (w.pc = "open" /\ Len(ms) = 0) \/ (Walking(w) /\ Len(ms) = 1)
          => \A o \in Obj : stamp[o] < tick

Exact(w, ms) ==
    ~stirred /\ w.pc # "refused" =>
        /\ Waited(w, ms)
        /\ \A i \in 1..Len(ms) : Clear(ms[i]) /\ Sound(ms[i])
        /\ \A i \in 1..Len(ms) : ~(i = Len(ms) /\ Walking(w)) => Whole(ms[i])
        /\ Walking(w) => Current(w, Last(ms))
        /\ Len(ms) > 0 => Dated(ms)

Evident(w, ms, a) ==
    /\ Paced(w, ms) /\ AtHand(w) /\ Fences(w, ms) /\ Opened(w, a) /\ Exact(w, ms)

Evidenced ==
    Grounded /\ stirred \in BOOLEAN /\ Evident(walk, manifest, answer)

-----------------------------------------------------------------------------
(* Objects and their names.                                                   *)

LEMMA ObjectsHaveKinds ==
    /\ Dirs \subseteq Obj /\ Files \subseteq Obj /\ Links \subseteq Obj
    /\ \A o \in Obj : /\ KindOf[o] \in FileKinds
                      /\ o \in Dirs <=> KindOf[o] = "dir"
                      /\ o \in Files <=> KindOf[o] = "file"
                      /\ o \in Links <=> KindOf[o] = "link"
BY EvidenceAssumption DEF Dirs, Files, Links, FileKinds

NamesOf(o) == {p \in Dirs \X Name : at[p[1]][p[2]] = o}

LEMMA NamesAreCounted ==
    ASSUME NEW o
    PROVE  IsFiniteSet(NamesOf(o)) /\ LinkCount(o) = Cardinality(NamesOf(o))
           /\ LinkCount(o) \in Nat
<1>1. IsFiniteSet(Dirs) /\ IsFiniteSet(Name)
    BY EvidenceAssumption, ObjectsHaveKinds, FS_Subset
<1>2. IsFiniteSet(Dirs \X Name)
    BY <1>1, FS_Product
<1>3. IsFiniteSet(NamesOf(o))
    BY <1>2, FS_Subset DEF NamesOf
<1>4. LinkCount(o) = Cardinality(NamesOf(o))
    BY DEF LinkCount, NamesOf
<1> QED
    BY <1>3, <1>4, FS_CardinalityType

\* A file that is outside has a name there, so one inside is its second.
LEMMA WaysOutAreCounted ==
    ASSUME Grounded, NEW d \in Dirs, NEW n \in Name, at[d][n] \in Files \cap Outside,
           LinkCount(at[d][n]) = 1
    PROVE  d \in Outside
<1>1. PICK f \in Files \cap Outside : f = at[d][n]
    OBVIOUS
<1>2. PICK e \in Dirs \cap Outside, m \in Name : Layout[e][m] = f
    BY <1>1, EvidenceAssumption, ObjectsHaveKinds
<1>3. at[e][m] = f
    BY <1>2 DEF Grounded
<1>4. <<d, n>> \in NamesOf(f) /\ <<e, m>> \in NamesOf(f)
    BY <1>1, <1>2, <1>3 DEF NamesOf
<1>5. PICK x : NamesOf(f) = {x}
    BY <1>1, NamesAreCounted, FS_Singleton
<1> QED
    BY <1>2, <1>4, <1>5

LEMMA RecordsAreFenced ==
    ASSUME Grounded, NEW d \in Dirs, NEW n \in Name, at[d][n] # Nil
    PROVE  LET r == RecordOf(d, n) IN
           /\ r \in Listings /\ r.name = n /\ r.id = at[d][n] /\ r.kind = KindOf[r.id]
           /\ r.id \in Outside /\ (r.kind = "dir" \/ (r.kind = "file" /\ r.nlink = 1))
                 => d \in Outside
<1>1. PICK o \in Obj : o = at[d][n]
    BY DEF Grounded
<1>2. PICK r : r = RecordOf(d, n)
    OBVIOUS
<1>3. /\ r.name = n /\ r.id = o /\ r.kind = KindOf[o] /\ r.stamp = stamp[o]
      /\ r.nlink = LinkCount(o)
      /\ r = [name |-> n, id |-> o, kind |-> KindOf[o], stamp |-> stamp[o],
              nlink |-> LinkCount(o)]
    BY <1>1, <1>2 DEF RecordOf
<1>4. stamp[o] \in Nat /\ LinkCount(o) \in Nat /\ KindOf[o] \in FileKinds
    BY NamesAreCounted, ObjectsHaveKinds DEF Grounded
<1>5. r \in Listings
    BY <1>3, <1>4 DEF Listings
<1>6. ASSUME o \in Outside, KindOf[o] = "dir" PROVE d \in Outside
    BY <1>1, <1>6, ObjectsHaveKinds DEF Grounded
<1>7. ASSUME o \in Outside, KindOf[o] = "file", LinkCount(o) = 1 PROVE d \in Outside
    BY <1>1, <1>7, ObjectsHaveKinds, WaysOutAreCounted
<1> QED
    BY <1>1, <1>2, <1>3, <1>5, <1>6, <1>7

-----------------------------------------------------------------------------
(* What others can do to the tree.                                            *)

TreeMoved ==
    /\ Grounded' /\ stirred' \in BOOLEAN
    /\ UNCHANGED <<policy, walk, manifest, answer>>
    /\ tick' >= tick /\ twice \subseteq twice'
    /\ \A f \in Files : version'[f] >= version[f]
    /\ \A f \in Files : version'[f] # version[f] =>
                           /\ stamp'[f] = tick
                           /\ stamp[f] = tick => f \in twice'
    /\ \A o \in Obj : stamp'[o] \in {stamp[o], tick}
    /\ ~stirred' => ~stirred /\ (UNCHANGED tree \/ ~Scanning)

LEMMA OthersMoveTheTree ==
    ASSUME Grounded, stirred \in BOOLEAN, Others
    PROVE  TreeMoved
<1>1. Scanning \in BOOLEAN
    BY DEF Scanning
\* Names come and go in directories that are inside.
<1>2. ASSUME NEW ds \in SUBSET (Dirs \ Outside), Moves, Stamps(ds),
             UNCHANGED <<root, version, twice>>,
             at' \in [Dirs -> [Name -> Obj \cup {Nil}]],
             \A d \in Dirs \ ds : at'[d] = at[d],
             \A d \in ds, n \in Name : at'[d][n] \notin Dirs \cap Outside
      PROVE  TreeMoved
  <2>1. /\ tick' = tick /\ UNCHANGED <<policy, walk, manifest, answer>>
        /\ stirred' = (stirred \/ Scanning)
      BY <1>2 DEF Moves
  <2>2. stamp' = [o \in Obj |-> IF o \in ds THEN tick ELSE stamp[o]]
      BY <1>2 DEF Stamps
  <2>3. /\ stamp' \in [Obj -> Nat]
        /\ \A o \in Obj : stamp'[o] \in {stamp[o], tick} /\ stamp'[o] <= tick
      BY <2>2 DEF Grounded
  <2>4. \A d \in Dirs : stamp'[d] = 0 => d \notin ds /\ stamp[d] = 0
      BY <2>2, ObjectsHaveKinds DEF Grounded
  <2>5. \A d \in Dirs : stamp'[d] = 0 => at'[d] = Layout[d]
      BY <1>2, <2>4 DEF Grounded
  <2>6. \A d \in Dirs \cap Outside : at'[d] = Layout[d]
      BY <1>2 DEF Grounded
  <2>7. \A d \in Dirs \ Outside, n \in Name : at'[d][n] \notin Dirs \cap Outside
      BY <1>2 DEF Grounded
  <2>8. Grounded'
      BY <1>2, <2>1, <2>3, <2>5, <2>6, <2>7 DEF Grounded
  <2>9. stirred' \in BOOLEAN /\ (~stirred' => ~stirred /\ ~Scanning)
      BY <1>1, <2>1
  <2>10. /\ tick' >= tick /\ twice \subseteq twice'
         /\ \A f \in Files : version'[f] >= version[f] /\ version'[f] = version[f]
      BY <1>2, <2>1 DEF Grounded
  <2> QED
      BY <2>1, <2>3, <2>8, <2>9, <2>10 DEF TreeMoved
<1>3. ASSUME NEW f \in Files \ Outside, Write(f) PROVE TreeMoved
  <2>1. /\ tick' = tick /\ UNCHANGED <<policy, walk, manifest, answer>>
        /\ stirred' = (stirred \/ Scanning)
      BY <1>3 DEF Write, Moves
  <2>2. /\ stamp' = [o \in Obj |-> IF o \in {f} THEN tick ELSE stamp[o]]
        /\ version' = [version EXCEPT ![f] = @ + 1]
        /\ twice' = IF stamp[f] = tick THEN twice \cup {f} ELSE twice
        /\ UNCHANGED <<root, at>>
      BY <1>3 DEF Write, Stamps
  <2>3. /\ stamp' \in [Obj -> Nat]
        /\ \A o \in Obj : stamp'[o] \in {stamp[o], tick} /\ stamp'[o] <= tick
      BY <2>2 DEF Grounded
  <2>4. \A d \in Dirs : d # f
      BY ObjectsHaveKinds
  <2>5. \A d \in Dirs : stamp'[d] = stamp[d]
      BY <2>2, <2>4, ObjectsHaveKinds
  <2>6. /\ version' \in [Files -> Nat] /\ version'[f] = version[f] + 1
        /\ \A g \in Files \ {f} : version'[g] = version[g]
      BY <2>2 DEF Grounded
  <2>7. twice' \in SUBSET Files /\ twice \subseteq twice'
      BY <2>2 DEF Grounded
  <2>8. Grounded'
      BY <2>1, <2>2, <2>3, <2>5, <2>6, <2>7 DEF Grounded
  <2>9. stirred' \in BOOLEAN /\ (~stirred' => ~stirred /\ ~Scanning)
      BY <1>1, <2>1
  <2>10. tick' >= tick /\ \A g \in Files : version'[g] >= version[g]
      BY <2>1, <2>6 DEF Grounded
  <2>11. stamp'[f] = tick /\ (stamp[f] = tick => f \in twice')
      BY <2>2, ObjectsHaveKinds
  <2>12. \A g \in Files : version'[g] # version[g] =>
                              stamp'[g] = tick /\ (stamp[g] = tick => g \in twice')
      BY <2>6, <2>11
  <2> QED
      BY <2>1, <2>3, <2>7, <2>8, <2>9, <2>10, <2>12 DEF TreeMoved
<1>4. ASSUME NEW d1 \in Inside, NEW d2 \in Inside, NEW n1 \in Name, NEW n2 \in Name,
             Rename(d1, n1, d2, n2)
      PROVE  TreeMoved
  <2>1. /\ Moves /\ Stamps({d1, d2}) /\ UNCHANGED <<root, version, twice>>
        /\ at' = [at EXCEPT ![d1][n1] = Nil, ![d2][n2] = at[d1][n1]]
      BY <1>4 DEF Rename
  <2>2. d1 \in Dirs \ Outside /\ d2 \in Dirs \ Outside /\ at[d1][n1] \in Obj \cup {Nil}
      BY DEF Inside, Grounded
  <2>3. /\ at' \in [Dirs -> [Name -> Obj \cup {Nil}]]
        /\ \A d \in Dirs \ {d1, d2} : at'[d] = at[d]
      BY <2>1, <2>2 DEF Grounded
  <2>4. \A d \in {d1, d2}, n \in Name : at'[d][n] \in {at[d][n], Nil, at[d1][n1]}
      BY <2>1, <2>2 DEF Grounded
  <2>5. Nil \notin Dirs
      BY EvidenceAssumption, ObjectsHaveKinds
  <2>6. \A d \in {d1, d2}, n \in Name : at'[d][n] \notin Dirs \cap Outside
      BY <2>2, <2>4, <2>5 DEF Grounded
  <2> QED
      BY <1>2, <2>1, <2>2, <2>3, <2>6
<1>5. ASSUME NEW d \in Inside, NEW n \in Name, Remove(d, n) PROVE TreeMoved
  <2>1. /\ Moves /\ Stamps({d}) /\ UNCHANGED <<root, version, twice>>
        /\ at' = [at EXCEPT ![d][n] = Nil]
      BY <1>5 DEF Remove
  <2>2. d \in Dirs \ Outside /\ Nil \notin Dirs
      BY EvidenceAssumption, ObjectsHaveKinds DEF Inside
  <2>3. /\ at' \in [Dirs -> [Name -> Obj \cup {Nil}]]
        /\ \A c \in Dirs \ {d} : at'[c] = at[c]
        /\ \A m \in Name : at'[d][m] \in {at[d][m], Nil}
      BY <2>1, <2>2 DEF Grounded
  <2>4. \A c \in {d}, m \in Name : at'[c][m] \notin Dirs \cap Outside
      BY <2>2, <2>3 DEF Grounded
  <2> QED
      BY <1>2, <2>1, <2>2, <2>3, <2>4
<1>6. ASSUME NEW d \in Inside, NEW n \in Name, NEW o \in Files \cup Links, Plant(o, d, n)
      PROVE  TreeMoved
  <2>1. /\ Moves /\ Stamps({d}) /\ UNCHANGED <<root, version, twice>>
        /\ at' = [at EXCEPT ![d][n] = o]
      BY <1>6 DEF Plant
  <2>2. d \in Dirs \ Outside /\ o \in Obj /\ o \notin Dirs
      BY ObjectsHaveKinds DEF Inside
  <2>3. /\ at' \in [Dirs -> [Name -> Obj \cup {Nil}]]
        /\ \A c \in Dirs \ {d} : at'[c] = at[c]
        /\ \A m \in Name : at'[d][m] \in {at[d][m], o}
      BY <2>1, <2>2 DEF Grounded
  <2>4. \A c \in {d}, m \in Name : at'[c][m] \notin Dirs \cap Outside
      BY <2>2, <2>3 DEF Grounded
  <2> QED
      BY <1>2, <2>1, <2>2, <2>3, <2>4
<1>7. ASSUME NEW d \in Dirs, Swap(d) PROVE TreeMoved
  <2>1. /\ tick' = tick /\ UNCHANGED <<policy, walk, manifest, answer>>
        /\ stirred' = (stirred \/ Scanning) /\ root' = d
        /\ UNCHANGED <<at, version, stamp, twice>>
      BY <1>7 DEF Swap, Moves
  <2>2. stirred' \in BOOLEAN /\ (~stirred' => ~stirred /\ ~Scanning)
      BY <1>1, <2>1
  <2>3. Grounded'
      BY <2>1 DEF Grounded
  <2> QED
      BY <2>1, <2>2, <2>3 DEF TreeMoved, Grounded
<1>8. ASSUME TimePasses PROVE TreeMoved
  <2>1. /\ tick' = tick + 1 /\ UNCHANGED <<policy, walk, manifest, answer>>
        /\ UNCHANGED <<root, at, version, stamp, stirred, twice>>
      BY <1>8 DEF TimePasses, tree
  <2>2. Grounded'
      BY <2>1 DEF Grounded
  <2> QED
      BY <2>1, <2>2 DEF TreeMoved, Grounded, tree
<1> QED
    BY <1>3, <1>4, <1>5, <1>6, <1>7, <1>8 DEF Others

LEMMA OthersStay ==
    ASSUME Evidenced, Others
    PROVE  Evidenced'
<1>1. Grounded /\ TreeMoved
    BY OthersMoveTheTree DEF Evidenced
<1>2. PICK w, ms, a : w = walk /\ ms = manifest /\ a = answer
    OBVIOUS
<1>3. walk' = w /\ manifest' = ms /\ answer' = a /\ policy' = policy
    BY <1>1, <1>2 DEF TreeMoved
<1>4. /\ Paced(w, ms) /\ AtHand(w) /\ Fences(w, ms) /\ Opened(w, a) /\ Exact(w, ms)
    BY <1>2 DEF Evidenced, Evident
<1>5. w \in Walkers /\ ms \in Seq(Manifests)
    BY <1>4 DEF Paced
<1>6. AtHand(w)'
    BY <1>3, <1>4 DEF AtHand
<1>7. Fences(w, ms)'
  <2>1. twice \subseteq twice'
      BY <1>1 DEF TreeMoved
  <2>2. \A e, m, os : Sober(e, m, os) => Sober(e, m, os)'
      BY <2>1 DEF Sober
  <2>3. Hashing(w)'
    <3> SUFFICES ASSUME w.pc = "hash"
                 PROVE  /\ version'[w.held] >= w.read[1] /\ stamp'[w.held] >= w.read[2]
                        /\ version'[w.held] # w.read[1] /\ stamp'[w.held] = w.read[2]
                              => w.held \in twice'
        BY DEF Hashing
    <3>1. PICK f \in Files : f = w.held
        BY <1>4 DEF AtHand
    <3>2. PICK v \in Nat, s \in Nat : v = w.read[1] /\ s = w.read[2]
        BY <1>4 DEF AtHand
    <3>3. /\ version[f] >= v /\ stamp[f] >= s
          /\ version[f] # v /\ stamp[f] = s => f \in twice
        BY <1>4, <3>1, <3>2 DEF Fences, Hashing
    <3>4. /\ version[f] \in Nat /\ version'[f] \in Nat /\ stamp[f] \in Nat
          /\ tick \in Nat /\ stamp[f] <= tick /\ stamp'[f] \in {stamp[f], tick}
          /\ version'[f] >= version[f]
        BY <1>1, ObjectsHaveKinds DEF TreeMoved, Grounded
    <3>5. version'[f] # version[f] =>
              stamp'[f] = tick /\ (stamp[f] = tick => f \in twice')
        BY <1>1 DEF TreeMoved
    <3>6. version'[f] >= v /\ stamp'[f] >= s
        BY <3>3, <3>4
    <3>7. version'[f] # v /\ stamp'[f] = s => f \in twice'
        BY <2>1, <3>3, <3>4, <3>5
    <3> QED
        BY <3>1, <3>2, <3>6, <3>7
  <2>4. \A i \in 1..Len(ms) : \A e \in ms[i].entries : Sober(e, ms[i], w.os)'
      BY <1>4, <2>2 DEF Fences
  <2> QED
      BY <1>4, <2>3, <2>4 DEF Fences
<1>8. Opened(w, a)'
  <2>1. \A d \in Dirs : stamp'[d] = 0 => stamp[d] = 0
      BY <1>1, ObjectsHaveKinds DEF TreeMoved, Grounded
  <2>2. AtHolder(w) => w.frames[1].dir \in Dirs
    <3>1. w.frames \in Seq(FrameSet) /\ (AtHolder(w) => Len(w.frames) = 1)
        BY <1>4, <1>5 DEF Paced, Walkers
    <3>2. AtHolder(w) => w.frames[1] \in FrameSet
        BY <3>1
    <3> QED
        BY <3>2 DEF FrameSet
  <2> QED
      BY <1>4, <2>1, <2>2 DEF Opened
<1>9. Exact(w, ms)'
  <2> SUFFICES ASSUME ~stirred', w.pc # "refused"
               PROVE  /\ Waited(w, ms)'
                      /\ \A i \in 1..Len(ms) : Clear(ms[i])' /\ Sound(ms[i])'
                      /\ \A i \in 1..Len(ms) :
                            ~(i = Len(ms) /\ Walking(w)') => Whole(ms[i])'
                      /\ Walking(w)' => Current(w, Last(ms))'
                      /\ Len(ms) > 0 => Dated(ms)'
      BY DEF Exact
  <2>1. ~stirred /\ (UNCHANGED tree \/ ~Scanning)
      BY <1>1 DEF TreeMoved
  <2>2. /\ Waited(w, ms)
        /\ \A i \in 1..Len(ms) : Clear(ms[i]) /\ Sound(ms[i])
        /\ \A i \in 1..Len(ms) : ~(i = Len(ms) /\ Walking(w)) => Whole(ms[i])
        /\ Walking(w) => Current(w, Last(ms))
        /\ Len(ms) > 0 => Dated(ms)
      BY <1>4, <2>1 DEF Exact
  <2>3. \A e, t : Tells(e, t)' <=> Tells(e, t)
      BY <1>3 DEF Tells
  <2>4. \A m : /\ Clear(m)' <=> Clear(m)
               /\ Sound(m)' <=> Sound(m)
               /\ Whole(m)' <=> Whole(m)
      BY <2>3 DEF Clear, Sound, Whole, Told
  <2>5. /\ tick' >= tick /\ tick \in Nat /\ tick' \in Nat
        /\ \A o \in Obj : /\ stamp[o] \in Nat /\ stamp[o] <= tick
                          /\ stamp'[o] \in {stamp[o], tick}
      BY <1>1 DEF TreeMoved, Grounded
  <2>6. Len(ms) = 0 => manifest = <<>>
      BY <1>2, <1>5
  <2>7. Waited(w, ms)'
    <3>1. CASE stamp' = stamp
        BY <2>2, <2>5, <3>1 DEF Waited, Walking
    <3>2. CASE ~Scanning
        BY <1>2, <2>6, <3>2 DEF Scanning, Waited, Walking
    <3> QED
        BY <2>1, <3>1, <3>2 DEF tree
  <2>8. Walking(w)' => Current(w, Last(ms))'
    <3> SUFFICES ASSUME Walking(w) PROVE Current(w, Last(ms))'
        BY DEF Walking
    <3>1. UNCHANGED <<root, at, version, stamp>>
        BY <1>2, <2>1 DEF Scanning, Walking, tree
    <3>2. Shown' = Shown
        BY <3>1 DEF Shown, Named
    <3>3. \A d, n : RecordOf(d, n)' = RecordOf(d, n)
        BY <3>1 DEF RecordOf, LinkCount
    <3>4. \A m, t : Told(m, t)' <=> Told(m, t)
        BY <2>3 DEF Told
    <3> QED
        BY <2>2, <3>1, <3>2, <3>3, <3>4 DEF Current
  <2>9. Len(ms) > 0 => Dated(ms)'
    <3> SUFFICES ASSUME Len(ms) > 0, NEW e \in ms[1].entries, NEW t \in ms[1].shown,
                        Tells(e, t), KindOf[t[3]] = "file"
                 PROVE  /\ e.stamp < tick' /\ e.stamp <= stamp'[t[3]]
                        /\ stamp'[t[3]] = e.stamp => version'[t[3]] = t[4]
                        /\ Len(ms) > 1 =>
                             \A d \in ms[2].entries, u \in ms[2].shown :
                               Tells(d, u) /\ u[3] = t[3] /\ d.stamp = e.stamp
                                  => u[4] = t[4]
        BY <2>3 DEF Dated
    <3>1. /\ e.stamp < tick /\ e.stamp <= stamp[t[3]]
          /\ stamp[t[3]] = e.stamp => version[t[3]] = t[4]
          /\ Len(ms) > 1 =>
               \A d \in ms[2].entries, u \in ms[2].shown :
                 Tells(d, u) /\ u[3] = t[3] /\ d.stamp = e.stamp => u[4] = t[4]
        BY <2>2 DEF Dated
    <3>2. e.stamp \in Nat /\ t[3] \in Obj /\ t[3] \in Files
      <4>1. ms[1] \in Manifests
          BY <1>5
      <4>2. e \in Entries /\ t \in Sights
          BY <4>1 DEF Manifests
      <4> QED
          BY <4>2, ObjectsHaveKinds DEF Entries, Sights
    <3>3. PICK f \in Files : f = t[3] /\ stamp[f] \in Nat /\ stamp[f] <= tick
                             /\ stamp'[f] \in {stamp[f], tick}
        BY <2>5, <3>2
    <3>4. version'[f] # version[f] => stamp'[f] = tick
        BY <1>1 DEF TreeMoved
    <3>5. stamp'[f] = e.stamp => version'[f] = t[4]
        BY <2>5, <3>1, <3>2, <3>3, <3>4
    <3>6. e.stamp < tick' /\ e.stamp <= stamp'[f]
        BY <2>5, <3>1, <3>2, <3>3
    <3> QED
        BY <3>1, <3>3, <3>5, <3>6
  <2>10. Walking(w)' <=> Walking(w)
      BY DEF Walking
  <2> QED
      BY <2>2, <2>4, <2>7, <2>8, <2>9, <2>10
<1>10. Paced(w, ms)' /\ Grounded' /\ stirred' \in BOOLEAN
    BY <1>1, <1>4 DEF Paced, AtHolder, Walking, TreeMoved
<1> QED
    BY <1>3, <1>6, <1>7, <1>8, <1>9, <1>10 DEF Evidenced, Evident

-----------------------------------------------------------------------------
(* The walker, in a tree that is as it is.                                    *)

StillTree == UNCHANGED <<tick, tree, policy, stirred, twice>>

LEMMA WalkerSteps ==
    ASSUME Evidenced, StillTree, Evident(walk', manifest', answer')
    PROVE  Evidenced'
<1>1. PICK w, ms, a : w = walk' /\ ms = manifest' /\ a = answer'
    OBVIOUS
<1>2. UNCHANGED <<tick, root, at, version, stamp, policy, stirred, twice>>
    BY DEF StillTree, tree
<1>3. Grounded' /\ stirred' \in BOOLEAN
    BY <1>2 DEF Evidenced, Grounded
<1>4. /\ Paced(w, ms) /\ AtHand(w) /\ Fences(w, ms) /\ Opened(w, a) /\ Exact(w, ms)
    BY <1>1 DEF Evident
<1>5. Paced(w, ms)' /\ AtHand(w)' /\ Opened(w, a)'
    BY <1>2, <1>4 DEF Paced, AtHolder, Walking, AtHand, Opened
<1>6. Fences(w, ms)'
    BY <1>2, <1>4 DEF Fences, Sober, Hashing
<1>7. \A e, t : Tells(e, t)' <=> Tells(e, t)
    BY <1>2 DEF Tells
<1>8. \A m, t : Told(m, t)' <=> Told(m, t)
    BY <1>7 DEF Told
<1>9. \A m : /\ Clear(m)' <=> Clear(m)
             /\ Sound(m)' <=> Sound(m)
             /\ Whole(m)' <=> Whole(m)
    BY <1>7, <1>8 DEF Clear, Sound, Whole
<1>10. Waited(w, ms)' <=> Waited(w, ms)
    BY <1>2 DEF Waited, Walking
<1>11. Dated(ms)' <=> Dated(ms)
    BY <1>2, <1>7 DEF Dated
<1>12. Current(w, Last(ms))' <=> Current(w, Last(ms))
  <2>1. Shown' = Shown
      BY <1>2 DEF Shown, Named
  <2>2. \A d, n : RecordOf(d, n)' = RecordOf(d, n)
      BY <1>2 DEF RecordOf, LinkCount
  <2> QED
      BY <1>2, <1>8, <2>1, <2>2 DEF Current
<1>13. Exact(w, ms)'
    BY <1>2, <1>4, <1>9, <1>10, <1>11, <1>12 DEF Exact, Walking
<1> QED
    BY <1>1, <1>3, <1>5, <1>6, <1>13 DEF Evidenced, Evident

Replaced(q, x, p) ==
    /\ p = [q EXCEPT ![Len(q)] = x] /\ Len(p) = Len(q) /\ p[Len(q)] = x
    /\ \A i \in 1..(Len(q) - 1) : i \in 1..Len(q) /\ p[i] = q[i]
Dropped(q, p) ==
    /\ p = SubSeq(q, 1, Len(q) - 1) /\ Len(p) = Len(q) - 1
    /\ \A i \in 1..Len(p) : i \in 1..Len(q) /\ p[i] = q[i]
Grown(q, x, p) ==
    /\ p = Append(q, x) /\ Len(p) = Len(q) + 1 /\ p[Len(q) + 1] = x
    /\ \A i \in 1..Len(q) : i \in 1..Len(p) /\ p[i] = q[i]

LEMMA TopIsReplaced ==
    ASSUME NEW S, NEW q \in Seq(S), Len(q) > 0, NEW x \in S
    PROVE  \E p \in Seq(S) : Replaced(q, x, p)
<1>1. PICK n \in Nat : n = Len(q) /\ n > 0
    OBVIOUS
<1>2. q \in [1..n -> S]
    BY <1>1
<1>3. PICK p : p = [q EXCEPT ![n] = x]
    OBVIOUS
<1>4. p \in [1..n -> S] /\ p[n] = x /\ \A i \in 1..n : i # n => p[i] = q[i]
    BY <1>1, <1>2, <1>3
<1>5. p \in Seq(S) /\ Len(p) = n
    BY <1>1, <1>4
<1>6. \A i \in 1..(n - 1) : i \in 1..n /\ i # n
    BY <1>1
<1>7. Replaced(q, x, p)
    BY <1>1, <1>3, <1>4, <1>5, <1>6 DEF Replaced
<1> QED
    BY <1>5, <1>7

LEMMA TopIsDropped ==
    ASSUME NEW S, NEW q \in Seq(S), Len(q) > 0
    PROVE  \E p \in Seq(S) : Dropped(q, p)
<1>1. PICK n \in Nat : n = Len(q) - 1 /\ n + 1 = Len(q)
    OBVIOUS
<1>2. PICK p : p = SubSeq(q, 1, n)
    OBVIOUS
<1>3. p \in Seq(S) /\ Len(p) = n /\ \A i \in 1..n : p[i] = q[i]
    BY <1>1, <1>2
<1>4. \A i \in 1..n : i \in 1..Len(q)
    BY <1>1
<1>5. Dropped(q, p)
    BY <1>1, <1>2, <1>3, <1>4 DEF Dropped
<1> QED
    BY <1>3, <1>5

LEMMA OneIsAppended ==
    ASSUME NEW S, NEW q \in Seq(S), NEW x \in S
    PROVE  \E p \in Seq(S) : Grown(q, x, p)
<1>1. PICK p : p = Append(q, x)
    OBVIOUS
<1>2. p \in Seq(S) /\ Len(p) = Len(q) + 1 /\ p[Len(q) + 1] = x
    BY <1>1
<1>3. \A i \in 1..Len(q) : p[i] = q[i]
    BY <1>1
<1>4. \A i \in 1..Len(q) : i \in 1..Len(p)
    BY <1>2
<1>5. Grown(q, x, p)
    BY <1>1, <1>2, <1>3, <1>4 DEF Grown
<1> QED
    BY <1>2, <1>5

\* A scan that is refused says nothing.
LEMMA RefusalFits ==
    ASSUME Evidenced, NEW a \in [marker : Obj \cup {Nil}, root : Obj \cup {Nil}]
    PROVE  Evident([Still EXCEPT !.pc = "refused"], manifest, a)
<1>1. PICK w : w = [Still EXCEPT !.pc = "refused"]
    OBVIOUS
<1>2. w = [pc |-> "refused", os |-> "posix", since |-> 0, frames |-> <<>>,
           record |-> Nil, held |-> Nil, read |-> Nil]
    BY <1>1 DEF Still
<1>3. /\ w.pc = "refused" /\ w.os = "posix" /\ Len(w.frames) = 0
      /\ w \in Walkers
  <2>1. <<>> \in Seq(FrameSet) /\ Len(<<>>) = 0
      OBVIOUS
  <2> QED
      BY <1>2, <2>1 DEF Walkers
<1>4. /\ Paced(walk, manifest) /\ Fences(walk, manifest)
    BY DEF Evidenced, Evident
<1>5. Paced(w, manifest) /\ AtHand(w) /\ Opened(w, a)
    BY <1>3, <1>4 DEF Paced, AtHand, Opened, AtHolder, Walking
<1>6. Fences(w, manifest)
    BY <1>3, <1>4 DEF Fences, Sober, Hashing
<1>7. Exact(w, manifest)
    BY <1>3 DEF Exact
<1> QED
    BY <1>1, <1>5, <1>6, <1>7 DEF Evident

LEMMA RefusedScanStays == ASSUME Evidenced, Refuses PROVE Evidenced'
<1>1. /\ StillTree /\ walk' = [Still EXCEPT !.pc = "refused"]
      /\ UNCHANGED <<manifest, answer>>
    BY DEF Refuses, Walks, StillTree, tree
<1>2. answer \in [marker : Obj \cup {Nil}, root : Obj \cup {Nil}]
    BY DEF Evidenced, Evident, Opened
<1> QED
    BY <1>1, <1>2, RefusalFits, WalkerSteps

-----------------------------------------------------------------------------
(* What there is to see.                                                      *)

Sight(n, m, o) == <<n, m, o, IF o \in Files THEN version[o] ELSE 0>>

LEMMA TopIsSeen ==
    ASSUME Grounded, NEW n \in Named(root)
    PROVE  Sight(n, Nil, at[root][n]) \in Shown
BY DEF Shown, Sight

LEMMA BelowIsSeen ==
    ASSUME Grounded, NEW n \in Named(root), NEW d, d = at[root][n], d \in Dirs,
           NEW m \in Named(d)
    PROVE  Sight(n, m, at[d][m]) \in Shown
BY DEF Shown, Sight

LEMMA NothingElseIsSeen ==
    ASSUME Grounded, NEW t \in Shown
    PROVE  \/ \E n \in Named(root) : t = Sight(n, Nil, at[root][n])
           \/ \E n \in Named(root) : \E m \in Named(at[root][n]) :
                 at[root][n] \in Dirs /\ t = Sight(n, m, at[at[root][n]][m])
BY DEF Shown, Sight

LEMMA SightsAreTyped ==
    ASSUME Grounded, NEW n \in Name, NEW m \in Name \cup {Nil}, NEW o \in Obj
    PROVE  /\ Sight(n, m, o) \in Sights
           /\ Sight(n, m, o)[1] = n /\ Sight(n, m, o)[2] = m /\ Sight(n, m, o)[3] = o
           /\ o \in Files => Sight(n, m, o)[4] = version[o]
           /\ o \notin Files => Sight(n, m, o)[4] = 0
<1>1. PICK v : v = IF o \in Files THEN version[o] ELSE 0
    OBVIOUS
<1>2. v \in Nat
    BY <1>1 DEF Grounded
<1>3. Sight(n, m, o) = <<n, m, o, v>>
    BY <1>1 DEF Sight
<1> QED
    BY <1>1, <1>2, <1>3 DEF Sights

\* Seen from the root: what is at a place, once.
LEMMA SeenAtItsPlace ==
    ASSUME Grounded, NEW t \in Shown
    PROVE  /\ t \in Sights /\ t = Sight(t[1], t[2], t[3])
           /\ t[1] \in Named(root) /\ t[2] \in Name \cup {Nil} /\ t[3] \in Obj
           /\ t[2] = Nil => t[3] = at[root][t[1]]
           /\ t[2] # Nil => /\ at[root][t[1]] \in Dirs
                            /\ t[2] \in Named(at[root][t[1]])
                            /\ t[3] = at[at[root][t[1]]][t[2]]
           /\ t[3] \in Files => t[4] = version[t[3]]
           /\ t[3] \notin Files => t[4] = 0
<1>1. CASE \E n \in Named(root) : t = Sight(n, Nil, at[root][n])
  <2>1. PICK n \in Named(root) : t = Sight(n, Nil, at[root][n])
      BY <1>1
  <2>2. n \in Name /\ at[root][n] \in Obj
      BY DEF Named, Grounded
  <2>3. /\ t \in Sights /\ t[1] = n /\ t[2] = Nil /\ t[3] = at[root][n]
        /\ at[root][n] \in Files => t[4] = version[at[root][n]]
        /\ at[root][n] \notin Files => t[4] = 0
      BY <2>1, <2>2, SightsAreTyped
  <2> QED
      BY <2>1, <2>2, <2>3
<1>2. CASE \E n \in Named(root) : \E m \in Named(at[root][n]) :
              at[root][n] \in Dirs /\ t = Sight(n, m, at[at[root][n]][m])
  <2>1. PICK n \in Named(root) : \E m \in Named(at[root][n]) :
              at[root][n] \in Dirs /\ t = Sight(n, m, at[at[root][n]][m])
      BY <1>2
  <2>2. PICK d : d = at[root][n]
      OBVIOUS
  <2>3. PICK m \in Named(d) : d \in Dirs /\ t = Sight(n, m, at[d][m])
      BY <2>1, <2>2
  <2>4. PICK o : o = at[d][m]
      OBVIOUS
  <2>5. n \in Name /\ m \in Name /\ m # Nil /\ o \in Obj
      BY <2>3, <2>4, EvidenceAssumption DEF Named, Grounded
  <2>6. /\ t \in Sights /\ t[1] = n /\ t[2] = m /\ t[3] = o
        /\ o \in Files => t[4] = version[o]
        /\ o \notin Files => t[4] = 0
      BY <2>3, <2>4, <2>5, SightsAreTyped
  <2> QED
      BY <2>2, <2>3, <2>4, <2>5, <2>6
<1> QED
    BY <1>1, <1>2, NothingElseIsSeen

LEMMA PlacesDiffer ==
    ASSUME NEW t, NEW u, Place(t) = Place(u)
    PROVE  t[1] = u[1] /\ t[2] = u[2]
<1>1. \A a, b, c : Len(<<a>>) = 1 /\ Len(<<b, c>>) = 2 /\ <<a>> # <<b, c>>
  <2> TAKE a, b, c
  <2>1. Len(<<a>>) = 1 /\ Len(<<b, c>>) = 2
      OBVIOUS
  <2> QED
      BY <2>1
<1>2. CASE t[2] = Nil /\ u[2] = Nil
    BY <1>2 DEF Place
<1>3. CASE t[2] # Nil /\ u[2] # Nil
    BY <1>3 DEF Place
<1>4. CASE t[2] = Nil /\ u[2] # Nil
    BY <1>1, <1>4 DEF Place
<1>5. CASE t[2] # Nil /\ u[2] = Nil
    BY <1>1, <1>5 DEF Place
<1> QED
    BY <1>2, <1>3, <1>4, <1>5

LEMMA ShownIsClear ==
    ASSUME Grounded
    PROVE  /\ Shown \in SUBSET Sights
           /\ \A t, u \in Shown : Place(t) = Place(u) => t = u
           /\ \A t \in Shown : KindOf[t[3]] # "file" => t[4] = 0
<1>1. \A t \in Shown : t \in Sights
    BY SeenAtItsPlace
<1>2. ASSUME NEW t \in Shown, NEW u \in Shown, Place(t) = Place(u) PROVE t = u
  <2>1. t[1] = u[1] /\ t[2] = u[2]
      BY <1>2, PlacesDiffer
  <2>2. t[3] = u[3]
      BY <2>1, SeenAtItsPlace
  <2> QED
      BY <2>1, <2>2, SeenAtItsPlace
<1>3. ASSUME NEW t \in Shown, KindOf[t[3]] # "file" PROVE t[4] = 0
    BY <1>3, SeenAtItsPlace, ObjectsHaveKinds
<1> QED
    BY <1>1, <1>2, <1>3

-----------------------------------------------------------------------------
(* Beginning.                                                                 *)

LEMMA EvidencedAtFirst == ScanInit => Evidenced
<1> SUFFICES ASSUME ScanInit PROVE Evidenced
    OBVIOUS
<1>1. PICK os \in Platform : walk = [Still EXCEPT !.os = os]
    BY DEF ScanInit
<1>2. /\ tick = 1 /\ root = Repo /\ at = Layout /\ version = [f \in Files |-> 0]
      /\ stamp = [o \in Obj |-> 0] /\ policy = {} /\ manifest = <<>>
      /\ answer = [marker |-> Nil, root |-> Nil] /\ stirred = FALSE /\ twice = {}
    BY DEF ScanInit
<1>3. Grounded
  <2>1. \A d \in Dirs, n \in Name : Layout[d][n] \in Obj \cup {Nil}
      BY EvidenceAssumption
  <2> QED
      BY <1>2, <2>1, EvidenceAssumption DEF Grounded
<1>4. /\ walk.pc = "start" /\ walk.os \in {"posix", "windows"} /\ walk.frames = <<>>
      /\ walk \in Walkers
  <2>1. walk = [pc |-> "start", os |-> os, since |-> 0, frames |-> <<>>,
                record |-> Nil, held |-> Nil, read |-> Nil]
      BY <1>1 DEF Still
  <2>2. <<>> \in Seq(FrameSet) /\ os \in {"posix", "windows"}
      BY EvidenceAssumption
  <2> QED
      BY <2>1, <2>2 DEF Walkers
<1>5. PICK w, ms, a : w = walk /\ ms = manifest /\ a = answer
    OBVIOUS
<1>6. /\ w.pc = "start" /\ Len(w.frames) = 0 /\ w \in Walkers
      /\ ms \in Seq(Manifests) /\ Len(ms) = 0
      /\ a \in [marker : Obj \cup {Nil}, root : Obj \cup {Nil}]
    BY <1>2, <1>4, <1>5
<1>7. Paced(w, ms) /\ AtHand(w) /\ Opened(w, a)
    BY <1>6 DEF Paced, AtHand, Opened, AtHolder, Walking
<1>8. Fences(w, ms) /\ Exact(w, ms)
    BY <1>6 DEF Fences, Hashing, Exact, Waited, Walking
<1> QED
    BY <1>2, <1>3, <1>5, <1>7, <1>8 DEF Evidenced, Evident

LEMMA FreezePolicyStays == ASSUME Evidenced, FreezePolicy PROVE Evidenced'
<1>1. PICK w, ms, a : w = walk' /\ ms = manifest' /\ a = answer'
    OBVIOUS
<1>2. /\ walk.pc = "start" /\ w = [walk EXCEPT !.pc = "quiesce", !.since = tick]
      /\ ms = manifest /\ a = answer
      /\ UNCHANGED <<tick, root, at, version, stamp, stirred, twice>>
      /\ policy' = {n \in EnvName : at[root][n] \in Dirs}
    BY <1>1 DEF FreezePolicy, tree
<1>3. Grounded' /\ stirred' \in BOOLEAN
    BY <1>2, EvidenceAssumption DEF Evidenced, Grounded
<1>4. /\ Paced(walk, ms) /\ Opened(walk, a) /\ tick \in Nat
      /\ walk \in Walkers
    BY <1>2 DEF Evidenced, Evident, Paced, Grounded
<1>5. /\ w.pc = "quiesce" /\ w.frames = walk.frames /\ w.since = tick /\ w \in Walkers
    BY <1>2, <1>4 DEF Walkers
<1>6. Len(ms) = 0 /\ Len(w.frames) = 0 /\ ms \in Seq(Manifests)
    BY <1>2, <1>4, <1>5 DEF Paced
<1>7. a \in [marker : Obj \cup {Nil}, root : Obj \cup {Nil}]
    BY <1>4 DEF Opened
<1>8. Paced(w, ms)' /\ AtHand(w)' /\ Opened(w, a)'
    BY <1>5, <1>6, <1>7 DEF Paced, AtHand, Opened, AtHolder, Walking
<1>9. \A o \in Obj : stamp'[o] <= w.since
    BY <1>2, <1>5 DEF Evidenced, Grounded
<1>10. Fences(w, ms)' /\ Exact(w, ms)'
    BY <1>5, <1>6, <1>9 DEF Fences, Hashing, Exact, Waited, Walking
<1> QED
    BY <1>1, <1>3, <1>8, <1>10 DEF Evidenced, Evident

LEMMA QuiesceStays == ASSUME Evidenced, Quiesce PROVE Evidenced'
<1>1. PICK w, ms, a : w = walk' /\ ms = manifest' /\ a = answer'
    OBVIOUS
<1>2. /\ walk.pc = "quiesce" /\ w = [walk EXCEPT !.pc = "open"]
      /\ ms = manifest /\ a = answer /\ StillTree
      /\ tick >= walk.since + Quiescence
    BY <1>1 DEF Quiesce, Walks, StillTree, tree
<1>3. /\ Paced(walk, ms) /\ Fences(walk, ms) /\ Opened(walk, a) /\ Exact(walk, ms)
      /\ walk \in Walkers
    BY <1>2 DEF Evidenced, Evident, Paced
<1>4. /\ w.pc = "open" /\ w.os = walk.os /\ w.frames = walk.frames /\ w \in Walkers
    BY <1>2, <1>3 DEF Walkers
<1>5. Len(ms) <= 1 /\ Len(w.frames) = 0 /\ ms \in Seq(Manifests)
    BY <1>2, <1>3, <1>4 DEF Paced
<1>6. Paced(w, ms) /\ AtHand(w) /\ Opened(w, a)
    BY <1>3, <1>4, <1>5 DEF Paced, AtHand, Opened, AtHolder, Walking
<1>7. Fences(w, ms)
    BY <1>3, <1>4, <1>5 DEF Fences, Hashing
<1>8. Waited(walk, ms) => Waited(w, ms)
  <2> SUFFICES ASSUME Waited(walk, ms), Len(ms) = 0, NEW o \in Obj PROVE stamp[o] < tick
      BY <1>4 DEF Waited, Walking
  <2>1. stamp[o] <= walk.since
      BY <1>2 DEF Waited
  <2>2. stamp[o] \in Nat /\ tick \in Nat /\ walk.since \in Nat /\ Quiescence \in Nat \ {0}
      BY <1>3, EvidenceAssumption DEF Evidenced, Grounded, Walkers
  <2> QED
      BY <1>2, <2>1, <2>2
<1>9. Exact(w, ms)
    BY <1>2, <1>3, <1>4, <1>8 DEF Exact, Walking
<1> QED
    BY <1>1, <1>2, <1>6, <1>7, <1>9, WalkerSteps DEF Evident

\* A directory that has just been opened: its names, and no record yet.
LEMMA FrameIsFresh ==
    ASSUME NEW d \in Dirs, NEW p \in Seq(Name)
    PROVE  \E f \in FrameSet : /\ f = Frame(d, p) /\ f.dir = d /\ f.path = p
                               /\ f.unasked = Named(d) /\ f.records = {}
<1>1. Named(d) \in SUBSET Name
    BY DEF Named
<1>2. PICK u \in SUBSET Name : u = Named(d)
    BY <1>1
<1>3. PICK f : f = Frame(d, p)
    OBVIOUS
<1>4. f = [dir |-> d, path |-> p, unasked |-> u, records |-> {}]
    BY <1>2, <1>3 DEF Frame
<1>5. f \in FrameSet
    BY <1>4 DEF FrameSet
<1> QED
    BY <1>2, <1>3, <1>4, <1>5

LEMMA OpenRootStays == ASSUME Evidenced, OpenRoot PROVE Evidenced'
<1>1. PICK w, ms, a, old : w = walk' /\ ms = manifest' /\ a = answer' /\ old = manifest
    OBVIOUS
<1>2. PICK m : m = [root |-> root, entries |-> {}, shown |-> Shown]
    OBVIOUS
<1>3. <<>> \in Seq(Name) /\ Len(<<>>) = 0
    OBVIOUS
<1>4. root \in Dirs /\ Grounded /\ tick \in Nat
    BY DEF Evidenced, Grounded
<1>5. PICK f \in FrameSet : /\ f = Frame(root, <<>>) /\ f.dir = root /\ f.path = <<>>
                            /\ f.unasked = Named(root) /\ f.records = {}
  <2>1. PICK p \in Seq(Name), d \in Dirs : p = <<>> /\ d = root
      BY <1>3, <1>4
  <2>2. PICK f \in FrameSet : /\ f = Frame(d, p) /\ f.dir = d /\ f.path = p
                              /\ f.unasked = Named(d) /\ f.records = {}
      BY FrameIsFresh
  <2> QED
      BY <2>1, <2>2
<1>6. /\ walk.pc = "open" /\ a = answer /\ StillTree /\ ms = Append(old, m)
      /\ w = [walk EXCEPT !.pc = "walk", !.since = tick, !.frames = <<f>>]
    BY <1>1, <1>2, <1>5 DEF OpenRoot, Walks, StillTree, tree
<1>7. /\ Paced(walk, old) /\ Fences(walk, old) /\ Opened(walk, a) /\ Exact(walk, old)
      /\ walk \in Walkers
    BY <1>1, <1>6 DEF Evidenced, Evident, Paced
<1>8. <<f>> \in Seq(FrameSet) /\ Len(<<f>>) = 1 /\ <<f>>[1] = f
    BY <1>5
<1>9. /\ w.pc = "walk" /\ w.os = walk.os /\ w.frames = <<f>> /\ w \in Walkers
    BY <1>4, <1>6, <1>7, <1>8 DEF Walkers
<1>10. m \in Manifests
    BY <1>2, <1>4, ShownIsClear DEF Manifests
<1>11. old \in Seq(Manifests) /\ Len(old) \in {0, 1}
  <2>1. old \in Seq(Manifests) /\ Len(old) <= 1
      BY <1>6, <1>7 DEF Paced
  <2>2. PICK k \in Nat : k = Len(old)
      BY <2>1
  <2>3. k \in {0, 1}
      BY <2>1, <2>2
  <2> QED
      BY <2>1, <2>2, <2>3
<1>12. /\ ms \in Seq(Manifests) /\ Len(ms) = Len(old) + 1 /\ ms[Len(old) + 1] = m
       /\ \A i \in 1..Len(old) : i \in 1..Len(ms) /\ ms[i] = old[i]
  <2>1. PICK p \in Seq(Manifests) : Grown(old, m, p)
      BY <1>10, <1>11, OneIsAppended
  <2> QED
      BY <1>6, <2>1 DEF Grown
<1>13. Last(ms) = m /\ \A i \in 1..Len(ms) : i # Len(ms) => i \in 1..Len(old) /\ ms[i] = old[i]
    BY <1>11, <1>12 DEF Last
<1>14. Paced(w, ms)
    BY <1>3, <1>5, <1>8, <1>9, <1>11, <1>12 DEF Paced, AtHolder, Walking
<1>15. AtHand(w) /\ Opened(w, a)
    BY <1>7, <1>9 DEF AtHand, Opened, AtHolder
<1>16. Fences(w, ms)
  <2>1. Fenced(f) /\ (f.dir \in Outside => m.root \in Outside)
      BY <1>2, <1>5 DEF Fenced
  <2>2. ASSUME NEW i \in 1..Len(ms), NEW e \in ms[i].entries
        PROVE  Sober(e, ms[i], w.os)
    <3>1. CASE i = Len(ms)
        BY <1>2, <1>13, <2>2, <3>1 DEF Last
    <3>2. CASE i # Len(ms)
        BY <1>7, <1>9, <1>13, <2>2, <3>2 DEF Fences
    <3> QED
        BY <3>1, <3>2
  <2>3. Hashing(w)
      BY <1>9 DEF Hashing
  <2> QED
      BY <1>8, <1>9, <1>13, <2>1, <2>2, <2>3 DEF Fences
<1>17. Exact(w, ms)
  <2> SUFFICES ASSUME ~stirred
               PROVE  /\ Waited(w, ms)
                      /\ \A i \in 1..Len(ms) : Clear(ms[i]) /\ Sound(ms[i])
                      /\ \A i \in 1..Len(ms) : i # Len(ms) => Whole(ms[i])
                      /\ Current(w, Last(ms))
                      /\ Dated(ms)
      BY <1>9 DEF Exact, Walking
  <2>1. /\ Waited(walk, old)
        /\ \A i \in 1..Len(old) : Clear(old[i]) /\ Sound(old[i]) /\ Whole(old[i])
        /\ Len(old) > 0 => Dated(old)
      BY <1>6, <1>7 DEF Exact, Walking
  <2>2. Waited(w, ms)
      BY <1>6, <1>9, <1>11, <1>12, <2>1 DEF Waited, Walking
  <2>3. Clear(m) /\ Sound(m)
      BY <1>2, <1>4, ShownIsClear DEF Clear, Sound
  <2>4. \A i \in 1..Len(ms) : Clear(ms[i]) /\ Sound(ms[i])
      BY <1>13, <2>1, <2>3 DEF Last
  <2>5. \A i \in 1..Len(ms) : i # Len(ms) => Whole(ms[i])
      BY <1>13, <2>1
  <2>6. Current(w, m)
    <3>1. \A t \in m.shown : ToCome(<<f>>, t)
        BY <1>2, <1>4, <1>5, <1>8, SeenAtItsPlace DEF ToCome, Pending
    <3> QED
        BY <1>2, <1>5, <1>8, <1>9, <3>1 DEF Current
  <2>7. Dated(ms)
    <3>1. CASE Len(old) = 0
        BY <1>2, <1>12, <3>1 DEF Dated
    <3>2. CASE Len(old) = 1
      <4>1. ms[1] = old[1] /\ Len(ms) = 2 /\ ms[2] = m
          BY <1>12, <3>2
      <4> QED
          BY <1>2, <2>1, <3>2, <4>1 DEF Dated
    <3> QED
        BY <1>11, <3>1, <3>2
  <2> QED
      BY <1>13, <2>2, <2>4, <2>5, <2>6, <2>7
<1> QED
    BY <1>1, <1>6, <1>14, <1>15, <1>16, <1>17, WalkerSteps DEF Evident

LEMMA OpenHolderStays == ASSUME Evidenced, OpenHolder PROVE Evidenced'
<1>1. PICK w, ms, a : w = walk' /\ ms = manifest' /\ a = answer'
    OBVIOUS
<1>2. <<>> \in Seq(Name) /\ Len(<<>>) = 0
    OBVIOUS
<1>3. root \in Dirs
    BY DEF Evidenced, Grounded
<1>4. PICK f \in FrameSet : /\ f = Frame(root, <<>>) /\ f.dir = root /\ f.path = <<>>
                            /\ f.unasked = Named(root) /\ f.records = {}
  <2>1. PICK p \in Seq(Name), d \in Dirs : p = <<>> /\ d = root
      BY <1>2, <1>3
  <2>2. PICK f \in FrameSet : /\ f = Frame(d, p) /\ f.dir = d /\ f.path = p
                              /\ f.unasked = Named(d) /\ f.records = {}
      BY FrameIsFresh
  <2> QED
      BY <2>1, <2>2
<1>5. /\ walk.pc = "start" /\ a = answer /\ StillTree /\ ms = manifest
      /\ w = [walk EXCEPT !.pc = "holder", !.frames = <<f>>]
    BY <1>1, <1>4 DEF OpenHolder, Walks, StillTree, tree
<1>6. /\ Paced(walk, ms) /\ Fences(walk, ms) /\ Opened(walk, a) /\ Exact(walk, ms)
      /\ walk \in Walkers
    BY <1>5 DEF Evidenced, Evident, Paced
<1>7. <<f>> \in Seq(FrameSet) /\ Len(<<f>>) = 1 /\ <<f>>[1] = f
    BY <1>4
<1>8. /\ w.pc = "holder" /\ w.os = walk.os /\ w.frames = <<f>> /\ w \in Walkers
    BY <1>5, <1>6, <1>7 DEF Walkers
<1>9. ms \in Seq(Manifests) /\ Len(ms) = 0
    BY <1>5, <1>6 DEF Paced
<1>10. Paced(w, ms) /\ AtHand(w)
    BY <1>2, <1>4, <1>7, <1>8, <1>9 DEF Paced, AtHand, AtHolder, Walking
<1>11. Opened(w, a)
    BY <1>4, <1>6, <1>7, <1>8 DEF Opened, AtHolder
<1>12. Fences(w, ms) /\ Exact(w, ms)
    BY <1>4, <1>7, <1>8, <1>9 DEF Fences, Fenced, Hashing, Exact, Waited, Walking
<1> QED
    BY <1>1, <1>5, <1>10, <1>11, <1>12, WalkerSteps DEF Evident

\* The directory that is open.
LEMMA OneIsOpen ==
    ASSUME Evidenced, Walking(walk) \/ AtHolder(walk)
    PROVE  \E F \in Seq(FrameSet), n \in Nat, f \in FrameSet :
              /\ F = walk.frames /\ n = Len(F) /\ n > 0 /\ f = F[n]
              /\ Top = f /\ Last(walk.frames) = f
              /\ Fenced(f) /\ Len(f.path) = n - 1
              /\ \A g : WithTop(g) = [F EXCEPT ![n] = g]
<1>1. Paced(walk, manifest) /\ Fences(walk, manifest) /\ walk \in Walkers
    BY DEF Evidenced, Evident, Paced
<1>2. PICK F \in Seq(FrameSet) : F = walk.frames
    BY <1>1 DEF Walkers
<1>3. PICK n \in Nat : n = Len(F) /\ n > 0
    BY <1>1, <1>2 DEF Paced
<1>4. PICK f \in FrameSet : f = F[n]
    BY <1>2, <1>3
<1>5. Fenced(f)
    BY <1>1, <1>2, <1>3, <1>4 DEF Fences
<1>6. Len(f.path) = n - 1
    BY <1>1, <1>2, <1>3, <1>4 DEF Paced
<1>7. Top = f /\ Last(walk.frames) = f /\ \A g : WithTop(g) = [F EXCEPT ![n] = g]
    BY <1>2, <1>3, <1>4 DEF Top, Last, WithTop
<1> QED
    BY <1>2, <1>3, <1>4, <1>5, <1>6, <1>7

-----------------------------------------------------------------------------
(* At the directory that is open last.                                        *)

Worked(P, g) ==
    /\ Len(P) = Len(walk.frames) /\ P[Len(P)] = g /\ Len(P) > 0
    /\ \A i \in 1..Len(P) : /\ i # Len(P) => P[i] = walk.frames[i]
                            /\ P[i].dir = walk.frames[i].dir
                            /\ P[i].path = walk.frames[i].path
                            /\ Fenced(P[i])

LEMMA TopIsWorked ==
    ASSUME Evidenced, Walking(walk) \/ AtHolder(walk), NEW g \in FrameSet,
           g.dir = Top.dir, g.path = Top.path, Fenced(g)
    PROVE  \E P \in Seq(FrameSet) : P = WithTop(g) /\ Worked(P, g)
<1>1. PICK F \in Seq(FrameSet), n \in Nat, f \in FrameSet :
         /\ F = walk.frames /\ n = Len(F) /\ n > 0 /\ f = F[n] /\ Top = f
         /\ \A h : WithTop(h) = [F EXCEPT ![n] = h]
    BY OneIsOpen
<1>2. PICK P \in Seq(FrameSet) : Replaced(F, g, P)
    BY <1>1, TopIsReplaced
<1>3. /\ P = [F EXCEPT ![n] = g] /\ Len(P) = n /\ P[n] = g
      /\ \A i \in 1..(n - 1) : P[i] = F[i]
    BY <1>1, <1>2 DEF Replaced
<1>4. \A i \in 1..n : i # n => P[i] = F[i]
    BY <1>1, <1>3
<1>5. \A i \in 1..n : Fenced(F[i])
    BY <1>1 DEF Evidenced, Evident, Fences
<1>6. ASSUME NEW i \in 1..n
      PROVE  P[i].dir = F[i].dir /\ P[i].path = F[i].path /\ Fenced(P[i])
    BY <1>1, <1>3, <1>4, <1>5
<1>7. Worked(P, g)
    BY <1>1, <1>3, <1>4, <1>6 DEF Worked
<1> QED
    BY <1>1, <1>3, <1>7

\* The walker goes on, at the same directories.
LEMMA PacedAtTop ==
    ASSUME Evidenced, Walking(walk) \/ AtHolder(walk), NEW g, NEW P, Worked(P, g),
           NEW v \in Walkers, v.frames = P, v.os = walk.os,
           v.pc = walk.pc \/ (Walking(walk) /\ v.pc = "walk"),
           NEW ms \in Seq(Manifests), Len(ms) = Len(manifest)
    PROVE  Paced(v, ms)
<1>1. Paced(walk, manifest)
    BY DEF Evidenced, Evident
<1>2. /\ Len(P) = Len(walk.frames) /\ Len(P) > 0
      /\ \A i \in 1..Len(P) : P[i].path = walk.frames[i].path
    BY DEF Worked
<1>3. \A i \in 1..Len(P) : Len(P[i].path) = i - 1
    BY <1>1, <1>2 DEF Paced
<1>4. Walking(v) <=> Walking(walk)
    BY DEF Walking
<1>5. AtHolder(v) <=> AtHolder(walk)
    BY DEF AtHolder, Walking
<1>6. v.pc \notin {"start", "quiesce", "open", "decided"}
    BY DEF Walking, AtHolder
<1>7. Len(ms) <= 2 /\ (AtHolder(walk) => Len(ms) = 0) /\ (Walking(walk) => Len(ms) > 0)
    BY <1>1 DEF Paced
<1> QED
    BY <1>1, <1>2, <1>3, <1>4, <1>5, <1>6, <1>7 DEF Paced

LEMMA FencesAtTop ==
    ASSUME Evidenced, Walking(walk) \/ AtHolder(walk), NEW g, NEW P, Worked(P, g),
           NEW v, v.frames = P, v.os = walk.os, v.pc \in {"walk", "holder"}
    PROVE  Fences(v, manifest)
<1>1. Fences(walk, manifest)
    BY DEF Evidenced, Evident
<1>2. \A i \in 1..Len(P) : i \in 1..Len(walk.frames) /\ P[i].dir = walk.frames[i].dir
                           /\ Fenced(P[i])
    BY DEF Worked
<1>3. Hashing(v)
    BY DEF Hashing
<1>4. \A i \in 1..Len(P) : Len(manifest) > 0 /\ P[i].dir \in Outside
                              => Last(manifest).root \in Outside
    BY <1>1, <1>2 DEF Fences
<1>5. \A i \in 1..Len(manifest) : \A e \in manifest[i].entries : Sober(e, manifest[i], v.os)
    BY <1>1 DEF Fences
<1> QED
    BY <1>2, <1>3, <1>4, <1>5 DEF Fences

\* What is still to come stays so while nothing is struck off.
LEMMA NothingIsStruckOff ==
    ASSUME NEW F, NEW P, Len(P) = Len(F), Len(F) \in Nat,
           \A i \in 1..Len(F) : /\ P[i].path = F[i].path
                                /\ \A x : Pending(F[i], x) => Pending(P[i], x),
           NEW t, ToCome(F, t), Len(F) > 0
    PROVE  ToCome(P, t)
<1>1. CASE Pending(F[1], t[1])
  <2>1. 1 \in 1..Len(F)
      OBVIOUS
  <2> QED
      BY <1>1, <2>1 DEF ToCome
<1>2. CASE Len(F) > 1 /\ t[2] # Nil /\ F[2].path = <<t[1]>> /\ Pending(F[2], t[2])
  <2>1. 2 \in 1..Len(F)
      BY <1>2
  <2> QED
      BY <1>2, <2>1 DEF ToCome
<1> QED
    BY <1>1, <1>2 DEF ToCome

LEMMA AskChildStays == ASSUME Evidenced, NEW n \in Name, AskChild(n) PROVE Evidenced'
<1>1. walk.pc \in {"walk", "holder"} /\ n \in Top.unasked
    BY DEF AskChild
<1>2. Walking(walk) \/ AtHolder(walk)
    BY <1>1 DEF Walking, AtHolder
<1>3. PICK f \in FrameSet : Top = f /\ Fenced(f)
    BY <1>2, OneIsOpen
<1>4. CASE at[f.dir][n] = Nil
    BY <1>3, <1>4, RefusedScanStays DEF AskChild
<1>5. CASE at[f.dir][n] # Nil
  <2>1. PICK d \in Dirs : d = f.dir
      BY <1>3 DEF FrameSet
  <2>2. PICK r : r = RecordOf(d, n)
      OBVIOUS
  <2>3. /\ r \in Listings /\ r.name = n /\ r.id = at[d][n] /\ r.kind = KindOf[r.id]
        /\ r.id \in Outside /\ (r.kind = "dir" \/ (r.kind = "file" /\ r.nlink = 1))
              => d \in Outside
      BY <1>5, <2>1, <2>2, RecordsAreFenced DEF Evidenced
  <2>4. PICK g : g = [f EXCEPT !.unasked = @ \ {n}, !.records = @ \cup {r}]
      OBVIOUS
  <2>5. /\ g \in FrameSet /\ g.dir = d /\ g.path = f.path
        /\ g.unasked = f.unasked \ {n} /\ g.records = f.records \cup {r}
      BY <2>1, <2>3, <2>4 DEF FrameSet
  <2>6. Fenced(g)
      BY <1>3, <2>1, <2>3, <2>5 DEF Fenced
  <2>7. PICK P \in Seq(FrameSet) : P = WithTop(g) /\ Worked(P, g)
      BY <1>2, <1>3, <2>1, <2>5, <2>6, TopIsWorked
  <2>8. /\ walk' = [walk EXCEPT !.frames = P] /\ UNCHANGED <<manifest, answer>>
        /\ StillTree
    <3>1. g = [Top EXCEPT !.unasked = @ \ {n},
                          !.records = @ \cup {RecordOf(Top.dir, n)}]
        BY <1>3, <2>1, <2>2, <2>4
    <3>2. WithTop(g) = P
        BY <2>7
    <3>3. at[Top.dir][n] # Nil
        BY <1>3, <1>5
    <3> QED
        BY <3>1, <3>2, <3>3 DEF AskChild, Walks, StillTree, tree
  <2>9. PICK v : v = walk'
      OBVIOUS
  <2>10. walk \in Walkers /\ manifest \in Seq(Manifests)
      BY DEF Evidenced, Evident, Paced
  <2>11. v \in Walkers /\ v.frames = P /\ v.pc = walk.pc /\ v.os = walk.os
      BY <2>7, <2>8, <2>9, <2>10 DEF Walkers
  <2>12. Paced(v, manifest) /\ Fences(v, manifest)
      BY <1>1, <1>2, <2>7, <2>10, <2>11, PacedAtTop, FencesAtTop
  <2>13. AtHand(v)
      BY <1>1, <2>11 DEF AtHand
  <2>14. Opened(v, answer)
    <3>1. Opened(walk, answer)
        BY DEF Evidenced, Evident
    <3>2. CASE walk.pc = "walk"
        BY <2>11, <3>1, <3>2 DEF Opened, AtHolder
    <3>3. CASE walk.pc = "holder"
      <4>1. Len(walk.frames) = 1
          BY <3>3 DEF Evidenced, Evident, Paced, AtHolder
      <4>2. P[1] = g /\ walk.frames[1] = f
          BY <1>3, <2>7, <4>1 DEF Worked, Top
      <4>3. \A x \in f.records : stamp[d] = 0 => x.id = Layout[d][x.name]
          BY <2>1, <3>1, <3>3, <4>2 DEF Opened, AtHolder
      <4>4. stamp[d] = 0 => r.id = Layout[d][r.name]
          BY <2>1, <2>3 DEF Evidenced, Grounded
      <4> QED
          BY <2>5, <2>11, <3>1, <3>3, <4>2, <4>3, <4>4 DEF Opened, AtHolder
    <3> QED
        BY <1>1, <3>2, <3>3
  <2>15. Exact(v, manifest)
    <3> SUFFICES ASSUME ~stirred
                 PROVE  Exact(v, manifest)
        BY DEF Exact
    <3>1. Exact(walk, manifest)
        BY DEF Evidenced, Evident
    <3>2. CASE walk.pc = "holder"
        BY <2>11, <3>1, <3>2 DEF Exact, Waited, Walking
    <3>3. CASE walk.pc = "walk"
      <4>1. Current(walk, Last(manifest))
          BY <3>1, <3>3 DEF Exact, Walking
      <4>2. PICK m : m = Last(manifest)
          OBVIOUS
      <4>3. PICK F \in Seq(FrameSet), k \in Nat :
               /\ F = walk.frames /\ k = Len(F) /\ k > 0 /\ f = F[k]
          BY <1>2, <1>3, OneIsOpen
      <4>4. /\ Len(P) = k /\ P[k] = g
            /\ \A i \in 1..k : /\ i # k => P[i] = F[i]
                               /\ P[i].dir = F[i].dir /\ P[i].path = F[i].path
          BY <2>7, <4>3 DEF Worked
      <4>5. \A x : Pending(f, x) => Pending(g, x)
          BY <2>3, <2>5 DEF Pending
      <4>6. \A i \in 1..k : \A x : Pending(F[i], x) => Pending(P[i], x)
          BY <4>3, <4>4, <4>5
      <4>7. \A t \in m.shown : Told(m, t) \/ ToCome(P, t)
          BY <4>1, <4>2, <4>3, <4>4, <4>6, NothingIsStruckOff DEF Current
      <4>8. ASSUME NEW i \in 1..k, NEW x \in P[i].records
            PROVE  x = RecordOf(P[i].dir, x.name)
        <5>1. \A y \in F[i].records : y = RecordOf(F[i].dir, y.name)
            BY <4>1, <4>3 DEF Current
        <5>2. CASE i # k
            BY <4>4, <4>8, <5>1, <5>2
        <5>3. CASE i = k
            BY <2>1, <2>2, <2>3, <2>5, <4>3, <4>4, <4>8, <5>1, <5>3
        <5> QED
            BY <5>2, <5>3
      <4>9. /\ P[1].dir = F[1].dir
            /\ k > 1 => P[2].dir = F[2].dir /\ P[2].path = F[2].path
          BY <4>3, <4>4
      <4>10. Current(v, m)
        <5>1. /\ m.root = root /\ m.shown = Shown /\ F[1].dir = root
              /\ k > 1 => \E q \in Name : F[2].path = <<q>> /\ F[2].dir = at[root][q]
              /\ \A e \in m.entries : e.stamp = stamp[e.id]
            BY <4>1, <4>2, <4>3 DEF Current
        <5> QED
            BY <2>11, <3>3, <4>4, <4>7, <4>8, <4>9, <5>1 DEF Current
      <4> QED
          BY <2>11, <3>1, <3>3, <4>2, <4>10 DEF Exact, Waited, Walking
    <3> QED
        BY <1>1, <3>2, <3>3
  <2> QED
      BY <2>8, <2>9, <2>12, <2>13, <2>14, <2>15, WalkerSteps DEF Evident
<1> QED
    BY <1>4, <1>5

-----------------------------------------------------------------------------
(* A record is taken up.                                                      *)

LEMMA RecordIsTakenUp ==
    ASSUME Evidenced, Walking(walk), NEW v \in Walkers, Walking(v),
           v.frames = walk.frames, v.os = walk.os, AtHand(v), Hashing(v),
           ~stirred => /\ v.pc = "hash" => v.read[1] = version[v.held]
                       /\ v.pc = "relink" => v.read = v.record.id,
           StillTree, walk' = v, UNCHANGED <<manifest, answer>>
    PROVE  Evidenced'
<1>1. /\ Paced(walk, manifest) /\ Fences(walk, manifest) /\ Opened(walk, answer)
      /\ Exact(walk, manifest)
    BY DEF Evidenced, Evident
<1>2. Paced(v, manifest)
    BY <1>1 DEF Paced, Walking, AtHolder
<1>3. Fences(v, manifest)
    BY <1>1 DEF Fences
<1>4. Opened(v, answer)
    BY <1>1 DEF Opened, Walking, AtHolder
<1>5. Exact(v, manifest)
  <2> SUFFICES ASSUME ~stirred PROVE Exact(v, manifest)
      BY DEF Exact
  <2>1. walk.pc # "refused" /\ walk.pc \notin {"quiesce", "open"}
        /\ v.pc # "refused" /\ v.pc \notin {"quiesce", "open"}
      BY DEF Walking
  <2>2. Current(v, Last(manifest))
      BY <1>1, <2>1 DEF Exact, Current
  <2>3. Waited(v, manifest)
      BY <1>1, <2>1 DEF Exact, Waited
  <2> QED
      BY <1>1, <2>1, <2>2, <2>3 DEF Exact
<1> QED
    BY <1>2, <1>3, <1>4, <1>5, WalkerSteps DEF Evident

\* The record that is ready is one of the directory that is open last.
LEMMA ReadyAtTop ==
    ASSUME Evidenced, NEW r, Ready(r)
    PROVE  /\ walk.pc = "walk" /\ Walking(walk) /\ r \in Listings
           /\ r \in Last(walk.frames).records /\ Last(walk.frames).unasked = {}
           /\ Top = Last(walk.frames) /\ r.kind = KindOf[r.id]
<1>1. walk.pc = "walk" /\ Walking(walk) /\ Top.unasked = {} /\ r \in Top.records
    BY DEF Ready, Walking
<1>2. PICK f \in FrameSet : Top = f /\ Last(walk.frames) = f /\ Fenced(f)
    BY <1>1, OneIsOpen
<1> QED
    BY <1>1, <1>2 DEF FrameSet, Fenced

LEMMA OpenFileStays == ASSUME Evidenced, NEW r, OpenFile(r) PROVE Evidenced'
<1>1. Ready(r) /\ r.kind = "file" /\ r.nlink = 1 /\ ~Reduced(r)
    BY DEF OpenFile
<1>2. CASE ~Bound(r)
    BY <1>2, RefusedScanStays DEF OpenFile
<1>3. CASE Bound(r)
  <2>1. /\ walk.pc = "walk" /\ Walking(walk) /\ r \in Listings
        /\ r \in Last(walk.frames).records /\ Last(walk.frames).unasked = {}
        /\ Top = Last(walk.frames) /\ r.kind = KindOf[r.id]
      BY <1>1, ReadyAtTop
  <2>2. PICK h : h = r.id
      OBVIOUS
  <2>3. h \in Files /\ h \in Obj
      BY <1>1, <2>1, <2>2, ObjectsHaveKinds DEF Listings
  <2>4. PICK x, y, z : x = version[h] /\ y = stamp[h] /\ z = LinkCount(h)
      OBVIOUS
  <2>5. x \in Nat /\ y \in Nat /\ z \in Nat
      BY <2>3, <2>4, NamesAreCounted DEF Evidenced, Grounded
  <2>6. /\ walk' = [walk EXCEPT !.pc = "hash", !.record = r, !.held = h,
                                !.read = <<x, y, z>>]
        /\ UNCHANGED <<manifest, answer>> /\ StillTree
    <3>1. Reached(r) = h
        BY <1>3, <2>2 DEF Bound
    <3> QED
        BY <1>3, <2>4, <3>1 DEF OpenFile, Walks, StillTree, tree
  <2>7. PICK v : v = walk'
      OBVIOUS
  <2>8. walk \in Walkers
      BY DEF Evidenced, Evident, Paced
  <2>9. /\ v \in Walkers /\ v.pc = "hash" /\ v.os = walk.os
        /\ v.frames = walk.frames /\ v.record = r /\ v.held = h
        /\ v.read = <<x, y, z>>
      BY <2>1, <2>3, <2>5, <2>6, <2>7, <2>8 DEF Walkers
  <2>10. v.read \in Nat \X Nat \X Nat /\ v.read[1] = x /\ v.read[2] = y
      BY <2>5, <2>9
  <2>11. AtHand(v)
      BY <1>1, <2>1, <2>2, <2>3, <2>9, <2>10 DEF AtHand, Reduced, PathOf
  <2>12. Hashing(v)
      BY <2>4, <2>5, <2>9, <2>10 DEF Hashing
  <2>13. Walking(v) /\ v.read[1] = version[v.held]
      BY <2>4, <2>9, <2>10 DEF Walking
  <2> QED
      BY <2>1, <2>6, <2>7, <2>9, <2>11, <2>12, <2>13, RecordIsTakenUp
<1> QED
    BY <1>2, <1>3

LEMMA FindLinkStays == ASSUME Evidenced, NEW r, FindLink(r) PROVE Evidenced'
<1>1. Ready(r) /\ r.kind = "link" /\ walk.os = "posix"
    BY DEF FindLink
<1>2. CASE ~Bound(r)
    BY <1>2, RefusedScanStays DEF FindLink
<1>3. CASE Bound(r)
  <2>1. /\ walk.pc = "walk" /\ Walking(walk) /\ r \in Listings
        /\ r \in Last(walk.frames).records /\ Last(walk.frames).unasked = {}
      BY <1>1, ReadyAtTop
  <2>2. /\ walk' = [walk EXCEPT !.pc = "link", !.record = r]
        /\ UNCHANGED <<manifest, answer>> /\ StillTree
      BY <1>3 DEF FindLink, Walks, StillTree, tree
  <2>3. PICK v : v = walk'
      OBVIOUS
  <2>4. walk \in Walkers
      BY DEF Evidenced, Evident, Paced
  <2>5. /\ v \in Walkers /\ v.pc = "link" /\ v.os = walk.os
        /\ v.frames = walk.frames /\ v.record = r
      BY <2>1, <2>2, <2>3, <2>4 DEF Walkers
  <2>6. AtHand(v) /\ Hashing(v) /\ Walking(v)
      BY <1>1, <2>1, <2>5 DEF AtHand, Hashing, Walking
  <2> QED
      BY <2>1, <2>2, <2>3, <2>5, <2>6, RecordIsTakenUp
<1> QED
    BY <1>2, <1>3

LEMMA ReadLinkStays == ASSUME Evidenced, ReadLink PROVE Evidenced'
<1>1. walk.pc = "link" /\ Walking(walk)
    BY DEF ReadLink, Walking
<1>2. PICK found : found = Reached(walk.record)
    OBVIOUS
<1>3. CASE found \notin Links
    BY <1>2, <1>3, RefusedScanStays DEF ReadLink
<1>4. CASE found \in Links
  <2>1. /\ walk' = [walk EXCEPT !.pc = "relink", !.read = found]
        /\ UNCHANGED <<manifest, answer>> /\ StillTree
      BY <1>2, <1>4 DEF ReadLink, Walks, StillTree, tree
  <2>2. walk \in Walkers /\ AtHand(walk) /\ Exact(walk, manifest)
      BY DEF Evidenced, Evident, Paced
  <2>3. PICK v : v = walk'
      OBVIOUS
  <2>4. /\ v \in Walkers /\ v.pc = "relink" /\ v.os = walk.os
        /\ v.frames = walk.frames /\ v.record = walk.record /\ v.read = found
      BY <1>4, <2>1, <2>2, <2>3, ObjectsHaveKinds DEF Walkers
  <2>5. AtHand(v) /\ Hashing(v) /\ Walking(v)
      BY <1>1, <1>4, <2>2, <2>4 DEF AtHand, Hashing, Walking
  <2>6. ASSUME ~stirred PROVE found = walk.record.id
    <3>1. Current(walk, Last(manifest))
        BY <1>1, <2>2, <2>6 DEF Exact
    <3>2. PICK F \in Seq(FrameSet), k \in Nat, f \in FrameSet :
             /\ F = walk.frames /\ k = Len(F) /\ k > 0 /\ f = F[k] /\ Top = f
             /\ Last(walk.frames) = f
        BY <1>1, OneIsOpen
    <3>3. PICK r : r = walk.record /\ r \in f.records
        BY <1>1, <2>2, <3>2 DEF AtHand
    <3>4. r = RecordOf(f.dir, r.name)
        BY <3>1, <3>2, <3>3 DEF Current
    <3>5. r.id = at[f.dir][r.name]
        BY <3>4 DEF RecordOf
    <3> QED
        BY <1>2, <3>2, <3>3, <3>5 DEF Reached
  <2> QED
      BY <1>1, <2>1, <2>3, <2>4, <2>5, <2>6, RecordIsTakenUp
<1> QED
    BY <1>3, <1>4

-----------------------------------------------------------------------------
(* A holder.                                                                  *)

LEMMA HolderGoesOn ==
    ASSUME Evidenced, AtHolder(walk), NEW v \in Walkers, AtHolder(v),
           v.frames = walk.frames, v.os = walk.os, NEW a, Opened(v, a),
           StillTree, walk' = v, UNCHANGED manifest, answer' = a
    PROVE  Evidenced'
<1>1. Paced(walk, manifest) /\ Fences(walk, manifest) /\ Exact(walk, manifest)
    BY DEF Evidenced, Evident
<1>2. Len(manifest) = 0
    BY <1>1 DEF Paced
<1>3. Paced(v, manifest) /\ AtHand(v)
    BY <1>1 DEF Paced, AtHand, Walking, AtHolder
<1>4. Fences(v, manifest)
    BY <1>1, <1>2 DEF Fences, Hashing, AtHolder
<1>5. Exact(v, manifest)
    BY <1>1, <1>2 DEF Exact, Waited, Walking, AtHolder
<1> QED
    BY <1>3, <1>4, <1>5, WalkerSteps DEF Evident

LEMMA TheHolderIsOpen ==
    ASSUME Evidenced, AtHolder(walk)
    PROVE  \E f \in FrameSet :
              /\ f = walk.frames[1] /\ Top = f /\ Fenced(f)
              /\ stamp[f.dir] = 0 =>
                    /\ \A r \in f.records : r.id = Layout[f.dir][r.name]
                    /\ walk.pc # "holder" => answer.marker = Layout[f.dir][Marker]
<1>1. PICK f \in FrameSet : Top = f /\ Fenced(f)
    BY OneIsOpen
<1>2. Len(walk.frames) = 1 /\ Opened(walk, answer)
    BY DEF Evidenced, Evident, Paced
<1>3. f = walk.frames[1]
    BY <1>1, <1>2 DEF Top
<1> QED
    BY <1>1, <1>2, <1>3 DEF Opened

LEMMA ReadMarkerStays == ASSUME Evidenced, ReadMarker PROVE Evidenced'
<1>1. walk.pc = "holder" /\ AtHolder(walk)
    BY DEF ReadMarker, AtHolder
<1>2. CASE ~\E r \in Listed(Marker, "file") : Bound(r)
    BY <1>2, RefusedScanStays DEF ReadMarker
<1>3. CASE \E r \in Listed(Marker, "file") : Bound(r)
  <2>1. PICK f \in FrameSet :
              /\ f = walk.frames[1] /\ Top = f /\ Fenced(f)
              /\ stamp[f.dir] = 0 => \A r \in f.records : r.id = Layout[f.dir][r.name]
      BY <1>1, TheHolderIsOpen
  <2>2. PICK d \in Dirs : d = f.dir
      BY <2>1 DEF FrameSet
  <2>3. /\ walk' = [walk EXCEPT !.pc = "roots"] /\ UNCHANGED manifest /\ StillTree
        /\ \E r \in Listed(Marker, "file") : answer' = [answer EXCEPT !.marker = Reached(r)]
      BY <1>3 DEF ReadMarker, Walks, StillTree, tree
  <2>4. PICK r \in Listed(Marker, "file") : answer' = [answer EXCEPT !.marker = Reached(r)]
      BY <2>3
  <2>5. r \in f.records /\ r.name = Marker /\ r \in Listings /\ Marker \in Name
      BY <2>1, EvidenceAssumption DEF Listed, FrameSet
  <2>6. PICK o : o = at[d][Marker]
      OBVIOUS
  <2>7. Reached(r) = o /\ o \in Obj \cup {Nil}
      BY <2>1, <2>2, <2>5, <2>6 DEF Reached, Evidenced, Grounded
  <2>8. stamp[d] = 0 => o = Layout[d][Marker]
      BY <2>6 DEF Evidenced, Grounded
  <2>9. walk \in Walkers /\ Opened(walk, answer)
      BY DEF Evidenced, Evident, Paced
  <2>10. PICK v, a : v = walk' /\ a = answer'
      OBVIOUS
  <2>11. /\ v \in Walkers /\ v.pc = "roots" /\ v.os = walk.os
         /\ v.frames = walk.frames
      BY <2>3, <2>9, <2>10 DEF Walkers
  <2>12. a \in [marker : Obj \cup {Nil}, root : Obj \cup {Nil}] /\ a.marker = o
      BY <2>4, <2>7, <2>9, <2>10 DEF Opened
  <2>13. Opened(v, a)
      BY <2>1, <2>2, <2>8, <2>11, <2>12 DEF Opened, AtHolder
  <2>14. AtHolder(v)
      BY <2>11 DEF AtHolder
  <2> QED
      BY <1>1, <2>3, <2>10, <2>11, <2>13, <2>14, HolderGoesOn
<1> QED
    BY <1>2, <1>3

LEMMA OpenHolderRootStays == ASSUME Evidenced, OpenHolderRoot PROVE Evidenced'
<1>1. walk.pc = "roots" /\ AtHolder(walk)
    BY DEF OpenHolderRoot, AtHolder
<1>2. CASE ~\E r \in Listed(HolderRoot, "dir") : Bound(r) /\ at[r.id][Git] = Nil
  <2>1. PICK a : a = [marker |-> Nil, root |-> Nil]
      OBVIOUS
  <2>2. /\ walk' = [Still EXCEPT !.pc = "refused"] /\ answer' = a
        /\ UNCHANGED manifest /\ StillTree
      BY <1>2, <2>1 DEF OpenHolderRoot, Walks, StillTree, tree
  <2>3. a \in [marker : Obj \cup {Nil}, root : Obj \cup {Nil}]
      BY <2>1
  <2>4. Evident([Still EXCEPT !.pc = "refused"], manifest, a)
      BY <2>3, RefusalFits
  <2> QED
      BY <2>2, <2>4, WalkerSteps
<1>3. CASE \E r \in Listed(HolderRoot, "dir") : Bound(r) /\ at[r.id][Git] = Nil
  <2>1. PICK f \in FrameSet :
              /\ f = walk.frames[1] /\ Top = f /\ Fenced(f)
              /\ stamp[f.dir] = 0 =>
                    /\ \A r \in f.records : r.id = Layout[f.dir][r.name]
                    /\ answer.marker = Layout[f.dir][Marker]
      BY <1>1, TheHolderIsOpen
  <2>2. PICK d \in Dirs : d = f.dir
      BY <2>1 DEF FrameSet
  <2>3. /\ walk' = [walk EXCEPT !.pc = "answered"] /\ UNCHANGED manifest /\ StillTree
        /\ \E r \in Listed(HolderRoot, "dir") : answer' = [answer EXCEPT !.root = Reached(r)]
      BY <1>3 DEF OpenHolderRoot, Walks, StillTree, tree
  <2>4. PICK r \in Listed(HolderRoot, "dir") : answer' = [answer EXCEPT !.root = Reached(r)]
      BY <2>3
  <2>5. PICK o : o = at[d][HolderRoot]
      OBVIOUS
  <2>6. PICK s \in Listed(HolderRoot, "dir") : Bound(s) /\ at[s.id][Git] = Nil
      BY <1>3
  <2>7. /\ r.name = HolderRoot /\ s.name = HolderRoot /\ s \in f.records
        /\ s.kind = "dir" /\ s \in Listings /\ s.kind = KindOf[s.id]
      BY <2>1 DEF Listed, FrameSet, Fenced
  <2>8. Reached(r) = o /\ Reached(s) = o
      BY <2>1, <2>2, <2>5, <2>7 DEF Reached
  <2>9. s.id = o
      BY <2>6, <2>8 DEF Bound
  <2>10. o \in Dirs /\ o \in Obj /\ at[o][Git] = Nil
      BY <2>6, <2>7, <2>9, ObjectsHaveKinds DEF Listings
  <2>11. stamp[o] = 0 => Layout[o][Git] = Nil
      BY <2>10 DEF Evidenced, Grounded
  <2>12. stamp[d] = 0 => o = Layout[d][HolderRoot]
      BY <2>5 DEF Evidenced, Grounded
  <2>13. walk \in Walkers /\ Opened(walk, answer)
      BY DEF Evidenced, Evident, Paced
  <2>14. PICK v, a : v = walk' /\ a = answer'
      OBVIOUS
  <2>15. /\ v \in Walkers /\ v.pc = "answered" /\ v.os = walk.os
         /\ v.frames = walk.frames
      BY <2>3, <2>13, <2>14 DEF Walkers
  <2>16. /\ a \in [marker : Obj \cup {Nil}, root : Obj \cup {Nil}]
         /\ a.marker = answer.marker /\ a.root = o
      BY <2>4, <2>8, <2>10, <2>13, <2>14 DEF Opened
  <2>17. Opened(v, a)
      BY <2>1, <2>2, <2>10, <2>11, <2>12, <2>15, <2>16 DEF Opened, AtHolder
  <2>18. AtHolder(v)
      BY <2>15 DEF AtHolder
  <2> QED
      BY <1>1, <2>3, <2>14, <2>15, <2>17, <2>18, HolderGoesOn
<1> QED
    BY <1>2, <1>3

-----------------------------------------------------------------------------
(* A directory is closed.                                                     *)

LEMMA NothingPendsWhenItIsClosed ==
    ASSUME NEW F, NEW P, Dropped(F, P), NEW k \in Nat, k = Len(F), k > 0,
           Last(F).unasked = {}, Last(F).records = {}, NEW t, ToCome(F, t)
    PROVE  Len(P) > 0 /\ ToCome(P, t)
<1>1. \A x : ~Pending(F[k], x)
    BY DEF Last, Pending
<1>2. Len(P) = k - 1 /\ \A i \in 1..(k - 1) : P[i] = F[i]
    BY DEF Dropped
<1>3. CASE Pending(F[1], t[1])
  <2>1. k # 1
      BY <1>1, <1>3
  <2>2. 1 \in 1..(k - 1)
      BY <2>1
  <2>3. P[1] = F[1] /\ Len(P) > 0
      BY <1>2, <2>2
  <2> QED
      BY <1>3, <2>3 DEF ToCome
<1>4. CASE k > 1 /\ t[2] # Nil /\ F[2].path = <<t[1]>> /\ Pending(F[2], t[2])
  <2>1. k # 2
      BY <1>1, <1>4
  <2>2. 2 \in 1..(k - 1) /\ k - 1 > 1
      BY <1>4, <2>1
  <2>3. P[2] = F[2] /\ Len(P) > 1
      BY <1>2, <2>2
  <2>4. ToCome(P, t)
      BY <1>4, <2>3 DEF ToCome
  <2>5. Len(P) > 0
      BY <1>2, <2>2
  <2> QED
      BY <2>4, <2>5
<1> QED
    BY <1>3, <1>4 DEF ToCome

LEMMA LeaveDirectoryStays == ASSUME Evidenced, LeaveDirectory PROVE Evidenced'
<1>1. /\ walk.pc = "walk" /\ Walking(walk) /\ Top.unasked = {} /\ Top.records = {}
      /\ walk \in Walkers /\ tick \in Nat
    BY DEF LeaveDirectory, Walking, Evidenced, Evident, Paced, Grounded
<1>2. PICK F \in Seq(FrameSet), k \in Nat :
         /\ F = walk.frames /\ k = Len(F) /\ k > 0 /\ Top = Last(F)
    BY <1>1, OneIsOpen
<1>3. PICK P \in Seq(FrameSet) : Dropped(F, P)
    BY <1>2, TopIsDropped
<1>4. /\ P = SubSeq(F, 1, k - 1) /\ Len(P) = k - 1
      /\ \A i \in 1..Len(P) : i \in 1..k /\ P[i] = F[i]
    BY <1>2, <1>3 DEF Dropped
<1>5. PICK ms \in Seq(Manifests), n \in Nat :
         ms = manifest /\ n = Len(ms) /\ n > 0 /\ n <= 2
    BY <1>1 DEF Evidenced, Evident, Paced
<1>6. /\ Paced(walk, ms) /\ Fences(walk, ms) /\ Opened(walk, answer) /\ Exact(walk, ms)
    BY <1>5 DEF Evidenced, Evident
<1>7. PICK v : v = walk'
    OBVIOUS
<1>8. PICK s, pc :
         /\ v = [walk EXCEPT !.frames = P, !.since = s, !.pc = pc]
         /\ s = IF P = <<>> THEN tick ELSE walk.since
         /\ pc = IF P # <<>> THEN "walk"
                 ELSE IF Len(ms) = 1 THEN "quiesce" ELSE "decided"
         /\ UNCHANGED <<manifest, answer>> /\ StillTree
    BY <1>2, <1>4, <1>5, <1>7 DEF LeaveDirectory, Walks, StillTree, tree
<1>9. P = <<>> <=> Len(P) = 0
    BY <1>3
<1>10. CASE Len(P) > 0
  <2>1. v = [walk EXCEPT !.frames = P, !.since = s, !.pc = "walk"] /\ s \in Nat
    <3>1. P # <<>> /\ walk.since \in Nat
        BY <1>1, <1>9, <1>10 DEF Walkers
    <3> QED
        BY <1>8, <3>1
  <2>2. v \in Walkers /\ v.frames = P /\ v.pc = "walk" /\ v.os = walk.os
      BY <1>1, <2>1 DEF Walkers
  <2>3. Paced(v, ms)
    <3>1. \A i \in 1..Len(P) : Len(P[i].path) = i - 1
        BY <1>2, <1>4, <1>6 DEF Paced
    <3> QED
        BY <1>1, <1>6, <1>10, <2>2, <3>1 DEF Paced, Walking, AtHolder
  <2>4. AtHand(v) /\ Hashing(v) /\ Opened(v, answer)
      BY <1>6, <2>2 DEF AtHand, Hashing, Opened, AtHolder
  <2>5. Fences(v, ms)
      BY <1>2, <1>4, <1>6, <2>2, <2>4 DEF Fences
  <2>6. Exact(v, ms)
    <3> SUFFICES ASSUME ~stirred PROVE Exact(v, ms)
        BY DEF Exact
    <3>1. PICK m : m = Last(ms)
        OBVIOUS
    <3>2. Current(walk, m)
        BY <1>1, <1>6, <3>1 DEF Exact
    <3>3. /\ m.root = root /\ m.shown = Shown /\ F[1].dir = root
          /\ k > 1 => \E q \in Name : F[2].path = <<q>> /\ F[2].dir = at[root][q]
          /\ \A e \in m.entries : e.stamp = stamp[e.id]
          /\ \A i \in 1..k : \A r \in F[i].records : r = RecordOf(F[i].dir, r.name)
          /\ \A t \in m.shown : Told(m, t) \/ ToCome(F, t)
        BY <1>2, <3>2 DEF Current
    <3>4. \A t \in m.shown : Told(m, t) \/ ToCome(P, t)
        BY <1>1, <1>2, <1>3, <3>3, NothingPendsWhenItIsClosed
    <3>5. P[1] = F[1] /\ (Len(P) > 1 => P[2] = F[2] /\ k > 1)
        BY <1>2, <1>4, <1>10
    <3>6. Current(v, m)
        BY <1>4, <2>2, <3>3, <3>4, <3>5 DEF Current
    <3> QED
        BY <1>1, <1>6, <2>2, <3>1, <3>6 DEF Exact, Waited, Walking
  <2> QED
      BY <1>5, <1>7, <1>8, <2>3, <2>4, <2>5, <2>6, WalkerSteps DEF Evident
<1>11. CASE Len(P) = 0
  <2>1. /\ v = [walk EXCEPT !.frames = P, !.since = tick, !.pc = pc]
        /\ pc = IF Len(ms) = 1 THEN "quiesce" ELSE "decided"
      BY <1>8, <1>9, <1>11
  <2>2. /\ v \in Walkers /\ v.frames = P /\ v.os = walk.os
        /\ v.pc = IF Len(ms) = 1 THEN "quiesce" ELSE "decided"
      BY <1>1, <2>1 DEF Walkers
  <2>3. /\ v.pc \in {"quiesce", "decided"} /\ (v.pc = "quiesce" <=> Len(ms) = 1)
        /\ ~Walking(v) /\ ~AtHolder(v)
      BY <2>2 DEF Walking, AtHolder
  <2>4. Paced(v, ms)
    <3>1. \A i \in 1..Len(P) : Len(P[i].path) = i - 1
        BY <1>11
    <3>2. v.pc = "decided" => Len(ms) = 2
        BY <1>5, <2>2
    <3>3. v.pc # "start" /\ v.pc # "open" /\ (v.pc = "quiesce" => Len(ms) <= 1)
        BY <1>5, <2>3
    <3>4. ms \in Seq(Manifests) /\ Len(ms) <= 2
        BY <1>5
    <3> QED
        BY <1>11, <2>2, <2>3, <3>1, <3>2, <3>3, <3>4 DEF Paced
  <2>5. AtHand(v) /\ Hashing(v) /\ Opened(v, answer)
      BY <1>6, <2>3 DEF AtHand, Hashing, Opened
  <2>6. Fences(v, ms)
      BY <1>6, <1>11, <2>2, <2>5 DEF Fences
  <2>7. Exact(v, ms)
    <3> SUFFICES ASSUME ~stirred PROVE Exact(v, ms)
        BY DEF Exact
    <3>1. PICK m : m = Last(ms)
        OBVIOUS
    <3>2. Current(walk, m)
        BY <1>1, <1>6, <3>1 DEF Exact
    <3>3. \A t \in m.shown : Told(m, t) \/ ToCome(F, t)
        BY <1>2, <3>2 DEF Current
    <3>4. \A t : ~ToCome(F, t)
        BY <1>1, <1>2, <1>3, <1>11, NothingPendsWhenItIsClosed
    <3>5. Whole(m)
        BY <3>3, <3>4 DEF Whole
    <3>6. \A i \in 1..Len(ms) : Whole(ms[i])
        BY <1>1, <1>6, <3>1, <3>5 DEF Exact, Last
    <3>7. Waited(v, ms)
      <4>1. Len(ms) # 0
          BY <1>5
      <4> QED
          BY <2>3, <4>1 DEF Waited
    <3> QED
        BY <1>1, <1>6, <2>3, <3>6, <3>7 DEF Exact
  <2> QED
      BY <1>5, <1>7, <1>8, <2>4, <2>5, <2>6, <2>7, WalkerSteps DEF Evident
<1>12. Len(P) > 0 \/ Len(P) = 0
    BY <1>2, <1>4
<1> QED
    BY <1>10, <1>11, <1>12

-----------------------------------------------------------------------------
(* A record is described.                                                     *)

\* It is struck off, and a directory is entered.
Onwards(Q, r) ==
    /\ \A i \in 1..Len(walk.frames) :
          /\ Q[i].dir = walk.frames[i].dir /\ Q[i].path = walk.frames[i].path
          /\ Fenced(Q[i]) /\ Q[i].records \subseteq walk.frames[i].records
          /\ \A x : Pending(walk.frames[i], x) =>
                       Pending(Q[i], x) \/ (i = Len(walk.frames) /\ x = r.name)
    /\ IF r.kind = "dir"
       THEN /\ Len(Q) = Len(walk.frames) + 1
            /\ LET h == Q[Len(walk.frames) + 1] IN
               h.dir = r.id /\ h.path = PathOf(r) /\ h.unasked = Named(r.id)
               /\ h.records = {}
       ELSE Len(Q) = Len(walk.frames)

LEMMA WalkerGoesOnwards ==
    ASSUME Evidenced, Walking(walk), NEW r \in Last(walk.frames).records, r.kind = KindOf[r.id]
    PROVE  /\ Rest(r) \in Seq(FrameSet)
           /\ r.kind # "dir" => Onwards(Rest(r), r)
           /\ r.kind = "dir" =>
                 /\ Append(Rest(r), Frame(r.id, PathOf(r))) \in Seq(FrameSet)
                 /\ Onwards(Append(Rest(r), Frame(r.id, PathOf(r))), r)
<1>1. PICK F \in Seq(FrameSet), k \in Nat, f \in FrameSet :
         /\ F = walk.frames /\ k = Len(F) /\ k > 0 /\ f = F[k]
         /\ Top = f /\ Last(walk.frames) = f /\ Fenced(f)
    BY OneIsOpen
<1>2. r \in f.records /\ r \in Listings
    BY <1>1 DEF FrameSet
<1>3. PICK g : g = [f EXCEPT !.records = @ \ {r}]
    OBVIOUS
<1>4. /\ g \in FrameSet /\ g.dir = f.dir /\ g.path = f.path
      /\ g.unasked = f.unasked /\ g.records = f.records \ {r}
    BY <1>1, <1>3 DEF FrameSet
<1>5. Fenced(g)
    BY <1>1, <1>4 DEF Fenced
<1>6. PICK P \in Seq(FrameSet) : P = WithTop(g) /\ Worked(P, g)
    BY <1>1, <1>4, <1>5, TopIsWorked
<1>7. P = Rest(r)
    BY <1>1, <1>3, <1>6 DEF Rest
<1>8. /\ Len(P) = k /\ P[k] = g
      /\ \A i \in 1..k : /\ i # k => P[i] = F[i]
                         /\ P[i].dir = F[i].dir /\ P[i].path = F[i].path /\ Fenced(P[i])
    BY <1>1, <1>6 DEF Worked
<1>9. \A x : Pending(f, x) => Pending(g, x) \/ x = r.name
    BY <1>4 DEF Pending
<1>10. \A i \in 1..k :
          /\ P[i].records \subseteq F[i].records
          /\ \A x : Pending(F[i], x) => Pending(P[i], x) \/ (i = k /\ x = r.name)
    BY <1>1, <1>4, <1>8, <1>9
<1>11. r.kind # "dir" => Onwards(P, r)
    BY <1>1, <1>8, <1>10 DEF Onwards
<1>12. ASSUME r.kind = "dir"
       PROVE  /\ Append(P, Frame(r.id, PathOf(r))) \in Seq(FrameSet)
              /\ Onwards(Append(P, Frame(r.id, PathOf(r))), r)
  <2>1. PICK d \in Dirs, p \in Seq(Name) : d = r.id /\ p = PathOf(r)
    <3>1. r.id \in Dirs
        BY <1>2, <1>12, ObjectsHaveKinds DEF Listings
    <3>2. f.path \in Seq(Name) /\ r.name \in Name
        BY <1>1, <1>2 DEF FrameSet, Listings
    <3>3. PathOf(r) \in Seq(Name)
        BY <1>1, <3>2 DEF PathOf
    <3> QED
        BY <3>1, <3>3
  <2>2. PICK h \in FrameSet : /\ h = Frame(d, p) /\ h.dir = d /\ h.path = p
                              /\ h.unasked = Named(d) /\ h.records = {}
      BY FrameIsFresh
  <2>3. PICK Q \in Seq(FrameSet) : Grown(P, h, Q)
      BY OneIsAppended
  <2>4. Q = Append(P, h) /\ Len(Q) = k + 1 /\ Q[k + 1] = h /\ \A i \in 1..k : Q[i] = P[i]
      BY <1>8, <2>3 DEF Grown
  <2>5. \A i \in 1..k :
           /\ Q[i].dir = F[i].dir /\ Q[i].path = F[i].path
           /\ Fenced(Q[i]) /\ Q[i].records \subseteq F[i].records
           /\ \A x : Pending(F[i], x) => Pending(Q[i], x) \/ (i = k /\ x = r.name)
    <3> SUFFICES ASSUME NEW i \in 1..k
                 PROVE  /\ Q[i].dir = F[i].dir /\ Q[i].path = F[i].path
                        /\ Fenced(Q[i]) /\ Q[i].records \subseteq F[i].records
                        /\ \A x : Pending(F[i], x) =>
                                     Pending(Q[i], x) \/ (i = k /\ x = r.name)
        OBVIOUS
    <3>1. Q[i] = P[i]
        BY <2>4
    <3> QED
        BY <1>8, <1>10, <3>1
  <2>6. /\ Q[k + 1].dir = r.id /\ Q[k + 1].path = PathOf(r)
        /\ Q[k + 1].unasked = Named(r.id) /\ Q[k + 1].records = {}
      BY <2>1, <2>2, <2>4
  <2>7. F = walk.frames /\ k = Len(walk.frames) /\ Len(Q) = k + 1
      BY <1>1, <2>4
  <2>8. Onwards(Q, r)
      BY <1>12, <2>5, <2>6, <2>7 DEF Onwards
  <2> QED
      BY <2>1, <2>2, <2>4, <2>8
<1> QED
    BY <1>7, <1>11, <1>12

LEMMA ShortPaths ==
    ASSUME NEW S, NEW p \in Seq(S), NEW x \in S
    PROVE  /\ Append(p, x) \in Seq(S) /\ Len(Append(p, x)) = Len(p) + 1
           /\ Len(p) = 0 => Append(p, x) = <<x>> /\ Head(Append(p, x)) = x
<1>1. Append(p, x) \in Seq(S) /\ Len(Append(p, x)) = Len(p) + 1
    OBVIOUS
<1>2. Len(p) = 0 => p = <<>>
    OBVIOUS
<1>3. Append(<<>>, x) = <<x>> /\ Head(<<x>>) = x
    OBVIOUS
<1> QED
    BY <1>1, <1>2, <1>3

LEMMA WhatIsAppended ==
    ASSUME NEW S, NEW s \in Seq(S), NEW x \in S, NEW n \in Nat, n = Len(s)
    PROVE  /\ Append(s, x) \in Seq(S) /\ Len(Append(s, x)) = n + 1
           /\ n > 0 => Append(s, x)[1] = s[1]
           /\ Append(s, x)[n + 1] = x
OBVIOUS

LEMMA PathOfTwo ==
    ASSUME NEW S, NEW a \in S, NEW x \in S
    PROVE  Append(<<a>>, x) = <<a, x>> /\ Head(<<a, x>>) = a
<1>1. PICK s, n, t : s = <<a>> /\ n = 1 /\ t = <<a, x>>
    OBVIOUS
<1>2. s \in Seq(S) /\ n \in Nat /\ n = Len(s) /\ s[1] = a
    BY <1>1
<1>3. PICK p : p = Append(s, x)
    OBVIOUS
<1>4. p \in Seq(S) /\ Len(p) = n + 1 /\ (n > 0 => p[1] = s[1]) /\ p[n + 1] = x
    BY <1>2, <1>3, WhatIsAppended
<1>5. PICK k \in Nat : k = n + 1 /\ k = 2 /\ n > 0
    BY <1>1
<1>6. t \in Seq(S) /\ Len(t) = k /\ t[1] = a /\ t[k] = x
    BY <1>1, <1>5
<1>7. Len(p) = k /\ p[1] = a /\ p[k] = x
    BY <1>2, <1>4, <1>5
<1>8. p \in [1..k -> S] /\ t \in [1..k -> S]
    BY <1>4, <1>6, <1>7
<1>9. \A i \in 1..k : i = 1 \/ i = k
    BY <1>5
<1>10. p = t
    BY <1>6, <1>7, <1>8, <1>9
<1>11. Head(t) = a
    BY <1>1
<1> QED
    BY <1>1, <1>3, <1>10, <1>11

\* What a record of the tree as it is says is to be seen at its place.
LEMMA RecordIsSeen ==
    ASSUME Evidenced, Walking(walk), NEW m, Current(walk, m),
           NEW r \in Last(walk.frames).records, Len(PathOf(r)) <= 2
    PROVE  \E t \in Shown : Place(t) = PathOf(r) /\ t[3] = r.id /\ t[1] = Head(PathOf(r))
<1>1. PICK F \in Seq(FrameSet), k \in Nat, f \in FrameSet :
         /\ F = walk.frames /\ k = Len(F) /\ k > 0 /\ f = F[k]
         /\ Top = f /\ Last(walk.frames) = f /\ Len(f.path) = k - 1
    BY OneIsOpen
<1>2. r \in f.records /\ r \in Listings
    BY <1>1 DEF FrameSet
<1>3. PICK n, o : n = r.name /\ o = r.id
    OBVIOUS
<1>4. n \in Name /\ o \in Obj /\ o # Nil /\ f.path \in Seq(Name) /\ n # Nil
    BY <1>1, <1>2, <1>3, EvidenceAssumption DEF Listings, FrameSet
<1>5. o = at[f.dir][n]
  <2>1. r = RecordOf(f.dir, n)
      BY <1>1, <1>2, <1>3 DEF Current
  <2> QED
      BY <1>3, <2>1 DEF RecordOf
<1>6. PICK q : q = PathOf(r) /\ q = Append(f.path, n)
    BY <1>1, <1>3 DEF PathOf
<1>7. Len(q) = k /\ k <= 2
  <2>1. Len(q) = Len(f.path) + 1
      BY <1>4, <1>6, ShortPaths
  <2> QED
      BY <1>1, <1>6, <2>1
<1>8. F[1].dir = root /\ (k > 1 => \E x \in Name : F[2].path = <<x>> /\ F[2].dir = at[root][x])
    BY <1>1 DEF Current
<1>9. CASE k = 1
  <2>1. q = <<n>> /\ Head(q) = n
      BY <1>1, <1>4, <1>6, <1>9, ShortPaths
  <2>2. f.dir = root /\ n \in Named(root)
      BY <1>1, <1>4, <1>5, <1>8, <1>9 DEF Named
  <2>3. PICK t : t = Sight(n, Nil, o)
      OBVIOUS
  <2>4. t \in Shown
      BY <1>5, <2>2, <2>3, TopIsSeen DEF Evidenced
  <2>5. t[1] = n /\ t[2] = Nil /\ t[3] = o
      BY <2>3 DEF Sight
  <2> QED
      BY <1>3, <1>6, <2>1, <2>4, <2>5 DEF Place
<1>10. CASE k = 2
  <2>1. PICK x \in Name : f.path = <<x>> /\ f.dir = at[root][x]
      BY <1>1, <1>8, <1>10
  <2>2. q = <<x, n>> /\ Head(q) = x
      BY <1>4, <1>6, <2>1, PathOfTwo
  <2>3. PICK d \in Dirs : d = f.dir
      BY <1>1 DEF FrameSet
  <2>4. x \in Named(root) /\ n \in Named(d)
      BY <1>4, <1>5, <2>1, <2>3, EvidenceAssumption, ObjectsHaveKinds DEF Named
  <2>5. PICK t : t = Sight(x, n, o)
      OBVIOUS
  <2>6. t \in Shown
      BY <1>5, <2>1, <2>3, <2>4, <2>5, BelowIsSeen DEF Evidenced
  <2>7. t[1] = x /\ t[2] = n /\ t[3] = o
      BY <1>4, <2>5, SightsAreTyped DEF Evidenced
  <2> QED
      BY <1>3, <1>4, <1>6, <2>2, <2>6, <2>7 DEF Place
<1>11. k = 1 \/ k = 2
  <2>1. k \in Nat /\ k > 0 /\ k <= 2
      BY <1>1, <1>7
  <2> QED
      BY <2>1
<1> QED
    BY <1>9, <1>10, <1>11

\* What was to come is still, but for what was at the place of the record.
LEMMA OneIsStruckOff ==
    ASSUME Evidenced, Walking(walk), NEW m, Current(walk, m),
           NEW r \in Last(walk.frames).records, r.kind = KindOf[r.id],
           NEW Q \in Seq(FrameSet), Onwards(Q, r),
           NEW t \in Shown, ToCome(walk.frames, t)
    PROVE  ToCome(Q, t) \/ Place(t) = PathOf(r)
<1>1. PICK F \in Seq(FrameSet), k \in Nat, f \in FrameSet :
         /\ F = walk.frames /\ k = Len(F) /\ k > 0 /\ f = F[k]
         /\ Top = f /\ Last(walk.frames) = f /\ Len(f.path) = k - 1
    BY OneIsOpen
<1>2. r \in f.records /\ r \in Listings
    BY <1>1 DEF FrameSet
<1>3. PICK n, o : n = r.name /\ o = r.id
    OBVIOUS
<1>4. n \in Name /\ o \in Obj /\ f.path \in Seq(Name)
    BY <1>1, <1>2, <1>3 DEF Listings, FrameSet
<1>5. o = at[f.dir][n]
  <2>1. r = RecordOf(f.dir, n)
      BY <1>1, <1>2, <1>3 DEF Current
  <2> QED
      BY <1>3, <2>1 DEF RecordOf
<1>6. PathOf(r) = Append(f.path, n)
    BY <1>1, <1>3 DEF PathOf
<1>7. /\ \A i \in 1..k :
            /\ Q[i].path = F[i].path
            /\ \A x : Pending(F[i], x) => Pending(Q[i], x) \/ (i = k /\ x = n)
      /\ r.kind = "dir" =>
            Len(Q) = k + 1 /\ Q[k + 1].path = PathOf(r) /\ Q[k + 1].unasked = Named(o)
      /\ r.kind # "dir" => Len(Q) = k
    BY <1>1, <1>3 DEF Onwards
<1>8. ASSUME NEW i \in 1..k, NEW x, Pending(F[i], x), i # k \/ x # n
      PROVE  Pending(Q[i], x)
    BY <1>7, <1>8
<1>9. CASE Pending(F[1], t[1])
  <2>1. 1 \in 1..k
      BY <1>1
  <2>2. CASE k # 1 \/ t[1] # n
      BY <1>8, <1>9, <2>1, <2>2 DEF ToCome
  <2>3. CASE k = 1 /\ t[1] = n
    <3>1. PathOf(r) = <<n>>
        BY <1>1, <1>4, <1>6, <2>3, ShortPaths
    <3>2. CASE t[2] = Nil
        BY <2>3, <3>1, <3>2 DEF Place
    <3>3. CASE t[2] # Nil
      <4>1. F[1].dir = root
          BY <1>1 DEF Current
      <4>2. at[root][n] = o
          BY <1>1, <1>5, <2>3, <4>1
      <4>3. o \in Dirs /\ t[2] \in Named(o)
          BY <2>3, <3>3, <4>2, SeenAtItsPlace DEF Evidenced
      <4>4. r.kind = "dir"
          BY <1>3, <4>3, ObjectsHaveKinds
      <4>5. Len(Q) = 2 /\ Q[2].path = <<n>> /\ Q[2].unasked = Named(o)
          BY <1>7, <2>3, <3>1, <4>4
      <4> QED
          BY <2>3, <3>3, <4>3, <4>5 DEF ToCome, Pending
    <3> QED
        BY <3>2, <3>3
  <2> QED
      BY <2>2, <2>3
<1>10. CASE k > 1 /\ t[2] # Nil /\ F[2].path = <<t[1]>> /\ Pending(F[2], t[2])
  <2>1. 2 \in 1..k /\ Len(Q) > 1
      BY <1>7, <1>10
  <2>2. CASE k # 2 \/ t[2] # n
    <3>1. Pending(Q[2], t[2]) /\ Q[2].path = <<t[1]>>
        BY <1>7, <1>8, <1>10, <2>1, <2>2
    <3> QED
        BY <1>10, <2>1, <3>1 DEF ToCome
  <2>3. CASE k = 2 /\ t[2] = n
    <3>1. f.path = <<t[1]>>
        BY <1>1, <1>10, <2>3
    <3>2. PathOf(r) = <<t[1], n>>
      <4>1. PICK a \in Name : a = t[1]
          BY SeenAtItsPlace DEF Evidenced, Named
      <4>2. Append(<<a>>, n) = <<a, n>>
          BY <1>4, PathOfTwo
      <4> QED
          BY <1>6, <3>1, <4>1, <4>2
    <3> QED
        BY <1>10, <2>3, <3>2 DEF Place
  <2> QED
      BY <2>2, <2>3
<1> QED
    BY <1>1, <1>9, <1>10 DEF ToCome

Described(r, e) ==
    /\ e \in Entries /\ e.path = PathOf(r)
    /\ e.kind = r.kind /\ e.id = r.id /\ e.stamp = r.stamp
    /\ ~stirred =>
          /\ e.mac = IF KindOf[r.id] = "link" THEN r.id ELSE Nil
          /\ e.sha = IF KindOf[r.id] = "file" /\ ~Reduced(r)
                     THEN <<r.id, version[r.id], version[r.id]>> ELSE Nil

\* An entry of the tree as it is tells what is seen at its place.
LEMMA EntryTells ==
    ASSUME Evidenced, ~stirred, Walking(walk), NEW m, Current(walk, m),
           NEW r \in Last(walk.frames).records, r.kind = KindOf[r.id],
           NEW e, Described(r, e)
    PROVE  /\ e.stamp = stamp[e.id]
           /\ Len(e.path) <= 2 => \E t \in Shown : Tells(e, t)
           /\ \A t \in Shown : Place(t) = PathOf(r) => Tells(e, t)
<1>1. PICK F \in Seq(FrameSet), k \in Nat, f \in FrameSet :
         /\ F = walk.frames /\ k = Len(F) /\ k > 0 /\ f = F[k]
         /\ Top = f /\ Last(walk.frames) = f
    BY OneIsOpen
<1>2. r \in f.records /\ r \in Listings
    BY <1>1 DEF FrameSet
<1>3. /\ e.path = PathOf(r) /\ e.kind = r.kind /\ e.id = r.id /\ e.stamp = r.stamp
      /\ e.mac = IF KindOf[r.id] = "link" THEN r.id ELSE Nil
      /\ e.sha = IF KindOf[r.id] = "file" /\ ~Reduced(r)
                 THEN <<r.id, version[r.id], version[r.id]>> ELSE Nil
    BY DEF Described
<1>4. e.stamp = stamp[e.id]
  <2>1. r = RecordOf(f.dir, r.name)
      BY <1>1, <1>2 DEF Current
  <2>2. r.stamp = stamp[at[f.dir][r.name]] /\ r.id = at[f.dir][r.name]
      BY <2>1 DEF RecordOf
  <2> QED
      BY <1>3, <2>2
<1>5. ASSUME NEW t \in Shown, Place(t) = PathOf(r), t[3] = r.id, t[1] = Head(PathOf(r))
      PROVE  Tells(e, t)
  <2>1. Reduced(r) <=> t[1] \in policy
      BY <1>5 DEF Reduced
  <2>2. r.id \in Files <=> KindOf[r.id] = "file"
      BY <1>2, ObjectsHaveKinds DEF Listings
  <2>3. KindOf[r.id] = "file" => t[4] = version[r.id]
      BY <1>5, <2>2, SeenAtItsPlace DEF Evidenced
  <2>4. e.mac = IF KindOf[t[3]] = "link" THEN t[3] ELSE Nil
      BY <1>3, <1>5
  <2>5. e.sha = IF KindOf[t[3]] = "file" /\ t[1] \notin policy
                THEN <<t[3], t[4], t[4]>> ELSE Nil
      BY <1>3, <1>5, <2>1, <2>3
  <2> QED
      BY <1>3, <1>5, <2>4, <2>5 DEF Tells
<1>6. Len(e.path) <= 2 => \E t \in Shown : Tells(e, t)
    BY <1>3, <1>5, RecordIsSeen
<1>7. ASSUME NEW t \in Shown, Place(t) = PathOf(r) PROVE Tells(e, t)
  <2>1. Len(PathOf(r)) <= 2
    <3>1. \A a, b : Len(<<a>>) = 1 /\ Len(<<a, b>>) = 2
        OBVIOUS
    <3>2. Len(Place(t)) = 1 \/ Len(Place(t)) = 2
        BY <3>1 DEF Place
    <3>3. PICK n : n = Len(PathOf(r)) /\ (n = 1 \/ n = 2)
        BY <1>7, <3>2
    <3>4. n <= 2
        BY <3>3
    <3> QED
        BY <3>3, <3>4
  <2>2. PICK u \in Shown : Place(u) = PathOf(r) /\ u[3] = r.id /\ u[1] = Head(PathOf(r))
      BY <2>1, RecordIsSeen
  <2>3. t = u
      BY <1>7, <2>2, ShownIsClear DEF Evidenced
  <2> QED
      BY <1>5, <2>2, <2>3
<1> QED
    BY <1>4, <1>6, <1>7

LEMMA EntryIsDescribed ==
    ASSUME Evidenced, Walking(walk), NEW r \in Last(walk.frames).records,
           r.kind = KindOf[r.id], NEW e, Described(r, e),
           Sober(e, Last(manifest), walk.os), Describe(e),
           NEW v \in Walkers, v.pc = "walk", v.os = walk.os, Onwards(v.frames, r),
           StillTree, walk' = v, UNCHANGED answer
    PROVE  Evidenced'
<1>1. PICK F \in Seq(FrameSet), k \in Nat, f \in FrameSet :
         /\ F = walk.frames /\ k = Len(F) /\ k > 0 /\ f = F[k]
         /\ Top = f /\ Last(walk.frames) = f /\ Fenced(f) /\ Len(f.path) = k - 1
    BY OneIsOpen
<1>2. r \in f.records /\ r \in Listings
    BY <1>1 DEF FrameSet
<1>3. PICK Q \in Seq(FrameSet) : Q = v.frames /\ Onwards(Q, r)
    BY DEF Walkers
<1>4. PICK ms \in Seq(Manifests), c \in Nat :
         ms = manifest /\ c = Len(ms) /\ c > 0 /\ c <= 2
    BY DEF Evidenced, Evident, Paced
<1>5. PICK m \in Manifests : m = ms[c] /\ Last(ms) = m
    BY <1>4 DEF Last
<1>6. PICK m2 : m2 = [m EXCEPT !.entries = @ \cup {e}]
    OBVIOUS
<1>7. /\ m2 \in Manifests /\ m2.root = m.root /\ m2.shown = m.shown
      /\ m2.entries = m.entries \cup {e}
    BY <1>5, <1>6 DEF Manifests, Described
<1>8. PICK ns \in Seq(Manifests) : Replaced(ms, m2, ns)
    BY <1>4, <1>7, TopIsReplaced
<1>9. /\ Len(ns) = c /\ ns[c] = m2 /\ Last(ns) = m2
      /\ \A i \in 1..c : i # c => ns[i] = ms[i]
    BY <1>4, <1>8 DEF Replaced, Last
<1>10. manifest' = ns
    BY <1>4, <1>5, <1>6, <1>8 DEF Describe, Replaced
<1>11. /\ Paced(walk, ms) /\ Fences(walk, ms) /\ Opened(walk, answer) /\ Exact(walk, ms)
    BY <1>4 DEF Evidenced, Evident
<1>12. /\ \A i \in 1..k : /\ Q[i].dir = F[i].dir /\ Q[i].path = F[i].path
                          /\ Fenced(Q[i]) /\ Q[i].records \subseteq F[i].records
       /\ r.kind = "dir" =>
             /\ Len(Q) = k + 1 /\ Q[k + 1].dir = r.id /\ Q[k + 1].path = PathOf(r)
             /\ Q[k + 1].unasked = Named(r.id) /\ Q[k + 1].records = {}
       /\ r.kind # "dir" => Len(Q) = k
    BY <1>1, <1>3 DEF Onwards
<1>13. Len(PathOf(r)) = k
  <2>1. f.path \in Seq(Name) /\ r.name \in Name
      BY <1>1, <1>2 DEF FrameSet, Listings
  <2>2. Len(PathOf(r)) = Len(f.path) + 1
      BY <1>1, <2>1, ShortPaths DEF PathOf
  <2> QED
      BY <1>1, <2>2
<1>14. Paced(v, ns)
  <2>1. \A i \in 1..k : Len(Q[i].path) = i - 1
      BY <1>1, <1>11, <1>12 DEF Paced
  <2>2. \A i \in 1..Len(Q) : i \in 1..k \/ (r.kind = "dir" /\ i = k + 1)
      BY <1>1, <1>12
  <2>3. \A i \in 1..Len(Q) : Len(Q[i].path) = i - 1
      BY <1>1, <1>12, <1>13, <2>1, <2>2
  <2>4. Len(Q) > 0
      BY <1>1, <1>12
  <2> QED
      BY <1>3, <1>4, <1>9, <2>3, <2>4 DEF Paced, Walking, AtHolder
<1>15. AtHand(v) /\ Hashing(v) /\ Opened(v, answer)
    BY <1>11 DEF AtHand, Hashing, Opened, AtHolder
<1>16. Fences(v, ns)
  <2>1. \A i \in 1..k : F[i].dir \in Outside => m.root \in Outside
      BY <1>1, <1>4, <1>5, <1>11 DEF Fences
  <2>2. r.kind = "dir" /\ r.id \in Outside => m.root \in Outside
      BY <1>1, <1>2, <2>1 DEF Fenced
  <2>3. ASSUME NEW i \in 1..Len(Q)
        PROVE  Fenced(Q[i]) /\ (Q[i].dir \in Outside => m2.root \in Outside)
    <3>1. CASE i \in 1..k
        BY <1>7, <1>12, <2>1, <3>1
    <3>2. CASE r.kind = "dir" /\ i = k + 1
      <4>1. Fenced(Q[i])
          BY <1>12, <3>2 DEF Fenced
      <4> QED
          BY <1>7, <1>12, <2>2, <3>2, <4>1
    <3> QED
        BY <1>1, <1>12, <3>1, <3>2
  <2>4. ASSUME NEW i \in 1..c, NEW x \in ns[i].entries PROVE Sober(x, ns[i], v.os)
    <3>1. CASE i # c
        BY <1>4, <1>9, <1>11, <2>4, <3>1 DEF Fences
    <3>2. CASE i = c /\ x \in m.entries
      <4>1. Sober(x, m, walk.os)
          BY <1>4, <1>5, <1>11, <3>2 DEF Fences
      <4> QED
          BY <1>7, <1>9, <3>2, <4>1 DEF Sober
    <3>3. CASE i = c /\ x = e
      <4>1. Sober(e, m, walk.os)
          BY <1>4, <1>5
      <4> QED
          BY <1>7, <1>9, <3>3, <4>1 DEF Sober
    <3> QED
        BY <1>7, <1>9, <2>4, <3>1, <3>2, <3>3
  <2> QED
      BY <1>3, <1>9, <1>15, <2>3, <2>4 DEF Fences
<1>17. Exact(v, ns)
  <2> SUFFICES ASSUME ~stirred PROVE Exact(v, ns)
      BY DEF Exact
  <2>1. /\ Current(walk, m) /\ Waited(walk, ms) /\ Dated(ms)
        /\ \A i \in 1..c : Clear(ms[i]) /\ Sound(ms[i])
        /\ \A i \in 1..c : i # c => Whole(ms[i])
    <3>1. walk.pc # "refused"
        BY DEF Walking
    <3> QED
        BY <1>4, <1>5, <1>11, <3>1 DEF Exact
  <2>2. /\ e.stamp = stamp[e.id]
        /\ Len(e.path) <= 2 => \E t \in Shown : Tells(e, t)
        /\ \A t \in Shown : Place(t) = PathOf(r) => Tells(e, t)
      BY <2>1, EntryTells
  <2>3. m.root = root /\ m.shown = Shown /\ F[1].dir = root
      BY <1>1, <2>1 DEF Current
  <2>4. Clear(m2) /\ Sound(m2)
    <3>1. Clear(m) /\ Sound(m)
        BY <1>4, <1>5, <2>1
    <3>2. Clear(m2)
        BY <1>7, <3>1 DEF Clear
    <3>3. Sound(m2)
        BY <1>7, <2>2, <2>3, <3>1 DEF Sound
    <3> QED
        BY <3>2, <3>3
  <2>5. \A i \in 1..c : Clear(ns[i]) /\ Sound(ns[i]) /\ (i # c => Whole(ns[i]))
      BY <1>9, <2>1, <2>4
  <2>6. \A t : Told(m, t) => Told(m2, t)
      BY <1>7 DEF Told
  <2>7. \A t \in Shown : Place(t) = PathOf(r) => Told(m2, t)
      BY <1>7, <2>2 DEF Told
  <2>8. ASSUME NEW t \in Shown PROVE Told(m2, t) \/ ToCome(Q, t)
    <3>1. Told(m, t) \/ ToCome(F, t)
        BY <1>1, <2>1, <2>3 DEF Current
    <3>2. ToCome(F, t) => ToCome(Q, t) \/ Place(t) = PathOf(r)
        BY <1>1, <1>3, <2>1, OneIsStruckOff
    <3> QED
        BY <2>6, <2>7, <3>1, <3>2
  <2>9. Current(v, m2)
    <3>1. 1 \in 1..k /\ Q[1].dir = root
        BY <1>1, <1>12, <2>3
    <3>2. Len(Q) > 1 => \E n \in Name : Q[2].path = <<n>> /\ Q[2].dir = at[root][n]
      <4>1. CASE k > 1
        <5>1. 2 \in 1..k
            BY <4>1
        <5>2. \E n \in Name : F[2].path = <<n>> /\ F[2].dir = at[root][n]
            BY <1>1, <2>1, <4>1 DEF Current
        <5> QED
            BY <1>12, <5>1, <5>2
      <4>2. CASE k = 1
        <5>1. PICK n \in Name : n = r.name
            BY <1>2 DEF Listings
        <5>2. r = RecordOf(F[1].dir, n)
            BY <1>1, <1>2, <2>1, <4>2, <5>1 DEF Current
        <5>3. r.id = at[root][n]
            BY <2>3, <5>2 DEF RecordOf
        <5>4. f.path \in Seq(Name) /\ Len(f.path) = 0
            BY <1>1, <4>2 DEF FrameSet
        <5>5. PathOf(r) = <<n>>
            BY <1>1, <5>1, <5>4, ShortPaths DEF PathOf
        <5>6. Len(Q) > 1 => Q[2].path = <<n>> /\ Q[2].dir = at[root][n]
            BY <1>12, <4>2, <5>3, <5>5
        <5> QED
            BY <5>6
      <4>3. k > 1 \/ k = 1
        <5>1. k \in Nat /\ k > 0
            BY <1>1
        <5> QED
            BY <5>1
      <4> QED
          BY <4>1, <4>2, <4>3
    <3>3. ASSUME NEW i \in 1..Len(Q), NEW x \in Q[i].records
          PROVE  x = RecordOf(Q[i].dir, x.name)
      <4>1. CASE i \in 1..k
        <5>1. x \in F[i].records /\ Q[i].dir = F[i].dir
            BY <1>12, <3>3, <4>1
        <5> QED
            BY <1>1, <2>1, <4>1, <5>1 DEF Current
      <4>2. CASE i \notin 1..k
        <5>1. r.kind = "dir" /\ i = k + 1
            BY <1>1, <1>12, <4>2
        <5> QED
            BY <1>12, <3>3, <5>1
      <4> QED
          BY <4>1, <4>2
    <3>4. \A x \in m2.entries : x.stamp = stamp[x.id]
        BY <1>7, <2>1, <2>2 DEF Current
    <3> QED
        BY <1>3, <1>7, <2>3, <2>8, <3>1, <3>2, <3>3, <3>4 DEF Current
  <2>10. Dated(ns)
    <3>1. CASE c = 1
      <4>1. ns[1] = m2 /\ ms[1] = m /\ Len(ns) = 1
          BY <1>5, <1>9, <3>1
      <4>2. \A o \in Obj : stamp[o] < tick
          BY <1>4, <2>1, <3>1 DEF Waited
      <4> SUFFICES ASSUME NEW x \in m2.entries, NEW t \in m2.shown,
                          Tells(x, t), KindOf[t[3]] = "file"
                   PROVE  /\ x.stamp < tick /\ x.stamp <= stamp[t[3]]
                          /\ stamp[t[3]] = x.stamp => version[t[3]] = t[4]
          BY <4>1 DEF Dated
      <4>3. t \in Shown /\ t[3] \in Obj
          BY <1>7, <2>3, SeenAtItsPlace DEF Evidenced
      <4>4. x.stamp = stamp[t[3]]
        <5>1. x.id = t[3]
            BY DEF Tells
        <5>2. x.stamp = stamp[x.id]
            BY <2>9 DEF Current
        <5> QED
            BY <5>1, <5>2
      <4>5. version[t[3]] = t[4]
          BY <4>3, SeenAtItsPlace, ObjectsHaveKinds DEF Evidenced
      <4>6. stamp[t[3]] \in Nat /\ stamp[t[3]] < tick
          BY <4>2, <4>3 DEF Evidenced, Grounded
      <4> QED
          BY <4>4, <4>5, <4>6
    <3>2. CASE c # 1
      <4>1. c = 2
          BY <1>4, <3>2
      <4>2. ns[1] = ms[1] /\ ns[2] = m2 /\ ms[2] = m /\ Len(ns) = 2 /\ Len(ms) = 2
          BY <1>4, <1>5, <1>9, <4>1
      <4> SUFFICES ASSUME NEW x \in ms[1].entries, NEW t \in ms[1].shown,
                          Tells(x, t), KindOf[t[3]] = "file"
                   PROVE  /\ x.stamp < tick /\ x.stamp <= stamp[t[3]]
                          /\ stamp[t[3]] = x.stamp => version[t[3]] = t[4]
                          /\ \A d \in m2.entries, u \in m2.shown :
                               Tells(d, u) /\ u[3] = t[3] /\ d.stamp = x.stamp
                                  => u[4] = t[4]
          BY <4>2 DEF Dated
      <4>3. /\ x.stamp < tick /\ x.stamp <= stamp[t[3]]
            /\ stamp[t[3]] = x.stamp => version[t[3]] = t[4]
          BY <2>1 DEF Dated
      <4>4. ASSUME NEW d \in m2.entries, NEW u \in m2.shown,
                   Tells(d, u), u[3] = t[3], d.stamp = x.stamp
            PROVE  u[4] = t[4]
        <5>1. u \in Shown /\ u[3] \in Obj
            BY <1>7, <2>3, SeenAtItsPlace DEF Evidenced
        <5>2. u[4] = version[u[3]]
            BY <4>4, <5>1, SeenAtItsPlace, ObjectsHaveKinds DEF Evidenced
        <5>3. d.stamp = stamp[d.id] /\ d.id = u[3]
            BY <2>9, <4>4 DEF Current, Tells
        <5> QED
            BY <4>3, <4>4, <5>2, <5>3
      <4> QED
          BY <4>3, <4>4
    <3> QED
        BY <3>1, <3>2
  <2>11. Waited(v, ns)
      BY <1>9, <1>4, <2>1 DEF Waited, Walking
  <2> QED
      BY <1>9, <2>5, <2>9, <2>10, <2>11 DEF Exact, Walking
<1> QED
    BY <1>10, <1>14, <1>15, <1>16, <1>17, WalkerSteps DEF Evident

LEMMA EntriesAreTyped ==
    ASSUME Evidenced, Walking(walk), NEW r \in Last(walk.frames).records,
           NEW mac \in Obj \cup {Nil}, NEW sha \in {Nil} \cup (Obj \X Nat \X Nat)
    PROVE  LET e == EntryOf(r, mac, sha) IN
           /\ e \in Entries /\ e.path = PathOf(r) /\ e.kind = r.kind /\ e.id = r.id
           /\ e.stamp = r.stamp /\ e.mac = mac /\ e.sha = sha
<1>1. PICK f \in FrameSet : Top = f /\ Last(walk.frames) = f
    BY OneIsOpen
<1>2. r \in Listings /\ f.path \in Seq(Name)
    BY <1>1 DEF FrameSet
<1>3. r.name \in Name
    BY <1>2 DEF Listings
<1>4. PICK p \in Seq(Name) : p = PathOf(r)
    BY <1>1, <1>2, <1>3, ShortPaths DEF PathOf
<1>5. PICK e : e = EntryOf(r, mac, sha)
    OBVIOUS
<1>6. e = [path |-> p, kind |-> r.kind, id |-> r.id, stamp |-> r.stamp,
           nlink |-> r.nlink, mac |-> mac, sha |-> sha]
    BY <1>4, <1>5 DEF EntryOf
<1>7. e \in Entries
    BY <1>2, <1>6 DEF Entries, Listings
<1> QED
    BY <1>4, <1>5, <1>6, <1>7

LEMMA DescribeReducedStays == ASSUME Evidenced, NEW r, DescribeReduced(r) PROVE Evidenced'
<1>1. Ready(r) /\ r.kind = "file" /\ r.nlink = 1 /\ Reduced(r)
    BY DEF DescribeReduced
<1>2. /\ walk.pc = "walk" /\ Walking(walk) /\ r \in Listings
      /\ r \in Last(walk.frames).records /\ r.kind = KindOf[r.id]
    BY <1>1, ReadyAtTop
<1>3. Rest(r) \in Seq(FrameSet) /\ Onwards(Rest(r), r)
    BY <1>1, <1>2, WalkerGoesOnwards
<1>4. PICK e : e = EntryOf(r, Nil, Nil)
    OBVIOUS
<1>5. PICK v : v = walk'
    OBVIOUS
<1>6. /\ v = [walk EXCEPT !.frames = Rest(r)]
      /\ Describe(e) /\ UNCHANGED answer /\ StillTree
    BY <1>4, <1>5 DEF DescribeReduced, Walks, StillTree, tree
<1>7. walk \in Walkers
    BY DEF Evidenced, Evident, Paced
<1>8. v \in Walkers /\ v.pc = "walk" /\ v.os = walk.os /\ v.frames = Rest(r)
    BY <1>2, <1>3, <1>6, <1>7 DEF Walkers
<1>9. Described(r, e) /\ e.sha = Nil /\ e.mac = Nil
    BY <1>1, <1>2, <1>4, EntriesAreTyped DEF Described
<1>10. Sober(e, Last(manifest), walk.os)
    BY <1>9 DEF Sober
<1> QED
    BY <1>2, <1>3, <1>5, <1>6, <1>8, <1>9, <1>10, EntryIsDescribed

LEMMA EnterDirectoryStays == ASSUME Evidenced, NEW r, EnterDirectory(r) PROVE Evidenced'
<1>1. Ready(r) /\ r.kind = "dir"
    BY DEF EnterDirectory
<1>2. CASE ~Bound(r)
    BY <1>2, RefusedScanStays DEF EnterDirectory
<1>3. CASE Bound(r)
  <2>1. /\ walk.pc = "walk" /\ Walking(walk) /\ r \in Listings
        /\ r \in Last(walk.frames).records /\ r.kind = KindOf[r.id]
      BY <1>1, ReadyAtTop
  <2>2. PICK Q : Q = Append(Rest(r), Frame(r.id, PathOf(r)))
      OBVIOUS
  <2>3. Q \in Seq(FrameSet) /\ Onwards(Q, r)
      BY <1>1, <2>1, <2>2, WalkerGoesOnwards
  <2>4. PICK e : e = EntryOf(r, Nil, Nil)
      OBVIOUS
  <2>5. PICK v : v = walk'
      OBVIOUS
  <2>6. /\ v = [walk EXCEPT !.frames = Q]
        /\ Describe(e) /\ UNCHANGED answer /\ StillTree
    <3>1. Reached(r) = r.id
        BY <1>3 DEF Bound
    <3> QED
        BY <1>3, <2>2, <2>4, <2>5, <3>1 DEF EnterDirectory, Walks, StillTree, tree
  <2>7. walk \in Walkers
      BY DEF Evidenced, Evident, Paced
  <2>8. v \in Walkers /\ v.pc = "walk" /\ v.os = walk.os /\ v.frames = Q
      BY <2>1, <2>3, <2>6, <2>7 DEF Walkers
  <2>9. Described(r, e) /\ e.sha = Nil /\ e.mac = Nil
      BY <1>1, <2>1, <2>4, EntriesAreTyped DEF Described
  <2>10. Sober(e, Last(manifest), walk.os)
      BY <2>9 DEF Sober
  <2> QED
      BY <2>1, <2>3, <2>5, <2>6, <2>8, <2>9, <2>10, EntryIsDescribed
<1> QED
    BY <1>2, <1>3

LEMMA ReadReparsePointStays ==
    ASSUME Evidenced, NEW r, ReadReparsePoint(r) PROVE Evidenced'
<1>1. Ready(r) /\ r.kind = "link" /\ walk.os = "windows"
    BY DEF ReadReparsePoint
<1>2. CASE ~Bound(r)
    BY <1>2, RefusedScanStays DEF ReadReparsePoint
<1>3. CASE Bound(r)
  <2>1. /\ walk.pc = "walk" /\ Walking(walk) /\ r \in Listings
        /\ r \in Last(walk.frames).records /\ r.kind = KindOf[r.id]
      BY <1>1, ReadyAtTop
  <2>2. Rest(r) \in Seq(FrameSet) /\ Onwards(Rest(r), r) /\ r.id \in Obj
      BY <1>1, <2>1, WalkerGoesOnwards DEF Listings
  <2>3. PICK e : e = EntryOf(r, r.id, Nil)
      OBVIOUS
  <2>4. PICK v : v = walk'
      OBVIOUS
  <2>5. /\ v = [walk EXCEPT !.frames = Rest(r)]
        /\ Describe(e) /\ UNCHANGED answer /\ StillTree
    <3>1. Reached(r) = r.id
        BY <1>3 DEF Bound
    <3> QED
        BY <1>3, <2>3, <2>4, <3>1 DEF ReadReparsePoint, Walks, StillTree, tree
  <2>6. walk \in Walkers
      BY DEF Evidenced, Evident, Paced
  <2>7. v \in Walkers /\ v.pc = "walk" /\ v.os = walk.os /\ v.frames = Rest(r)
      BY <2>1, <2>2, <2>5, <2>6 DEF Walkers
  <2>8. Described(r, e) /\ e.sha = Nil /\ e.mac = r.id /\ e.id = r.id
      BY <1>1, <2>1, <2>2, <2>3, EntriesAreTyped DEF Described
  <2>9. Sober(e, Last(manifest), walk.os)
      BY <2>8 DEF Sober
  <2> QED
      BY <2>1, <2>2, <2>4, <2>5, <2>7, <2>8, <2>9, EntryIsDescribed
<1> QED
    BY <1>2, <1>3

LEMMA FinishLinkStays == ASSUME Evidenced, FinishLink PROVE Evidenced'
<1>1. walk.pc = "relink" /\ Walking(walk)
    BY DEF FinishLink, Walking
<1>2. PICK r, o : r = walk.record /\ o = walk.read
    OBVIOUS
<1>3. CASE ~Bound(r)
    BY <1>2, <1>3, RefusedScanStays DEF FinishLink
<1>4. CASE Bound(r)
  <2>1. PICK f \in FrameSet : Last(walk.frames) = f /\ Fenced(f)
      BY <1>1, OneIsOpen
  <2>2. /\ r \in Last(walk.frames).records /\ r.kind = "link" /\ walk.os = "posix"
        /\ o \in Links
      BY <1>1, <1>2 DEF Evidenced, Evident, AtHand
  <2>3. r \in Listings /\ r.kind = KindOf[r.id]
      BY <2>1, <2>2 DEF FrameSet, Fenced
  <2>4. Rest(r) \in Seq(FrameSet) /\ Onwards(Rest(r), r) /\ o \in Obj
      BY <1>1, <2>2, <2>3, WalkerGoesOnwards, ObjectsHaveKinds
  <2>5. PICK e : e = EntryOf(r, o, Nil)
      OBVIOUS
  <2>6. PICK v : v = walk'
      OBVIOUS
  <2>7. /\ v = [walk EXCEPT !.pc = "walk", !.frames = Rest(r),
                            !.record = Nil, !.read = Nil]
        /\ Describe(e) /\ UNCHANGED answer /\ StillTree
      BY <1>2, <1>4, <2>5, <2>6 DEF FinishLink, Walks, StillTree, tree
  <2>8. walk \in Walkers
      BY DEF Evidenced, Evident, Paced
  <2>9. v \in Walkers /\ v.pc = "walk" /\ v.os = walk.os /\ v.frames = Rest(r)
      BY <2>4, <2>7, <2>8 DEF Walkers
  <2>10. ~stirred => o = r.id
    <3>1. ~stirred => Current(walk, Last(manifest))
        BY <1>1 DEF Evidenced, Evident, Exact
    <3> QED
        BY <1>1, <1>2, <3>1 DEF Current
  <2>11. Described(r, e) /\ e.sha = Nil
      BY <2>2, <2>3, <2>4, <2>5, <2>10, EntriesAreTyped, <1>1 DEF Described
  <2>12. Sober(e, Last(manifest), walk.os)
      BY <2>2, <2>11 DEF Sober
  <2> QED
    <3>1. Onwards(v.frames, r)
        BY <2>4, <2>9
    <3> QED
        BY <1>1, <2>2, <2>3, <2>6, <2>7, <2>9, <2>11, <2>12, <3>1, EntryIsDescribed
<1> QED
    BY <1>3, <1>4

LEMMA FinishHashStays == ASSUME Evidenced, FinishHash PROVE Evidenced'
<1>1. walk.pc = "hash" /\ Walking(walk)
    BY DEF FinishHash, Walking
<1>2. PICK r, h : r = walk.record /\ h = walk.held
    OBVIOUS
<1>3. PICK x, y, z : x = walk.read[1] /\ y = walk.read[2] /\ z = walk.read[3]
    OBVIOUS
<1>4. CASE <<stamp[h], LinkCount(h)>> # <<y, z>> \/ LinkCount(h) # 1
    BY <1>2, <1>3, <1>4, RefusedScanStays DEF FinishHash
<1>5. CASE ~(<<stamp[h], LinkCount(h)>> # <<y, z>> \/ LinkCount(h) # 1)
  <2>1. PICK f \in FrameSet : Last(walk.frames) = f /\ Top = f /\ Fenced(f)
      BY <1>1, OneIsOpen
  <2>2. /\ r \in f.records /\ r.kind = "file" /\ r.nlink = 1
        /\ Head(Append(f.path, r.name)) \notin policy
        /\ h = r.id /\ h \in Files /\ x \in Nat
      BY <1>1, <1>2, <1>3, <2>1 DEF Evidenced, Evident, AtHand
  <2>3. r \in Listings /\ r.kind = KindOf[r.id] /\ ~Reduced(r)
      BY <2>1, <2>2 DEF FrameSet, Fenced, Reduced, PathOf
  <2>4. Rest(r) \in Seq(FrameSet) /\ Onwards(Rest(r), r)
      BY <1>1, <2>1, <2>2, <2>3, WalkerGoesOnwards
  <2>5. PICK y2 \in Nat : y2 = version[h]
      BY <2>2 DEF Evidenced, Grounded
  <2>6. PICK s, e : s = <<h, x, y2>> /\ e = EntryOf(r, Nil, s)
      OBVIOUS
  <2>7. s \in Obj \X Nat \X Nat /\ s[1] = h /\ s[2] = x /\ s[3] = y2
      BY <2>2, <2>5, <2>6, ObjectsHaveKinds
  <2>8. PICK v : v = walk'
      OBVIOUS
  <2>9. /\ v = [walk EXCEPT !.pc = "walk", !.frames = Rest(r),
                            !.record = Nil, !.held = Nil, !.read = Nil]
        /\ Describe(e) /\ UNCHANGED answer /\ StillTree
      BY <1>2, <1>3, <1>5, <2>5, <2>6, <2>8 DEF FinishHash, Walks, StillTree, tree
  <2>10. walk \in Walkers
      BY DEF Evidenced, Evident, Paced
  <2>11. v \in Walkers /\ v.pc = "walk" /\ v.os = walk.os /\ v.frames = Rest(r)
      BY <2>4, <2>9, <2>10 DEF Walkers
  <2>12. ~stirred => s = <<r.id, version[r.id], version[r.id]>>
    <3>1. ~stirred => Current(walk, Last(manifest))
        BY <1>1 DEF Evidenced, Evident, Exact
    <3>2. ~stirred => x = version[h]
        BY <1>1, <1>2, <1>3, <3>1 DEF Current
    <3> QED
        BY <2>2, <2>5, <2>6, <3>2
  <2>13. Described(r, e) /\ e.sha = s /\ e.mac = Nil /\ e.id = h
    <3>1. /\ e \in Entries /\ e.path = PathOf(r) /\ e.kind = r.kind /\ e.id = r.id
          /\ e.stamp = r.stamp /\ e.mac = Nil /\ e.sha = s
      <4>1. PICK sha \in {Nil} \cup (Obj \X Nat \X Nat) : sha = s
          BY <2>7
      <4>2. e = EntryOf(r, Nil, sha) /\ r \in Last(walk.frames).records
          BY <2>1, <2>2, <2>6, <4>1
      <4> QED
          BY <1>1, <4>1, <4>2, EntriesAreTyped
    <3> QED
        BY <2>2, <2>3, <2>12, <3>1 DEF Described
  <2>14. Sober(e, Last(manifest), walk.os)
    <3>1. x # y2 => h \in twice
      <4>1. Hashing(walk)
          BY DEF Evidenced, Evident, Fences
      <4>2. stamp[h] = y
          BY <1>5
      <4> QED
          BY <1>1, <1>2, <1>3, <2>5, <4>1, <4>2 DEF Hashing
    <3>2. h \in Outside => Last(manifest).root \in Outside
      <4>1. h \in Outside => f.dir \in Outside
          BY <2>1, <2>2 DEF Fenced
      <4>2. f.dir \in Outside => Last(manifest).root \in Outside
        <5>1. PICK F \in Seq(FrameSet), k \in Nat :
                 F = walk.frames /\ k = Len(F) /\ k > 0 /\ f = F[k]
            BY <1>1, <2>1, OneIsOpen
        <5>2. Len(manifest) > 0 /\ k \in 1..Len(F)
            BY <1>1, <5>1 DEF Evidenced, Evident, Paced
        <5> QED
            BY <5>1, <5>2 DEF Evidenced, Evident, Fences
      <4> QED
          BY <4>1, <4>2
    <3> QED
        BY <2>7, <2>13, <3>1, <3>2 DEF Sober
  <2> QED
    <3>1. Onwards(v.frames, r) /\ r \in Last(walk.frames).records
        BY <2>1, <2>2, <2>4, <2>11
    <3> QED
        BY <1>1, <2>3, <2>8, <2>9, <2>11, <2>13, <2>14, <3>1, EntryIsDescribed
<1> QED
    BY <1>4, <1>5

LEMMA EvidencedStays == ASSUME Evidenced, [ScanNext]_evidence PROVE Evidenced'
<1>1. CASE UNCHANGED evidence
  <2>1. StillTree /\ UNCHANGED <<walk, manifest, answer>>
      BY <1>1 DEF evidence, StillTree
  <2>2. Evident(walk, manifest, answer)
      BY DEF Evidenced
  <2> QED
      BY <2>1, <2>2, WalkerSteps
<1>2. CASE Scan
  <2>1. ASSUME NEW r \in Top.records,
               \/ RefuseRecord(r) \/ DescribeReduced(r) \/ EnterDirectory(r)
               \/ OpenFile(r) \/ ReadReparsePoint(r) \/ FindLink(r)
        PROVE  Evidenced'
    <3>1. RefuseRecord(r) => Refuses
        BY DEF RefuseRecord
    <3> QED
        BY <2>1, <3>1, RefusedScanStays, DescribeReducedStays, EnterDirectoryStays,
           OpenFileStays, ReadReparsePointStays, FindLinkStays
  <2>2. ReadFails => Refuses
      BY DEF ReadFails
  <2> QED
      BY <1>2, <2>1, <2>2, RefusedScanStays, FreezePolicyStays, QuiesceStays, OpenRootStays,
         AskChildStays, FinishHashStays, ReadLinkStays, FinishLinkStays,
         LeaveDirectoryStays DEF Scan
<1> QED
    BY <1>1, <1>2, OpenHolderStays, ReadMarkerStays, OpenHolderRootStays, OthersStay
       DEF ScanNext

-----------------------------------------------------------------------------
(* What the scans promise.                                                    *)

LEMMA ReadWhatWasListed == Evidenced => ReadOnlyWhatWasListed
<1> SUFFICES ASSUME Evidenced PROVE ReadOnlyWhatWasListed
    OBVIOUS
<1>1. Fences(walk, manifest) /\ manifest \in Seq(Manifests)
    BY DEF Evidenced, Evident, Paced
<1>2. ASSUME NEW i \in 1..Len(manifest), NEW e \in manifest[i].entries
      PROVE  /\ e.sha # Nil => /\ e.sha[1] = e.id
                               /\ e.sha[2] # e.sha[3] => e.id \in twice
                               /\ e.id \in Outside => manifest[i].root \in Outside
             /\ walk.os = "windows" => e.mac \in {Nil, e.id}
    BY <1>1 DEF Fences, Sober
<1>3. manifest # <<>> => Len(manifest) > 0
    BY <1>1
<1>4. manifest # <<>> => \A i \in 1..Len(walk.frames) :
          walk.frames[i].dir \in Outside => manifest[Len(manifest)].root \in Outside
    BY <1>1, <1>3 DEF Fences, Last
<1> QED
    BY <1>2, <1>4 DEF ReadOnlyWhatWasListed

LEMMA HoldersAnswer == Evidenced => HolderAnswersForItself
<1> SUFFICES ASSUME Evidenced, walk.pc = "answered"
             PROVE  LET d == walk.frames[1].dir IN
                    /\ stamp[d] = 0 =>
                          answer = [marker |-> at[d][Marker], root |-> at[d][HolderRoot]]
                    /\ stamp[answer.root] = 0 => at[answer.root][Git] = Nil
    BY DEF HolderAnswersForItself
<1>1. AtHolder(walk) /\ Opened(walk, answer) /\ Grounded
    BY DEF Evidenced, Evident, AtHolder
<1>2. PICK f \in FrameSet : f = walk.frames[1]
    BY <1>1, TheHolderIsOpen
<1>3. PICK d \in Dirs : d = walk.frames[1].dir
    BY <1>2 DEF FrameSet
<1>4. PICK a \in [marker : Obj \cup {Nil}, root : Obj \cup {Nil}] : a = answer
    BY <1>1 DEF Opened
<1>5. /\ stamp[d] = 0 => a.marker = Layout[d][Marker] /\ a.root = Layout[d][HolderRoot]
      /\ a.root \in Dirs /\ (stamp[a.root] = 0 => Layout[a.root][Git] = Nil)
    BY <1>1, <1>3, <1>4 DEF Opened
<1>6. stamp[d] = 0 => a.marker = at[d][Marker] /\ a.root = at[d][HolderRoot]
    BY <1>1, <1>5 DEF Grounded
<1>7. stamp[a.root] = 0 => at[a.root][Git] = Nil
    BY <1>1, <1>5 DEF Grounded
<1>8. a = [marker |-> a.marker, root |-> a.root]
    OBVIOUS
<1> QED
    BY <1>3, <1>4, <1>6, <1>7, <1>8

LEMMA PlacesAreShort == \A t : Len(Place(t)) <= 2
<1> TAKE t
<1>1. \A a, b : Len(<<a>>) = 1 /\ Len(<<a, b>>) = 2
    OBVIOUS
<1>2. PICK n : n = Len(Place(t)) /\ (n = 1 \/ n = 2)
    BY <1>1 DEF Place
<1>3. n <= 2
    BY <1>2
<1> QED
    BY <1>2, <1>3

LEMMA SightsAreTuples ==
    ASSUME NEW t \in Sights, NEW u \in Sights,
           t[1] = u[1], t[2] = u[2], t[3] = u[3], t[4] = u[4]
    PROVE  t = u
BY DEF Sights

\* Two entries that compare equal tell of the same thing.
LEMMA ComparedAlike ==
    ASSUME NEW t \in Sights, NEW u \in Sights, Place(t) = Place(u),
           KindOf[t[3]] # "file" => t[4] = 0, KindOf[u[3]] # "file" => u[4] = 0,
           NEW x, NEW y, Tells(x, t), Tells(y, u), Compared(x) = Compared(y),
           t[1] \notin policy, KindOf[t[3]] \in {"file", "link"}
    PROVE  t = u
<1>1. t[1] = u[1] /\ t[2] = u[2]
    BY PlacesDiffer
<1>2. /\ x.kind = KindOf[t[3]] /\ y.kind = KindOf[u[3]]
      /\ x.mac = (IF KindOf[t[3]] = "link" THEN t[3] ELSE Nil)
      /\ y.mac = (IF KindOf[u[3]] = "link" THEN u[3] ELSE Nil)
      /\ x.sha = (IF KindOf[t[3]] = "file" THEN <<t[3], t[4], t[4]>> ELSE Nil)
      /\ y.sha = (IF KindOf[u[3]] = "file" THEN <<u[3], u[4], u[4]>> ELSE Nil)
    BY <1>1 DEF Tells
<1>3. \A a, b, c, d, e, f : <<a, b, c, d>> # <<e, f>>
  <2> TAKE a, b, c, d, e, f
  <2>1. Len(<<a, b, c, d>>) = 4 /\ Len(<<e, f>>) = 2
      OBVIOUS
  <2> QED
      BY <2>1
<1>4. CASE x.kind = "file"
  <2>1. Compared(x) = <<"file", x.sha, x.nlink, x.mac>>
      BY <1>4 DEF Compared
  <2>2. y.kind = "file"
      BY <1>3, <2>1 DEF Compared
  <2>3. Compared(y) = <<"file", y.sha, y.nlink, y.mac>>
      BY <2>2 DEF Compared
  <2>4. x.sha = y.sha
    <3>1. \A a, b, c, d, e, f : <<"file", a, b, c>> = <<"file", d, e, f>> => a = d
        OBVIOUS
    <3>2. <<"file", x.sha, x.nlink, x.mac>> = <<"file", y.sha, y.nlink, y.mac>>
        BY <2>1, <2>3, Zenon
    <3> QED
        BY <3>1, <3>2, Zenon
  <2>5. <<t[3], t[4], t[4]>> = <<u[3], u[4], u[4]>>
      BY <1>2, <1>4, <2>2, <2>4
  <2>6. t[3] = u[3] /\ t[4] = u[4]
      BY <2>5
  <2> QED
      BY <1>1, <2>6, SightsAreTuples
<1>5. CASE x.kind = "link"
  <2>1. Compared(x) = <<x.kind, x.mac>>
      BY <1>5 DEF Compared
  <2>2. y.kind # "file"
    <3>1. y.kind = "file" => Compared(y) = <<"file", y.sha, y.nlink, y.mac>>
        BY DEF Compared
    <3> QED
        BY <1>3, <2>1, <3>1
  <2>3. Compared(y) = <<y.kind, y.mac>>
      BY <2>2 DEF Compared
  <2>4. x.kind = y.kind /\ x.mac = y.mac
    <3>1. \A a, b, c, d : <<a, b>> = <<c, d>> => a = c /\ b = d
        OBVIOUS
    <3>2. <<x.kind, x.mac>> = <<y.kind, y.mac>>
        BY <2>1, <2>3, Zenon
    <3> QED
        BY <3>1, <3>2, Zenon
  <2>5. t[3] = u[3] /\ t[4] = u[4]
      BY <1>2, <1>5, <2>4
  <2> QED
      BY <1>1, <2>5, SightsAreTuples
<1> QED
    BY <1>2, <1>4, <1>5

LEMMA EntryIsAt ==
    ASSUME NEW m, NEW p \in PathsOf(m)
    PROVE  EntryAt(m, p) \in m.entries /\ EntryAt(m, p).path = p
<1>1. \E e \in m.entries : e.path = p
    BY DEF PathsOf
<1> QED
    BY <1>1 DEF EntryAt

\* What the entry at a place tells is what was seen there.
LEMMA EntryAtTells ==
    ASSUME NEW m, Clear(m), Sound(m), NEW t \in m.shown, Place(t) \in PathsOf(m)
    PROVE  Tells(EntryAt(m, Place(t)), t)
<1>1. PICK e \in m.entries : e = EntryAt(m, Place(t)) /\ e.path = Place(t)
    BY EntryIsAt
<1>2. Len(e.path) <= 2
    BY <1>1, PlacesAreShort
<1>3. PICK u \in m.shown : Tells(e, u)
    BY <1>2 DEF Sound
<1>4. Place(u) = Place(t)
    BY <1>1, <1>3 DEF Tells
<1>5. u = t
    BY <1>4 DEF Clear
<1> QED
    BY <1>1, <1>3, <1>5

LEMMA WholeIsFiled ==
    ASSUME NEW m, Whole(m), NEW t \in m.shown
    PROVE  Place(t) \in PathsOf(m)
BY DEF Whole, Told, Tells, PathsOf

\* Both readings, of a tree that nobody moved while it was read.
LEMMA BothReadings ==
    ASSUME Evidenced, Decided, ~stirred
    PROVE  /\ manifest \in Seq(Manifests) /\ Len(manifest) = 2
           /\ First \in Manifests /\ Second \in Manifests
           /\ Clear(First) /\ Sound(First) /\ Whole(First)
           /\ Clear(Second) /\ Sound(Second) /\ Whole(Second)
           /\ Dated(manifest)
<1>1. Paced(walk, manifest) /\ Exact(walk, manifest) /\ walk.pc = "decided"
    BY DEF Evidenced, Evident, Decided
<1>2. manifest \in Seq(Manifests) /\ Len(manifest) = 2
    BY <1>1 DEF Paced
<1>3. 1 \in 1..Len(manifest) /\ 2 \in 1..Len(manifest)
    BY <1>2
<1>4. First \in Manifests /\ Second \in Manifests
    BY <1>2, <1>3 DEF First, Second
<1>5. \A i \in 1..Len(manifest) : Clear(manifest[i]) /\ Sound(manifest[i])
                                  /\ Whole(manifest[i])
    BY <1>1 DEF Exact, Walking
<1>6. Dated(manifest)
    BY <1>1, <1>2 DEF Exact
<1> QED
    BY <1>2, <1>3, <1>4, <1>5, <1>6 DEF First, Second

\* One entry in both manifests tells one thing of both views.
LEMMA SameEntrySameSight ==
    ASSUME Evidenced, Decided, ~stirred,
           NEW e \in First.entries, e \in Second.entries,
           NEW t \in First.shown, Tells(e, t), NEW u \in Second.shown, Tells(e, u)
    PROVE  t = u
<1>1. t \in Sights /\ u \in Sights /\ Len(manifest) = 2
    BY BothReadings DEF Manifests
<1>2. t[1] = u[1] /\ t[2] = u[2] /\ t[3] = u[3]
    BY PlacesDiffer DEF Tells
<1>3. CASE KindOf[t[3]] = "file"
  <2>1. \A x \in manifest[1].entries, s \in manifest[1].shown :
           Tells(x, s) /\ KindOf[s[3]] = "file" =>
              \A d \in manifest[2].entries, v \in manifest[2].shown :
                 Tells(d, v) /\ v[3] = s[3] /\ d.stamp = x.stamp => v[4] = s[4]
      BY <1>1, BothReadings DEF Dated
  <2>2. u[4] = t[4]
      BY <1>2, <1>3, <2>1 DEF First, Second
  <2> QED
      BY <1>1, <1>2, <2>2, SightsAreTuples
<1>4. CASE KindOf[t[3]] # "file"
  <2>1. t[4] = 0 /\ u[4] = 0
      BY <1>2, <1>4, BothReadings DEF Clear
  <2> QED
      BY <1>1, <1>2, <2>1, SightsAreTuples
<1> QED
    BY <1>3, <1>4

LEMMA SameManifestsSameViews ==
    ASSUME Evidenced, Decided, ~stirred, SameManifest(First, Second)
    PROVE  First.shown = Second.shown
<1>1. First.entries = Second.entries
    BY DEF SameManifest
<1>2. ASSUME NEW t \in First.shown PROVE t \in Second.shown
  <2>1. PICK e \in First.entries : Tells(e, t)
      BY BothReadings DEF Whole, Told
  <2>2. Len(e.path) <= 2
      BY <2>1, PlacesAreShort DEF Tells
  <2>3. PICK u \in Second.shown : Tells(e, u)
      BY <1>1, <2>1, <2>2, BothReadings DEF Sound
  <2> QED
      BY <1>1, <2>1, <2>3, SameEntrySameSight
<1>3. ASSUME NEW u \in Second.shown PROVE u \in First.shown
  <2>1. PICK e \in Second.entries : Tells(e, u)
      BY BothReadings DEF Whole, Told
  <2>2. Len(e.path) <= 2
      BY <2>1, PlacesAreShort DEF Tells
  <2>3. PICK t \in First.shown : Tells(e, t)
      BY <1>1, <2>1, <2>2, BothReadings DEF Sound
  <2> QED
      BY <1>1, <2>1, <2>3, SameEntrySameSight
<1> QED
    BY <1>2, <1>3

\* What one reading shows and the other does not is at a path that differs.
LEMMA ChangeIsSeen ==
    ASSUME Evidenced, Decided, ~stirred,
           NEW s \in (First.shown \ Second.shown) \cup (Second.shown \ First.shown),
           s[3] \notin Dirs, s[1] \notin policy
    PROVE  Place(s) \in Differing(First, Second)
<1>1. /\ First \in Manifests /\ Second \in Manifests
      /\ Clear(First) /\ Sound(First) /\ Whole(First)
      /\ Clear(Second) /\ Sound(Second) /\ Whole(Second)
    BY BothReadings
<1>2. \A t \in First.shown \cup Second.shown :
         t \in Sights /\ (KindOf[t[3]] # "file" => t[4] = 0)
    BY <1>1 DEF Manifests, Clear
<1>3. KindOf[s[3]] \in {"file", "link"}
  <2>1. s[3] \in Obj
      BY <1>2 DEF Sights
  <2> QED
      BY <2>1, ObjectsHaveKinds DEF FileKinds
<1>4. Place(s) \in PathsOf(First) \cup PathsOf(Second)
    BY <1>1, WholeIsFiled
<1>5. ASSUME Place(s) \in PathsOf(First) \cap PathsOf(Second),
             Compared(EntryAt(First, Place(s))) = Compared(EntryAt(Second, Place(s)))
      PROVE  FALSE
  <2>1. PICK x, y : x = EntryAt(First, Place(s)) /\ y = EntryAt(Second, Place(s))
      OBVIOUS
  <2>2. /\ x \in First.entries /\ x.path = Place(s)
        /\ y \in Second.entries /\ y.path = Place(s)
      BY <1>5, <2>1, EntryIsAt
  <2>3. Len(x.path) <= 2 /\ Len(y.path) <= 2
      BY <2>2, PlacesAreShort
  <2>4. PICK t \in First.shown : Tells(x, t)
      BY <1>1, <2>2, <2>3 DEF Sound
  <2>5. PICK u \in Second.shown : Tells(y, u)
      BY <1>1, <2>2, <2>3 DEF Sound
  <2>6. Place(t) = Place(s) /\ Place(u) = Place(s)
      BY <2>2, <2>4, <2>5 DEF Tells
  <2>7. CASE s \in First.shown
    <3>1. t = s
        BY <1>1, <2>6, <2>7 DEF Clear
    <3>2. t = u
        BY <1>2, <1>3, <1>5, <2>1, <2>4, <2>5, <2>6, <3>1, ComparedAlike
    <3> QED
        BY <2>7, <3>1, <3>2
  <2>8. CASE s \in Second.shown
    <3>1. u = s
        BY <1>1, <2>6, <2>8 DEF Clear
    <3>2. u = t
      <4>1. Compared(y) = Compared(x) /\ Place(u) = Place(t)
          BY <1>5, <2>1, <2>6
      <4> QED
          BY <1>2, <1>3, <2>4, <2>5, <3>1, <4>1, ComparedAlike
    <3> QED
        BY <2>8, <3>1, <3>2
  <2> QED
      BY <2>7, <2>8
<1> QED
    BY <1>4, <1>5 DEF Differing

LEMMA VerdictsHold == Evidenced => VerdictsAreTrue
<1> SUFFICES ASSUME Evidenced, Decided, ~stirred
             PROVE  /\ SameManifest(First, Second) => First.shown = Second.shown
                    /\ Describable(First, Second) =>
                          \A t \in Truth :
                              \/ PathOfTruth(t) \in Changes(First, Second)
                              \/ Structural(First, Second, PathOfTruth(t))
                              \/ t[1] \in policy
    BY DEF VerdictsAreTrue
<1>1. ASSUME Describable(First, Second), NEW t \in Truth, t[1] \notin policy
      PROVE  \/ PathOfTruth(t) \in Changes(First, Second)
             \/ Structural(First, Second, PathOfTruth(t))
  <2>1. PICK s \in (First.shown \ Second.shown) \cup (Second.shown \ First.shown) :
           s[3] \notin Dirs /\ t = <<s[1], s[2]>>
      BY DEF Truth
  <2>2. t[1] = s[1] /\ t[2] = s[2]
      BY <2>1
  <2>3. PathOfTruth(t) = Place(s)
      BY <2>1, <2>2 DEF PathOfTruth, Place
  <2>4. Place(s) \in Differing(First, Second)
      BY <1>1, <2>1, <2>2, ChangeIsSeen
  <2>5. Place(s) \in Changes(First, Second) \/ Structural(First, Second, Place(s))
      BY <1>1, <2>4 DEF Describable
  <2> QED
      BY <2>3, <2>5
<1> QED
    BY <1>1, SameManifestsSameViews

\* fs_evidence.scan, changes and inspect_holder: a manifest holds bytes of no
\* object but the one that was listed, and of none outside the checkout; what
\* is called unmoved is, and a difference that is described names every file
\* whose bytes were read and are not what they were, if nobody moved anything
\* under a scan; a holder answers with its own marker and its own root.
THEOREM EvidenceAlwaysHolds == EvidenceSpec => []EvidenceHolds
<1>1. ScanInit => Evidenced
    BY EvidencedAtFirst
<1>2. Evidenced /\ [ScanNext]_evidence => Evidenced'
    BY EvidencedStays
<1>3. Evidenced => EvidenceHolds
    BY ReadWhatWasListed, VerdictsHold, HoldersAnswer DEF EvidenceHolds
<1> QED
    BY <1>1, <1>2, <1>3, PTL DEF EvidenceSpec
=============================================================================
