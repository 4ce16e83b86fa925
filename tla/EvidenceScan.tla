---------------------------- MODULE EvidenceScan ----------------------------
(***************************************************************************)
(* Reading a tree that others may be moving: fs_evidence.scan over the     *)
(* handle-bound transport, taken twice by changes to say whether the       *)
(* operator's checkout moved, and the holder of a workspace that is opened *)
(* once to answer for itself.  A handle is the object it was opened on, a  *)
(* path is asked again at every use.  Every file has the same size, so     *)
(* only its identity, its timestamp and its bytes can tell.                *)
(***************************************************************************)
EXTENDS Naturals, FiniteSets, Sequences

CONSTANTS
    Obj, KindOf,   \* filesystem objects: "dir", "file" or "link"
    Name, EnvName, \* names, and those that end in _env
    Platform,      \* "posix", "windows"
    Repo, Outside, \* the checkout, and objects that are not in it
    Marker, HolderRoot, Git,  \* names in a holder, and .git
    Layout,        \* which object a directory has under a name
    Nil, Quiescence,
    MaxMove, MaxTick

Dirs == {o \in Obj : KindOf[o] = "dir"}

\* No directory of the checkout names one that is outside, and every file that
\* is outside has a name there.
ASSUME EvidenceAssumption ==
    /\ IsFiniteSet(Obj) /\ IsFiniteSet(Name)
    /\ Nil \notin Obj /\ Nil \notin Name
    /\ KindOf \in [Obj -> {"dir", "file", "link"}]
    /\ EnvName \subseteq Name /\ {Marker, HolderRoot, Git} \subseteq Name
    /\ Platform \subseteq {"posix", "windows"}
    /\ Repo \in Dirs /\ Outside \subseteq Obj
    /\ Layout \in [Dirs -> [Name -> Obj \cup {Nil}]]
    /\ \A d \in Dirs \ Outside, n \in Name : Layout[d][n] \notin Dirs \cap Outside
    /\ \A f \in Outside : KindOf[f] = "file" =>
          \E d \in Dirs \cap Outside, n \in Name : Layout[d][n] = f
    /\ Quiescence \in Nat \ {0} /\ MaxMove \in Nat /\ MaxTick \in Nat

VARIABLES
    tick,      \* the quantum of file timestamps
    root,      \* the directory the path of the checkout leads to
    at, version, stamp,
    policy,    \* top-level names whose files are described without their bytes
    walk,      \* the walker
    manifest,  \* what it has described
    answer,    \* what a holder said of itself
    moves,     \* what others did
    stirred,   \* history: somebody moved something while a scan was under way
    twice      \* history: files written twice with one timestamp

tree == <<root, at, version, stamp>>
evidence == <<tick, tree, policy, walk, manifest, answer, moves, stirred, twice>>

Files == {o \in Obj : KindOf[o] = "file"}
Links == {o \in Obj : KindOf[o] = "link"}

Named(d) == {n \in Name : at[d][n] # Nil}
LinkCount(o) == Cardinality({p \in Dirs \X Name : at[p[1]][p[2]] = o})

Still == [pc |-> "start", os |-> "posix", since |-> 0, frames |-> <<>>,
          record |-> Nil, held |-> Nil, read |-> Nil]

ScanInit ==
    /\ tick = 1 /\ root = Repo
    /\ at = Layout
    /\ version = [f \in Files |-> 0]
    /\ stamp = [o \in Obj |-> 0]
    /\ policy = {}
    /\ \E os \in Platform : walk = [Still EXCEPT !.os = os]
    /\ manifest = <<>>
    /\ answer = [marker |-> Nil, root |-> Nil]
    /\ moves = 0 /\ stirred = FALSE /\ twice = {}

-----------------------------------------------------------------------------
(* Everybody else: an editor, a model's tool, an operator.                    *)

\* The first reading begins with its wait: who writes between the wait and the
\* reading can write again under the timestamp that was read.
Scanning ==
    \/ walk.pc \in {"walk", "hash", "link", "relink"}
    \/ walk.pc \in {"quiesce", "open"} /\ manifest = <<>>

Moves ==
    /\ moves < MaxMove
    /\ moves' = moves + 1
    /\ stirred' = (stirred \/ Scanning)
    /\ UNCHANGED <<tick, policy, walk, manifest, answer>>

\* The names of a directory change with it.
Stamps(ds) == stamp' = [o \in Obj |-> IF o \in ds THEN tick ELSE stamp[o]]

Write(f) ==
    /\ Moves
    /\ version' = [version EXCEPT ![f] = @ + 1]
    /\ Stamps({f})
    /\ twice' = IF stamp[f] = tick THEN twice \cup {f} ELSE twice
    /\ UNCHANGED <<root, at>>

\* rename: a file or a link that stands in the way is replaced.
Rename(d1, n1, d2, n2) ==
    /\ Moves
    /\ <<d1, n1>> # <<d2, n2>> /\ at[d1][n1] \notin {Nil, d2}
    /\ at[d2][n2] \in {Nil} \cup Files \cup Links
    /\ KindOf[at[d1][n1]] = "dir" => at[d2][n2] = Nil
    /\ at' = [at EXCEPT ![d1][n1] = Nil, ![d2][n2] = at[d1][n1]]
    /\ Stamps({d1, d2})
    /\ UNCHANGED <<root, version, twice>>

Remove(d, n) ==
    /\ Moves
    /\ at[d][n] \in Files \cup Links
    /\ at' = [at EXCEPT ![d][n] = Nil]
    /\ Stamps({d})
    /\ UNCHANGED <<root, version, twice>>

\* A new symlink or junction, or a second name of any file there is.
Plant(o, d, n) ==
    /\ Moves
    /\ at[d][n] = Nil
    /\ o \in Links => LinkCount(o) = 0
    /\ at' = [at EXCEPT ![d][n] = o]
    /\ Stamps({d})
    /\ UNCHANGED <<root, version, twice>>

\* The path of the checkout leads to another directory.
Swap(d) ==
    /\ Moves
    /\ d # root
    /\ root' = d
    /\ UNCHANGED <<at, version, stamp, twice>>

TimePasses ==
    /\ tick < MaxTick
    /\ tick' = tick + 1
    /\ UNCHANGED <<tree, policy, walk, manifest, answer, moves, stirred, twice>>

Inside == Dirs \ Outside

Others ==
    \/ \E f \in Files \ Outside : Write(f)
    \/ \E d1, d2 \in Inside, n1, n2 \in Name : Rename(d1, n1, d2, n2)
    \/ \E d \in Inside, n \in Name :
           Remove(d, n) \/ \E o \in Files \cup Links : Plant(o, d, n)
    \/ \E d \in Dirs : Swap(d)
    \/ TimePasses

-----------------------------------------------------------------------------
(* The transport.                                                             *)

\* What a stat relative to the open directory says of a name.
RecordOf(d, n) ==
    [name |-> n, id |-> at[d][n], kind |-> KindOf[at[d][n]],
     stamp |-> stamp[at[d][n]], nlink |-> LinkCount(at[d][n])]

Frame(d, path) ==
    [dir |-> d, path |-> path, unasked |-> Named(d), records |-> {}]

Top == walk.frames[Len(walk.frames)]
WithTop(f) == [walk.frames EXCEPT ![Len(walk.frames)] = f]

\* A relative open reaches an object, which must be the one that was listed.
Reached(r) == at[Top.dir][r.name]

\* Mutant: whatever has the name by now will do, if it is of that kind.
BoundByName(r) == Reached(r) # Nil /\ KindOf[Reached(r)] = r.kind

Bound(r) == Reached(r) = r.id

Walks(w) ==
    /\ walk' = w
    /\ UNCHANGED <<tick, tree, policy, moves, stirred, twice>>

Refuses == Walks([Still EXCEPT !.pc = "refused"]) /\ UNCHANGED <<manifest, answer>>

-----------------------------------------------------------------------------
(* fs_evidence.scan.                                                          *)

\* _main_policy: a link that is named like an environment is none.
FreezePolicy ==
    /\ walk.pc = "start"
    /\ policy' = {n \in EnvName : at[root][n] \in Dirs}
    /\ walk' = [walk EXCEPT !.pc = "quiesce", !.since = tick]
    /\ UNCHANGED <<tick, tree, manifest, answer, moves, stirred, twice>>

Quiesce ==
    /\ walk.pc = "quiesce"
    /\ tick >= walk.since + Quiescence
    /\ Walks([walk EXCEPT !.pc = "open"])
    /\ UNCHANGED <<manifest, answer>>

\* A history of the tree as it was: what is at each path, and which version.
Shown ==
    {<<n, Nil, at[root][n],
       IF at[root][n] \in Files THEN version[at[root][n]] ELSE 0>> :
        n \in Named(root)}
    \cup UNION {{<<n, m, at[at[root][n]][m],
                   IF at[at[root][n]][m] \in Files
                   THEN version[at[at[root][n]][m]] ELSE 0>> :
                     m \in Named(at[root][n])} :
                n \in {k \in Named(root) : at[root][k] \in Dirs}}

\* open_root, and the names the open directory lists.
OpenRoot ==
    /\ walk.pc = "open"
    /\ Walks([walk EXCEPT !.pc = "walk", !.since = tick,
                          !.frames = <<Frame(root, <<>>)>>])
    /\ manifest' = Append(manifest, [root |-> root, entries |-> {},
                                     shown |-> Shown])
    /\ UNCHANGED answer

\* The listing gives names only: every child is asked for itself, and one
\* that is gone by then ends the scan.
AskChild(n) ==
    /\ walk.pc \in {"walk", "holder"} /\ n \in Top.unasked
    /\ IF at[Top.dir][n] = Nil THEN Refuses
       ELSE /\ Walks([walk EXCEPT !.frames =
                 WithTop([Top EXCEPT !.unasked = @ \ {n},
                                     !.records = @ \cup {RecordOf(Top.dir, n)}])])
            /\ UNCHANGED <<manifest, answer>>

Ready(r) == walk.pc = "walk" /\ Top.unasked = {} /\ r \in Top.records
FromTheFuture(r) == r.stamp > walk.since + Quiescence
PathOf(r) == Append(Top.path, r.name)
Rest(r) == WithTop([Top EXCEPT !.records = @ \ {r}])

EntryOf(r, mac, sha) ==
    [path |-> PathOf(r), kind |-> r.kind, id |-> r.id, stamp |-> r.stamp,
     nlink |-> r.nlink, mac |-> mac, sha |-> sha]

Describe(e) ==
    manifest' = [manifest EXCEPT ![Len(manifest)].entries = @ \cup {e}]

\* _evidence_class
Reduced(r) == Head(PathOf(r)) \in policy

RefuseRecord(r) ==
    /\ Ready(r)
    /\ FromTheFuture(r) \/ (r.kind = "file" /\ r.nlink # 1)
    /\ Refuses

DescribeReduced(r) ==
    /\ Ready(r) /\ ~FromTheFuture(r)
    /\ r.kind = "file" /\ r.nlink = 1 /\ Reduced(r)
    /\ Describe(EntryOf(r, Nil, Nil))
    /\ Walks([walk EXCEPT !.frames = Rest(r)])
    /\ UNCHANGED answer

EnterDirectory(r) ==
    /\ Ready(r) /\ ~FromTheFuture(r) /\ r.kind = "dir"
    /\ IF ~Bound(r) THEN Refuses
       ELSE /\ Describe(EntryOf(r, Nil, Nil))
            /\ Walks([walk EXCEPT !.frames =
                   Append(Rest(r), Frame(Reached(r), PathOf(r)))])
            /\ UNCHANGED answer

\* open_child_file, the identity _hash_descriptor reads first, and the first
\* block.  The descriptor stays on its object whatever becomes of the name.
OpenFile(r) ==
    /\ Ready(r) /\ ~FromTheFuture(r)
    /\ r.kind = "file" /\ r.nlink = 1 /\ ~Reduced(r)
    /\ IF ~Bound(r) THEN Refuses
       ELSE /\ Walks([walk EXCEPT !.pc = "hash", !.record = r,
                                  !.held = Reached(r),
                                  !.read = <<version[Reached(r)], stamp[Reached(r)],
                                             LinkCount(Reached(r))>>])
            /\ UNCHANGED <<manifest, answer>>

\* The last block, and the identity again.
FinishHash ==
    LET r == walk.record
        h == walk.held
    IN  /\ walk.pc = "hash"
        /\ IF <<stamp[h], LinkCount(h)>> # <<walk.read[2], walk.read[3]>>
                 \/ LinkCount(h) # 1
           THEN Refuses
           ELSE /\ Describe(EntryOf(r, Nil, <<h, walk.read[1], version[h]>>))
                /\ Walks([walk EXCEPT !.pc = "walk", !.frames = Rest(r),
                              !.record = Nil, !.held = Nil, !.read = Nil])
                /\ UNCHANGED answer

\* Windows opens the reparse point itself and reads it through that handle.
ReadReparsePoint(r) ==
    /\ Ready(r) /\ ~FromTheFuture(r) /\ r.kind = "link" /\ walk.os = "windows"
    /\ IF ~Bound(r) THEN Refuses
       ELSE /\ Describe(EntryOf(r, Reached(r), Nil))
            /\ Walks([walk EXCEPT !.frames = Rest(r)])
            /\ UNCHANGED answer

\* POSIX reads it by name, and asks for the name's identity on both sides.
FindLink(r) ==
    /\ Ready(r) /\ ~FromTheFuture(r) /\ r.kind = "link" /\ walk.os = "posix"
    /\ IF ~Bound(r) THEN Refuses
       ELSE /\ Walks([walk EXCEPT !.pc = "link", !.record = r])
            /\ UNCHANGED <<manifest, answer>>

ReadLink ==
    LET found == Reached(walk.record)
    IN  /\ walk.pc = "link"
        /\ IF found \notin Links THEN Refuses
           ELSE /\ Walks([walk EXCEPT !.pc = "relink", !.read = found])
                /\ UNCHANGED <<manifest, answer>>

FinishLink ==
    LET r == walk.record
    IN  /\ walk.pc = "relink"
        /\ IF ~Bound(r) THEN Refuses
           ELSE /\ Describe(EntryOf(r, walk.read, Nil))
                /\ Walks([walk EXCEPT !.pc = "walk", !.frames = Rest(r),
                                      !.record = Nil, !.read = Nil])
                /\ UNCHANGED answer

\* The last child is dealt with: the directory is closed.  The first reading
\* is taken before the call it is about, the second one after it.
LeaveDirectory ==
    LET left == SubSeq(walk.frames, 1, Len(walk.frames) - 1)
    IN  /\ walk.pc = "walk" /\ Top.unasked = {} /\ Top.records = {}
        /\ Walks([walk EXCEPT
               !.frames = left, !.since = IF left = <<>> THEN tick ELSE @,
               !.pc = IF left # <<>> THEN "walk"
                      ELSE IF Len(manifest) = 1 THEN "quiesce" ELSE "decided"])
        /\ UNCHANGED <<manifest, answer>>

\* A call of the transport that fails, or a directory that does not close.
ReadFails ==
    /\ walk.pc \in {"walk", "hash", "link", "relink", "holder", "roots"}
    /\ Refuses

Scan ==
    \/ FreezePolicy \/ Quiesce \/ OpenRoot
    \/ \E n \in Name : AskChild(n)
    \/ walk.pc = "walk" /\ \E r \in Top.records :
          \/ RefuseRecord(r) \/ DescribeReduced(r) \/ EnterDirectory(r)
          \/ OpenFile(r) \/ ReadReparsePoint(r) \/ FindLink(r)
    \/ FinishHash \/ ReadLink \/ FinishLink \/ LeaveDirectory \/ ReadFails

-----------------------------------------------------------------------------
(* workspace_evidence.inspect_holder: one open directory answers for all.     *)

OpenHolder ==
    /\ walk.pc = "start"
    /\ Walks([walk EXCEPT !.pc = "holder", !.frames = <<Frame(root, <<>>)>>])
    /\ UNCHANGED <<manifest, answer>>

Listed(n, kind) == {r \in Top.records : r.name = n /\ r.kind = kind}

ReadMarker ==
    /\ walk.pc = "holder" /\ Top.unasked = {}
    /\ IF ~\E r \in Listed(Marker, "file") : Bound(r) THEN Refuses
       ELSE /\ \E r \in Listed(Marker, "file") :
                 answer' = [answer EXCEPT !.marker = Reached(r)]
            /\ Walks([walk EXCEPT !.pc = "roots"])
            /\ UNCHANGED manifest

\* The root is opened through the holder, and may not hold a .git.
OpenHolderRoot ==
    /\ walk.pc = "roots"
    /\ IF ~\E r \in Listed(HolderRoot, "dir") : Bound(r) /\ at[r.id][Git] = Nil
       THEN Walks([Still EXCEPT !.pc = "refused"])
            /\ answer' = [marker |-> Nil, root |-> Nil] /\ UNCHANGED manifest
       ELSE /\ \E r \in Listed(HolderRoot, "dir") :
                 answer' = [answer EXCEPT !.root = Reached(r)]
            /\ Walks([walk EXCEPT !.pc = "answered"])
            /\ UNCHANGED manifest

ScanNext == Scan \/ OpenHolder \/ ReadMarker \/ OpenHolderRoot \/ Others

EvidenceSpec == ScanInit /\ [][ScanNext]_evidence

-----------------------------------------------------------------------------
(* What changes makes of two readings.                                        *)

\* _MainSnapshot: one root read twice, by its whole digest.
SameManifest(m1, m2) == m1.root = m2.root /\ m1.entries = m2.entries

\* _project_main: what of an entry two readings are compared by.
Compared(e) ==
    IF e.kind = "file" THEN <<"file", e.sha, e.nlink, e.mac>> ELSE <<e.kind, e.mac>>

PathsOf(m) == {e.path : e \in m.entries}
EntryAt(m, p) == CHOOSE e \in m.entries : e.path = p
Differing(m1, m2) ==
    {p \in PathsOf(m1) \cup PathsOf(m2) :
        ~(/\ p \in PathsOf(m1) \cap PathsOf(m2)
          /\ Compared(EntryAt(m1, p)) = Compared(EntryAt(m2, p)))}
Kinds(m1, m2, p) ==
    {e.kind : e \in {f \in m1.entries \cup m2.entries : f.path = p}}

\* _semantic_changes: the files that were added, modified or deleted.
Changes(m1, m2) == {p \in Differing(m1, m2) : Kinds(m1, m2, p) = {"file"}}

\* _assert_structural: a directory comes and goes with a file beneath it.
Structural(m1, m2, p) ==
    /\ p \notin PathsOf(m1) \cap PathsOf(m2)
    /\ \E q \in Changes(m1, m2) : Len(q) > Len(p) /\ SubSeq(q, 1, Len(p)) = p

\* main_difference: what it can describe, it describes whole.
Describable(m1, m2) ==
    /\ m1.root = m2.root
    /\ \A p \in Differing(m1, m2) \ Changes(m1, m2) : Structural(m1, m2, p)

-----------------------------------------------------------------------------
Decided == walk.pc = "decided"
First == manifest[1]
Second == manifest[2]

\* Paths at which there was or is something other than a directory, and its
\* object, or the version of its bytes, is not what it was.
Truth == {<<t[1], t[2]>> : t \in {s \in (First.shown \ Second.shown)
                                        \cup (Second.shown \ First.shown) :
                                    s[3] \notin Dirs}}
PathOfTruth(t) == IF t[2] = Nil THEN <<t[1]>> ELSE t

\* Whatever others do, a manifest holds bytes of no object but the one that
\* was listed, each of one version of it unless two writes bear one
\* timestamp, it has entered nothing that is not of the tree, and a reparse
\* point read through its handle is the one that was listed.
ReadOnlyWhatWasListed ==
    /\ \A i \in 1 .. Len(manifest) : \A e \in manifest[i].entries :
          /\ e.sha # Nil => /\ e.sha[1] = e.id
                            /\ e.sha[2] # e.sha[3] => e.id \in twice
                            /\ e.id \in Outside => manifest[i].root \in Outside
          /\ walk.os = "windows" => e.mac \in {Nil, e.id}
    /\ manifest # <<>> => \A i \in 1 .. Len(walk.frames) :
          walk.frames[i].dir \in Outside => manifest[Len(manifest)].root \in Outside

\* If nobody moved anything while a scan was under way: a checkout that is
\* called unmoved is, to the last timestamp of a file whose bytes were not
\* read; and a difference that is described names every file whose bytes
\* were read and are not what they were.
VerdictsAreTrue ==
    (Decided /\ ~stirred) =>
        /\ SameManifest(First, Second) => First.shown = Second.shown
        /\ Describable(First, Second) =>
              \A t \in Truth :
                  \/ PathOfTruth(t) \in Changes(First, Second)
                  \/ Structural(First, Second, PathOfTruth(t))
                  \/ t[1] \in policy

\* However the path of a holder is swapped for that of another, the marker
\* and the root it answers with are those of the directory it was opened on,
\* and the root has no .git, unless their names have been changed.
HolderAnswersForItself ==
    walk.pc = "answered" =>
        LET d == walk.frames[1].dir IN
        /\ stamp[d] = 0 =>
              answer = [marker |-> at[d][Marker], root |-> at[d][HolderRoot]]
        /\ stamp[answer.root] = 0 => at[answer.root][Git] = Nil

\* What is said of a tree that others may be moving is true of some tree there
\* was.
EvidenceHolds == ReadOnlyWhatWasListed /\ VerdictsAreTrue /\ HolderAnswersForItself
=============================================================================
