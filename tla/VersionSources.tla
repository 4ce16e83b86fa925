--------------------------- MODULE VersionSources ---------------------------
(***************************************************************************)
(* The immutable source of one document version in the object store:       *)
(* publish_version_source, read_version_source and purge_version_source    *)
(* over the handle-bound storage transport, by processes that overlap and  *)
(* that fail anywhere.  Whoever fails leaves what it made.  A process that *)
(* holds a directory which was removed sees an empty one.                  *)
(***************************************************************************)
EXTENDS Naturals, FiniteSets, Sequences

CONSTANTS
    Publisher, Reader, Purger,
    Body, Expected,   \* contents, and the one the version's row names
    System, NoBody,
    MaxObject, MaxDirectory

\* Nobody publishes and reads in one call, and no body is no body.
ASSUME SourcesAssumption ==
    /\ Publisher \cap Reader = {} /\ Publisher \cap Purger = {}
    /\ Reader \cap Purger = {}
    /\ NoBody \notin Body \cup {"created", "kept", "corrupt", "removed"}

VARIABLES
    platform,
    folder,     \* the version's directory, 0 if there is none
    lastFolder,
    source,     \* the object named source.bin, 0 if there is none
    temporary,  \* the objects that have a temporary name
    object,     \* every object, by identity
    actor,
    purges      \* history: how often a purge took the source away

storage == <<platform, folder, lastFolder, source, temporary, object, actor, purges>>

Caller == Publisher \cup Reader \cup Purger

Waiting == [pc |-> "idle", in |-> 0, body |-> NoBody, made |-> 0, seen |-> 0,
            purges |-> 0, result |-> NoBody]

StorageInit ==
    /\ platform \in System
    /\ folder = 0 /\ lastFolder = 0 /\ source = 0
    /\ temporary = {} /\ object = <<>>
    /\ actor = [a \in Caller |-> Waiting]
    /\ purges = 0

-----------------------------------------------------------------------------
Steps(a, r) == actor' = [actor EXCEPT ![a] = r]
Goes(a, pc) == Steps(a, [actor[a] EXCEPT !.pc = pc])
Ends(a, what) == Steps(a, [actor[a] EXCEPT !.pc = "done", !.result = what])

Names == <<folder, lastFolder, source, temporary, object, purges>>

\* The directory an actor holds is still the one that has names.
Holds(a) == folder # 0 /\ actor[a].in = folder
Finds(a) == IF Holds(a) THEN source ELSE 0

-----------------------------------------------------------------------------
(* publish_version_source                                                     *)

Publish(p, b) ==
    /\ actor[p].pc = "idle"
    /\ Steps(p, [Waiting EXCEPT !.pc = "tree", !.body = b, !.purges = purges])
    /\ UNCHANGED <<platform, Names>>

\* _open_or_create: whoever loses the exclusive mkdir adopts the winner's.
MakeTree(p) ==
    /\ actor[p].pc = "tree"
    /\ folder = 0 => lastFolder < MaxDirectory
    /\ folder' = IF folder = 0 THEN lastFolder + 1 ELSE folder
    /\ lastFolder' = IF folder = 0 THEN lastFolder + 1 ELSE lastFolder
    /\ Goes(p, "enter")
    /\ UNCHANGED <<platform, source, temporary, object, purges>>

EnterTree(p) ==
    /\ actor[p].pc = "enter"
    /\ IF folder = 0 THEN Ends(p, "refused")
       ELSE Steps(p, [actor[p] EXCEPT !.pc = "look", !.in = folder])
    /\ UNCHANGED <<platform, Names>>

LookForSource(p) ==
    /\ actor[p].pc = "look"
    /\ Goes(p, IF Finds(p) # 0 THEN "compare" ELSE "create")
    /\ UNCHANGED <<platform, Names>>

\* An exclusive create under a name nobody else draws.
CreateTemporary(p) ==
    /\ actor[p].pc = "create"
    /\ IF ~Holds(p)
       THEN Ends(p, "refused") /\ UNCHANGED <<object, temporary>>
       ELSE /\ Len(object) < MaxObject
            /\ object' = Append(object, [body |-> actor[p].body, whole |-> FALSE])
            /\ temporary' = temporary \cup {Len(object) + 1}
            /\ Steps(p, [actor[p] EXCEPT !.pc = "write", !.made = Len(object) + 1])
    /\ UNCHANGED <<platform, folder, lastFolder, source, purges>>

\* write_all and fsync_handle; then the temporary object is read back.
WriteTemporary(p) ==
    /\ actor[p].pc = "write"
    /\ object' = [object EXCEPT ![actor[p].made].whole = TRUE]
    /\ Goes(p, "link")
    /\ UNCHANGED <<platform, folder, lastFolder, source, temporary, purges>>

\* Mutant: rename, which replaces what is there.
ReplaceSource(p) ==
    /\ actor[p].pc = "link" /\ platform = "posix"
    /\ Holds(p)
    /\ source' = actor[p].made
    /\ Goes(p, "unlink")
    /\ UNCHANGED <<platform, folder, lastFolder, temporary, object, purges>>

\* rename_child where names are linked: the target is claimed, never replaced.
LinkSource(p) ==
    /\ actor[p].pc = "link" /\ platform = "posix"
    /\ Holds(p) /\ source = 0
    /\ source' = actor[p].made
    /\ Goes(p, "unlink")
    /\ UNCHANGED <<platform, folder, lastFolder, temporary, object, purges>>

UnlinkTemporary(p) ==
    /\ actor[p].pc = "unlink"
    /\ temporary' = temporary \ {actor[p].made}
    /\ Goes(p, "check")
    /\ UNCHANGED <<platform, folder, lastFolder, source, object, purges>>

\* rename_child where the object a handle names is renamed in one call.
RenameSource(p) ==
    /\ actor[p].pc = "link" /\ platform = "windows"
    /\ Holds(p) /\ source = 0
    /\ source' = actor[p].made
    /\ temporary' = temporary \ {actor[p].made}
    /\ Goes(p, "check")
    /\ UNCHANGED <<platform, folder, lastFolder, object, purges>>

\* Somebody else's source is there: the temporary object stays behind.
SourceTaken(p) ==
    /\ actor[p].pc = "link"
    /\ Finds(p) # 0
    /\ Goes(p, "compare")
    /\ UNCHANGED <<platform, Names>>

CheckPublished(p) ==
    /\ actor[p].pc = "check"
    /\ Ends(p, IF Finds(p) = actor[p].made THEN "created" ELSE "refused")
    /\ UNCHANGED <<platform, Names>>

\* Mutant: whatever is there is taken for a retry.
KeepSource(p) ==
    /\ actor[p].pc = "compare"
    /\ Ends(p, IF Finds(p) = 0 THEN "refused" ELSE "kept")
    /\ UNCHANGED <<platform, Names>>

\* A retry with the same bytes is no error, other bytes are never replaced.
CompareSource(p) ==
    /\ actor[p].pc = "compare"
    /\ Ends(p, IF Finds(p) = 0 THEN "refused"
               ELSE IF object[source].body = actor[p].body THEN "kept"
               ELSE "different")
    /\ UNCHANGED <<platform, Names>>

-----------------------------------------------------------------------------
(* read_version_source                                                        *)

\* A purge that ended may be asked for again.
OpenTree(a) ==
    /\ a \in Reader \cup Purger
    /\ actor[a].pc \in IF a \in Purger THEN {"idle", "done"} ELSE {"idle"}
    /\ IF folder = 0 THEN Ends(a, "missing")
       ELSE Steps(a, [Waiting EXCEPT !.pc = "find", !.in = folder,
                                     !.purges = purges])
    /\ UNCHANGED <<platform, Names>>

FindSource(r) ==
    /\ r \in Reader /\ actor[r].pc = "find"
    /\ IF Finds(r) = 0 THEN Ends(r, "missing")
       ELSE Steps(r, [actor[r] EXCEPT !.pc = "open", !.seen = source])
    /\ UNCHANGED <<platform, Names>>

\* The object that was opened must be the one that was found.
OpenSource(r) ==
    /\ actor[r].pc = "open"
    /\ IF Finds(r) = actor[r].seen THEN Goes(r, "read") ELSE Ends(r, "corrupt")
    /\ UNCHANGED <<platform, Names>>

\* The handle reads its object, named or not; the digest is the row's.
ReadSource(r) ==
    LET o == object[actor[r].seen]
    IN  /\ actor[r].pc = "read"
        /\ Ends(r, IF o.whole /\ o.body = Expected THEN "read" ELSE "corrupt")
        /\ UNCHANGED <<platform, Names>>

-----------------------------------------------------------------------------
(* purge_version_source                                                       *)

FindForPurge(u) ==
    /\ u \in Purger /\ actor[u].pc = "find"
    /\ Steps(u, [actor[u] EXCEPT !.pc = IF Finds(u) = 0 THEN "rmdir" ELSE "bind",
                                 !.seen = Finds(u)])
    /\ UNCHANGED <<platform, Names>>

\* remove_child_file opens the name and compares identities.
BindSource(u) ==
    /\ actor[u].pc = "bind" /\ platform = "posix"
    /\ IF Finds(u) = actor[u].seen THEN Goes(u, "remove") ELSE Ends(u, "refused")
    /\ UNCHANGED <<platform, Names>>

\* unlink goes by the name.
RemoveSource(u) ==
    /\ actor[u].pc = "remove"
    /\ IF Finds(u) = 0
       THEN Ends(u, "refused") /\ UNCHANGED <<source, purges>>
       ELSE Goes(u, "release") /\ source' = 0 /\ purges' = purges + 1
    /\ UNCHANGED <<platform, folder, lastFolder, temporary, object>>

\* The object that was bound must have no name left.
ReleaseSource(u) ==
    /\ actor[u].pc = "release"
    /\ IF actor[u].seen \in temporary \cup {source}
       THEN Ends(u, "refused") ELSE Goes(u, "rmdir")
    /\ UNCHANGED <<platform, Names>>

\* Windows removes the object its handle is bound to.
DisposeSource(u) ==
    /\ actor[u].pc = "bind" /\ platform = "windows"
    /\ IF Finds(u) # actor[u].seen
       THEN Ends(u, "refused") /\ UNCHANGED <<source, purges>>
       ELSE Goes(u, "rmdir") /\ source' = 0 /\ purges' = purges + 1
    /\ UNCHANGED <<platform, folder, lastFolder, temporary, object>>

\* Only an empty directory goes, and the kernel is who says so.
RemoveDirectory(u) ==
    /\ actor[u].pc = "rmdir"
    /\ IF folder = 0 \/ source # 0 \/ temporary # {}
       THEN Ends(u, "refused") /\ UNCHANGED folder
       ELSE Ends(u, "removed") /\ folder' = 0
    /\ UNCHANGED <<platform, lastFolder, source, temporary, object, purges>>

-----------------------------------------------------------------------------
\* A call that fails, and a process that dies, leave what is there.
Fails(a) ==
    /\ actor[a].pc \notin {"idle", "done"}
    /\ Ends(a, "refused")
    /\ UNCHANGED <<platform, Names>>

StorageNext ==
    \/ \E p \in Publisher :
          \/ \E b \in Body : Publish(p, b)
          \/ MakeTree(p) \/ EnterTree(p) \/ LookForSource(p)
          \/ CreateTemporary(p) \/ WriteTemporary(p)
          \/ LinkSource(p) \/ UnlinkTemporary(p) \/ RenameSource(p)
          \/ SourceTaken(p) \/ CheckPublished(p) \/ CompareSource(p)
    \/ \E a \in Reader \cup Purger : OpenTree(a)
    \/ \E r \in Reader : FindSource(r) \/ OpenSource(r) \/ ReadSource(r)
    \/ \E u \in Purger :
          \/ FindForPurge(u) \/ BindSource(u) \/ RemoveSource(u)
          \/ ReleaseSource(u) \/ DisposeSource(u) \/ RemoveDirectory(u)
    \/ \E a \in Caller : Fails(a)

StorageSpec == StorageInit /\ [][StorageNext]_storage

-----------------------------------------------------------------------------
\* A source appears whole and is never replaced, rewritten or left in a
\* directory that is removed; only a purge takes it away.
SourceIsImmutable ==
    [][/\ source # 0 => /\ source' \in {source, 0}
                        /\ source' = 0 => purges' > purges
                        /\ folder' = folder
                        /\ object'[source] = object[source]
       /\ source' # 0 => object'[source'].whole]_storage

\* What the calls say is so: a publication that succeeded has its bytes in
\* place unless a purge began to take them since, only one of two that
\* overlap made them, a reader never finds a version torn, and what was
\* purged while nobody published is gone with its directory.
StorageAnswers ==
    /\ \A p \in Publisher :
          (actor[p].result \in {"created", "kept"} /\ actor[p].purges = purges) =>
              source # 0 /\ object[source].body = actor[p].body
    /\ \A p, q \in Publisher :
          (p # q /\ actor[p].result = "created" /\ actor[q].result = "created") =>
              purges > 0
    /\ \A r \in Reader :
          (actor[r].result = "corrupt" /\ purges = 0) =>
              \E p \in Publisher : actor[p].body \notin {NoBody, Expected}
    /\ \A u \in Purger : actor[u].result = "removed" => folder # actor[u].in
=============================================================================
