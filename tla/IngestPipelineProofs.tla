------------------------ MODULE IngestPipelineProofs ------------------------
(* Theorems about IngestPipeline, for every value of its constants, and its *)
(* refinement of ServedIndex.                                               *)
EXTENDS IngestPipeline, FiniteSetTheorems, TLAPS

-----------------------------------------------------------------------------
(* Type correctness.  TypeOK is not inductive: a parse looks up the chunks *)
(* of the bytes it holds and a write the candidate of its attempt, so both *)
(* must be known to exist.                                                 *)

\* Steps of a caller that act under an attempt it has begun.
Working == Pc \ {"idle", "crashed", "unreleased", "lock", "write", "finalize",
                 "begin"}

\* Steps that move one caller and touch nothing else: it waits, is refused, is
\* failed by the database, dies or starts again.
Quietly(w) ==
    \/ AskLock(w) \/ StageRefused(w) \/ CloseFails(w) \/ ReleaseFails(w)
    \/ Crash(w) \/ Restart(w)

LEMMA QuietlyStep ==
    ASSUME NEW w, Quietly(w)
    PROVE  UNCHANGED <<doc, version, source, attempt, lastGen, chunk, build,
                       publock, client>>
BY DEF Quietly, AskLock, StageRefused, CloseFails, ReleaseFails, Crash, Restart

\* What the local state r of a caller refers to exists.
Fits(r) ==
    /\ r.pc \in Working => r.att \in Attempt
    /\ r.pc \in {"write", "finalize", "begin", "parse"} => r.bytes \in Sha
    /\ r.pc \in {"write", "finalize"} => /\ r.cand \in Candidate
                                         /\ version[r.cand] = r.bytes
    /\ r.pc = "finalize" => r.cand \in source

\* Candidates, their digests and their stored bytes belong together.
Bound ==
    /\ doc.cand # 0 => doc.sha \in Sha /\ version[doc.cand] = doc.sha
    /\ \A c \in source : version[c] \in Sha
    /\ \A w \in Actor : Fits(run[w])

Typed == TypeOK /\ IsFiniteSet(chunk) /\ Bound

\* A local state that a step of ingest_attempt or a publication moves to:
\* one lemma for each set of fields that such a step assigns together.
LEMMA MovePc ==
    ASSUME NEW r \in RunState, NEW p \in Pc
    PROVE  [r EXCEPT !.pc = p] \in RunState
BY DEF RunState

LEMMA MoveBytes ==
    ASSUME NEW r \in RunState, NEW p \in Pc, NEW b \in Sha \cup {None}
    PROVE  [r EXCEPT !.pc = p, !.bytes = b] \in RunState
BY DEF RunState

LEMMA MoveKeys ==
    ASSUME NEW r \in RunState, NEW p \in Pc, NEW K \in SUBSET Key,
           NEW b \in BOOLEAN
    PROVE  [r EXCEPT !.pc = p, !.keys = K, !.whole = b] \in RunState
BY DEF RunState

LEMMA MoveGen ==
    ASSUME NEW r \in RunState, NEW p \in Pc, NEW g \in Nat
    PROVE  [r EXCEPT !.pc = p, !.gen = g] \in RunState
BY DEF RunState

LEMMA MoveTodoReuse ==
    ASSUME NEW r \in RunState, NEW p \in Pc, NEW K \in SUBSET Key,
           NEW L \in SUBSET Key
    PROVE  [r EXCEPT !.pc = p, !.todo = K, !.reuse = L] \in RunState
BY DEF RunState

LEMMA MoveTodo ==
    ASSUME NEW r \in RunState, NEW p \in Pc, NEW K \in SUBSET Key
    PROVE  [r EXCEPT !.pc = p, !.todo = K] \in RunState
BY DEF RunState

LEMMA FreshRuns ==
    ASSUME NEW p \in Pc, NEW b \in Sha \cup {None}
    PROVE  /\ Idle(p) \in RunState
           /\ [Idle(p) EXCEPT !.bytes = b] \in RunState
           /\ \A a \in Attempt \cup {0} : [Idle(p) EXCEPT !.att = a] \in RunState
           /\ \A c \in Candidate \cup {0} :
                 [Idle(p) EXCEPT !.cand = c, !.bytes = b] \in RunState
           /\ \A a \in Attempt \cup {0} :
                 [Idle(p) EXCEPT !.att = a, !.bytes = b] \in RunState
<1>1. Idle(p) \in RunState
    BY ConstantsAssumption DEF RunState, Idle
<1> DEFINE r == Idle(p)
<1>2. r \in RunState
    BY <1>1
<1> HIDE DEF r
<1>3. /\ [r EXCEPT !.bytes = b] \in RunState
      /\ \A a \in Attempt \cup {0} : [r EXCEPT !.att = a] \in RunState
      /\ \A c \in Candidate \cup {0} :
            [r EXCEPT !.cand = c, !.bytes = b] \in RunState
      /\ \A a \in Attempt \cup {0} :
            [r EXCEPT !.att = a, !.bytes = b] \in RunState
    BY <1>2 DEF RunState
<1> QED BY <1>1, <1>3 DEF r

\* A step of one caller changes its own local state only.
LEMMA LocalStep ==
    ASSUME NEW w \in Actor, NEW r \in RunState, LocalState(w, r),
           run \in [Actor -> RunState]
    PROVE  /\ run' \in [Actor -> RunState]
           /\ run'[w] = r
           /\ \A v \in Actor \ {w} : run'[v] = run[v]
BY DEF LocalState

\* Versions and sources are only ever added, so the other callers still fit.
LEMMA OthersFit ==
    ASSUME TypeOK, Bound, NEW w \in Actor, NEW r \in RunState,
           LocalState(w, r), Fits(r)', source \subseteq source',
           \A c \in Candidate : version[c] \in Sha => version'[c] = version[c]
    PROVE  /\ run' \in [Actor -> RunState]
           /\ \A v \in Actor : Fits(run[v])'
<1>1. /\ run' \in [Actor -> RunState]
      /\ run'[w] = r
      /\ \A v \in Actor \ {w} : run'[v] = run[v]
    BY LocalStep DEF TypeOK
<1>2. ASSUME NEW v \in Actor PROVE Fits(run[v])'
  <2>1. CASE v = w
    BY <2>1, <1>1 DEF Fits
  <2>2. CASE v # w
    <3>1. run'[v] = run[v] /\ Fits(run[v])
        BY <2>2, <1>1 DEF Bound
    <3> QED BY <3>1 DEF Fits
  <2> QED BY <2>1, <2>2
<1> QED BY <1>1, <1>2

\* A step that changes nothing but one local state.
LEMMA QuietStep ==
    ASSUME Typed, NEW w \in Actor, NEW r \in RunState, LocalState(w, r),
           Fits(r), UNCHANGED <<doc, version, source, attempt, lastGen, chunk,
                                build, publock, client>>
    PROVE  Typed'
<1>1. Fits(r)'
    BY DEF Fits
<1>2. run' \in [Actor -> RunState] /\ \A v \in Actor : Fits(run[v])'
    BY <1>1, OthersFit DEF Typed
<1> QED BY <1>2 DEF Typed, TypeOK, Bound

\* A batch of rows staged by one run is finite.
LEMMA RowsFinite ==
    ASSUME NEW w, NEW K \in SUBSET Key
    PROVE  IsFiniteSet(Rows(w, K))
<1>1. IsFiniteSet(K)
    BY ConstantsAssumption, FS_Subset
<1> DEFINE f == [k \in K |-> [gen |-> run[w].gen,
                              ver |-> attempt[run[w].att].cand, key |-> k]]
<1>2. f \in Surjection(K, Rows(w, K))
    BY DEF Surjection, Rows
<1> QED BY <1>1, <1>2, FS_Surjection

\* Rows of a typed run have the columns of the chunks table.
LEMMA RowsTyped ==
    ASSUME TypeOK, NEW w \in Actor, NEW K \in SUBSET Key,
           run[w].att \in Attempt
    PROVE  Rows(w, K) \subseteq ChunkRow
BY DEF TypeOK, Rows, ChunkRow, RunState, AttemptRow

LEMMA TypeInit == Init => Typed
<1> SUFFICES ASSUME Init PROVE Typed OBVIOUS
<1>1. \A w \in Actor : run[w] = Idle("idle") /\ run[w] \in RunState
    BY ConstantsAssumption, FreshRuns DEF Init, Pc
<1>2. Bound
    BY <1>1 DEF Init, Bound, Fits, Idle, Working
<1>3. IsFiniteSet(chunk)
    BY FS_EmptySet DEF Init
<1>4. doc \in DocRow
    BY ConstantsAssumption DEF Init, DocRow, State
<1>5. attempt \in [Attempt -> AttemptRow]
    BY ConstantsAssumption DEF Init, AttemptRow, Verdict
<1> QED BY <1>1, <1>2, <1>3, <1>4, <1>5, ConstantsAssumption DEF Init, Typed, TypeOK

LEMMA TypeStage ==
    ASSUME Typed, NEW u \in Actor, StageCandidate(u) PROVE Typed'
<1> USE DEF Typed
<1>1. u \in Actor
    OBVIOUS
<1>2. ASSUME NEW c \in Candidate
      PROVE  Fence(c) \in [Attempt -> AttemptRow]
    BY DEF Fence, TypeOK, AttemptRow, Verdict
<1>3. PICK s \in Sha, replace \in BOOLEAN :
          StageSame(u, s) \/ StageNew(u, s, replace)
    BY DEF StageCandidate
<1>4. UNCHANGED <<source, lastGen, chunk, build, client>> /\ publock' = u
    BY DEF StageCandidate
<1>5. CASE StageSame(u, s)
  <2> DEFINE r == [Idle("write") EXCEPT !.cand = doc.cand, !.bytes = s]
  <2>1. doc.cand \in Candidate /\ version[doc.cand] = s
      BY <1>5 DEF StageSame, TypeOK, DocRow, Bound
  <2>2. r \in RunState /\ LocalState(u, r)
      BY <1>5, <2>1, FreshRuns DEF StageSame, Pc
  <2>3. Fits(r)'
      BY <1>5, <2>1 DEF StageSame, Fits, Idle, Working
  <2>4. run' \in [Actor -> RunState] /\ \A v \in Actor : Fits(run[v])'
      BY <1>1, <1>4, <1>5, <2>2, <2>3, OthersFit DEF StageSame
  <2>5. attempt' \in [Attempt -> AttemptRow]
      BY <1>2, <1>5, <2>1 DEF StageSame
  <2> QED BY <1>1, <1>4, <1>5, <2>4, <2>5 DEF StageSame, TypeOK, Bound
<1>6. CASE StageNew(u, s, replace)
  <2>1. PICK c \in Candidate :
            /\ NewCandidate(c)
            /\ doc' = [doc EXCEPT !.sha = s, !.cand = c, !.state = "staged",
                                  !.att = 0, !.live = FALSE]
            /\ version' = [version EXCEPT ![c] = s]
            /\ attempt' = Fence(c)
            /\ LocalState(u, [Idle("write") EXCEPT !.cand = c, !.bytes = s])
      BY <1>6 DEF StageNew
  <2> DEFINE r == [Idle("write") EXCEPT !.cand = c, !.bytes = s]
  <2>2. r \in RunState
      BY <2>1, FreshRuns DEF Pc
  <2>3. /\ version' \in [Candidate -> Sha \cup {None}]
        /\ version'[c] = s
        /\ \A b \in Candidate : version[b] \in Sha => version'[b] = version[b]
      BY <2>1, ConstantsAssumption DEF TypeOK, NewCandidate
  <2>4. Fits(r)'
      BY <2>1, <2>3 DEF Fits, Idle, Working
  <2>5. run' \in [Actor -> RunState] /\ \A v \in Actor : Fits(run[v])'
      BY <1>1, <1>4, <2>1, <2>2, <2>3, <2>4, OthersFit
  <2>6. attempt' \in [Attempt -> AttemptRow]
      BY <1>2, <2>1
  <2>7. /\ doc' \in DocRow
        /\ doc'.cand = c /\ doc'.sha = s
      BY <2>1 DEF TypeOK, DocRow, State
  <2>8. \A d \in source' : version'[d] \in Sha
      BY <1>4, <2>3 DEF TypeOK, Bound
  <2> QED BY <1>1, <1>4, <2>3, <2>5, <2>6, <2>7, <2>8 DEF TypeOK, Bound
<1> QED BY <1>3, <1>5, <1>6

LEMMA TypePublication ==
    ASSUME Typed, NEW u \in Actor, Publication(u) \/ PublicationStops(u)
    PROVE  Typed'
<1> USE DEF Typed
<1>1. run[u] \in RunState /\ Fits(run[u])
    BY DEF TypeOK, Bound
<1>2. CASE WriteSource(u)
  <2>1. PICK r \in RunState : /\ r = [run[u] EXCEPT !.pc = "finalize"]
                             /\ LocalState(u, r)
    <3>1. LocalState(u, [run[u] EXCEPT !.pc = "finalize"])
        BY <1>2 DEF WriteSource
    <3>2. "finalize" \in Pc
        BY DEF Pc
    <3>3. [run[u] EXCEPT !.pc = "finalize"] \in RunState
        BY <1>1, <3>2, MovePc
    <3> QED BY <3>1, <3>3
  <2>2. /\ r.pc = "finalize" /\ r.cand = run[u].cand
        /\ r.bytes = run[u].bytes /\ r.att = run[u].att
      BY <1>1, <2>1 DEF RunState
  <2>3. /\ source' = source \cup {run[u].cand} /\ version' = version
        /\ run[u].cand \in Candidate /\ version[run[u].cand] = run[u].bytes
        /\ run[u].bytes \in Sha
      BY <1>1, <1>2 DEF WriteSource, Fits
  <2>4. Fits(r)'
      BY <2>2, <2>3 DEF Fits, Working
  <2>5. run' \in [Actor -> RunState] /\ \A v \in Actor : Fits(run[v])'
      BY <2>1, <2>3, <2>4, OthersFit
  <2> QED BY <1>2, <2>3, <2>5 DEF WriteSource, TypeOK, Bound
<1>3. CASE FinalizePublication(u)
  <2>1. PICK r \in RunState : r = Published(u) /\ LocalState(u, r)
    <3>1. run[u].bytes \in Sha
        BY <1>1, <1>3 DEF FinalizePublication, Fits
    <3>2. Published(u) \in RunState
        BY <3>1, FreshRuns, ConstantsAssumption DEF Published, Pc
    <3> QED BY <1>3, <3>2 DEF FinalizePublication
  <2>2. Fits(r)'
      BY <1>1, <1>3, <2>1
         DEF FinalizePublication, Published, Fits, Idle, Working
  <2>3. run' \in [Actor -> RunState] /\ \A v \in Actor : Fits(run[v])'
      BY <1>3, <2>1, <2>2, OthersFit DEF FinalizePublication
  <2>4. /\ doc' \in DocRow
        /\ doc'.cand = doc.cand /\ doc'.sha = doc.sha
      BY <1>3 DEF FinalizePublication, TypeOK, DocRow, State
  <2> QED BY <1>3, <2>3, <2>4 DEF FinalizePublication, TypeOK, Bound
<1>4. CASE PublicationStops(u)
  <2>1. Idle("idle") \in RunState /\ LocalState(u, Idle("idle"))
      BY <1>4, FreshRuns, ConstantsAssumption DEF PublicationStops, Pc
  <2>2. Fits(Idle("idle"))'
      BY DEF Fits, Idle, Working
  <2>3. run' \in [Actor -> RunState] /\ \A v \in Actor : Fits(run[v])'
      BY <1>4, <2>1, <2>2, OthersFit DEF PublicationStops
  <2> QED BY <1>4, <2>3 DEF PublicationStops, TypeOK, Bound
<1> QED BY <1>2, <1>3, <1>4 DEF Publication

\* The steps of a caller under its attempt that change only its local state.
LEMMA TypeLocalSteps ==
    ASSUME Typed, NEW w \in Actor,
           \/ BeginRefused(w) \/ EnsureSource(w) \/ Parse(w) \/ CheckParsed(w)
           \/ FindReusable(w) \/ CheckManifest(w) \/ SwapRefused(w)
           \/ WriteRefused(w) \/ StepFails(w) \/ Quietly(w)
    PROVE  Typed'
<1> USE DEF Typed
<1>1. run[w] \in RunState /\ Fits(run[w]) /\ run[w].pc \in Pc
    BY DEF TypeOK, Bound, RunState
<1>2. ASSUME NEW p \in Pc, LocalState(w, [run[w] EXCEPT !.pc = p]),
             run[w].pc \in Working /\ p \in Working \ {"parse"},
             UNCHANGED <<doc, version, source, attempt, lastGen, chunk, build,
                         publock, client>>
      PROVE  Typed'
  <2>1. PICK r \in RunState : r = [run[w] EXCEPT !.pc = p] /\ LocalState(w, r)
    <3>1. [run[w] EXCEPT !.pc = p] \in RunState
        BY <1>1, <1>2, MovePc
    <3> QED BY <1>2, <3>1
  <2>2. r.pc = p /\ r.att = run[w].att
      BY <1>1, <2>1 DEF RunState
  <2>3. Fits(r)
      BY <1>1, <1>2, <2>2 DEF Fits, Working
  <2> QED BY <1>2, <2>1, <2>3, QuietStep
<1>3. ASSUME NEW p \in {"idle", "crashed", "unreleased", "lock"},
             LocalState(w, Idle(p)),
             UNCHANGED <<doc, version, source, attempt, lastGen, chunk, build,
                         publock, client>>
      PROVE  Typed'
  <2>1. PICK r \in RunState : r = Idle(p) /\ LocalState(w, r)
      BY <1>3, FreshRuns, ConstantsAssumption DEF Pc
  <2>2. Fits(r)
      BY <2>1 DEF Fits, Idle, Working
  <2> QED BY <1>3, <2>1, <2>2, QuietStep
<1>12. ASSUME NEW p \in {"close", "raised"}, LocalState(w, Failing(w, p)),
              run[w].pc \in Working,
              UNCHANGED <<doc, version, source, attempt, lastGen, chunk, build,
                          publock, client>>
       PROVE  Typed'
  <2>1. run[w].att \in Attempt
      BY <1>1, <1>12 DEF Fits
  <2>2. PICK r \in RunState : r = Failing(w, p) /\ LocalState(w, r)
      BY <1>12, <2>1, FreshRuns, ConstantsAssumption DEF Failing, Pc
  <2>3. Fits(r)
      BY <2>1, <2>2 DEF Failing, Idle, Fits
  <2> QED BY <1>12, <2>2, <2>3, QuietStep
<1>4. CASE BeginRefused(w)
    BY <1>3, <1>4 DEF BeginRefused
<1>5. CASE Quietly(w)
  <2>1. CASE CloseFails(w)
    <3>1. run[w].pc \in Working /\ "raised" \in Working \ {"parse"}
        BY <2>1 DEF CloseFails, Working, Pc
    <3>2. LocalState(w, [run[w] EXCEPT !.pc = "raised"]) /\ "raised" \in Pc
        BY <2>1 DEF CloseFails, Pc
    <3> QED BY <1>2, <1>5, <3>1, <3>2, QuietlyStep
  <2>2. CASE ~CloseFails(w)
    <3>1. \E p \in {"idle", "crashed", "unreleased", "lock"} :
              LocalState(w, Idle(p))
        BY <1>5, <2>2 DEF Quietly, AskLock, StageRefused, ReleaseFails, Crash,
                          Restart
    <3> QED BY <1>3, <1>5, <3>1, QuietlyStep
  <2> QED BY <2>1, <2>2
<1>6. CASE StepFails(w) \/ WriteRefused(w) \/ SwapRefused(w)
  <2>1. run[w].pc \in Working /\ Raise(w)
      BY <1>6 DEF StepFails, WriteRefused, SwapRefused, Working, Pc
  <2>2. Handler(run[w].pc) \in {"close", "raised"}
      BY DEF Handler
  <2> QED BY <1>12, <2>1, <2>2 DEF Raise
<1>7. CASE CheckParsed(w)
  <2>1. run[w].pc \in Working /\ "allocate" \in Working \ {"parse"}
        /\ "allocate" \in Pc
      BY <1>7 DEF CheckParsed, Working, Pc
  <2>2. \/ LocalState(w, [run[w] EXCEPT !.pc = "allocate"])
        \/ \E p \in {"close", "raised"} : LocalState(w, Failing(w, p))
      BY <1>7 DEF CheckParsed
  <2> QED BY <1>2, <1>7, <1>12, <2>1, <2>2 DEF CheckParsed
<1>8. CASE CheckManifest(w)
  <2>1. run[w].pc \in Working /\ "swap" \in Working \ {"parse"} /\ "swap" \in Pc
      BY <1>8 DEF CheckManifest, Working, Pc
  <2>2. \/ LocalState(w, [run[w] EXCEPT !.pc = "swap"])
        \/ LocalState(w, Failing(w, "raised"))
      BY <1>8 DEF CheckManifest
  <2> QED BY <1>2, <1>8, <1>12, <2>1, <2>2 DEF CheckManifest
<1>9. CASE EnsureSource(w)
  <2>1. CASE LocalState(w, Failing(w, "raised"))
      BY <1>9, <1>12, <2>1 DEF EnsureSource, Working, Pc
  <2> DEFINE c == attempt[run[w].att].cand
  <2>2. CASE LocalState(w, [run[w] EXCEPT !.pc = "parse", !.bytes = version[c]])
             /\ c \in source
    <3>1. version[c] \in Sha
        BY <2>2 DEF Bound
    <3>2. PICK r \in RunState :
              /\ r = [run[w] EXCEPT !.pc = "parse", !.bytes = version[c]]
              /\ LocalState(w, r)
      <4>1. "parse" \in Pc
          BY DEF Pc
      <4>2. [run[w] EXCEPT !.pc = "parse", !.bytes = version[c]] \in RunState
          BY <1>1, <3>1, <4>1, MoveBytes
      <4> QED BY <2>2, <4>2
    <3>3. r.pc = "parse" /\ r.att = run[w].att /\ r.bytes \in Sha
        BY <1>1, <3>1, <3>2 DEF RunState
    <3>4. Fits(r)
        BY <1>1, <1>9, <3>3 DEF EnsureSource, Fits, Working, Pc
    <3> QED BY <1>9, <3>2, <3>4, QuietStep DEF EnsureSource
  <2> QED BY <1>9, <2>1, <2>2 DEF EnsureSource
<1>10. CASE Parse(w)
  <2>1. CASE LocalState(w, Failing(w, "close"))
      BY <1>10, <1>12, <2>1 DEF Parse, Working, Pc
  <2>2. ASSUME NEW found \in SUBSET Manifest[run[w].bytes], NEW whole \in BOOLEAN,
               LocalState(w, [run[w] EXCEPT !.pc = "check", !.keys = found,
                                            !.whole = whole])
        PROVE  Typed'
    <3>1. found \in SUBSET Key
        BY <1>1, <1>10, <2>2, ConstantsAssumption DEF Parse, Fits
    <3>2. PICK r \in RunState :
              /\ r = [run[w] EXCEPT !.pc = "check", !.keys = found,
                                    !.whole = whole]
              /\ LocalState(w, r)
      <4>1. "check" \in Pc
          BY DEF Pc
      <4>2. [run[w] EXCEPT !.pc = "check", !.keys = found, !.whole = whole]
                \in RunState
          BY <1>1, <2>2, <3>1, <4>1, MoveKeys
      <4> QED BY <2>2, <4>2
    <3>3. r.pc = "check" /\ r.att = run[w].att
        BY <1>1, <3>2 DEF RunState
    <3>4. Fits(r)
        BY <1>1, <1>10, <3>3 DEF Parse, Fits, Working, Pc
    <3> QED BY <1>10, <3>2, <3>4, QuietStep DEF Parse
  <2> QED BY <1>10, <2>1, <2>2 DEF Parse
<1>11. CASE FindReusable(w)
  <2> DEFINE known == {c.key : c \in chunk}
  <2>1. run[w].keys \ known \in SUBSET Key /\ run[w].keys \cap known \in SUBSET Key
      BY <1>1 DEF RunState
  <2>2. PICK r \in RunState :
            /\ r = [run[w] EXCEPT !.pc = "beat", !.todo = run[w].keys \ known,
                                  !.reuse = run[w].keys \cap known]
            /\ LocalState(w, r)
    <3>1. LocalState(w, [run[w] EXCEPT !.pc = "beat",
                                       !.todo = run[w].keys \ known,
                                       !.reuse = run[w].keys \cap known])
        BY <1>11 DEF FindReusable
    <3>2. "beat" \in Pc
        BY DEF Pc
    <3>3. [run[w] EXCEPT !.pc = "beat", !.todo = run[w].keys \ known,
                         !.reuse = run[w].keys \cap known] \in RunState
        BY <1>1, <2>1, <3>2, MoveTodoReuse
    <3> QED BY <3>1, <3>3
  <2>3. r.pc = "beat" /\ r.att = run[w].att
      BY <1>1, <2>2 DEF RunState
  <2>4. Fits(r)
      BY <1>1, <1>11, <2>3 DEF FindReusable, Fits, Working, Pc
  <2> QED BY <1>11, <2>2, <2>4, QuietStep DEF FindReusable
<1> QED BY <1>4, <1>5, <1>6, <1>7, <1>8, <1>9, <1>10, <1>11

\* Closing an attempt and releasing its lease keeps both rows typed.
LEMMA TypeRecord ==
    ASSUME TypeOK, NEW w \in Actor, run[w].att \in Attempt,
           NEW v \in {"error", "partial"}, Record(w, v)
    PROVE  /\ doc' \in DocRow /\ doc'.cand = doc.cand /\ doc'.sha = doc.sha
           /\ attempt' \in [Attempt -> AttemptRow]
<1>1. [attempt[run[w].att] EXCEPT !.status = v] \in AttemptRow
    BY DEF TypeOK, AttemptRow, Verdict
<1>2. [doc EXCEPT !.att = 0, !.live = FALSE] \in DocRow
    BY DEF TypeOK, DocRow
<1>3. CASE Authority(w)
  <2>1. attempt' = [attempt EXCEPT ![run[w].att] =
                        [attempt[run[w].att] EXCEPT !.status = v]]
      BY <1>3 DEF Record, Ended
  <2>2. doc' = [doc EXCEPT !.att = 0, !.live = FALSE]
      BY <1>3 DEF Record
  <2>3. doc'.cand = doc.cand /\ doc'.sha = doc.sha
      BY <2>2 DEF TypeOK, DocRow
  <2> QED BY <1>1, <1>2, <2>1, <2>2, <2>3 DEF TypeOK
<1>4. CASE ~Authority(w)
    BY <1>4 DEF Record, TypeOK
<1> QED BY <1>3, <1>4

\* Steps that end an attempt or move its lease.
LEMMA TypeLeaseSteps ==
    ASSUME Typed, NEW w \in Actor,
           \/ Heartbeat(w) \/ RecordPartial(w) \/ CloseAsError(w)
           \/ CallerEnds(w)
    PROVE  Typed'
<1> USE DEF Typed
<1>1. run[w] \in RunState /\ Fits(run[w]) /\ run[w].pc \in Pc
    BY DEF TypeOK, Bound, RunState
<1>2. run[w].att \in Attempt
    BY <1>1 DEF Heartbeat, RecordPartial, CloseAsError, CallerEnds, Fits,
                Working, Pc
<1>3. /\ doc' \in DocRow /\ doc'.cand = doc.cand /\ doc'.sha = doc.sha
      /\ attempt' \in [Attempt -> AttemptRow]
  <2>1. CASE Heartbeat(w)
      BY <2>1 DEF Heartbeat, TypeOK, DocRow
  <2>2. CASE RecordPartial(w)
      BY <1>2, <2>2, TypeRecord DEF RecordPartial
  <2>3. CASE CloseAsError(w)
      BY <1>2, <2>3, TypeRecord DEF CloseAsError
  <2>4. CASE CallerEnds(w)
    <3>1. CASE w \in Processor
        BY <1>2, <2>4, <3>1, TypeRecord DEF CallerEnds
    <3>2. CASE w \notin Processor
        BY <2>4, <3>2 DEF CallerEnds, TypeOK
    <3> QED BY <3>1, <3>2
  <2> QED BY <2>1, <2>2, <2>3, <2>4
<1>4. PICK r \in RunState : LocalState(w, r) /\ Fits(r)
  <2>1. CASE RecordPartial(w) \/ CallerEnds(w)
    <3>1. PICK r \in RunState : r = Idle("idle") /\ LocalState(w, r)
        BY <2>1, FreshRuns, ConstantsAssumption
           DEF RecordPartial, CallerEnds, Pc
    <3> QED BY <3>1 DEF Fits, Idle, Working
  <2>2. CASE Heartbeat(w) \/ CloseAsError(w)
    <3>1. PICK p \in {"embed", "raised"} :
              LocalState(w, [run[w] EXCEPT !.pc = p])
        BY <2>2 DEF Heartbeat, CloseAsError
    <3>2. PICK r \in RunState :
              r = [run[w] EXCEPT !.pc = p] /\ LocalState(w, r)
      <4>1. p \in Pc
          BY <3>1 DEF Pc
      <4>2. [run[w] EXCEPT !.pc = p] \in RunState
          BY <1>1, <4>1, MovePc
      <4> QED BY <3>1, <4>2
    <3>3. r.pc = p /\ r.att = run[w].att
        BY <1>1, <3>2 DEF RunState
    <3> QED BY <1>2, <3>1, <3>2, <3>3 DEF Fits
  <2> QED BY <2>1, <2>2
<1>5. UNCHANGED <<version, source, lastGen, chunk, build, publock, client>>
    BY DEF Heartbeat, RecordPartial, CloseAsError, CallerEnds
<1>6. Fits(r)'
    BY <1>4, <1>5 DEF Fits
<1>7. run' \in [Actor -> RunState] /\ \A v \in Actor : Fits(run[v])'
    BY <1>4, <1>5, <1>6, OthersFit
<1> QED BY <1>3, <1>5, <1>7 DEF TypeOK, Bound

LEMMA TypeBegin ==
    ASSUME Typed, NEW w \in Actor, BeginAttempt(w) PROVE Typed'
<1> USE DEF Typed
<1>1. run[w] \in RunState /\ Fits(run[w])
    BY DEF TypeOK, Bound
<1>2. PICK a \in Attempt :
          /\ attempt' = [b \in Attempt |->
                IF b = a THEN [status |-> "running", cand |-> doc.cand,
                               sha |-> doc.sha, observed |-> doc.gen]
                ELSE IF b = doc.att /\ attempt[b].status = "running"
                THEN [attempt[b] EXCEPT !.status = "superseded"]
                ELSE attempt[b]]
          /\ doc' = [doc EXCEPT !.att = a, !.live = TRUE]
          /\ LocalState(w, [Idle(IF w \in Cli THEN "parse" ELSE "ensure")
                             EXCEPT !.att = a, !.bytes = run[w].bytes])
    BY DEF BeginAttempt
<1>3. UNCHANGED <<version, source, lastGen, chunk, build, publock, client>>
    BY DEF BeginAttempt
<1>4. /\ doc' \in DocRow /\ doc'.cand = doc.cand /\ doc'.sha = doc.sha
    BY <1>2 DEF TypeOK, DocRow
<1>5. attempt' \in [Attempt -> AttemptRow]
    BY <1>2 DEF TypeOK, AttemptRow, Verdict, DocRow
<1>6. PICK p \in Pc : p = IF w \in Cli THEN "parse" ELSE "ensure"
    BY DEF Pc
<1>7. PICK r \in RunState :
          /\ r = [Idle(p) EXCEPT !.att = a, !.bytes = run[w].bytes]
          /\ LocalState(w, r)
  <2>1. run[w].bytes \in Sha \cup {None}
      BY <1>1 DEF RunState
  <2> QED BY <1>2, <1>6, <2>1, FreshRuns
<1>8. r.pc = p /\ r.att = a /\ r.bytes = run[w].bytes
    BY <1>7 DEF Idle
<1>9. p = "parse" => r.bytes \in Sha
  <2>1. p = "parse" => run[w].pc = "begin"
      BY <1>6, ConstantsAssumption DEF BeginAttempt
  <2> QED BY <1>1, <1>8, <2>1 DEF Fits
<1>10. Fits(r)'
    BY <1>6, <1>8, <1>9 DEF Fits
<1>11. run' \in [Actor -> RunState] /\ \A v \in Actor : Fits(run[v])'
    BY <1>3, <1>7, <1>10, OthersFit
<1> QED BY <1>3, <1>4, <1>5, <1>11 DEF TypeOK, Bound

\* Steps that stage rows, number them or promote them.
LEMMA TypeStaging ==
    ASSUME Typed, NEW w \in Actor,
           \/ AllocateGeneration(w) \/ UpsertBatch(w) \/ UpsertRest(w)
           \/ CopyReused(w)
    PROVE  Typed'
<1> USE DEF Typed
<1>1. /\ run[w] \in RunState /\ Fits(run[w]) /\ run[w].pc \in Pc
      /\ run[w].todo \in SUBSET Key /\ run[w].reuse \in SUBSET Key
    BY DEF TypeOK, Bound, RunState
<1>2. run[w].att \in Attempt
    BY <1>1 DEF AllocateGeneration, UpsertBatch, UpsertRest, CopyReused, Fits,
                Working, Pc
<1>3. ASSUME NEW K \in SUBSET Key
      PROVE  Rows(w, K) \subseteq ChunkRow /\ IsFiniteSet(chunk \cup Rows(w, K))
    BY <1>2, <1>3, RowsTyped, RowsFinite, FS_Union
<1>4. /\ lastGen' \in Nat
      /\ chunk' \subseteq ChunkRow /\ IsFiniteSet(chunk')
  <2>1. CASE AllocateGeneration(w)
      BY <2>1 DEF AllocateGeneration, TypeOK
  <2>2. ASSUME NEW K \in SUBSET Key, chunk' = chunk \cup Rows(w, K),
               lastGen' = lastGen
        PROVE  lastGen' \in Nat /\ chunk' \subseteq ChunkRow /\ IsFiniteSet(chunk')
      BY <1>3, <2>2 DEF TypeOK
  <2>3. CASE UpsertBatch(w)
    <3>1. PICK K \in SUBSET run[w].todo : chunk' = chunk \cup Rows(w, K)
        BY <2>3 DEF UpsertBatch
    <3> QED BY <1>1, <2>2, <2>3, <3>1 DEF UpsertBatch
  <2>4. CASE UpsertRest(w)
      BY <1>1, <2>2, <2>4 DEF UpsertRest
  <2>5. CASE CopyReused(w)
    <3>1. Copyable(w) \in SUBSET Key
        BY <1>1 DEF Copyable
    <3> QED BY <2>2, <2>5, <3>1 DEF CopyReused
  <2> QED BY <2>1, <2>3, <2>4, <2>5
<1>5. PICK r \in RunState : /\ LocalState(w, r)
                           /\ r.att = run[w].att
                           /\ r.pc \in {"reuse", "extend", "copy", "promote",
                                        "partial"}
  <2>1. CASE AllocateGeneration(w)
    <3>1. PICK r \in RunState :
              /\ r = [run[w] EXCEPT !.pc = "reuse", !.gen = lastGen + 1]
              /\ LocalState(w, r)
      <4>1. lastGen + 1 \in Nat /\ "reuse" \in Pc
          BY DEF TypeOK, Pc
      <4>2. [run[w] EXCEPT !.pc = "reuse", !.gen = lastGen + 1] \in RunState
          BY <1>1, <4>1, MoveGen
      <4> QED BY <2>1, <4>2 DEF AllocateGeneration
    <3> QED BY <1>1, <3>1 DEF RunState
  <2>2. CASE UpsertBatch(w)
    <3>1. PICK K \in SUBSET run[w].todo :
              LocalState(w, [run[w] EXCEPT !.pc = "extend",
                                           !.todo = run[w].todo \ K])
        BY <2>2 DEF UpsertBatch
    <3>2. PICK r \in RunState :
              /\ r = [run[w] EXCEPT !.pc = "extend", !.todo = run[w].todo \ K]
              /\ LocalState(w, r)
      <4>1. "extend" \in Pc /\ run[w].todo \ K \in SUBSET Key
          BY <1>1 DEF Pc, RunState
      <4>2. [run[w] EXCEPT !.pc = "extend", !.todo = run[w].todo \ K]
                \in RunState
          BY <1>1, <4>1, MoveTodo
      <4> QED BY <3>1, <4>2
    <3> QED BY <1>1, <3>2 DEF RunState
  <2>3. CASE UpsertRest(w)
    <3>1. PICK r \in RunState :
              /\ r = [run[w] EXCEPT !.pc = "copy", !.todo = {}]
              /\ LocalState(w, r)
      <4>1. "copy" \in Pc /\ {} \in SUBSET Key
          BY DEF Pc
      <4>2. [run[w] EXCEPT !.pc = "copy", !.todo = {}] \in RunState
          BY <1>1, <4>1, MoveTodo
      <4> QED BY <2>3, <4>2 DEF UpsertRest
    <3> QED BY <1>1, <3>1 DEF RunState
  <2>4. CASE CopyReused(w)
    <3>1. PICK p \in {"promote", "partial"} :
              LocalState(w, [run[w] EXCEPT !.pc = p])
        BY <2>4 DEF CopyReused
    <3>2. PICK r \in RunState :
              r = [run[w] EXCEPT !.pc = p] /\ LocalState(w, r)
      <4>1. p \in Pc
          BY <3>1 DEF Pc
      <4>2. [run[w] EXCEPT !.pc = p] \in RunState
          BY <1>1, <4>1, MovePc
      <4> QED BY <3>1, <4>2
    <3> QED BY <1>1, <3>1, <3>2 DEF RunState
  <2> QED BY <2>1, <2>2, <2>3, <2>4
<1>6. UNCHANGED <<doc, version, source, attempt, build, publock, client>>
    BY DEF AllocateGeneration, UpsertBatch, UpsertRest, CopyReused
<1>7. Fits(r)'
    BY <1>2, <1>5 DEF Fits
<1>8. run' \in [Actor -> RunState] /\ \A v \in Actor : Fits(run[v])'
    BY <1>5, <1>6, <1>7, OthersFit
<1> QED BY <1>4, <1>6, <1>8 DEF TypeOK, Bound

LEMMA TypePromote ==
    ASSUME Typed, NEW w \in Actor, Promote(w) PROVE Typed'
<1> USE DEF Typed
<1>1. run[w] \in RunState /\ Fits(run[w])
    BY DEF TypeOK, Bound
<1> DEFINE a   == run[w].att
           ver == attempt[a].cand
           gen == run[w].gen
<1>2. a \in Attempt /\ attempt[a] \in AttemptRow
    BY <1>1 DEF Promote, Fits, Working, Pc, TypeOK
<1>3. ver \in Candidate \cup {0} /\ gen \in Nat
    BY <1>1, <1>2 DEF RunState, AttemptRow
<1>4. /\ doc' = PromotedRow(ver, gen, attempt[a].sha)
      /\ attempt' = Ended(a, "done")
      /\ build' = build \cup
            {[ver |-> ver, gen |-> gen, att |-> a,
              count |-> Cardinality(Edition(gen, ver))]}
      /\ chunk' = Sweep(build')
      /\ LocalState(w, Idle("idle"))
      /\ UNCHANGED <<version, source, lastGen, publock, client>>
    BY DEF Promote
<1>5. doc' \in DocRow /\ doc'.cand = doc.cand /\ doc'.sha = doc.sha
  <2>1. attempt[a].sha \in Sha \cup {None}
      BY <1>2 DEF AttemptRow
  <2>2. PICK d \in DocRow, s \in Sha \cup {None}, v \in Candidate \cup {0},
             g \in Nat :
            d = doc /\ s = attempt[a].sha /\ v = ver /\ g = gen
      BY <1>3, <2>1 DEF TypeOK
  <2>3. doc' = [d EXCEPT !.ver = v, !.gen = g, !.served = s, !.rev = @ + 1,
                         !.att = 0, !.live = FALSE]
      BY <1>4, <2>2 DEF PromotedRow
  <2>4. d.rev + 1 \in Nat
      BY DEF DocRow
  <2>5. doc' \in DocRow /\ doc'.cand = d.cand /\ doc'.sha = d.sha
      BY <2>3, <2>4 DEF DocRow
  <2> QED BY <2>2, <2>5
<1>6. attempt' \in [Attempt -> AttemptRow]
  <2>1. [attempt[a] EXCEPT !.status = "done"] \in AttemptRow
      BY <1>2 DEF AttemptRow, Verdict
  <2> QED BY <1>4, <2>1 DEF Ended, TypeOK
<1>7. Cardinality(Edition(gen, ver)) \in Nat
    BY FS_Subset, FS_CardinalityType DEF Edition
<1>8. build' \subseteq BuildRow
    BY <1>2, <1>3, <1>4, <1>7 DEF TypeOK, BuildRow
<1>9. chunk' \subseteq ChunkRow /\ IsFiniteSet(chunk')
    BY <1>4, FS_Subset DEF Sweep, TypeOK
<1>10. PICK r \in RunState : r = Idle("idle") /\ LocalState(w, r)
    BY <1>4, FreshRuns, ConstantsAssumption DEF Pc
<1>11. Fits(r)'
    BY <1>10 DEF Fits, Idle, Working
<1>12. run' \in [Actor -> RunState] /\ \A v \in Actor : Fits(run[v])'
    BY <1>4, <1>10, <1>11, OthersFit
<1> HIDE DEF a, ver, gen
<1> QED BY <1>4, <1>5, <1>6, <1>8, <1>9, <1>12 DEF TypeOK, Bound

\* Expiry of the lease, archive, restore and activation.
LEMMA TypeLifecycle ==
    ASSUME Typed, \/ LeaseExpires \/ SetArchived \/ ReadVersions
                  \/ ActivateVersion \/ ActivationRefused
    PROVE  Typed'
<1> USE DEF Typed
<1>1. UNCHANGED <<version, source, attempt, lastGen, chunk, build, publock, run>>
    BY DEF LeaseExpires, SetArchived, ReadVersions, ActivateVersion,
           ActivationRefused
<1>2. /\ doc' \in DocRow /\ doc'.cand = doc.cand /\ doc'.sha = doc.sha
      /\ client' \in [ver : Candidate \cup {0}, rev : Nat, gen : Nat]
  <2>1. CASE LeaseExpires \/ SetArchived
      BY <2>1 DEF LeaseExpires, SetArchived, TypeOK, DocRow
  <2>2. CASE ReadVersions \/ ActivationRefused
      BY <2>2 DEF ReadVersions, ActivationRefused, TypeOK, DocRow
  <2>3. CASE ActivateVersion
    <3>1. PICK b \in ReadyBuilds(client.ver) :
              doc' = IF doc.ver = b.ver /\ doc.gen = b.gen THEN doc
                     ELSE [doc EXCEPT !.ver = b.ver, !.gen = b.gen,
                                      !.served = version[b.ver], !.rev = @ + 1]
        BY <2>3 DEF ActivateVersion
    <3>2. /\ b.gen \in Nat /\ b.ver = client.ver
          /\ client.ver \in Candidate /\ version[b.ver] \in Sha
        BY <2>3, <3>1 DEF ReadyBuilds, ActivateVersion, ActivationAllowed,
                          TypeOK, BuildRow, Bound
    <3>3. client' \in [ver : Candidate \cup {0}, rev : Nat, gen : Nat]
        BY <2>3 DEF ActivateVersion
    <3>4. PICK d \in DocRow, s \in Sha, v \in Candidate, g \in Nat :
              d = doc /\ s = version[b.ver] /\ v = b.ver /\ g = b.gen
        BY <3>2 DEF TypeOK
    <3>5. \/ doc' = d
          \/ doc' = [d EXCEPT !.ver = v, !.gen = g, !.served = s, !.rev = @ + 1]
        BY <3>1, <3>4
    <3>6. d.rev + 1 \in Nat
        BY DEF DocRow
    <3>7. doc' \in DocRow /\ doc'.cand = d.cand /\ doc'.sha = d.sha
        BY <3>5, <3>6 DEF DocRow
    <3> QED BY <3>3, <3>4, <3>7
  <2> QED BY <2>1, <2>2, <2>3
<1>3. \A v \in Actor : Fits(run[v])'
    BY <1>1 DEF Bound, Fits
<1> QED BY <1>1, <1>2, <1>3 DEF TypeOK, Bound

\* Typed is inductive.
LEMMA TypeStep == Typed /\ [Next]_vars => Typed'
<1> SUFFICES ASSUME Typed, [Next]_vars PROVE Typed' OBVIOUS
<1>1. ASSUME NEW w \in Actor, CallerStep(w) PROVE Typed'
  <2>1. CASE IngestStep(w)
      BY <2>1, TypeLocalSteps, TypeLeaseSteps, TypeStaging, TypePromote
         DEF IngestStep
  <2> QED BY <1>1, <2>1, TypeStage, TypePublication, TypeBegin, TypeLocalSteps
          DEF CallerStep, LockGranted, Quietly
<1>2. CASE \/ LeaseExpires \/ SetArchived \/ ReadVersions \/ ActivateVersion
           \/ ActivationRefused
    BY <1>2, TypeLifecycle
<1>3. CASE UNCHANGED vars
    BY <1>3 DEF vars, Typed, TypeOK, Bound, Fits
<1> QED BY <1>1, <1>2, <1>3 DEF Next

\* Every reachable state of the pipeline is typed, for any number of callers,
\* contents, chunks, candidates and attempts.
THEOREM TypeCorrect == Spec => []TypeOK
<1>1. Typed => TypeOK
    BY DEF Typed
<1> QED BY <1>1, TypeInit, TypeStep, PTL DEF Spec

-----------------------------------------------------------------------------
(* The lease on the row and the attempt records, and the bytes the row     *)
(* names.  Fencing closes every running attempt because a running attempt  *)
(* is bound to the recorded candidate, which exists because the row was    *)
(* published: the two invariants are inductive together.                   *)

Consistent == Typed /\ LeaseMatchesRecord /\ NamedBytesExist

\* A step that leaves the lease, the attempts and the served pointer alone.
LEMMA ConsistentQuiet ==
    ASSUME Consistent, UNCHANGED <<doc, version, attempt>>,
           source \subseteq source'
    PROVE  LeaseMatchesRecord' /\ NamedBytesExist'
BY DEF Consistent, LeaseMatchesRecord, NamedBytesExist

LEMMA ConsistentInit == Init => LeaseMatchesRecord /\ NamedBytesExist
BY DEF Init, LeaseMatchesRecord, NamedBytesExist, Attempt

LEMMA ConsistentStage ==
    ASSUME Consistent, NEW u, StageCandidate(u)
    PROVE  LeaseMatchesRecord' /\ NamedBytesExist'
<1> USE DEF Consistent, Typed
<1>1. PICK s \in Sha, replace \in BOOLEAN :
          StageSame(u, s) \/ StageNew(u, s, replace)
    BY DEF StageCandidate
<1>2. source' = source
    BY DEF StageCandidate
<1>3. ASSUME NEW a \in Attempt, attempt[a].status = "running"
      PROVE  /\ doc.att = a /\ attempt[a].cand = doc.cand
             /\ doc.cand \in Candidate /\ version[doc.cand] \in Sha
  <2>1. doc.att = a /\ a # 0
      BY <1>3 DEF LeaseMatchesRecord, Attempt
  <2>2. doc.cand \in source
      BY <2>1 DEF LeaseMatchesRecord, NamedBytesExist
  <2> QED BY <2>1, <2>2 DEF LeaseMatchesRecord, Bound, TypeOK
<1>4. CASE StageSame(u, s)
  <2>1. \A a \in Attempt : attempt'[a] = attempt[a]
      BY <1>3, <1>4 DEF StageSame, Fence
  <2>2. UNCHANGED <<doc, version>> /\ doc.att \in Attempt \cup {0}
      BY <1>4 DEF StageSame, TypeOK, DocRow
  <2> QED BY <1>2, <2>1, <2>2 DEF LeaseMatchesRecord, NamedBytesExist
<1>5. CASE StageNew(u, s, replace)
  <2>1. PICK c \in Candidate :
            /\ NewCandidate(c)
            /\ doc' = [doc EXCEPT !.sha = s, !.cand = c, !.state = "staged",
                                  !.att = 0, !.live = FALSE]
            /\ version' = [version EXCEPT ![c] = s]
            /\ attempt' = Fence(c)
      BY <1>5 DEF StageNew
  <2>2. /\ doc'.att = 0 /\ doc'.state = "staged"
        /\ doc'.ver = doc.ver /\ doc'.served = doc.served
      BY <2>1 DEF TypeOK, DocRow
  <2>3. \A a \in Attempt : attempt'[a].status # "running"
    <3>1. ASSUME NEW a \in Attempt PROVE attempt'[a].status # "running"
      <4>1. CASE attempt[a].status = "running"
        <5>1. attempt[a].cand # c
            BY <1>3, <2>1, <4>1, ConstantsAssumption DEF NewCandidate
        <5>2. attempt'[a] = [attempt[a] EXCEPT !.status = "superseded"]
            BY <2>1, <4>1, <5>1 DEF Fence
        <5> QED BY <5>2 DEF TypeOK, AttemptRow
      <4>2. CASE attempt[a].status # "running"
          BY <2>1, <4>2 DEF Fence
      <4> QED BY <4>1, <4>2
    <3> QED BY <3>1
  <2>4. doc.ver # 0 => version'[doc.ver] = version[doc.ver]
      BY <2>1, ConstantsAssumption
         DEF NamedBytesExist, NewCandidate, Bound, TypeOK
  <2>5. \A a \in Attempt : a # 0
      BY DEF Attempt
  <2> QED BY <1>2, <2>2, <2>3, <2>4, <2>5
          DEF LeaseMatchesRecord, NamedBytesExist
<1> QED BY <1>1, <1>4, <1>5

LEMMA ConsistentFinalize ==
    ASSUME Consistent, NEW u \in Actor, FinalizePublication(u)
    PROVE  LeaseMatchesRecord' /\ NamedBytesExist'
<1> USE DEF Consistent, Typed
<1>1. doc.cand \in source
    BY DEF FinalizePublication, Bound, Fits
<1>2. doc.cand # 0 /\ version[doc.cand] = doc.sha
    BY <1>1, ConstantsAssumption DEF Bound, TypeOK, Candidate
<1>3. /\ doc'.state = "published"
      /\ doc'.cand = doc.cand /\ doc'.sha = doc.sha /\ doc'.att = doc.att
      /\ doc'.ver = doc.ver /\ doc'.served = doc.served
      /\ doc'.archived = doc.archived
      /\ UNCHANGED <<version, source, attempt>>
    BY DEF FinalizePublication, TypeOK, DocRow
<1> QED BY <1>1, <1>2, <1>3 DEF LeaseMatchesRecord, NamedBytesExist

LEMMA ConsistentBegin ==
    ASSUME Consistent, NEW w \in Actor, BeginAttempt(w)
    PROVE  LeaseMatchesRecord' /\ NamedBytesExist'
<1> USE DEF Consistent, Typed
<1>1. PICK a \in Attempt :
          /\ attempt' = [b \in Attempt |->
                IF b = a THEN [status |-> "running", cand |-> doc.cand,
                               sha |-> doc.sha, observed |-> doc.gen]
                ELSE IF b = doc.att /\ attempt[b].status = "running"
                THEN [attempt[b] EXCEPT !.status = "superseded"]
                ELSE attempt[b]]
          /\ doc' = [doc EXCEPT !.att = a, !.live = TRUE]
    BY DEF BeginAttempt
<1>2. /\ doc'.state = doc.state /\ doc'.cand = doc.cand /\ doc'.sha = doc.sha
      /\ doc'.ver = doc.ver /\ doc'.served = doc.served /\ doc'.att = a
      /\ doc'.archived = doc.archived
      /\ doc.state = "published" /\ doc.archived = FALSE
      /\ UNCHANGED <<version, source>>
    BY <1>1 DEF BeginAttempt, TypeOK, DocRow
<1>3. \A b \in Attempt : attempt'[b].status = "running" <=> b = a
  <2>1. ASSUME NEW b \in Attempt, b # a, attempt[b].status = "running"
        PROVE  attempt'[b].status = "superseded"
    <3>1. b = doc.att
        BY <2>1 DEF LeaseMatchesRecord
    <3>2. attempt'[b] = [attempt[b] EXCEPT !.status = "superseded"]
        BY <1>1, <2>1, <3>1
    <3> QED BY <3>2 DEF TypeOK, AttemptRow
  <2>2. ASSUME NEW b \in Attempt, b # a, attempt[b].status # "running"
        PROVE  attempt'[b] = attempt[b]
      BY <1>1, <2>2
  <2>3. attempt'[a].status = "running"
      BY <1>1
  <2> QED BY <2>1, <2>2, <2>3
<1>4. attempt'[a].cand = doc.cand /\ attempt'[a].sha = doc.sha
    BY <1>1
<1> QED BY <1>2, <1>3, <1>4 DEF LeaseMatchesRecord, NamedBytesExist

\* Only the holder's record is closed, and its lease goes with it.
LEMMA ConsistentRecord ==
    ASSUME Consistent, NEW w \in Actor, run[w].att \in Attempt,
           NEW v \in {"error", "partial"}, Record(w, v),
           UNCHANGED <<version, source>>
    PROVE  LeaseMatchesRecord' /\ NamedBytesExist'
<1> USE DEF Consistent, Typed
<1>1. CASE Authority(w)
  <2>1. doc' = [doc EXCEPT !.att = 0, !.live = FALSE]
      BY <1>1 DEF Record
  <2>2. /\ doc'.att = 0 /\ doc'.state = doc.state /\ doc'.cand = doc.cand
        /\ doc'.sha = doc.sha /\ doc'.ver = doc.ver
        /\ doc'.served = doc.served
      BY <2>1 DEF TypeOK, DocRow
  <2>3. attempt' = [attempt EXCEPT ![run[w].att] =
                        [attempt[run[w].att] EXCEPT !.status = v]]
      BY <1>1 DEF Record, Ended
  <2>4. \A a \in Attempt : attempt'[a].status # "running"
    <3>1. ASSUME NEW a \in Attempt, a # run[w].att
          PROVE  attempt'[a] = attempt[a] /\ a # doc.att
        BY <1>1, <2>3, <3>1 DEF Authority, TypeOK
    <3>2. attempt'[run[w].att].status = v
        BY <2>3 DEF TypeOK, AttemptRow
    <3> QED BY <3>1, <3>2 DEF LeaseMatchesRecord
  <2>5. \A a \in Attempt : a # 0
      BY DEF Attempt
  <2> QED BY <2>2, <2>4, <2>5 DEF LeaseMatchesRecord, NamedBytesExist
<1>2. CASE ~Authority(w)
    BY <1>2, ConsistentQuiet DEF Record
<1> QED BY <1>1, <1>2

LEMMA ConsistentPromote ==
    ASSUME Consistent, NEW w \in Actor, Promote(w)
    PROVE  LeaseMatchesRecord' /\ NamedBytesExist'
<1> USE DEF Consistent, Typed
<1>1. run[w].att \in Attempt
    BY DEF Promote, Bound, Fits, Working, Pc
<1> DEFINE a == run[w].att
           c == attempt[a].cand
<1>2. /\ doc.att = a /\ doc.cand = c /\ attempt[a].status = "running"
      /\ attempt' = Ended(a, "done")
      /\ doc' = PromotedRow(c, run[w].gen, attempt[a].sha)
      /\ UNCHANGED <<version, source>>
    BY DEF Promote, SwapAllowed, Authority
<1>3. /\ doc'.att = 0 /\ doc'.state = doc.state /\ doc'.cand = doc.cand
      /\ doc'.sha = doc.sha /\ doc'.ver = c /\ doc'.served = attempt[a].sha
    BY <1>2 DEF PromotedRow, TypeOK, DocRow
<1>4. c \in source /\ version[c] = attempt[a].sha
    BY <1>1, <1>2 DEF LeaseMatchesRecord, NamedBytesExist, Attempt
<1>5. \A b \in Attempt : attempt'[b].status # "running" /\ b # 0
  <2>1. ASSUME NEW b \in Attempt, b # a
        PROVE  attempt'[b] = attempt[b] /\ b # doc.att
      BY <1>2, <2>1 DEF Ended, TypeOK
  <2>2. attempt'[a].status = "done"
      BY <1>1, <1>2 DEF Ended, TypeOK, AttemptRow
  <2> QED BY <2>1, <2>2 DEF LeaseMatchesRecord, Attempt
<1> HIDE DEF a, c
<1> QED BY <1>2, <1>3, <1>4, <1>5 DEF LeaseMatchesRecord, NamedBytesExist

LEMMA ConsistentLifecycle ==
    ASSUME Consistent, \/ LeaseExpires \/ SetArchived \/ ReadVersions
                       \/ ActivateVersion \/ ActivationRefused
    PROVE  LeaseMatchesRecord' /\ NamedBytesExist'
<1> USE DEF Consistent, Typed
<1>1. UNCHANGED <<version, source, attempt>>
    BY DEF LeaseExpires, SetArchived, ReadVersions, ActivateVersion,
           ActivationRefused
<1>2. CASE LeaseExpires
  <2>1. /\ doc'.att = doc.att /\ doc'.state = doc.state /\ doc'.cand = doc.cand
        /\ doc'.sha = doc.sha /\ doc'.ver = doc.ver
        /\ doc'.served = doc.served /\ doc'.archived = doc.archived
      BY <1>2 DEF LeaseExpires, TypeOK, DocRow
  <2> QED BY <1>1, <2>1 DEF LeaseMatchesRecord, NamedBytesExist
<1>3. CASE SetArchived
  <2>1. /\ doc.att = 0
        /\ doc'.att = doc.att /\ doc'.state = doc.state /\ doc'.cand = doc.cand
        /\ doc'.sha = doc.sha /\ doc'.ver = doc.ver
        /\ doc'.served = doc.served
      BY <1>3 DEF SetArchived, TypeOK, DocRow
  <2> QED BY <1>1, <2>1 DEF LeaseMatchesRecord, NamedBytesExist
<1>4. CASE ReadVersions \/ ActivationRefused
    BY <1>1, <1>4, ConsistentQuiet DEF ReadVersions, ActivationRefused
<1>5. CASE ActivateVersion
  <2>1. PICK b \in ReadyBuilds(client.ver) :
            doc' = IF doc.ver = b.ver /\ doc.gen = b.gen THEN doc
                   ELSE [doc EXCEPT !.ver = b.ver, !.gen = b.gen,
                                    !.served = version[b.ver], !.rev = @ + 1]
      BY <1>5 DEF ActivateVersion
  <2>2. b.ver \in source /\ doc.att = 0
      BY <1>5, <2>1 DEF ActivateVersion, ActivationAllowed, ReadyBuilds
  <2>3. CASE doc' = doc
      BY <1>1, <2>3, ConsistentQuiet
  <2>4. CASE doc' = [doc EXCEPT !.ver = b.ver, !.gen = b.gen,
                                !.served = version[b.ver], !.rev = @ + 1]
    <3>1. /\ doc'.att = 0 /\ doc'.state = doc.state /\ doc'.cand = doc.cand
          /\ doc'.sha = doc.sha /\ doc'.ver = b.ver
          /\ doc'.served = version[b.ver]
        BY <2>2, <2>4 DEF TypeOK, DocRow
    <3> QED BY <1>1, <2>2, <3>1 DEF LeaseMatchesRecord, NamedBytesExist
  <2> QED BY <2>1, <2>3, <2>4
<1> QED BY <1>2, <1>3, <1>4, <1>5

LEMMA ConsistentStep == Consistent /\ [Next]_vars => Consistent'
<1> SUFFICES ASSUME Consistent, [Next]_vars
             PROVE  LeaseMatchesRecord' /\ NamedBytesExist'
    BY TypeStep DEF Consistent
<1>1. ASSUME NEW w \in Actor, CallerStep(w)
      PROVE  LeaseMatchesRecord' /\ NamedBytesExist'
  <2>1. CASE StageCandidate(w)
      BY <2>1, ConsistentStage
  <2>2. CASE FinalizePublication(w)
      BY <2>2, ConsistentFinalize
  <2>3. CASE BeginAttempt(w)
      BY <2>3, ConsistentBegin
  <2>4. CASE Promote(w)
      BY <2>4, ConsistentPromote
  <2>5. CASE RecordPartial(w) \/ CloseAsError(w) \/ CallerEnds(w)
    <3>1. run[w].att \in Attempt
        BY <2>5 DEF RecordPartial, CloseAsError, CallerEnds, Consistent, Typed,
                    Bound, Fits, Working, Pc
    <3>2. UNCHANGED <<version, source>>
        BY <2>5 DEF RecordPartial, CloseAsError, CallerEnds
    <3>3. CASE RecordPartial(w) \/ CloseAsError(w)
        BY <3>1, <3>2, <3>3, ConsistentRecord DEF RecordPartial, CloseAsError
    <3>4. CASE CallerEnds(w)
      <4>1. Record(w, "error") \/ UNCHANGED <<attempt, doc>>
          BY <3>4 DEF CallerEnds
      <4> QED BY <3>1, <3>2, <4>1, ConsistentRecord, ConsistentQuiet
    <3> QED BY <2>5, <3>3, <3>4
  <2>6. CASE Heartbeat(w)
    <3>1. doc' = [doc EXCEPT !.live = TRUE] /\ UNCHANGED <<version, source, attempt>>
        BY <2>6 DEF Heartbeat
    <3>2. /\ doc'.att = doc.att /\ doc'.state = doc.state
          /\ doc'.cand = doc.cand /\ doc'.sha = doc.sha /\ doc'.ver = doc.ver
          /\ doc'.served = doc.served /\ doc'.archived = doc.archived
        BY <3>1 DEF Consistent, Typed, TypeOK, DocRow
    <3> QED BY <3>1, <3>2 DEF Consistent, LeaseMatchesRecord, NamedBytesExist
  <2>7. ASSUME UNCHANGED <<doc, version, attempt>>, source \subseteq source'
        PROVE  LeaseMatchesRecord' /\ NamedBytesExist'
      BY <2>7, ConsistentQuiet
  <2>8. CASE \/ WriteSource(w) \/ PublicationStops(w) \/ BeginRefused(w)
             \/ StepFails(w) \/ Quietly(w)
      BY <2>7, <2>8, QuietlyStep
         DEF WriteSource, PublicationStops, BeginRefused, StepFails, Raise
  <2>9. CASE \/ EnsureSource(w) \/ Parse(w) \/ CheckParsed(w)
             \/ AllocateGeneration(w) \/ FindReusable(w) \/ UpsertBatch(w)
             \/ UpsertRest(w) \/ CopyReused(w) \/ CheckManifest(w)
             \/ SwapRefused(w) \/ WriteRefused(w)
      BY <2>7, <2>9 DEF EnsureSource, Parse, CheckParsed, AllocateGeneration,
                        FindReusable, UpsertBatch, UpsertRest, CopyReused,
                        CheckManifest, SwapRefused, WriteRefused, Raise
  <2> QED BY <1>1, <2>1, <2>2, <2>3, <2>4, <2>5, <2>6, <2>8, <2>9
          DEF CallerStep, LockGranted, Quietly, Publication, IngestStep
<1>2. CASE \/ LeaseExpires \/ SetArchived \/ ReadVersions \/ ActivateVersion
           \/ ActivationRefused
    BY <1>2, ConsistentLifecycle
<1>3. CASE UNCHANGED vars
    BY <1>3, ConsistentQuiet DEF vars
<1> QED BY <1>1, <1>2, <1>3 DEF Next

LEMMA ConsistentAlways == Spec => []Consistent
<1>1. Init => Consistent
    BY TypeInit, ConsistentInit DEF Consistent
<1> QED BY <1>1, ConsistentStep, PTL DEF Spec

\* The holder named on the row is always the one running attempt, bound to the
\* recorded candidate and its bytes, through fences, takeovers and crashes.
THEOREM LeaseAgrees == Spec => []LeaseMatchesRecord
<1>1. Consistent => LeaseMatchesRecord
    BY DEF Consistent
<1> QED BY <1>1, ConsistentAlways, PTL

\* Whatever publication died between its steps, a published candidate and a
\* served version have their own bytes in storage.
THEOREM BytesExist == Spec => []NamedBytesExist
<1>1. Consistent => NamedBytesExist
    BY DEF Consistent
<1> QED BY <1>1, ConsistentAlways, PTL

-----------------------------------------------------------------------------
(* What a step may never do.                                               *)

\* Fences, takeovers, verdicts and promotions end running attempts only.
LEMMA VerdictStep ==
    ASSUME Consistent, [Next]_vars, NEW a \in Attempt,
           attempt[a].status \notin {"unborn", "running"}
    PROVE  attempt'[a] = attempt[a]
<1> USE DEF Consistent, Typed
<1>1. ASSUME NEW w \in Actor, CallerStep(w) PROVE attempt'[a] = attempt[a]
  <2>1. CASE StageCandidate(w)
      BY <2>1 DEF StageCandidate, StageSame, StageNew, Fence
  <2>2. CASE BeginAttempt(w)
      BY <2>2 DEF BeginAttempt
  <2>3. ASSUME NEW v \in {"error", "partial"}, Record(w, v),
               run[w].att \in Attempt
        PROVE  attempt'[a] = attempt[a]
    <3>1. CASE Authority(w)
      <4>1. attempt[run[w].att].status = "running"
          BY <2>3, <3>1 DEF Authority, LeaseMatchesRecord
      <4>2. attempt' = [attempt EXCEPT ![run[w].att] =
                            [attempt[run[w].att] EXCEPT !.status = v]]
          BY <2>3, <3>1 DEF Record, Ended
      <4> QED BY <4>1, <4>2 DEF TypeOK
    <3>2. CASE ~Authority(w)
        BY <2>3, <3>2 DEF Record
    <3> QED BY <3>1, <3>2
  <2>4. CASE RecordPartial(w) \/ CloseAsError(w) \/ CallerEnds(w)
    <3>1. run[w].att \in Attempt
        BY <2>4 DEF RecordPartial, CloseAsError, CallerEnds, Bound, Fits,
                    Working, Pc
    <3>2. \/ \E v \in {"error", "partial"} : Record(w, v)
          \/ attempt' = attempt
        BY <2>4 DEF RecordPartial, CloseAsError, CallerEnds
    <3> QED BY <2>3, <3>1, <3>2
  <2>5. CASE Promote(w)
      BY <2>5 DEF Promote, SwapAllowed, Ended, TypeOK
  <2>6. CASE \/ WriteSource(w) \/ FinalizePublication(w) \/ PublicationStops(w)
             \/ BeginRefused(w) \/ StepFails(w) \/ Quietly(w)
      BY <2>6, QuietlyStep
              DEF WriteSource, FinalizePublication, PublicationStops,
                  BeginRefused, StepFails, Raise
  <2>7. CASE \/ EnsureSource(w) \/ Parse(w) \/ CheckParsed(w)
             \/ AllocateGeneration(w) \/ FindReusable(w) \/ UpsertBatch(w)
             \/ UpsertRest(w) \/ CopyReused(w) \/ CheckManifest(w)
             \/ SwapRefused(w) \/ WriteRefused(w) \/ Heartbeat(w)
      BY <2>7 DEF EnsureSource, Parse, CheckParsed, AllocateGeneration,
                  FindReusable, UpsertBatch, UpsertRest, CopyReused, Heartbeat,
                  CheckManifest, SwapRefused, WriteRefused, Raise
  <2> QED BY <1>1, <2>1, <2>2, <2>4, <2>5, <2>6, <2>7
          DEF CallerStep, LockGranted, Quietly, Publication, IngestStep
<1>2. CASE \/ LeaseExpires \/ SetArchived \/ ReadVersions \/ ActivateVersion
           \/ ActivationRefused
    BY <1>2 DEF LeaseExpires, SetArchived, ReadVersions, ActivateVersion,
                ActivationRefused
<1>3. CASE UNCHANGED vars
    BY <1>3 DEF vars
<1> QED BY <1>1, <1>2, <1>3 DEF Next

\* A terminal verdict is never rewritten, whoever returns late.
THEOREM VerdictsStayFinal == Spec => VerdictsAreFinal
<1>1. Consistent /\ [Next]_vars =>
          [\A a \in Attempt : attempt[a].status \notin {"unborn", "running"}
                                => attempt'[a] = attempt[a]]_vars
    BY VerdictStep
<1> QED BY <1>1, ConsistentAlways, PTL DEF Spec, VerdictsAreFinal

\* Every write of chunk rows proves its authority in its own transaction.
LEMMA StagingStep ==
    ASSUME Consistent, [Next]_vars, NEW c \in chunk' \ chunk
    PROVE  /\ c.ver = doc.cand
           /\ \E w \in Actor : /\ run[w].att = doc.att /\ doc.att # 0
                               /\ run[w].gen = c.gen
<1> USE DEF Consistent, Typed
<1>1. ASSUME NEW w \in Actor, NEW K, Authority(w), run[w].att \in Attempt,
             chunk' = chunk \cup Rows(w, K)
      PROVE  /\ c.ver = doc.cand
             /\ \E v \in Actor : /\ run[v].att = doc.att /\ doc.att # 0
                                 /\ run[v].gen = c.gen
  <2>1. c \in Rows(w, K)
      BY <1>1
  <2>2. c.ver = attempt[run[w].att].cand /\ c.gen = run[w].gen
      BY <2>1 DEF Rows
  <2> QED BY <1>1, <2>2 DEF Authority, Attempt
<1>2. ASSUME NEW w \in Actor, UpsertBatch(w) \/ UpsertRest(w) \/ CopyReused(w)
      PROVE  /\ c.ver = doc.cand
             /\ \E v \in Actor : /\ run[v].att = doc.att /\ doc.att # 0
                                 /\ run[v].gen = c.gen
  <2>1. run[w].att \in Attempt
      BY <1>2 DEF UpsertBatch, UpsertRest, CopyReused, Bound, Fits, Working, Pc
  <2>2. CASE UpsertBatch(w)
    <3>1. PICK K : chunk' = chunk \cup Rows(w, K)
        BY <2>2 DEF UpsertBatch
    <3> QED BY <1>1, <2>1, <2>2, <3>1 DEF UpsertBatch
  <2>3. CASE UpsertRest(w)
    <3>1. run[w].todo # {}
        BY <2>3 DEF UpsertRest, Rows
    <3> QED BY <1>1, <2>1, <2>3, <3>1 DEF UpsertRest
  <2>4. CASE CopyReused(w)
      BY <1>1, <2>1, <2>4 DEF CopyReused
  <2> QED BY <1>2, <2>2, <2>3, <2>4
<1>3. ASSUME NEW w \in Actor, CallerStep(w)
      PROVE  \/ UpsertBatch(w) \/ UpsertRest(w) \/ CopyReused(w)
             \/ chunk' \subseteq chunk
  <2>1. CASE \/ WriteSource(w) \/ FinalizePublication(w) \/ PublicationStops(w)
             \/ BeginRefused(w) \/ StepFails(w) \/ Quietly(w)
             \/ StageCandidate(w) \/ BeginAttempt(w)
      BY <2>1, QuietlyStep
              DEF WriteSource, FinalizePublication, PublicationStops,
                  BeginRefused, StepFails, Raise,
                  StageCandidate, BeginAttempt
  <2>2. CASE \/ EnsureSource(w) \/ Parse(w) \/ CheckParsed(w)
             \/ AllocateGeneration(w) \/ FindReusable(w) \/ Heartbeat(w)
             \/ CheckManifest(w) \/ SwapRefused(w) \/ WriteRefused(w)
             \/ RecordPartial(w) \/ CloseAsError(w) \/ CallerEnds(w)
      BY <2>2 DEF EnsureSource, Parse, CheckParsed, AllocateGeneration,
                  FindReusable, Heartbeat, CheckManifest, SwapRefused,
                  WriteRefused, Raise, RecordPartial, CloseAsError, CallerEnds
  <2>3. CASE Promote(w)
      BY <2>3 DEF Promote, Sweep
  <2> QED BY <1>3, <2>1, <2>2, <2>3
          DEF CallerStep, LockGranted, Quietly, Publication, IngestStep
<1>4. CASE \/ LeaseExpires \/ SetArchived \/ ReadVersions \/ ActivateVersion
           \/ ActivationRefused
    BY <1>4 DEF LeaseExpires, SetArchived, ReadVersions, ActivateVersion,
                ActivationRefused
<1>5. CASE UNCHANGED vars
    BY <1>5 DEF vars
<1> QED BY <1>2, <1>3, <1>4, <1>5 DEF Next

\* A fenced or displaced run stages nothing, however late its batch arrives.
THEOREM HolderStages == Spec => OnlyTheHolderStages
<1>1. Consistent /\ [Next]_vars =>
          [\A c \in chunk' \ chunk :
              /\ c.ver = doc.cand
              /\ \E w \in Actor : /\ run[w].att = doc.att /\ doc.att # 0
                                  /\ run[w].gen = c.gen]_vars
    BY StagingStep
<1> QED BY <1>1, ConsistentAlways, PTL DEF Spec, OnlyTheHolderStages

-----------------------------------------------------------------------------
(* What a reader is shown.  What a run has parsed and staged is private to   *)
(* it until it promotes; from then on the rows belong to a receipt.          *)

AfterAllocation == {"reuse", "beat", "embed", "extend", "copy", "partial",
                    "promote", "swap"}
AfterReuse == AfterAllocation \ {"reuse"}
AfterParse == {"check", "allocate"} \cup AfterAllocation

\* The keys a complete parse of the candidate of r's attempt yields.
Content(r) == Manifest[version[attempt[r.att].cand]]

\* All rows of r's generation are those it has parsed.
StagedBy(r) ==
    Edition(r.gen, attempt[r.att].cand) =
        {[gen |-> r.gen, ver |-> attempt[r.att].cand, key |-> k] : k \in r.keys}

\* The attempt and the generation of a local state are its own.
OwnGeneration(r) ==
    /\ r.att # 0 => attempt[r.att].status # "unborn"
    /\ r.gen <= lastGen
    /\ r.pc \in AfterAllocation => r.gen # 0
    /\ r.gen # 0 => /\ r.att \in Attempt
                    /\ \A c \in chunk :
                          c.gen = r.gen => c.ver = attempt[r.att].cand
                    /\ \A b \in build : b.gen # r.gen

\* It keeps to the content of its candidate, and is about to promote only what
\* is whole and completely staged.
OwnContent(r) ==
    /\ r.pc \in AfterParse => /\ r.keys \subseteq Content(r)
                              /\ r.whole => r.keys \in {{}, Content(r)}
    /\ r.pc \in AfterReuse => r.todo \subseteq r.keys /\ r.reuse \subseteq r.keys
    /\ r.pc \in {"promote", "swap"} => r.whole
    /\ (r.pc = "swap" /\ attempt[r.att].status = "running") =>
          r.keys # {} /\ StagedBy(r)

RunsApart ==
    \A v, w \in Actor : v # w /\ run[v].gen # 0 => run[v].gen # run[w].gen

\* A candidate whose version exists, for ever.
Known(c) == c \in Candidate /\ version[c] \in Sha

AttemptsBound ==
    \A a \in Attempt : attempt[a].status # "unborn" =>
        Known(attempt[a].cand) /\ attempt[a].sha = version[attempt[a].cand]

ChunksBound ==
    /\ \A c \in chunk : /\ Known(c.ver) /\ c.gen <= lastGen
                        /\ c.key \in Manifest[version[c.ver]]
    /\ \A c, d \in chunk : c.gen = d.gen => c.ver = d.ver

ReceiptsBound ==
    /\ \A b \in build : Known(b.ver) /\ b.gen <= lastGen
    /\ ReceiptsKeepEditions

\* The served edition is that of a receipt.
ServedBound ==
    /\ doc.ver = 0 => doc.served = None
    /\ doc.ver # 0 => \E b \in build : b.ver = doc.ver /\ b.gen = doc.gen

\* The generation a client has read belongs to the revision it has read.
ClientBound ==
    /\ client.rev <= doc.rev
    /\ client.ver # 0 /\ client.rev = doc.rev => client.gen = doc.gen

Tables == /\ AttemptsBound /\ ChunksBound /\ ReceiptsBound
          /\ ServedBound /\ ClientBound

Private == \A w \in Actor : OwnGeneration(run[w]) /\ OwnContent(run[w])

Whole == Consistent /\ Tables /\ Private /\ RunsApart

-----------------------------------------------------------------------------
(* What a step keeps: an attempt's binding, a version's digest and the      *)
(* order of generations are final once they exist.                          *)

Binding(a) ==
    attempt[a].status # "unborn" =>
        /\ attempt'[a].cand = attempt[a].cand
        /\ attempt'[a].sha = attempt[a].sha
        /\ attempt'[a].observed = attempt[a].observed
        /\ attempt'[a].status # "unborn"
        /\ attempt'[a].status = "running" => attempt[a].status = "running"

Kept ==
    /\ lastGen <= lastGen'
    /\ \A c \in Candidate : version[c] \in Sha => version'[c] = version[c]
    /\ \A a \in Attempt : Binding(a)

\* Steps that write rows of their run's generation.
Staging(w) == UpsertBatch(w) \/ UpsertRest(w) \/ CopyReused(w)

\* Steps that close an attempt without promoting it.
Closing(w) == RecordPartial(w) \/ CloseAsError(w) \/ CallerEnds(w)

Lifecycle == \/ LeaseExpires \/ SetArchived \/ ReadVersions \/ ActivateVersion
             \/ ActivationRefused

\* A step is one that may change the tables, or leaves them alone.
LEMMA TableSteps ==
    ASSUME [Next]_vars
    PROVE  \/ UNCHANGED <<version, attempt, lastGen, chunk, build>>
           \/ \E w \in Actor :
                 \/ StageCandidate(w) \/ BeginAttempt(w) \/ Closing(w)
                 \/ AllocateGeneration(w) \/ Staging(w) \/ Promote(w)
<1>1. ASSUME NEW w \in Actor, CallerStep(w)
      PROVE  \/ UNCHANGED <<version, attempt, lastGen, chunk, build>>
             \/ StageCandidate(w) \/ BeginAttempt(w) \/ Closing(w)
             \/ AllocateGeneration(w) \/ Staging(w) \/ Promote(w)
  <2>1. CASE \/ WriteSource(w) \/ FinalizePublication(w) \/ PublicationStops(w)
             \/ BeginRefused(w) \/ StepFails(w) \/ Quietly(w)
      BY <2>1, QuietlyStep
              DEF WriteSource, FinalizePublication, PublicationStops,
                  BeginRefused, StepFails, Raise
  <2>2. CASE \/ EnsureSource(w) \/ Parse(w) \/ CheckParsed(w) \/ Heartbeat(w)
             \/ FindReusable(w) \/ CheckManifest(w) \/ SwapRefused(w)
             \/ WriteRefused(w)
      BY <2>2 DEF EnsureSource, Parse, CheckParsed, Heartbeat, FindReusable,
                  CheckManifest, SwapRefused, WriteRefused, Raise
  <2> QED BY <1>1, <2>1, <2>2
          DEF CallerStep, LockGranted, Quietly, Publication, IngestStep,
              Staging, Closing
<1>2. CASE Lifecycle
    BY <1>2 DEF Lifecycle, LeaseExpires, SetArchived, ReadVersions,
                ActivateVersion, ActivationRefused
<1>3. CASE UNCHANGED vars
    BY <1>3 DEF vars
<1> QED BY <1>1, <1>2, <1>3 DEF Next, Lifecycle

\* A verdict or a fence changes nothing of an attempt but its status.
LEMMA StatusOnly ==
    ASSUME NEW r \in AttemptRow, NEW q,
           NEW v \in {"error", "partial", "done", "superseded"},
           q = r \/ q = [r EXCEPT !.status = v]
    PROVE  /\ q.cand = r.cand /\ q.sha = r.sha /\ q.observed = r.observed
           /\ r.status # "unborn" => q.status # "unborn"
           /\ q.status = "running" => r.status = "running"
BY DEF AttemptRow

\* What closing an attempt does to the table.
LEMMA RecordEnds ==
    ASSUME Typed, NEW w \in Actor, Closing(w)
    PROVE  \/ attempt' = attempt
           \/ /\ run[w].att \in Attempt
              /\ \E v \in {"error", "partial"} : attempt' = Ended(run[w].att, v)
<1>1. run[w].att \in Attempt
    BY DEF Closing, RecordPartial, CloseAsError, CallerEnds, Typed, Bound, Fits,
           Working, Pc
<1> QED BY <1>1 DEF Closing, RecordPartial, CloseAsError, CallerEnds, Record

LEMMA KeptStep == ASSUME Typed, [Next]_vars PROVE Kept
<1> USE DEF Typed
<1>1. lastGen \in Nat /\ attempt \in [Attempt -> AttemptRow]
    BY DEF TypeOK
<1>2. ASSUME NEW w \in Actor, StageCandidate(w) PROVE Kept
  <2>1. PICK c : attempt' = Fence(c)
      BY <1>2 DEF StageCandidate, StageSame, StageNew
  <2>2. \A a \in Attempt : Binding(a)
    <3>1. ASSUME NEW a \in Attempt PROVE Binding(a)
      <4>1. \/ attempt'[a] = attempt[a]
            \/ attempt'[a] = [attempt[a] EXCEPT !.status = "superseded"]
          BY <2>1 DEF Fence
      <4> QED BY <1>1, <4>1, StatusOnly DEF Binding
    <3> QED BY <3>1
  <2>3. ASSUME NEW c2 \in Candidate, version[c2] \in Sha
        PROVE  version'[c2] = version[c2]
      BY <1>2, <2>3, ConstantsAssumption
         DEF StageCandidate, StageSame, StageNew, NewCandidate, TypeOK
  <2>4. lastGen' = lastGen
      BY <1>2 DEF StageCandidate
  <2> QED BY <1>1, <2>2, <2>3, <2>4 DEF Kept
<1>3. ASSUME NEW w \in Actor, BeginAttempt(w) PROVE Kept
  <2>1. UNCHANGED <<version, lastGen>>
      BY <1>3 DEF BeginAttempt
  <2>2. ASSUME NEW b \in Attempt, attempt[b].status # "unborn"
        PROVE  Binding(b)
    <3>1. \/ attempt'[b] = attempt[b]
          \/ attempt'[b] = [attempt[b] EXCEPT !.status = "superseded"]
        BY <1>3, <2>2 DEF BeginAttempt
    <3> QED BY <1>1, <3>1, StatusOnly DEF Binding
  <2> QED BY <1>1, <2>1, <2>2 DEF Kept, Binding
<1>4. ASSUME NEW b \in Attempt, NEW v \in {"error", "partial", "done"},
             attempt' = Ended(b, v), UNCHANGED <<version, lastGen>>
      PROVE  Kept
  <2>1. ASSUME NEW a \in Attempt PROVE Binding(a)
    <3>1. \/ attempt'[a] = attempt[a]
          \/ attempt'[a] = [attempt[a] EXCEPT !.status = v]
        BY <1>1, <1>4 DEF Ended
    <3> QED BY <1>1, <3>1, StatusOnly DEF Binding
  <2> QED BY <1>1, <1>4, <2>1 DEF Kept
<1>5. ASSUME NEW w \in Actor, Closing(w) PROVE Kept
  <2>1. UNCHANGED <<version, lastGen>>
      BY <1>5 DEF Closing, RecordPartial, CloseAsError, CallerEnds
  <2>2. CASE attempt' = attempt
      BY <1>1, <2>1, <2>2 DEF Kept, Binding
  <2>3. CASE attempt' # attempt
    <3>1. PICK v \in {"error", "partial"} : attempt' = Ended(run[w].att, v)
        BY <1>5, <2>3, RecordEnds
    <3>2. run[w].att \in Attempt
        BY <1>5, <2>3, RecordEnds
    <3> QED BY <1>4, <2>1, <3>1, <3>2
  <2> QED BY <2>2, <2>3
<1>6. ASSUME NEW w \in Actor, Promote(w) PROVE Kept
  <2>1. run[w].att \in Attempt
      BY <1>6 DEF Promote, Bound, Fits, Working, Pc
  <2> QED BY <1>4, <1>6, <2>1 DEF Promote
<1>7. ASSUME NEW w \in Actor, AllocateGeneration(w) \/ Staging(w) PROVE Kept
  <2>1. UNCHANGED <<version, attempt>> /\ lastGen' \in {lastGen, lastGen + 1}
      BY <1>7 DEF AllocateGeneration, Staging, UpsertBatch, UpsertRest,
                  CopyReused
  <2> QED BY <1>1, <2>1 DEF Kept, Binding
<1>8. CASE UNCHANGED <<version, attempt, lastGen, chunk, build>>
    BY <1>1, <1>8 DEF Kept, Binding
<1> QED BY <1>2, <1>3, <1>5, <1>6, <1>7, <1>8, TableSteps

-----------------------------------------------------------------------------
(* What a run relies on.                                                    *)

\* The attempt of a run that has parsed is bound to a version that exists.
LEMMA RunFacts ==
    ASSUME Whole, NEW w \in Actor,
           run[w].pc \in AfterParse \/ run[w].gen # 0
    PROVE  /\ run[w].att \in Attempt
           /\ attempt[run[w].att].status # "unborn"
           /\ Known(attempt[run[w].att].cand)
           /\ attempt[run[w].att].sha = version[attempt[run[w].att].cand]
<1>1. run[w].att \in Attempt
    BY DEF Whole, Consistent, Typed, Bound, Fits, Working, Pc, AfterParse,
           AfterAllocation, Private, OwnGeneration
<1>2. attempt[run[w].att].status # "unborn"
    BY <1>1 DEF Whole, Private, OwnGeneration, Attempt
<1> QED BY <1>1, <1>2 DEF Whole, Tables, AttemptsBound

\* Rows a run writes are of its generation, its candidate and its parse.
LEMMA StagedRows ==
    ASSUME Whole, NEW w \in Actor, Staging(w)
    PROVE  /\ run[w].pc \in {"embed", "copy"}
           /\ \E K \in SUBSET run[w].keys :
                 chunk' = chunk \cup Rows(w, K)
           /\ UNCHANGED <<doc, version, source, attempt, lastGen, build,
                          publock, client>>
<1>1. CASE UpsertBatch(w)
  <2>1. PICK K \in SUBSET run[w].todo : chunk' = chunk \cup Rows(w, K)
      BY <1>1 DEF UpsertBatch
  <2>2. run[w].todo \subseteq run[w].keys
      BY <1>1 DEF UpsertBatch, Whole, Private, OwnContent, AfterReuse,
                  AfterAllocation
  <2> QED BY <1>1, <2>1, <2>2 DEF UpsertBatch
<1>2. CASE UpsertRest(w)
  <2>1. run[w].todo \subseteq run[w].keys
      BY <1>2 DEF UpsertRest, Whole, Private, OwnContent, AfterReuse,
                  AfterAllocation
  <2> QED BY <1>2, <2>1 DEF UpsertRest
<1>3. CASE CopyReused(w)
  <2>1. Copyable(w) \subseteq run[w].keys
      BY <1>3 DEF CopyReused, Copyable, Whole, Private, OwnContent, AfterReuse,
                  AfterAllocation
  <2> QED BY <1>3, <2>1 DEF CopyReused
<1> QED BY <1>1, <1>2, <1>3 DEF Staging

\* A promotion, named by its parts.
LEMMA Promotion ==
    ASSUME Whole, NEW w \in Actor, Promote(w)
    PROVE  LET a == run[w].att
               b == [ver |-> attempt[a].cand, gen |-> run[w].gen, att |-> a,
                     count |-> Cardinality(Edition(run[w].gen,
                                                   attempt[a].cand))]
           IN /\ a \in Attempt /\ attempt[a].status = "running"
              /\ Known(b.ver) /\ run[w].gen # 0 /\ run[w].gen <= lastGen
              /\ build' = build \cup {b}
              /\ chunk' = {c \in chunk : \E o \in build' :
                                           o.gen = c.gen /\ o.ver = c.ver}
              /\ doc'.ver = b.ver /\ doc'.gen = b.gen
              /\ doc'.served = attempt[a].sha /\ doc'.rev = doc.rev + 1
              /\ doc'.archived = doc.archived /\ doc'.att = 0
              /\ doc.archived = FALSE
              /\ UNCHANGED <<version, source, lastGen, publock, client>>
<1>1. run[w].pc = "swap"
    BY DEF Promote
<1>2. /\ run[w].att \in Attempt /\ Known(attempt[run[w].att].cand)
      /\ run[w].gen # 0 /\ run[w].gen <= lastGen
    BY <1>1, RunFacts DEF AfterParse, AfterAllocation, Whole, Private,
                          OwnGeneration
<1>3. attempt[run[w].att].status = "running" /\ doc.att = run[w].att
    BY DEF Promote, SwapAllowed, Authority
<1>4. doc.archived = FALSE
    BY <1>2, <1>3 DEF Whole, Consistent, LeaseMatchesRecord, Typed, TypeOK,
                      DocRow, Attempt
<1>5. doc' = PromotedRow(attempt[run[w].att].cand, run[w].gen,
                         attempt[run[w].att].sha)
    BY DEF Promote
<1>6. /\ doc'.ver = attempt[run[w].att].cand /\ doc'.gen = run[w].gen
      /\ doc'.served = attempt[run[w].att].sha /\ doc'.rev = doc.rev + 1
      /\ doc'.archived = doc.archived /\ doc'.att = 0
    BY <1>5 DEF PromotedRow, Whole, Consistent, Typed, TypeOK, DocRow
<1> QED BY <1>2, <1>3, <1>4, <1>6 DEF Promote, Sweep

-----------------------------------------------------------------------------
(* The tables, one table at a time.                                         *)

\* Only begin_attempt gives birth to an attempt, and binds it to the published
\* candidate.
LEMMA Birth ==
    ASSUME Whole, [Next]_vars, NEW a \in Attempt,
           attempt[a].status = "unborn", attempt'[a].status # "unborn"
    PROVE  /\ doc.state = "published"
           /\ attempt'[a].cand = doc.cand /\ attempt'[a].sha = doc.sha
<1> USE DEF Whole, Consistent, Typed
<1>1. ASSUME NEW w \in Actor, StageCandidate(w) PROVE attempt'[a] = attempt[a]
    BY <1>1 DEF StageCandidate, StageSame, StageNew, Fence
<1>2. ASSUME NEW b \in Attempt, NEW v, attempt' = Ended(b, v),
             attempt[b].status # "unborn"
      PROVE  attempt'[a] = attempt[a]
    BY <1>2 DEF Ended, TypeOK
<1>3. ASSUME NEW w \in Actor, Closing(w) PROVE attempt'[a] = attempt[a]
  <2>1. CASE attempt' = attempt
      BY <2>1
  <2>2. CASE attempt' # attempt
    <3>1. /\ run[w].att \in Attempt
          /\ \E v \in {"error", "partial"} : attempt' = Ended(run[w].att, v)
        BY <1>3, <2>2, RecordEnds
    <3>2. attempt[run[w].att].status # "unborn"
        BY <3>1 DEF Private, OwnGeneration, Attempt
    <3> QED BY <1>2, <3>1, <3>2
  <2> QED BY <2>1, <2>2
<1>4. ASSUME NEW w \in Actor, Promote(w) PROVE attempt'[a] = attempt[a]
  <2>1. run[w].att \in Attempt /\ attempt[run[w].att].status = "running"
      BY <1>4, Promotion
  <2> QED BY <1>2, <1>4, <2>1 DEF Promote
<1>5. ASSUME NEW w \in Actor, AllocateGeneration(w) \/ Staging(w)
      PROVE  attempt' = attempt
    BY <1>5 DEF AllocateGeneration, Staging, UpsertBatch, UpsertRest, CopyReused
<1>6. PICK w \in Actor : BeginAttempt(w)
    BY <1>1, <1>3, <1>4, <1>5, TableSteps
<1>7. PICK b \in Attempt :
          attempt' = [c \in Attempt |->
              IF c = b THEN [status |-> "running", cand |-> doc.cand,
                             sha |-> doc.sha, observed |-> doc.gen]
              ELSE IF c = doc.att /\ attempt[c].status = "running"
              THEN [attempt[c] EXCEPT !.status = "superseded"]
              ELSE attempt[c]]
    BY <1>6 DEF BeginAttempt
<1>8. a = b
    BY <1>7
<1> QED BY <1>6, <1>7, <1>8 DEF BeginAttempt

LEMMA AttemptsBoundStep == ASSUME Whole, [Next]_vars PROVE AttemptsBound'
<1> SUFFICES ASSUME NEW a \in Attempt, attempt'[a].status # "unborn"
             PROVE  /\ attempt'[a].cand \in Candidate
                    /\ version'[attempt'[a].cand] \in Sha
                    /\ attempt'[a].sha = version'[attempt'[a].cand]
    BY DEF AttemptsBound, Known
<1>1. Kept
    BY KeptStep DEF Whole, Consistent
<1>2. CASE attempt[a].status # "unborn"
  <2>1. Known(attempt[a].cand) /\ attempt[a].sha = version[attempt[a].cand]
      BY <1>2 DEF Whole, Tables, AttemptsBound
  <2> QED BY <1>1, <1>2, <2>1 DEF Kept, Binding, Known
<1>3. CASE attempt[a].status = "unborn"
  <2>1. /\ doc.state = "published"
        /\ attempt'[a].cand = doc.cand /\ attempt'[a].sha = doc.sha
      BY <1>3, Birth
  <2>2. Known(doc.cand) /\ version[doc.cand] = doc.sha
      BY <2>1 DEF Whole, Consistent, NamedBytesExist, Typed, Bound, TypeOK, Known
  <2> QED BY <1>1, <2>1, <2>2 DEF Kept, Known
<1> QED BY <1>2, <1>3

\* What becomes of the chunk rows and the receipts in a step.
LEMMA RowSteps ==
    ASSUME [Next]_vars
    PROVE  \/ UNCHANGED <<chunk, build>>
           \/ \E w \in Actor : Staging(w) \/ Promote(w)
<1>1. ASSUME NEW w \in Actor, \/ StageCandidate(w) \/ BeginAttempt(w)
                              \/ Closing(w) \/ AllocateGeneration(w)
      PROVE  UNCHANGED <<chunk, build>>
    BY <1>1 DEF StageCandidate, BeginAttempt, Closing, RecordPartial,
                CloseAsError, CallerEnds, AllocateGeneration
<1> QED BY <1>1, TableSteps

LEMMA ChunksBoundStep == ASSUME Whole, [Next]_vars PROVE ChunksBound'
<1>1. Kept /\ lastGen \in Nat /\ lastGen' \in Nat /\ chunk \subseteq ChunkRow
    BY KeptStep, TypeStep DEF Whole, Consistent, Typed, TypeOK
<1>2. ASSUME NEW c \in chunk
      PROVE  /\ Known(c.ver)' /\ c.gen <= lastGen'
             /\ c.key \in Manifest[version'[c.ver]]
  <2>1. /\ Known(c.ver) /\ c.gen <= lastGen
        /\ c.key \in Manifest[version[c.ver]]
      BY DEF Whole, Tables, ChunksBound
  <2>2. c.gen \in Nat
      BY <1>1 DEF ChunkRow
  <2> QED BY <1>1, <2>1, <2>2 DEF Kept, Known
<1>3. CASE chunk' \subseteq chunk
    BY <1>2, <1>3 DEF Whole, Tables, ChunksBound, Known
<1>4. ASSUME NEW w \in Actor, Staging(w) PROVE ChunksBound'
  <2>1. PICK K \in SUBSET run[w].keys : chunk' = chunk \cup Rows(w, K)
      BY <1>4, StagedRows
  <2>2. run[w].pc \in AfterParse /\ run[w].pc \in AfterAllocation
      BY <1>4, StagedRows DEF AfterParse, AfterAllocation
  <2> DEFINE v == attempt[run[w].att].cand
  <2>3. Known(v) /\ version' = version /\ lastGen' = lastGen
      BY <1>4, <2>2, RunFacts, StagedRows
  <2>4. /\ run[w].keys \subseteq Manifest[version[v]]
        /\ run[w].gen # 0 /\ run[w].gen <= lastGen
        /\ \A c \in chunk : c.gen = run[w].gen => c.ver = v
    <3>1. OwnGeneration(run[w]) /\ OwnContent(run[w])
        BY DEF Whole, Private
    <3>2. run[w].keys \subseteq Content(run[w])
        BY <2>2, <3>1 DEF OwnContent
    <3>3. run[w].gen # 0
        BY <2>2, <3>1 DEF OwnGeneration
    <3>4. /\ run[w].gen <= lastGen
          /\ \A c \in chunk : c.gen = run[w].gen => c.ver = v
        BY <3>1, <3>3 DEF OwnGeneration
    <3> QED BY <3>2, <3>3, <3>4 DEF Content
  <2>5. \A c \in Rows(w, K) : /\ c.ver = v /\ c.gen = run[w].gen
                              /\ c.key \in run[w].keys
      BY DEF Rows
  <2> HIDE DEF v
  <2>6. \A c \in chunk' : /\ Known(c.ver)' /\ c.gen <= lastGen'
                          /\ c.key \in Manifest[version'[c.ver]]
      BY <1>2, <2>1, <2>3, <2>4, <2>5 DEF Known
  <2>7. \A c, d \in chunk' : c.gen = d.gen => c.ver = d.ver
      BY <2>1, <2>4, <2>5 DEF Whole, Tables, ChunksBound
  <2> QED BY <2>6, <2>7 DEF ChunksBound
<1>5. ASSUME NEW w \in Actor, Promote(w) PROVE chunk' \subseteq chunk
    BY <1>5 DEF Promote, Sweep
<1> QED BY <1>3, <1>4, <1>5, RowSteps

\* The rows of a receipt are those it was given for: staging never writes into
\* its generation and a sweep spares it.
LEMMA ReceiptsBoundStep == ASSUME Whole, [Next]_vars PROVE ReceiptsBound'
<1>1. Kept /\ lastGen \in Nat /\ lastGen' \in Nat /\ build \subseteq BuildRow
    BY KeptStep, TypeStep DEF Whole, Consistent, Typed, TypeOK
<1>2. ASSUME NEW b \in build
      PROVE  /\ Known(b.ver)' /\ b.gen <= lastGen'
             /\ version'[b.ver] = version[b.ver]
             /\ {c.key : c \in Edition(b.gen, b.ver)} = Manifest[version[b.ver]]
  <2>1. Known(b.ver) /\ b.gen <= lastGen /\ b.gen \in Nat
      BY <1>1 DEF Whole, Tables, ReceiptsBound, BuildRow
  <2>2. {c.key : c \in Edition(b.gen, b.ver)} = Manifest[version[b.ver]]
      BY DEF Whole, Tables, ReceiptsBound, ReceiptsKeepEditions
  <2> QED BY <1>1, <2>1, <2>2 DEF Kept, Known
<1>3. ASSUME build' = build,
             \A b \in build : Edition(b.gen, b.ver)' = Edition(b.gen, b.ver)
      PROVE  ReceiptsBound'
    BY <1>2, <1>3 DEF ReceiptsBound, ReceiptsKeepEditions, Known
<1>4. CASE UNCHANGED <<chunk, build>>
    BY <1>3, <1>4 DEF Edition
<1>5. ASSUME NEW w \in Actor, Staging(w) PROVE ReceiptsBound'
  <2>1. PICK K \in SUBSET run[w].keys : chunk' = chunk \cup Rows(w, K)
      BY <1>5, StagedRows
  <2>2. run[w].pc \in AfterAllocation /\ build' = build
      BY <1>5, StagedRows DEF AfterAllocation
  <2>3. \A b \in build : b.gen # run[w].gen
      BY <2>2 DEF Whole, Private, OwnGeneration
  <2>4. \A c \in Rows(w, K) : c.gen = run[w].gen
      BY DEF Rows
  <2>5. \A b \in build : Edition(b.gen, b.ver)' = Edition(b.gen, b.ver)
      BY <2>1, <2>3, <2>4 DEF Edition
  <2> QED BY <1>3, <2>2, <2>5
<1>6. ASSUME NEW w \in Actor, Promote(w) PROVE ReceiptsBound'
  <2> DEFINE a == run[w].att
             v == attempt[a].cand
             g == run[w].gen
  <2>1. PICK b : /\ b.ver = v /\ b.gen = g /\ build' = build \cup {b}
                 /\ chunk' = {c \in chunk : \E o \in build' :
                                 o.gen = c.gen /\ o.ver = c.ver}
                 /\ version' = version /\ lastGen' = lastGen
                 /\ Known(v) /\ g <= lastGen /\ a \in Attempt
                 /\ attempt[a].status = "running"
    <3>1. PICK b : b = [ver |-> v, gen |-> g, att |-> a,
                        count |-> Cardinality(Edition(g, v))]
        OBVIOUS
    <3>2. b.ver = v /\ b.gen = g
        BY <3>1
    <3> QED BY <1>6, <3>1, <3>2, Promotion
  <2>2. {c.key : c \in Edition(g, v)} = Manifest[version[v]]
    <3>1. run[w].pc = "swap" /\ OwnContent(run[w])
        BY <1>6 DEF Promote, Whole, Private
    <3>2. run[w].keys # {} /\ StagedBy(run[w]) /\ run[w].whole
        BY <2>1, <3>1 DEF OwnContent
    <3>3. run[w].keys = Manifest[version[v]]
        BY <3>1, <3>2 DEF OwnContent, Content, AfterParse, AfterAllocation
    <3>4. Edition(g, v) =
              {[gen |-> g, ver |-> v, key |-> k] : k \in run[w].keys}
        BY <3>2 DEF StagedBy
    <3> HIDE DEF g, v
    <3>5. {c.key : c \in Edition(g, v)} = run[w].keys
      <4>1. ASSUME NEW c \in Edition(g, v) PROVE c.key \in run[w].keys
          BY <3>4
      <4>2. ASSUME NEW k \in run[w].keys
            PROVE  \E c \in Edition(g, v) : c.key = k
        <5>1. [gen |-> g, ver |-> v, key |-> k] \in Edition(g, v)
            BY <3>4
        <5> QED BY <5>1
      <4> QED BY <4>1, <4>2
    <3> QED BY <3>3, <3>5
  <2> HIDE DEF a, v, g
  <2>3. ASSUME NEW o \in build'
        PROVE  Edition(o.gen, o.ver)' = Edition(o.gen, o.ver)
      BY <2>1 DEF Edition
  <2>4. ASSUME NEW o \in build'
        PROVE  /\ Known(o.ver)' /\ o.gen <= lastGen'
               /\ {c.key : c \in Edition(o.gen, o.ver)} =
                      Manifest[version'[o.ver]]
    <3>1. CASE o \in build
        BY <1>2, <3>1
    <3>2. CASE o = b
        BY <2>1, <2>2, <3>2 DEF Known
    <3> QED BY <2>1, <3>1, <3>2
  <2> QED BY <2>3, <2>4 DEF ReceiptsBound, ReceiptsKeepEditions, Known
<1> QED BY <1>4, <1>5, <1>6, RowSteps

\* The served pointer moves in a promotion or an activation only.
LEMMA PointerSteps ==
    ASSUME Typed, [Next]_vars
    PROVE  \/ /\ doc'.ver = doc.ver /\ doc'.gen = doc.gen
              /\ doc'.served = doc.served /\ doc'.rev = doc.rev
           \/ ActivateVersion
           \/ \E w \in Actor : Promote(w)
<1> DEFINE Same == /\ doc'.ver = doc.ver /\ doc'.gen = doc.gen
                   /\ doc'.served = doc.served /\ doc'.rev = doc.rev
<1>1. doc \in DocRow
    BY DEF Typed, TypeOK
<1>2. ASSUME doc' = doc PROVE Same
    BY <1>2
<1>3. ASSUME NEW w \in Actor, StageCandidate(w) PROVE Same
    BY <1>1, <1>3 DEF StageCandidate, StageSame, StageNew, DocRow
<1>4. ASSUME NEW w \in Actor, BeginAttempt(w) PROVE Same
    BY <1>1, <1>4 DEF BeginAttempt, DocRow
<1>5. ASSUME NEW w \in Actor, Closing(w) PROVE Same
    BY <1>1, <1>5 DEF Closing, RecordPartial, CloseAsError, CallerEnds, Record,
                      DocRow
<1>6. ASSUME NEW w \in Actor, Heartbeat(w) PROVE Same
    BY <1>1, <1>6 DEF Heartbeat, DocRow
<1>7. ASSUME NEW w \in Actor, FinalizePublication(w) PROVE Same
    BY <1>1, <1>7 DEF FinalizePublication, DocRow
<1>8. ASSUME LeaseExpires \/ SetArchived PROVE Same
    BY <1>1, <1>8 DEF LeaseExpires, SetArchived, DocRow
<1>9. ASSUME NEW w \in Actor, CallerStep(w) PROVE Same \/ Promote(w)
  <2>1. CASE \/ WriteSource(w) \/ PublicationStops(w) \/ BeginRefused(w)
             \/ StepFails(w) \/ Quietly(w)
      BY <1>2, <2>1, QuietlyStep
         DEF WriteSource, PublicationStops, BeginRefused, StepFails, Raise
  <2>2. CASE \/ EnsureSource(w) \/ Parse(w) \/ CheckParsed(w)
             \/ AllocateGeneration(w) \/ FindReusable(w) \/ UpsertBatch(w)
             \/ UpsertRest(w) \/ CopyReused(w) \/ CheckManifest(w)
             \/ SwapRefused(w) \/ WriteRefused(w)
      BY <1>2, <2>2 DEF EnsureSource, Parse, CheckParsed, AllocateGeneration,
                        FindReusable, UpsertBatch, UpsertRest, CopyReused,
                        CheckManifest, SwapRefused, WriteRefused, Raise
  <2> HIDE DEF Same
  <2> QED BY <1>3, <1>4, <1>5, <1>6, <1>7, <1>9, <2>1, <2>2
          DEF CallerStep, LockGranted, Quietly, Publication, IngestStep, Closing
<1>10. ASSUME ReadVersions \/ ActivationRefused PROVE Same
    BY <1>2, <1>10 DEF ReadVersions, ActivationRefused
<1>11. ASSUME UNCHANGED vars PROVE Same
    BY <1>2, <1>11 DEF vars
<1> HIDE DEF Same
<1>12. Same \/ ActivateVersion \/ \E w \in Actor : Promote(w)
    BY <1>8, <1>9, <1>10, <1>11 DEF Next
<1> QED BY <1>12 DEF Same

\* An activation, named by the receipt it moves to.
LEMMA Activation ==
    ASSUME Typed, ActivateVersion
    PROVE  \E b \in build :
              /\ b.ver = client.ver /\ b.ver # 0 /\ b.ver \in source
              /\ doc.rev = client.rev /\ doc.archived = FALSE
              /\ \/ doc' = doc
                 \/ /\ doc'.ver = b.ver /\ doc'.gen = b.gen
                    /\ doc'.served = version[b.ver] /\ doc'.rev = doc.rev + 1
                    /\ doc'.archived = doc.archived
              /\ client' = [ver |-> 0, rev |-> 0, gen |-> 0]
              /\ UNCHANGED <<version, source, attempt, lastGen, chunk, build,
                             publock, run>>
<1> USE DEF Typed
<1>1. PICK b \in ReadyBuilds(client.ver) :
          doc' = IF doc.ver = b.ver /\ doc.gen = b.gen THEN doc
                 ELSE [doc EXCEPT !.ver = b.ver, !.gen = b.gen,
                                  !.served = version[b.ver], !.rev = @ + 1]
    BY DEF ActivateVersion
<1>2. b \in build /\ b.ver = client.ver
    BY DEF ReadyBuilds
<1>3. /\ client.ver # 0 /\ client.ver \in source /\ doc.rev = client.rev
      /\ doc.archived = FALSE
    BY DEF ActivateVersion, ActivationAllowed, RevisionMatches, TypeOK, DocRow
<1>4. \/ doc' = doc
      \/ /\ doc'.ver = b.ver /\ doc'.gen = b.gen
         /\ doc'.served = version[b.ver] /\ doc'.rev = doc.rev + 1
         /\ doc'.archived = doc.archived
    BY <1>1 DEF TypeOK, DocRow
<1> QED BY <1>2, <1>3, <1>4 DEF ActivateVersion

LEMMA ServedBoundStep == ASSUME Whole, [Next]_vars PROVE ServedBound'
<1>1. build \subseteq build'
    BY RowSteps, StagedRows DEF Promote
<1>2. CASE doc'.ver = doc.ver /\ doc'.gen = doc.gen /\ doc'.served = doc.served
    BY <1>1, <1>2 DEF Whole, Tables, ServedBound
<1>3. CASE ActivateVersion
    BY <1>1, <1>2, <1>3, Activation DEF Whole, Consistent, ServedBound
<1>4. ASSUME NEW w \in Actor, Promote(w) PROVE ServedBound'
  <2>1. PICK b : b = [ver |-> attempt[run[w].att].cand, gen |-> run[w].gen,
                      att |-> run[w].att,
                      count |-> Cardinality(Edition(run[w].gen,
                                            attempt[run[w].att].cand))]
      OBVIOUS
  <2>2. b.ver = attempt[run[w].att].cand /\ b.gen = run[w].gen
      BY <2>1
  <2>3. /\ b \in build' /\ doc'.ver = b.ver /\ doc'.gen = b.gen
        /\ b.ver \in Candidate
      BY <1>4, <2>1, <2>2, Promotion DEF Known
  <2> QED BY <2>3 DEF ServedBound, Candidate
<1> QED BY <1>2, <1>3, <1>4, PointerSteps DEF Whole, Consistent

\* The activation request changes hands in its own steps only.
LEMMA ClientSteps ==
    ASSUME [Next]_vars
    PROVE  \/ client' = client
           \/ ReadVersions
           \/ client' = [ver |-> 0, rev |-> 0, gen |-> 0]
<1>1. ASSUME NEW w \in Actor, CallerStep(w) PROVE client' = client
  <2>1. CASE \/ WriteSource(w) \/ FinalizePublication(w) \/ PublicationStops(w)
             \/ BeginRefused(w) \/ StepFails(w) \/ Quietly(w)
             \/ StageCandidate(w) \/ BeginAttempt(w)
      BY <2>1, QuietlyStep
              DEF WriteSource, FinalizePublication, PublicationStops,
                  BeginRefused, StepFails, Raise,
                  StageCandidate, BeginAttempt
  <2>2. CASE \/ EnsureSource(w) \/ Parse(w) \/ CheckParsed(w)
             \/ AllocateGeneration(w) \/ FindReusable(w) \/ Heartbeat(w)
             \/ CheckManifest(w) \/ SwapRefused(w) \/ WriteRefused(w)
             \/ RecordPartial(w) \/ CloseAsError(w) \/ CallerEnds(w)
      BY <2>2 DEF EnsureSource, Parse, CheckParsed, AllocateGeneration,
                  FindReusable, Heartbeat, CheckManifest, SwapRefused,
                  WriteRefused, Raise, RecordPartial, CloseAsError, CallerEnds
  <2>3. CASE \/ UpsertBatch(w) \/ UpsertRest(w) \/ CopyReused(w) \/ Promote(w)
      BY <2>3 DEF UpsertBatch, UpsertRest, CopyReused, Promote
  <2> QED BY <1>1, <2>1, <2>2, <2>3
          DEF CallerStep, LockGranted, Quietly, Publication, IngestStep
<1>2. CASE Lifecycle
    BY <1>2 DEF Lifecycle, LeaseExpires, SetArchived, ActivateVersion,
                ActivationRefused
<1>3. CASE UNCHANGED vars
    BY <1>3 DEF vars
<1> QED BY <1>1, <1>2, <1>3 DEF Next, Lifecycle

LEMMA ClientBoundStep == ASSUME Whole, [Next]_vars PROVE ClientBound'
<1> USE DEF Whole, Consistent
<1>1. /\ doc.rev \in Nat /\ doc'.rev \in Nat /\ client.rev \in Nat
      /\ ClientBound
    BY TypeStep DEF Typed, TypeOK, DocRow, Tables
<1>2. CASE client' = [ver |-> 0, rev |-> 0, gen |-> 0]
    BY <1>1, <1>2 DEF ClientBound
<1>3. CASE ReadVersions
    BY <1>1, <1>3 DEF ReadVersions, ClientBound
<1>4. CASE client' = client
  <2>1. \/ doc'.gen = doc.gen /\ doc'.rev = doc.rev
        \/ doc'.rev = doc.rev + 1
        \/ ActivateVersion
      BY PointerSteps, Promotion
  <2>2. CASE ActivateVersion
      BY <1>2, <2>2, Activation
  <2> QED BY <1>1, <1>4, <2>1, <2>2 DEF ClientBound
<1> QED BY <1>2, <1>3, <1>4, ClientSteps

LEMMA TablesStep == ASSUME Whole, [Next]_vars PROVE Tables'
BY AttemptsBoundStep, ChunksBoundStep, ReceiptsBoundStep, ServedBoundStep,
   ClientBoundStep DEF Tables

-----------------------------------------------------------------------------
(* The runs.  A step of one run leaves what the others have staged alone,   *)
(* because their generations differ.                                        *)

\* The local state r keeps the attempt and the generation it had.
LEMMA GenerationKept ==
    ASSUME Whole, [Next]_vars, NEW w \in Actor, NEW r \in RunState,
           r.att = run[w].att, r.gen = run[w].gen,
           r.pc \in AfterAllocation => run[w].gen # 0,
           \/ UNCHANGED <<chunk, build>>
           \/ Staging(w)
           \/ \E u \in Actor \ {w} : Staging(u) \/ Promote(u)
    PROVE  OwnGeneration(r)'
<1>1. Kept /\ lastGen \in Nat /\ lastGen' \in Nat /\ r.gen \in Nat
    BY KeptStep, TypeStep DEF Whole, Consistent, Typed, TypeOK, RunState
<1>2. OwnGeneration(run[w])
    BY DEF Whole, Private
<1>3. r.gen <= lastGen'
    BY <1>1, <1>2 DEF OwnGeneration, Kept
<1>4. r.att # 0 => attempt'[r.att].status # "unborn"
    BY <1>1, <1>2 DEF OwnGeneration, Kept, Binding, RunState
<1>5. ASSUME r.gen # 0
      PROVE  /\ r.att \in Attempt
             /\ \A c \in chunk' : c.gen = r.gen => c.ver = attempt'[r.att].cand
             /\ \A b \in build' : b.gen # r.gen
  <2>1. r.att \in Attempt /\ attempt'[r.att].cand = attempt[r.att].cand
      BY <1>1, <1>5, RunFacts DEF Kept, Binding
  <2>2. /\ \A c \in chunk : c.gen = r.gen => c.ver = attempt'[r.att].cand
        /\ \A b \in build : b.gen # r.gen
      BY <1>2, <1>5, <2>1 DEF OwnGeneration
  <2>3. CASE UNCHANGED <<chunk, build>>
      BY <2>1, <2>2, <2>3
  <2>4. CASE Staging(w)
    <3>1. PICK K : chunk' = chunk \cup Rows(w, K)
        BY <2>4, StagedRows
    <3>2. \A c \in Rows(w, K) : c.ver = attempt[r.att].cand
        BY DEF Rows
    <3>3. build' = build
        BY <2>4, StagedRows
    <3> QED BY <2>1, <2>2, <3>1, <3>2, <3>3
  <2>5. ASSUME NEW u \in Actor \ {w}, Staging(u)
        PROVE  /\ \A c \in chunk' : c.gen = r.gen =>
                                        c.ver = attempt'[r.att].cand
               /\ \A b \in build' : b.gen # r.gen
    <3>1. PICK K : chunk' = chunk \cup Rows(u, K)
        BY <2>5, StagedRows
    <3>2. \A c \in Rows(u, K) : c.gen = run[u].gen
        BY DEF Rows
    <3>3. run[u].gen # r.gen
        BY <1>5 DEF Whole, RunsApart
    <3>4. build' = build
        BY <2>5, StagedRows
    <3> QED BY <2>2, <3>1, <3>2, <3>3, <3>4
  <2>6. ASSUME NEW u \in Actor \ {w}, Promote(u)
        PROVE  /\ \A c \in chunk' : c.gen = r.gen =>
                                        c.ver = attempt'[r.att].cand
               /\ \A b \in build' : b.gen # r.gen
    <3>1. chunk' \subseteq chunk
        BY <2>6 DEF Promote, Sweep
    <3>2. \A b \in build' : b \in build \/ b.gen = run[u].gen
        BY <2>6 DEF Promote
    <3>3. run[u].gen # r.gen
        BY <1>5 DEF Whole, RunsApart
    <3> QED BY <2>2, <3>1, <3>2, <3>3
  <2> QED BY <2>1, <2>3, <2>4, <2>5, <2>6
<1> QED BY <1>2, <1>3, <1>4, <1>5 DEF OwnGeneration

\* What a run has parsed stays the content of its candidate.
LEMMA ContentSame ==
    ASSUME Whole, [Next]_vars, NEW w \in Actor, NEW r \in RunState,
           r.att = run[w].att, run[w].pc \in AfterParse
    PROVE  Content(r)' = Content(run[w])
<1>1. /\ run[w].att \in Attempt /\ attempt[run[w].att].status # "unborn"
      /\ Known(attempt[run[w].att].cand)
    BY RunFacts
<1> QED BY <1>1, KeptStep DEF Whole, Consistent, Kept, Binding, Known, Content

\* A run that others leave alone keeps what it has.
LEMMA OthersPrivate ==
    ASSUME Whole, [Next]_vars, NEW v \in Actor, run'[v] = run[v],
           \/ UNCHANGED <<chunk, build>>
           \/ \E u \in Actor \ {v} : Staging(u) \/ Promote(u)
    PROVE  (OwnGeneration(run[v]) /\ OwnContent(run[v]))'
<1>1. PICK r \in RunState : r = run[v]
    BY DEF Whole, Consistent, Typed, TypeOK
<1>2. OwnGeneration(run[v]) /\ OwnContent(run[v])
    BY DEF Whole, Private
<1>3. OwnGeneration(r)'
    BY <1>1, <1>2, GenerationKept DEF OwnGeneration
<1>4. r.pc \in AfterParse => Content(r)' = Content(r)
    BY <1>1, ContentSame DEF Content
<1>5. ASSUME r.pc = "swap", attempt'[r.att].status = "running"
      PROVE  r.keys # {} /\ StagedBy(r)'
  <2>1. /\ r.att \in Attempt /\ attempt[r.att].status # "unborn" /\ Kept
        /\ r.gen # 0
      BY <1>1, <1>2, <1>5, RunFacts, KeptStep
         DEF AfterParse, AfterAllocation, Whole, Consistent, OwnGeneration
  <2>2. /\ attempt[r.att].status = "running"
        /\ attempt'[r.att].cand = attempt[r.att].cand
      BY <1>5, <2>1 DEF Kept, Binding
  <2>3. r.keys # {} /\ StagedBy(r)
      BY <1>1, <1>2, <1>5, <2>2 DEF OwnContent
  <2>4. ASSUME NEW u \in Actor, Promote(u) PROVE FALSE
    <3>1. doc'.att = 0
        BY <2>4, Promotion
    <3>2. LeaseMatchesRecord'
        BY ConsistentStep DEF Whole, Consistent
    <3> QED BY <1>5, <2>1, <3>1, <3>2 DEF LeaseMatchesRecord, Attempt
  <2>5. ASSUME NEW g, g = r.gen, NEW c
        PROVE  Edition(g, c)' = Edition(g, c)
    <3>1. CASE chunk' = chunk
        BY <3>1 DEF Edition
    <3>2. ASSUME NEW u \in Actor \ {v}, Staging(u)
          PROVE  Edition(g, c)' = Edition(g, c)
      <4>1. PICK K : chunk' = chunk \cup Rows(u, K)
          BY <3>2, StagedRows
      <4>2. \A d \in Rows(u, K) : d.gen = run[u].gen
          BY DEF Rows
      <4>3. run[u].gen # g
          BY <1>1, <2>1, <2>5 DEF Whole, RunsApart
      <4> QED BY <4>1, <4>2, <4>3 DEF Edition
    <3> QED BY <2>4, <3>1, <3>2
  <2> QED BY <2>2, <2>3, <2>5 DEF StagedBy
<1>6. OwnContent(r)'
    BY <1>1, <1>2, <1>4, <1>5 DEF OwnContent
<1> QED BY <1>1, <1>3, <1>6 DEF OwnGeneration, OwnContent, Content, StagedBy

\* One caller moves to the local state r.
LEMMA RunMoves ==
    ASSUME Whole, [Next]_vars, NEW w \in Actor, NEW r \in RunState,
           LocalState(w, r), UNCHANGED <<chunk, build>> \/ Staging(w) \/ Promote(w),
           OwnGeneration(r)', OwnContent(r)',
           r.gen \in {0, run[w].gen, lastGen + 1}
    PROVE  Private' /\ RunsApart'
<1>1. /\ run'[w] = r
      /\ \A v \in Actor \ {w} : run'[v] = run[v]
    BY LocalStep DEF Whole, Consistent, Typed, TypeOK
<1>2. ASSUME NEW v \in Actor
      PROVE  (OwnGeneration(run[v]) /\ OwnContent(run[v]))'
  <2>1. CASE v = w
      BY <1>1, <2>1 DEF OwnGeneration, OwnContent, Content, StagedBy
  <2>2. CASE v # w
      BY <1>1, <2>2, OthersPrivate
  <2> QED BY <2>1, <2>2
<1>3. \A v \in Actor : run[v].gen \in Nat /\ run[v].gen <= lastGen
    BY DEF Whole, Private, OwnGeneration, Consistent, Typed, TypeOK, RunState
<1>4. lastGen \in Nat
    BY DEF Whole, Consistent, Typed, TypeOK
<1>5. RunsApart'
  <2>1. ASSUME NEW u \in Actor, NEW v \in Actor, u # v, run'[u].gen # 0
        PROVE  run'[u].gen # run'[v].gen
    <3>1. CASE u = w
        BY <1>1, <1>3, <1>4, <2>1, <3>1 DEF Whole, RunsApart
    <3>2. CASE v = w
        BY <1>1, <1>3, <1>4, <2>1, <3>2 DEF Whole, RunsApart
    <3>3. CASE u # w /\ v # w
        BY <1>1, <2>1, <3>3 DEF Whole, RunsApart
    <3> QED BY <3>1, <3>2, <3>3
  <2> QED BY <2>1 DEF RunsApart
<1> QED BY <1>2, <1>5 DEF Private

\* A run before it parses, or past its verdict, has nothing to keep to.
LEMMA NothingStaged ==
    ASSUME NEW r, r.pc \notin AfterParse
    PROVE  OwnContent(r)'
BY DEF OwnContent, AfterParse, AfterAllocation, AfterReuse

\* A run that starts afresh or is over.
LEMMA FreshStep ==
    ASSUME Whole, [Next]_vars, NEW w \in Actor, NEW r \in RunState,
           LocalState(w, r), UNCHANGED <<chunk, build>> \/ Promote(w),
           r.gen = 0, r.pc \notin AfterParse,
           r.att # 0 => attempt'[r.att].status # "unborn"
    PROVE  Private' /\ RunsApart'
<1>1. lastGen' \in Nat
    BY TypeStep DEF Whole, Consistent, Typed, TypeOK
<1>2. OwnGeneration(r)'
    BY <1>1 DEF OwnGeneration, AfterParse
<1> QED BY <1>2, NothingStaged, RunMoves

\* A run that leaves its path: the exception handlers, a dead process, the
\* hand-over from one step of a publication to the next.
LEMMA LeavingStep ==
    ASSUME Whole, [Next]_vars, NEW w \in Actor, NEW r \in RunState,
           LocalState(w, r), UNCHANGED <<chunk, build>>,
           r.gen = run[w].gen, r.att = run[w].att, r.pc \notin AfterParse
    PROVE  Private' /\ RunsApart'
<1>1. OwnGeneration(r)'
    BY GenerationKept DEF AfterParse
<1> QED BY <1>1, NothingStaged, RunMoves

\* Publication and the first step of an indexing run.
LEMMA PrivatePublication ==
    ASSUME Whole, [Next]_vars, NEW w \in Actor,
           StageCandidate(w) \/ Publication(w) \/ PublicationStops(w)
    PROVE  Private' /\ RunsApart'
<1> USE DEF Whole, Consistent, Typed
<1>1. UNCHANGED <<chunk, build>>
    BY DEF StageCandidate, Publication, WriteSource, FinalizePublication,
           PublicationStops
<1>2. ASSUME NEW p \in {"write", "begin", "idle", "finalize"}
      PROVE  p \in Pc /\ p \notin AfterParse
    BY DEF Pc, AfterParse, AfterAllocation
<1>3. run[w] \in RunState /\ doc.cand \in Candidate \cup {0}
    BY DEF TypeOK, DocRow
<1>4. CASE StageCandidate(w)
  <2>1. PICK s \in Sha, c \in Candidate \cup {0} :
            LocalState(w, [Idle("write") EXCEPT !.cand = c, !.bytes = s])
      BY <1>3, <1>4 DEF StageCandidate, StageSame, StageNew
  <2>2. PICK r : r = [Idle("write") EXCEPT !.cand = c, !.bytes = s]
      OBVIOUS
  <2>3. r \in RunState
      BY <1>2, <2>2, FreshRuns
  <2>4. r.pc = "write" /\ r.gen = 0 /\ r.att = 0
      BY <2>2 DEF Idle
  <2> QED BY <1>1, <1>2, <2>1, <2>2, <2>3, <2>4, FreshStep
<1>5. CASE WriteSource(w)
  <2>1. PICK r : r = [run[w] EXCEPT !.pc = "finalize"]
      OBVIOUS
  <2>2. /\ r \in RunState /\ r.pc = "finalize" /\ r.gen = run[w].gen
        /\ r.att = run[w].att
      BY <1>2, <1>3, <2>1, MovePc DEF RunState
  <2>3. LocalState(w, r)
      BY <1>5, <2>1 DEF WriteSource
  <2> QED BY <1>1, <1>2, <2>2, <2>3, LeavingStep
<1>6. CASE FinalizePublication(w)
  <2>1. run[w].bytes \in Sha \cup {None}
      BY <1>3 DEF RunState
  <2>2. PICK r : r = Published(w) /\ LocalState(w, r)
      BY <1>6 DEF FinalizePublication
  <2>3. PICK p \in {"begin", "idle"} :
            r = Idle(p) \/ r = [Idle(p) EXCEPT !.bytes = run[w].bytes]
      BY <2>2 DEF Published
  <2>4. r \in RunState
    <3>1. p \in Pc /\ [Idle(p) EXCEPT !.bytes = run[w].bytes] \in RunState
        BY <1>2, <2>1, FreshRuns
    <3>2. Idle(p) \in RunState
        BY <2>1, <3>1, FreshRuns
    <3> QED BY <2>3, <3>1, <3>2
  <2>5. r.pc = p /\ r.gen = 0 /\ r.att = 0
      BY <2>3 DEF Idle
  <2> QED BY <1>1, <1>2, <2>2, <2>4, <2>5, FreshStep
<1>7. CASE PublicationStops(w)
  <2>1. PICK r : r = Idle("idle") /\ LocalState(w, r)
      BY <1>7 DEF PublicationStops
  <2>2. r \in RunState /\ r.pc = "idle" /\ r.gen = 0 /\ r.att = 0
      BY <1>2, <2>1, FreshRuns, ConstantsAssumption DEF Idle
  <2> QED BY <1>1, <1>2, <2>1, <2>2, FreshStep
<1> QED BY <1>4, <1>5, <1>6, <1>7 DEF Publication

\* A caller that waits, is over, refused, dead, restarted or promoted.
LEMMA PrivateEnd ==
    ASSUME Whole, [Next]_vars, NEW w \in Actor,
           \/ BeginRefused(w) \/ RecordPartial(w) \/ CallerEnds(w) \/ Promote(w)
           \/ AskLock(w) \/ StageRefused(w) \/ ReleaseFails(w) \/ Crash(w)
           \/ Restart(w)
    PROVE  Private' /\ RunsApart'
<1>1. UNCHANGED <<chunk, build>> \/ Promote(w)
    BY DEF BeginRefused, RecordPartial, CallerEnds, AskLock, StageRefused,
           ReleaseFails, Crash, Restart
<1>2. PICK p \in {"idle", "lock", "crashed", "unreleased"} :
          LocalState(w, Idle(p))
    BY DEF BeginRefused, RecordPartial, CallerEnds, Promote, AskLock,
           StageRefused, ReleaseFails, Crash, Restart
<1>3. p \in Pc /\ p \notin AfterParse
    BY DEF Pc, AfterParse, AfterAllocation
<1>4. PICK r \in RunState : r = Idle(p)
    BY <1>3, FreshRuns, ConstantsAssumption
<1>5. r.pc = p /\ r.gen = 0 /\ r.att = 0
    BY <1>4 DEF Idle
<1> QED BY <1>1, <1>2, <1>3, <1>4, <1>5, FreshStep

LEMMA PrivateBegin ==
    ASSUME Whole, [Next]_vars, NEW w \in Actor, BeginAttempt(w)
    PROVE  Private' /\ RunsApart'
<1> DEFINE p == IF w \in Cli THEN "parse" ELSE "ensure"
<1>1. p \in Pc /\ p \notin AfterParse
    BY DEF Pc, AfterParse, AfterAllocation
<1>2. PICK a \in Attempt :
          /\ attempt' = [b \in Attempt |->
                IF b = a THEN [status |-> "running", cand |-> doc.cand,
                               sha |-> doc.sha, observed |-> doc.gen]
                ELSE IF b = doc.att /\ attempt[b].status = "running"
                THEN [attempt[b] EXCEPT !.status = "superseded"]
                ELSE attempt[b]]
          /\ LocalState(w, [Idle(p) EXCEPT !.att = a, !.bytes = run[w].bytes])
    BY DEF BeginAttempt
<1>3. attempt'[a].status = "running"
    BY <1>2
<1>4. run[w].bytes \in Sha \cup {None}
    BY DEF Whole, Consistent, Typed, TypeOK, RunState
<1>5. PICK r : r = [Idle(p) EXCEPT !.att = a, !.bytes = run[w].bytes]
    OBVIOUS
<1>6. r \in RunState
    BY <1>1, <1>4, <1>5, FreshRuns
<1>7. r.pc = p /\ r.gen = 0 /\ r.att = a
    BY <1>5 DEF Idle
<1>8. UNCHANGED <<chunk, build>>
    BY DEF BeginAttempt
<1> HIDE DEF p
<1> QED BY <1>1, <1>2, <1>3, <1>5, <1>6, <1>7, <1>8, FreshStep

\* A run that fails keeps the attempt it has begun and nothing else.
LEMMA FailingStep ==
    ASSUME Whole, [Next]_vars, NEW w \in Actor, NEW p \in {"close", "raised"},
           LocalState(w, Failing(w, p)), UNCHANGED <<chunk, build>>
    PROVE  Private' /\ RunsApart'
<1>1. run[w].att \in Attempt \cup {0}
    BY DEF Whole, Consistent, Typed, TypeOK, RunState
<1>2. p \in Pc /\ p \notin AfterParse
    BY DEF Pc, AfterParse, AfterAllocation
<1>3. PICK r \in RunState : r = Failing(w, p)
    BY <1>1, <1>2, FreshRuns, ConstantsAssumption DEF Failing
<1>4. r.pc = p /\ r.gen = 0 /\ r.att = run[w].att
    BY <1>3 DEF Failing, Idle
<1>5. r.att # 0 => attempt'[r.att].status # "unborn"
    BY <1>1, <1>4, KeptStep
       DEF Whole, Consistent, Private, OwnGeneration, Kept, Binding
<1> QED BY <1>2, <1>3, <1>4, <1>5, FreshStep

\* Failures, refusals, and the steps before the parse.
LEMMA PrivateFailure ==
    ASSUME Whole, [Next]_vars, NEW w \in Actor,
           \/ StepFails(w) \/ WriteRefused(w) \/ SwapRefused(w)
           \/ CloseAsError(w) \/ CloseFails(w) \/ EnsureSource(w)
    PROVE  Private' /\ RunsApart'
<1>1. UNCHANGED <<chunk, build>>
    BY DEF StepFails, WriteRefused, SwapRefused, Raise, CloseAsError,
           CloseFails, EnsureSource
<1>2. run[w] \in RunState
    BY DEF Whole, Consistent, Typed, TypeOK
<1>3. CASE StepFails(w) \/ WriteRefused(w) \/ SwapRefused(w)
    BY <1>1, <1>3, FailingStep
       DEF StepFails, WriteRefused, SwapRefused, Raise, Handler
<1>4. ASSUME NEW p \in {"raised", "parse"}, NEW r \in RunState,
             LocalState(w, r),
             r.pc = p /\ r.gen = run[w].gen /\ r.att = run[w].att
      PROVE  Private' /\ RunsApart'
  <2>1. p \notin AfterParse
      BY DEF AfterParse, AfterAllocation
  <2> QED BY <1>1, <1>4, <2>1, LeavingStep
<1>5. CASE CloseAsError(w) \/ CloseFails(w)
  <2>1. PICK r : r = [run[w] EXCEPT !.pc = "raised"] /\ LocalState(w, r)
      BY <1>5 DEF CloseAsError, CloseFails
  <2>2. /\ r \in RunState /\ r.pc = "raised"
        /\ r.gen = run[w].gen /\ r.att = run[w].att
    <3>1. "raised" \in Pc
        BY DEF Pc
    <3> QED BY <1>2, <2>1, <3>1, MovePc DEF RunState
  <2> QED BY <1>4, <2>1, <2>2
<1>6. CASE EnsureSource(w)
  <2>1. CASE LocalState(w, Failing(w, "raised"))
      BY <1>1, <2>1, FailingStep
  <2>2. CASE ~LocalState(w, Failing(w, "raised"))
    <3> DEFINE c == attempt[run[w].att].cand
    <3>1. /\ c \in source
          /\ LocalState(w, [run[w] EXCEPT !.pc = "parse", !.bytes = version[c]])
        BY <1>6, <2>2 DEF EnsureSource
    <3>2. version[c] \in Sha
        BY <3>1 DEF Whole, Consistent, Typed, Bound
    <3>3. PICK r : /\ r = [run[w] EXCEPT !.pc = "parse", !.bytes = version[c]]
                   /\ LocalState(w, r)
        BY <3>1
    <3>4. r \in RunState
      <4>1. "parse" \in Pc /\ version[c] \in Sha \cup {None}
          BY <3>2 DEF Pc
      <4> HIDE DEF c
      <4> QED BY <1>2, <3>3, <4>1, MoveBytes
    <3>5. r.pc = "parse" /\ r.gen = run[w].gen /\ r.att = run[w].att
        BY <1>2, <3>3 DEF RunState
    <3> QED BY <1>4, <3>3, <3>4, <3>5
  <2> QED BY <2>1, <2>2
<1> QED BY <1>3, <1>5, <1>6

\* A run that goes on with what it has parsed.
LEMMA GoingOn ==
    ASSUME Whole, [Next]_vars, NEW w \in Actor, NEW r \in RunState,
           LocalState(w, r), UNCHANGED <<chunk, build>> \/ Staging(w),
           r.att = run[w].att, r.gen \in {run[w].gen, lastGen + 1},
           OwnGeneration(r)', run[w].pc \in AfterParse,
           r.keys = run[w].keys, r.whole = run[w].whole,
           r.pc \in AfterReuse => r.todo \subseteq r.keys /\ r.reuse \subseteq r.keys,
           r.pc = "promote" => r.whole,
           r.pc # "swap"
    PROVE  Private' /\ RunsApart'
<1>1. Content(r)' = Content(run[w])
    BY ContentSame
<1>2. OwnContent(run[w])
    BY DEF Whole, Private
<1>3. OwnContent(r)'
    BY <1>1, <1>2 DEF OwnContent
<1> QED BY <1>3, RunMoves

\* A parse yields content of the bytes it read, which are the candidate's.
LEMMA PrivateParse ==
    ASSUME Whole, [Next]_vars, NEW w \in Actor, Parse(w)
    PROVE  Private' /\ RunsApart'
<1>1. PICK s \in RunState : s = run[w]
    BY DEF Whole, Consistent, Typed, TypeOK
<1>2. UNCHANGED <<version, attempt, lastGen, chunk, build>>
    BY DEF Parse
<1>3. CASE LocalState(w, Failing(w, "close"))
    BY <1>2, <1>3, FailingStep
<1>4. CASE ~LocalState(w, Failing(w, "close"))
  <2>1. PICK found \in SUBSET Manifest[s.bytes], whole \in BOOLEAN :
            /\ whole => found \in {{}, Manifest[s.bytes]}
            /\ LocalState(w, [s EXCEPT !.pc = "check", !.keys = found,
                                       !.whole = whole])
      BY <1>1, <1>4 DEF Parse
  <2>2. s.bytes = attempt[s.att].sha /\ s.bytes \in Sha
      BY <1>1, <1>4 DEF Parse, SnapshotIsCandidate, Whole, Consistent, Typed,
                        Bound, Fits
  <2>3. /\ s.att \in Attempt
        /\ attempt[s.att].sha = version[attempt[s.att].cand]
    <3>1. s.att \in Attempt
        BY <1>1 DEF Parse, Whole, Consistent, Typed, Bound, Fits, Working, Pc
    <3>2. attempt[s.att].status # "unborn"
        BY <1>1, <3>1 DEF Whole, Private, OwnGeneration, Attempt
    <3> QED BY <3>1, <3>2 DEF Whole, Tables, AttemptsBound
  <2>4. Manifest[s.bytes] \subseteq Key /\ "check" \in Pc
      BY <2>2, ConstantsAssumption DEF Pc
  <2>5. PICK r \in RunState :
            r = [s EXCEPT !.pc = "check", !.keys = found, !.whole = whole]
      BY <2>4, MoveKeys
  <2>6. /\ r.pc = "check" /\ r.gen = s.gen /\ r.att = s.att
        /\ r.keys = found /\ r.whole = whole
      BY <2>5 DEF RunState
  <2>7. Content(r)' = Manifest[s.bytes]
      BY <1>2, <2>2, <2>3, <2>6 DEF Content
  <2>8. OwnContent(r)'
      BY <2>1, <2>6, <2>7 DEF OwnContent, AfterReuse, AfterAllocation
  <2>9. OwnGeneration(r)'
      BY <1>1, <1>2, <2>6, GenerationKept DEF AfterAllocation
  <2> QED BY <1>1, <1>2, <2>1, <2>5, <2>6, <2>8, <2>9, RunMoves
<1> QED BY <1>3, <1>4

LEMMA PrivateCheck ==
    ASSUME Whole, [Next]_vars, NEW w \in Actor, CheckParsed(w)
    PROVE  Private' /\ RunsApart'
<1>1. PICK s \in RunState : s = run[w]
    BY DEF Whole, Consistent, Typed, TypeOK
<1>2. UNCHANGED <<chunk, build>> /\ s.pc = "check"
    BY <1>1 DEF CheckParsed
<1>3. CASE \E p \in {"close", "raised"} : LocalState(w, Failing(w, p))
    BY <1>2, <1>3, FailingStep
<1>4. CASE LocalState(w, [s EXCEPT !.pc = "allocate"])
  <2>1. "allocate" \in Pc
      BY DEF Pc
  <2>2. PICK r \in RunState : r = [s EXCEPT !.pc = "allocate"]
      BY <2>1, MovePc
  <2>3. /\ r.pc = "allocate" /\ r.gen = s.gen /\ r.att = s.att
        /\ r.keys = s.keys /\ r.whole = s.whole
      BY <2>2 DEF RunState
  <2>4. /\ s.pc \in AfterParse /\ r.pc \notin AfterAllocation
        /\ r.pc \notin AfterReuse /\ r.pc \notin {"promote", "swap"}
      BY <1>2, <2>3 DEF AfterReuse, AfterAllocation, AfterParse
  <2>5. OwnGeneration(r)'
      BY <1>1, <1>2, <2>3, <2>4, GenerationKept
  <2> QED BY <1>1, <1>2, <1>4, <2>2, <2>3, <2>4, <2>5, GoingOn
<1> QED BY <1>1, <1>3, <1>4 DEF CheckParsed

\* A fresh number is above every number in use.
LEMMA PrivateAllocate ==
    ASSUME Whole, [Next]_vars, NEW w \in Actor, AllocateGeneration(w)
    PROVE  Private' /\ RunsApart'
<1>1. PICK s \in RunState : s = run[w]
    BY DEF Whole, Consistent, Typed, TypeOK
<1>2. /\ UNCHANGED <<version, attempt, chunk, build>> /\ s.pc = "allocate"
      /\ lastGen' = lastGen + 1 /\ lastGen \in Nat
      /\ LocalState(w, [s EXCEPT !.pc = "reuse", !.gen = lastGen + 1])
    BY <1>1 DEF AllocateGeneration, Whole, Consistent, Typed, TypeOK
<1>3. "reuse" \in Pc /\ lastGen + 1 \in Nat
    BY <1>2 DEF Pc
<1>4. PICK r \in RunState : r = [s EXCEPT !.pc = "reuse", !.gen = lastGen + 1]
    BY <1>3, MoveGen
<1>5. /\ r.pc = "reuse" /\ r.gen = lastGen + 1 /\ r.att = s.att
      /\ r.keys = s.keys /\ r.whole = s.whole
    BY <1>4 DEF RunState
<1>6. s.pc \in AfterParse
    BY <1>2 DEF AfterParse
<1>7. s.att \in Attempt /\ attempt[s.att].status # "unborn"
    BY <1>1, <1>6, RunFacts
<1>8. /\ \A c \in chunk : c.gen # lastGen + 1
      /\ \A b \in build : b.gen # lastGen + 1
  <2>1. /\ \A c \in chunk : c.gen \in Nat /\ c.gen <= lastGen
        /\ \A b \in build : b.gen \in Nat /\ b.gen <= lastGen
      BY DEF Whole, Consistent, Typed, TypeOK, ChunkRow, BuildRow, Tables,
             ChunksBound, ReceiptsBound
  <2> QED BY <1>2, <2>1
<1>9. OwnGeneration(r)'
    BY <1>2, <1>5, <1>7, <1>8 DEF OwnGeneration
<1>10. r.pc \notin AfterReuse
    BY <1>5 DEF AfterReuse
<1> QED BY <1>1, <1>2, <1>4, <1>5, <1>6, <1>9, <1>10, GoingOn

LEMMA PrivateReuse ==
    ASSUME Whole, [Next]_vars, NEW w \in Actor, FindReusable(w) \/ Heartbeat(w)
    PROVE  Private' /\ RunsApart'
<1>1. PICK s \in RunState : s = run[w]
    BY DEF Whole, Consistent, Typed, TypeOK
<1>2. UNCHANGED <<chunk, build>> /\ s.pc \in {"reuse", "beat", "extend"}
    BY <1>1 DEF FindReusable, Heartbeat
<1>3. s.pc \in AfterParse /\ s.pc \in AfterAllocation
    BY <1>2 DEF AfterParse, AfterAllocation
<1>4. s.gen # 0
    BY <1>1, <1>3 DEF Whole, Private, OwnGeneration
<1>5. PICK r \in RunState :
          /\ LocalState(w, r) /\ r.pc \in {"beat", "embed"}
          /\ r.gen = s.gen /\ r.att = s.att
          /\ r.keys = s.keys /\ r.whole = s.whole
          /\ r.todo \subseteq r.keys /\ r.reuse \subseteq r.keys
  <2>1. CASE FindReusable(w)
    <3>1. PICK K \in SUBSET s.keys, L \in SUBSET s.keys :
              LocalState(w, [s EXCEPT !.pc = "beat", !.todo = K, !.reuse = L])
        BY <1>1, <2>1 DEF FindReusable
    <3>2. "beat" \in Pc /\ s.keys \subseteq Key
        BY DEF Pc, RunState
    <3>3. PICK r \in RunState :
              r = [s EXCEPT !.pc = "beat", !.todo = K, !.reuse = L]
        BY <3>2, MoveTodoReuse
    <3>4. /\ r.pc = "beat" /\ r.gen = s.gen /\ r.att = s.att
          /\ r.keys = s.keys /\ r.whole = s.whole /\ r.todo = K /\ r.reuse = L
        BY <3>3 DEF RunState
    <3> QED BY <3>1, <3>3, <3>4
  <2>2. CASE Heartbeat(w)
    <3>1. "embed" \in Pc /\ s.pc \in AfterReuse
        BY <1>1, <2>2 DEF Pc, Heartbeat, AfterReuse, AfterAllocation
    <3>2. PICK r \in RunState : r = [s EXCEPT !.pc = "embed"]
        BY <3>1, MovePc
    <3>3. /\ r.pc = "embed" /\ r.gen = s.gen /\ r.att = s.att
          /\ r.keys = s.keys /\ r.whole = s.whole
          /\ r.todo = s.todo /\ r.reuse = s.reuse
        BY <3>2 DEF RunState
    <3>4. s.todo \subseteq s.keys /\ s.reuse \subseteq s.keys
        BY <1>1, <3>1 DEF Whole, Private, OwnContent
    <3> QED BY <1>1, <2>2, <3>2, <3>3, <3>4 DEF Heartbeat
  <2> QED BY <2>1, <2>2
<1>6. OwnGeneration(r)'
    BY <1>1, <1>2, <1>4, <1>5, GenerationKept
<1> QED BY <1>1, <1>2, <1>3, <1>5, <1>6, GoingOn

LEMMA PrivateStaging ==
    ASSUME Whole, [Next]_vars, NEW w \in Actor, Staging(w)
    PROVE  Private' /\ RunsApart'
<1>1. PICK s \in RunState : s = run[w]
    BY DEF Whole, Consistent, Typed, TypeOK
<1>2. s.pc \in {"embed", "copy"}
    BY <1>1, StagedRows
<1>3. s.pc \in AfterParse /\ s.pc \in AfterAllocation /\ s.pc \in AfterReuse
    BY <1>2 DEF AfterParse, AfterAllocation, AfterReuse
<1>4. s.gen # 0 /\ s.todo \subseteq s.keys /\ s.reuse \subseteq s.keys
    BY <1>1, <1>3 DEF Whole, Private, OwnGeneration, OwnContent
<1>5. PICK p \in {"extend", "copy", "promote", "partial"}, K \in SUBSET s.todo :
          /\ \/ LocalState(w, [s EXCEPT !.pc = p, !.todo = K])
             \/ LocalState(w, [s EXCEPT !.pc = p])
          /\ p = "promote" => s.whole
  <2>1. CASE UpsertBatch(w)
      BY <1>1, <2>1 DEF UpsertBatch
  <2>2. CASE UpsertRest(w)
    <3>1. LocalState(w, [s EXCEPT !.pc = "copy", !.todo = {}])
        BY <1>1, <2>2 DEF UpsertRest
    <3>2. {} \in SUBSET s.todo
        OBVIOUS
    <3> QED BY <3>1, <3>2
  <2>3. CASE CopyReused(w)
    <3>1. s.whole \in BOOLEAN
        BY DEF RunState
    <3> QED BY <1>1, <2>3, <3>1 DEF CopyReused
  <2> QED BY <2>1, <2>2, <2>3 DEF Staging
<1>6. p \in Pc /\ s.todo \subseteq Key
    BY DEF Pc, RunState
<1>7. PICK r \in RunState : /\ LocalState(w, r) /\ r.pc = p
                           /\ r.gen = s.gen /\ r.att = s.att
                           /\ r.keys = s.keys /\ r.whole = s.whole
                           /\ r.todo \subseteq s.todo /\ r.reuse = s.reuse
  <2>1. CASE LocalState(w, [s EXCEPT !.pc = p])
    <3>1. PICK r \in RunState : r = [s EXCEPT !.pc = p]
        BY <1>6, MovePc
    <3>2. /\ r.pc = p /\ r.gen = s.gen /\ r.att = s.att /\ r.keys = s.keys
          /\ r.whole = s.whole /\ r.todo = s.todo /\ r.reuse = s.reuse
        BY <3>1 DEF RunState
    <3> QED BY <2>1, <3>1, <3>2
  <2>2. CASE LocalState(w, [s EXCEPT !.pc = p, !.todo = K])
    <3>1. PICK r \in RunState : r = [s EXCEPT !.pc = p, !.todo = K]
        BY <1>6, MoveTodo
    <3>2. /\ r.pc = p /\ r.gen = s.gen /\ r.att = s.att /\ r.keys = s.keys
          /\ r.whole = s.whole /\ r.todo = K /\ r.reuse = s.reuse
        BY <3>1 DEF RunState
    <3> QED BY <2>2, <3>1, <3>2
  <2> QED BY <1>5, <2>1, <2>2
<1>8. OwnGeneration(r)'
    BY <1>1, <1>4, <1>7, GenerationKept
<1> QED BY <1>1, <1>3, <1>4, <1>5, <1>7, <1>8, GoingOn

\* Only a generation that holds all its run has parsed goes on to the swap.
LEMMA PrivateManifest ==
    ASSUME Whole, [Next]_vars, NEW w \in Actor, CheckManifest(w)
    PROVE  Private' /\ RunsApart'
<1>1. PICK s \in RunState : s = run[w]
    BY DEF Whole, Consistent, Typed, TypeOK
<1>2. UNCHANGED <<version, attempt, lastGen, chunk, build>> /\ s.pc = "promote"
    BY <1>1 DEF CheckManifest
<1>3. CASE LocalState(w, Failing(w, "raised"))
    BY <1>2, <1>3, FailingStep
<1>4. CASE /\ LocalState(w, [s EXCEPT !.pc = "swap"])
           /\ s.keys # {}
           /\ Edition(s.gen, attempt[s.att].cand) = Rows(w, s.keys)
  <2>1. "swap" \in Pc
      BY DEF Pc
  <2>2. PICK r \in RunState : r = [s EXCEPT !.pc = "swap"]
      BY <2>1, MovePc
  <2>3. /\ r.pc = "swap" /\ r.gen = s.gen /\ r.att = s.att /\ r.keys = s.keys
        /\ r.whole = s.whole /\ r.todo = s.todo /\ r.reuse = s.reuse
      BY <2>2 DEF RunState
  <2>4. s.pc \in AfterParse /\ s.pc \in AfterReuse /\ s.gen # 0
      BY <1>1, <1>2 DEF AfterParse, AfterAllocation, AfterReuse, Whole, Private,
                        OwnGeneration
  <2>5. OwnGeneration(r)'
      BY <1>1, <1>2, <2>3, <2>4, GenerationKept
  <2>6. Content(r)' = Content(s)
      BY <1>1, <1>2, <2>3 DEF Content
  <2>7. OwnContent(s)
      BY <1>1 DEF Whole, Private
  <2>8. StagedBy(r)'
      BY <1>1, <1>2, <1>4, <2>3 DEF StagedBy, Edition, Rows
  <2>9. OwnContent(r)'
      BY <1>2, <1>4, <2>3, <2>4, <2>6, <2>7, <2>8 DEF OwnContent
  <2> QED BY <1>1, <1>2, <1>4, <2>2, <2>3, <2>5, <2>9, RunMoves
<1> QED BY <1>1, <1>3, <1>4 DEF CheckManifest

\* Steps of nobody's run.
LEMMA PrivateElse ==
    ASSUME Whole, [Next]_vars, UNCHANGED <<chunk, build, run>>
    PROVE  Private' /\ RunsApart'
<1>1. \A v \in Actor : (OwnGeneration(run[v]) /\ OwnContent(run[v]))'
    BY OthersPrivate
<1> QED BY <1>1 DEF Private, Whole, RunsApart

LEMMA WholeStep == Whole /\ [Next]_vars => Whole'
<1> SUFFICES ASSUME Whole, [Next]_vars PROVE Private' /\ RunsApart'
    BY TablesStep, ConsistentStep DEF Whole
<1>1. ASSUME NEW w \in Actor, CallerStep(w) PROVE Private' /\ RunsApart'
  <2>1. CASE StageCandidate(w) \/ Publication(w) \/ PublicationStops(w)
      BY <2>1, PrivatePublication
  <2>2. CASE \/ BeginRefused(w) \/ RecordPartial(w) \/ CallerEnds(w)
             \/ Promote(w) \/ AskLock(w) \/ StageRefused(w) \/ ReleaseFails(w)
             \/ Crash(w) \/ Restart(w)
      BY <2>2, PrivateEnd
  <2>3. CASE \/ StepFails(w) \/ WriteRefused(w) \/ SwapRefused(w)
             \/ CloseAsError(w) \/ CloseFails(w) \/ EnsureSource(w)
      BY <2>3, PrivateFailure
  <2>4. CASE UpsertBatch(w) \/ UpsertRest(w) \/ CopyReused(w)
      BY <2>4, PrivateStaging DEF Staging
  <2> QED BY <1>1, <2>1, <2>2, <2>3, <2>4, PrivateBegin, PrivateParse,
             PrivateCheck, PrivateAllocate, PrivateReuse, PrivateManifest
          DEF CallerStep, LockGranted, IngestStep
<1>2. CASE Lifecycle
    BY <1>2, PrivateElse DEF Lifecycle, LeaseExpires, SetArchived, ReadVersions,
                             ActivateVersion, ActivationRefused
<1>3. CASE UNCHANGED vars
    BY <1>3, PrivateElse DEF vars
<1> QED BY <1>1, <1>2, <1>3 DEF Next, Lifecycle

LEMMA WholeInit == Init => Whole
<1> SUFFICES ASSUME Init PROVE Whole OBVIOUS
<1>1. Consistent
    BY TypeInit, ConsistentInit DEF Consistent
<1>2. Tables
    BY DEF Init, Tables, AttemptsBound, ChunksBound, ReceiptsBound,
           ReceiptsKeepEditions, ServedBound, ClientBound
<1>3. Private /\ RunsApart
    BY DEF Init, Idle, Private, RunsApart, OwnGeneration, OwnContent,
           AfterParse, AfterAllocation, AfterReuse
<1> QED BY <1>1, <1>2, <1>3 DEF Whole

LEMMA WholeAlways == Spec => []Whole
BY WholeInit, WholeStep, PTL DEF Spec

-----------------------------------------------------------------------------
(* The theorems.                                                            *)

\* A run stages under a number of its own, whoever else holds or held the
\* lease, so no generation mixes the rows of two versions.
THEOREM GenerationsStayPrivate == Spec => []GenerationsArePrivate
<1>1. Whole => GenerationsArePrivate
    BY DEF Whole, RunsApart, Tables, ChunksBound, GenerationsArePrivate
<1> QED BY <1>1, WholeAlways, PTL

\* Whatever is staged under a version was parsed from its bytes, and an edition
\* that was served once stays complete for a later activation.
THEOREM EditionsStayWhole == Spec => []EditionsAreWhole
<1>1. Whole => EditionsAreWhole
    BY DEF Whole, Tables, ReceiptsBound, ChunksBound, StagedFromOwnBytes,
           EditionsAreWhole
<1> QED BY <1>1, WholeAlways, PTL

LEMMA PointerStep ==
    ASSUME Whole, [Next]_vars, <<doc.ver, doc.gen>> # <<doc'.ver, doc'.gen>>
    PROVE  \/ doc.att # 0 /\ attempt[doc.att].observed = doc.gen
           \/ client.ver = doc'.ver /\ client.gen = doc.gen
<1> USE DEF Whole, Consistent
<1>1. CASE ActivateVersion
  <2>1. /\ client.ver # 0 /\ client.rev = doc.rev
        /\ doc' = doc \/ doc'.ver = client.ver
      BY <1>1, Activation
  <2>2. client.gen = doc.gen
      BY <2>1 DEF Tables, ClientBound
  <2> QED BY <2>1, <2>2
<1>2. ASSUME NEW w \in Actor, Promote(w)
      PROVE  doc.att # 0 /\ attempt[doc.att].observed = doc.gen
  <2>1. run[w].att \in Attempt
      BY <1>2, Promotion
  <2> QED BY <1>2, <2>1 DEF Promote, SwapAllowed, Authority, Attempt
<1> QED BY <1>1, <1>2, PointerSteps

\* Retrieval moves only from the generation its mover had read: no promotion
\* and no activation overwrites one it has not seen.
THEOREM PointerMovesOnSight == Spec => NoBlindOverwrite
<1>1. Whole /\ [Next]_vars =>
          [<<doc.ver, doc.gen>> # <<doc'.ver, doc'.gen>> =>
              \/ doc.att # 0 /\ attempt[doc.att].observed = doc.gen
              \/ client.ver = doc'.ver /\ client.gen = doc.gen]_vars
    BY PointerStep
<1> QED BY <1>1, WholeAlways, PTL DEF Spec, NoBlindOverwrite

-----------------------------------------------------------------------------
(* The refinement: the pipeline implements ServedIndex.  Only four steps    *)
(* are visible there; every other one stutters.                             *)

Stored == {version[c] : c \in source}

\* What a search can reach is the whole of the served content, or nothing.
ShowsAll == Retrievable = Served!Shown(doc.served, doc.archived)

LEMMA ShownEdition == Whole => ShowsAll
<1> SUFFICES ASSUME Whole PROVE Retrievable = Served!Shown(doc.served, doc.archived)
    BY DEF ShowsAll
<1> USE DEF Whole, Consistent
<1>1. doc.archived \in BOOLEAN
    BY DEF Typed, TypeOK, DocRow
<1>2. CASE doc.ver = 0
  <2>1. doc.served = None
      BY <1>2 DEF Tables, ServedBound
  <2>2. \A c \in chunk : c.ver # 0
      BY DEF Tables, ChunksBound, Known, Candidate
  <2>3. Edition(doc.gen, doc.ver) = {}
      BY <1>2, <2>2 DEF Edition
  <2> QED BY <2>1, <2>3 DEF Retrievable, Served!Shown
<1>3. CASE doc.ver # 0
  <2>1. PICK b \in build : b.ver = doc.ver /\ b.gen = doc.gen
      BY <1>3 DEF Tables, ServedBound
  <2>2. version[doc.ver] = doc.served /\ version[doc.ver] \in Sha
      BY <1>3 DEF NamedBytesExist, Typed, Bound
  <2>3. {c.key : c \in Edition(doc.gen, doc.ver)} = Manifest[doc.served]
      BY <2>1, <2>2 DEF Tables, ReceiptsBound, ReceiptsKeepEditions
  <2>4. doc.served # None
      BY <2>2, ConstantsAssumption
  <2> QED BY <1>1, <2>3, <2>4 DEF Retrievable, Served!Shown
<1> QED BY <1>2, <1>3

\* Source bytes appear in one step, the archive flag moves in another.
LEMMA VisibleSteps ==
    ASSUME Typed, [Next]_vars
    PROVE  /\ source' = source \/ \E w \in Actor : WriteSource(w)
           /\ doc'.archived = doc.archived \/ SetArchived
<1>1. doc \in DocRow
    BY DEF Typed, TypeOK
<1>2. ASSUME NEW w \in Actor, CallerStep(w)
      PROVE  /\ source' = source \/ WriteSource(w)
             /\ doc'.archived = doc.archived
  <2>1. CASE \/ WriteSource(w) \/ PublicationStops(w) \/ BeginRefused(w)
             \/ StepFails(w) \/ Quietly(w)
      BY <2>1, QuietlyStep
         DEF WriteSource, PublicationStops, BeginRefused, StepFails, Raise
  <2>2. CASE \/ EnsureSource(w) \/ Parse(w) \/ CheckParsed(w)
             \/ AllocateGeneration(w) \/ FindReusable(w) \/ UpsertBatch(w)
             \/ UpsertRest(w) \/ CopyReused(w) \/ CheckManifest(w)
             \/ SwapRefused(w) \/ WriteRefused(w)
      BY <2>2 DEF EnsureSource, Parse, CheckParsed, AllocateGeneration,
                  FindReusable, UpsertBatch, UpsertRest, CopyReused,
                  CheckManifest, SwapRefused, WriteRefused, Raise
  <2>3. CASE StageCandidate(w) \/ FinalizePublication(w)
      BY <1>1, <2>3 DEF StageCandidate, StageSame, StageNew,
                        FinalizePublication, DocRow
  <2>4. CASE BeginAttempt(w) \/ Heartbeat(w)
      BY <1>1, <2>4 DEF BeginAttempt, Heartbeat, DocRow
  <2>5. CASE RecordPartial(w) \/ CloseAsError(w) \/ CallerEnds(w)
      BY <1>1, <2>5 DEF RecordPartial, CloseAsError, CallerEnds, Record, DocRow
  <2>6. CASE Promote(w)
      BY <1>1, <2>6 DEF Promote, PromotedRow, DocRow
  <2> QED BY <1>2, <2>1, <2>2, <2>3, <2>4, <2>5, <2>6
          DEF CallerStep, LockGranted, Quietly, Publication, IngestStep
<1>3. CASE LeaseExpires \/ SetArchived \/ ReadVersions \/ ActivationRefused
    BY <1>1, <1>3 DEF LeaseExpires, SetArchived, ReadVersions,
                      ActivationRefused, DocRow
<1>4. CASE ActivateVersion
    BY <1>4, Activation
<1>5. CASE UNCHANGED vars
    BY <1>5 DEF vars
<1> QED BY <1>2, <1>3, <1>4, <1>5 DEF Next

\* Every step of the pipeline is a step of the served index or a stutter.
LEMMA ServedStep ==
    ASSUME Whole, [Next]_vars
    PROVE  [Served!Next]_(Served!vars)
<1> USE DEF Whole, Consistent
<1>1. Whole' /\ Kept
    BY WholeStep, KeptStep
<1>2. /\ Retrievable = Served!Shown(doc.served, doc.archived)
      /\ Retrievable' = Served!Shown(doc'.served, doc'.archived)
  <2>1. ShowsAll
      BY ShownEdition
  <2>2. ShowsAll'
      BY <1>1, ShownEdition, PTL
  <2> QED BY <2>1, <2>2 DEF ShowsAll, Served!Shown
<1>3. source' = source => Stored' = Stored
    BY <1>1 DEF Stored, Kept, Typed, TypeOK, Bound
<1>4. doc.archived \in BOOLEAN
    BY DEF Typed, TypeOK, DocRow
<1>5. ASSUME NEW w \in Actor, WriteSource(w) PROVE Served!Store
  <2>1. /\ source' = source \cup {run[w].cand} /\ version' = version
        /\ doc' = doc /\ version[run[w].cand] \in Sha
      BY <1>5 DEF WriteSource, Typed, Bound, Fits
  <2>2. Stored' = Stored \cup {version[run[w].cand]}
      BY <2>1 DEF Stored
  <2> QED BY <1>2, <2>1, <2>2 DEF Served!Store, Stored
<1>6. CASE SetArchived
  <2>1. doc'.archived = ~doc.archived /\ doc'.served = doc.served
      BY <1>6 DEF SetArchived, Typed, TypeOK, DocRow
  <2>2. source' = source
      BY <1>6 DEF SetArchived
  <2> QED BY <1>2, <1>3, <2>1, <2>2 DEF Served!Next, Served!Hide, Stored
<1>7. ASSUME doc.archived = FALSE, doc'.archived = FALSE, source' = source,
             doc'.ver # 0
      PROVE  Served!Serve
  <2>1. doc'.ver \in source' /\ version'[doc'.ver] = doc'.served
      BY <1>1, <1>7 DEF NamedBytesExist
  <2>2. doc'.served \in Stored
      BY <1>3, <1>7, <2>1 DEF Stored
  <2> QED BY <1>2, <1>3, <1>7, <2>2 DEF Served!Serve, Stored
<1>8. ASSUME NEW w \in Actor, Promote(w) PROVE Served!Serve
  <2>1. doc'.ver \in Candidate
      BY <1>8, Promotion DEF Known
  <2>2. /\ doc.archived = FALSE /\ doc'.archived = FALSE /\ source' = source
      BY <1>8, Promotion
  <2>3. doc'.ver # 0
      BY <2>1 DEF Candidate
  <2> QED BY <1>7, <2>2, <2>3
<1>9. CASE ActivateVersion
  <2>1. CASE doc' = doc
      BY <1>2, <1>3, <1>9, <2>1, Activation DEF Served!vars, Stored
  <2>2. CASE doc' # doc
      BY <1>7, <1>9, <2>2, Activation DEF Served!Next
  <2> QED BY <2>1, <2>2
<1>10. CASE /\ doc'.served = doc.served /\ doc'.archived = doc.archived
            /\ source' = source
    BY <1>2, <1>3, <1>10 DEF Served!vars, Stored
<1> QED BY <1>5, <1>6, <1>8, <1>9, <1>10, PointerSteps, VisibleSteps
        DEF Served!Next

\* A search never sees a partial or a mixed edition: through every staging,
\* lease, crash, sweep and rollback the pipeline shows what ServedIndex allows.
THEOREM PipelineServesOneEdition == Spec => ServesOneEdition
<1>1. Init => Served!Init
    BY DEF Init, Served!Init, Retrievable, Edition
<1>2. Whole /\ [Next]_vars => [Served!Next]_(Served!vars)
    BY ServedStep
<1> QED BY <1>1, <1>2, WholeAlways, PTL DEF Spec, ServesOneEdition, Served!Spec

-----------------------------------------------------------------------------
(* Released leases.                                                         *)

\* Before begin_attempt a caller has no attempt.
Unleased ==
    \A w \in Actor :
        run[w].pc \in {"lock", "write", "finalize", "begin"} => run[w].att = 0

\* The steps after which a caller has no attempt.
Unbinding(w) ==
    \/ StageCandidate(w) \/ FinalizePublication(w) \/ PublicationStops(w)
    \/ BeginRefused(w) \/ RecordPartial(w) \/ CallerEnds(w) \/ Promote(w)
    \/ AskLock(w) \/ StageRefused(w) \/ ReleaseFails(w) \/ Crash(w)
    \/ Restart(w)

\* Where a step takes its own caller: to no attempt, from one step of a
\* publication to the next, or to a step under the attempt it has.
LEMMA CallerMoves ==
    ASSUME Typed, NEW w \in Actor, CallerStep(w)
    PROVE  /\ \A v \in Actor \ {w} : run'[v] = run[v]
           /\ \/ Unbinding(w) /\ run'[w].att = 0
              \/ WriteSource(w) /\ run'[w].att = run[w].att
              \/ run'[w].pc \in Working
<1>1. run \in [Actor -> RunState] /\ run[w] \in RunState
    BY DEF Typed, TypeOK
<1>2. ASSUME NEW r, LocalState(w, r)
      PROVE  run'[w] = r /\ \A v \in Actor \ {w} : run'[v] = run[v]
    BY <1>1, <1>2 DEF LocalState
<1>3. CASE Unbinding(w)
  <2>1. CASE StageCandidate(w)
    <3>1. PICK c, s :
              LocalState(w, [Idle("write") EXCEPT !.cand = c, !.bytes = s])
        BY <2>1 DEF StageCandidate, StageSame, StageNew
    <3>2. [Idle("write") EXCEPT !.cand = c, !.bytes = s].att = 0
        BY DEF Idle
    <3> QED BY <1>2, <1>3, <3>1, <3>2
  <2>2. CASE FinalizePublication(w)
    <3>1. LocalState(w, Published(w)) /\ Published(w).att = 0
        BY <2>2 DEF FinalizePublication, Published, Idle
    <3> QED BY <1>2, <1>3, <3>1
  <2>3. CASE ~StageCandidate(w) /\ ~FinalizePublication(w)
    <3>1. \E p \in {"idle", "lock", "crashed", "unreleased"} :
              LocalState(w, Idle(p))
        BY <1>3, <2>3 DEF Unbinding, PublicationStops, BeginRefused,
             RecordPartial, CallerEnds, Promote, AskLock, StageRefused,
             ReleaseFails, Crash, Restart
    <3>2. \A p : Idle(p).att = 0
        BY DEF Idle
    <3> QED BY <1>2, <1>3, <3>1, <3>2
  <2> QED BY <2>1, <2>2, <2>3
<1>4. CASE WriteSource(w)
  <2>1. LocalState(w, [run[w] EXCEPT !.pc = "finalize"])
      BY <1>4 DEF WriteSource
  <2>2. [run[w] EXCEPT !.pc = "finalize"].att = run[w].att
      BY <1>1 DEF RunState
  <2> QED BY <1>2, <1>4, <2>1, <2>2
<1>5. ASSUME NEW p \in Working, NEW r, LocalState(w, r), r.pc = p
      PROVE  /\ \A v \in Actor \ {w} : run'[v] = run[v]
             /\ run'[w].pc \in Working
    BY <1>2, <1>5
<1>6. CASE StepFails(w) \/ WriteRefused(w) \/ SwapRefused(w)
  <2>1. PICK p \in {"close", "raised"} : LocalState(w, Failing(w, p))
      BY <1>6 DEF StepFails, WriteRefused, SwapRefused, Raise, Handler
  <2>2. Failing(w, p).pc = p /\ p \in Working
      BY DEF Failing, Idle, Working, Pc
  <2> QED BY <1>5, <2>1, <2>2
<1>7. CASE BeginAttempt(w)
  <2>1. PICK a \in Attempt, p \in {"parse", "ensure"} :
            LocalState(w, [Idle(p) EXCEPT !.att = a, !.bytes = run[w].bytes])
      BY <1>7 DEF BeginAttempt
  <2>2. [Idle(p) EXCEPT !.att = a, !.bytes = run[w].bytes].pc = p
      BY DEF Idle
  <2>3. p \in Working
      BY DEF Working, Pc
  <2> QED BY <1>5, <2>1, <2>2, <2>3
<1>8. CASE EnsureSource(w)
  <2>1. PICK x, r :
            /\ LocalState(w, r)
            /\ \/ r = [run[w] EXCEPT !.pc = "parse", !.bytes = x]
               \/ r = Failing(w, "raised")
      BY <1>8 DEF EnsureSource
  <2>2. r.pc \in {"parse", "raised"}
      BY <1>1, <2>1 DEF RunState, Failing, Idle
  <2>3. r.pc \in Working
      BY <2>2 DEF Working, Pc
  <2> QED BY <1>5, <2>1, <2>3
<1>9. CASE Parse(w)
  <2>1. PICK x, y, r :
            /\ LocalState(w, r)
            /\ \/ r = [run[w] EXCEPT !.pc = "check", !.keys = x, !.whole = y]
               \/ r = Failing(w, "close")
      BY <1>9 DEF Parse
  <2>2. r.pc \in {"check", "close"}
      BY <1>1, <2>1 DEF RunState, Failing, Idle
  <2>3. r.pc \in Working
      BY <2>2 DEF Working, Pc
  <2> QED BY <1>5, <2>1, <2>3
<1>10. CASE CheckParsed(w) \/ CheckManifest(w)
  <2>1. PICK p, r :
            /\ p \in {"allocate", "swap", "close", "raised"}
            /\ LocalState(w, r)
            /\ r = [run[w] EXCEPT !.pc = p] \/ r = Failing(w, p)
      BY <1>10 DEF CheckParsed, CheckManifest
  <2>2. r.pc = p
      BY <1>1, <2>1 DEF RunState, Failing, Idle
  <2>3. p \in Working
      BY <2>1 DEF Working, Pc
  <2> QED BY <1>5, <2>1, <2>2, <2>3
<1>11. CASE AllocateGeneration(w)
  <2>1. PICK x, r :
            LocalState(w, r) /\ r = [run[w] EXCEPT !.pc = "reuse", !.gen = x]
      BY <1>11 DEF AllocateGeneration
  <2>2. r.pc = "reuse" /\ "reuse" \in Working
      BY <1>1, <2>1 DEF RunState, Working, Pc
  <2> QED BY <1>5, <2>1, <2>2
<1>12. CASE FindReusable(w)
  <2>1. PICK x, y, r :
            /\ LocalState(w, r)
            /\ r = [run[w] EXCEPT !.pc = "beat", !.todo = x, !.reuse = y]
      BY <1>12 DEF FindReusable
  <2>2. r.pc = "beat" /\ "beat" \in Working
      BY <1>1, <2>1 DEF RunState, Working, Pc
  <2> QED BY <1>5, <2>1, <2>2
<1>13. CASE Heartbeat(w) \/ CopyReused(w) \/ CloseAsError(w) \/ CloseFails(w)
  <2>1. PICK p \in {"embed", "promote", "partial", "raised"} :
            LocalState(w, [run[w] EXCEPT !.pc = p])
      BY <1>13 DEF Heartbeat, CopyReused, CloseAsError, CloseFails
  <2>2. [run[w] EXCEPT !.pc = p].pc = p
      BY <1>1 DEF RunState
  <2>3. p \in Working
      BY DEF Working, Pc
  <2> QED BY <1>5, <2>1, <2>2, <2>3
<1>14. CASE UpsertBatch(w)
  <2>1. PICK x, r :
            LocalState(w, r) /\ r = [run[w] EXCEPT !.pc = "extend", !.todo = x]
      BY <1>14 DEF UpsertBatch
  <2>2. r.pc = "extend" /\ "extend" \in Working
      BY <1>1, <2>1 DEF RunState, Working, Pc
  <2> QED BY <1>5, <2>1, <2>2
<1>15. CASE UpsertRest(w)
  <2>1. PICK x, r :
            LocalState(w, r) /\ r = [run[w] EXCEPT !.pc = "copy", !.todo = x]
      BY <1>15 DEF UpsertRest
  <2>2. r.pc = "copy" /\ "copy" \in Working
      BY <1>1, <2>1 DEF RunState, Working, Pc
  <2> QED BY <1>5, <2>1, <2>2
<1> QED BY <1>3, <1>4, <1>6, <1>7, <1>8, <1>9, <1>10, <1>11, <1>12, <1>13,
          <1>14, <1>15
        DEF CallerStep, LockGranted, Publication, IngestStep, Unbinding

LEMMA UnleasedStep ==
    ASSUME Typed, Unleased, [Next]_vars
    PROVE  Unleased'
<1>1. ASSUME NEW w \in Actor, CallerStep(w) PROVE Unleased'
  <2>1. \A v \in Actor \ {w} : run'[v] = run[v]
      BY <1>1, CallerMoves
  <2>2. run'[w].pc \in {"lock", "write", "finalize", "begin"} => run'[w].att = 0
    <3>1. CASE WriteSource(w) /\ run'[w].att = run[w].att
        BY <3>1 DEF WriteSource, Unleased
    <3>2. CASE run'[w].pc \in Working
        BY <3>2 DEF Working
    <3> QED BY <1>1, <3>1, <3>2, CallerMoves
  <2> QED BY <2>1, <2>2 DEF Unleased
<1>2. CASE run' = run
    BY <1>2 DEF Unleased
<1> QED BY <1>1, <1>2 DEF Next, LeaseExpires, SetArchived, ReadVersions,
                          ActivateVersion, ActivationRefused, vars

LEMMA UnleasedAlways == Spec => [](Consistent /\ Unleased)
<1>1. Init => Unleased
    BY DEF Init, Unleased, Idle
<1>2. Consistent /\ Unleased /\ [Next]_vars => Unleased'
    BY UnleasedStep DEF Consistent
<1> QED BY <1>1, <1>2, ConsistentAlways, PTL DEF Spec

\* A process request that goes to idle from its work has recorded its verdict.
LEMMA ReleaseStep ==
    ASSUME Consistent, Unleased, [Next]_vars, NEW w \in Processor,
           ~Over(run[w]), run'[w].pc = "idle", run[w].att # 0
    PROVE  doc'.att # run[w].att
<1> USE DEF Consistent, Typed
<1>1. /\ w \in Actor
      /\ \A v \in Actor : CallerStep(v) => v = w
    BY CallerMoves DEF Actor, Over
<1>2. ASSUME Record(w, "error") \/ Record(w, "partial")
      PROVE  doc'.att # run[w].att
  <2>1. CASE Authority(w)
      BY <1>2, <2>1 DEF Record, TypeOK, DocRow
  <2>2. CASE ~Authority(w)
      BY <1>2, <2>2 DEF Record, Authority, LeaseMatchesRecord
  <2> QED BY <2>1, <2>2
<1>3. CASE CallerStep(w)
  <2>1. CASE Promote(w)
    <3>1. doc'.att = 0
        BY <2>1 DEF Promote, PromotedRow, TypeOK, DocRow
    <3> QED BY <3>1
  <2>2. CASE RecordPartial(w)
      BY <1>2, <2>2 DEF RecordPartial
  <2>3. CASE CallerEnds(w)
      BY <1>2, <2>3 DEF CallerEnds
  <2>4. CASE \/ StageCandidate(w) \/ Publication(w) \/ PublicationStops(w)
             \/ BeginRefused(w) \/ StageRefused(w)
    <3>1. run[w].pc \in {"lock", "write", "finalize", "begin"}
        BY <2>4 DEF Publication, WriteSource, FinalizePublication, StageCandidate,
                    PublicationStops, BeginRefused, StageRefused
    <3> QED BY <1>1, <3>1 DEF Unleased
  <2>5. CASE AskLock(w) \/ Restart(w)
      BY <2>5 DEF AskLock, Restart, Over
  <2>6. CASE Crash(w) \/ ReleaseFails(w)
    <3>1. PICK p \in {"crashed", "unreleased"} : LocalState(w, Idle(p))
        BY <2>6 DEF Crash, ReleaseFails
    <3>2. run'[w].pc = p
        BY <1>1, <3>1 DEF LocalState, TypeOK, Idle
    <3> QED BY <3>2
  <2>7. run'[w].pc \notin Working
      BY DEF Working
  <2> QED BY <1>1, <1>3, <2>1, <2>2, <2>3, <2>4, <2>5, <2>6, <2>7, CallerMoves
          DEF Unbinding, Publication
<1>4. CASE run' = run
    BY <1>4 DEF Over
<1> QED BY <1>1, <1>3, <1>4 DEF Next, LeaseExpires, SetArchived, ReadVersions,
                                ActivateVersion, ActivationRefused, vars

\* A lapsed lease is revived by a heartbeat of its own run or not at all.
LEMMA LapsedStep ==
    ASSUME Consistent, [Next]_vars, doc'.att = doc.att, ~doc.live, doc'.live
    PROVE  \E w \in Actor : run[w].att = doc.att /\ ~Over(run[w])
<1> USE DEF Consistent, Typed
<1>1. doc \in DocRow
    BY DEF TypeOK
<1>2. ASSUME NEW w \in Actor, Heartbeat(w)
      PROVE  run[w].att = doc.att /\ ~Over(run[w])
    BY <1>2 DEF Heartbeat, Authority, Over
<1>3. ASSUME NEW w \in Actor, BeginAttempt(w) PROVE FALSE
  <2>1. PICK a \in Attempt : attempt[a].status = "unborn" /\ doc'.att = a
      BY <1>1, <1>3 DEF BeginAttempt, DocRow
  <2> QED BY <2>1 DEF LeaseMatchesRecord
<1>4. ASSUME NEW w \in Actor, CallerStep(w), ~Heartbeat(w), ~BeginAttempt(w)
      PROVE  FALSE
  <2>1. CASE \/ WriteSource(w) \/ PublicationStops(w) \/ BeginRefused(w)
             \/ StepFails(w) \/ Quietly(w)
      BY <2>1, QuietlyStep DEF WriteSource, PublicationStops, BeginRefused,
                               StepFails, Raise
  <2>2. CASE \/ EnsureSource(w) \/ Parse(w) \/ CheckParsed(w)
             \/ AllocateGeneration(w) \/ FindReusable(w) \/ UpsertBatch(w)
             \/ UpsertRest(w) \/ CopyReused(w) \/ CheckManifest(w)
             \/ SwapRefused(w) \/ WriteRefused(w)
      BY <2>2 DEF EnsureSource, Parse, CheckParsed, AllocateGeneration,
                  FindReusable, UpsertBatch, UpsertRest, CopyReused,
                  CheckManifest, SwapRefused, WriteRefused, Raise
  <2>3. CASE StageCandidate(w) \/ FinalizePublication(w)
      BY <1>1, <2>3 DEF StageCandidate, StageSame, StageNew,
                        FinalizePublication, DocRow
  <2>4. CASE Closing(w) \/ Promote(w)
      BY <1>1, <2>4 DEF Closing, RecordPartial, CloseAsError, CallerEnds,
                        Record, Promote, PromotedRow, DocRow
  <2> QED BY <1>4, <2>1, <2>2, <2>3, <2>4
          DEF CallerStep, LockGranted, Quietly, Publication, IngestStep, Closing
<1>5. CASE LeaseExpires \/ SetArchived \/ ReadVersions \/ ActivationRefused
    BY <1>1, <1>5 DEF LeaseExpires, SetArchived, ReadVersions,
                      ActivationRefused, DocRow
<1>6. CASE ActivateVersion
  <2>1. PICK b \in ReadyBuilds(client.ver) :
            doc' = IF doc.ver = b.ver /\ doc.gen = b.gen THEN doc
                   ELSE [doc EXCEPT !.ver = b.ver, !.gen = b.gen,
                                    !.served = version[b.ver], !.rev = @ + 1]
      BY <1>6 DEF ActivateVersion
  <2> QED BY <1>1, <2>1 DEF DocRow
<1>7. CASE UNCHANGED vars
    BY <1>7 DEF vars
<1> QED BY <1>2, <1>3, <1>4, <1>5, <1>6, <1>7 DEF Next

\* A process request that is over has given its lease back, whatever was raised
\* on its way, unless it died or the database refused to close its attempt; and
\* a lease that was left behind runs out for good.
THEOREM LeaseIsReleased == Spec => EndedRunHoldsNothing
<1>1. Consistent /\ Unleased /\ [Next]_vars =>
          [/\ \A w \in Processor :
                 (~Over(run[w]) /\ run'[w].pc = "idle" /\ run[w].att # 0)
                    => doc'.att # run[w].att
           /\ (doc'.att = doc.att /\ ~doc.live /\ doc'.live)
                 => \E w \in Actor : run[w].att = doc.att /\ ~Over(run[w])]_vars
    BY ReleaseStep, LapsedStep
<1> QED BY <1>1, UnleasedAlways, PTL DEF Spec, EndedRunHoldsNothing
=============================================================================
