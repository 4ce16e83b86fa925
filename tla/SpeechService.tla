---------------------------- MODULE SpeechService ----------------------------
(***************************************************************************)
(* SpeechEngine and its ASGI application: one event loop that takes the    *)
(* uploads in, one worker thread that owns the model, and between them one *)
(* asyncio.Semaphore, which the loop acquires and the worker gives back    *)
(* through a callback it schedules on the loop.                            *)
(*                                                                         *)
(* Of an upload the model keeps the one thing that is wrong with it, and   *)
(* of its staged file whether it is being written, is whole, was removed,  *)
(* could not be removed, or was dropped with its job.  The hotword pack is *)
(* computed at load from the registry of the deployment.                   *)
(***************************************************************************)
EXTENDS Naturals, FiniteSets, Sequences, SequencesExt

CONSTANTS Speaker,        \* requests, numbered as they arrive
          MaxWaiting,     \* Limits.max_waiting
          MaxTokens, MaxPhrases,
          Registries      \* the registries a deployment may name, None for no profile

VARIABLES engine,      \* "new", "refused", "open", "closing", "closed"
          model,       \* whether the model is loaded
          hotwords,
          value,       \* of the semaphore
          waiters,     \* its queue
          granted,     \* waiters whose future is set and who have not run yet
          waiting,     \* SpeechEngine._waiting
          speech,      \* requests
          upload,      \* the staged file of a request
          jobs,        \* submitted and not begun
          worker,      \* the worker thread
          outcome,     \* what a job ended with
          returning    \* releases scheduled on the loop

slot == <<value, waiters, granted, waiting>>
thread == <<jobs, worker, outcome, returning>>
speechvars == <<engine, model, hotwords, slot, speech, upload, thread>>

Flaws == {"none", "key", "declared", "streamed", "shape", "field", "format",
          "large", "empty", "undecodable", "long"}

SpeechInit ==
    /\ engine = "new" /\ model = FALSE /\ hotwords = <<>>
    /\ value = 1 /\ waiters = <<>> /\ granted = {} /\ waiting = 0
    /\ speech = [c \in Speaker |-> [pc |-> "idle", flaw |-> "none", code |-> "none"]]
    /\ upload = [c \in Speaker |-> "none"]
    /\ jobs = <<>> /\ worker = [pc |-> "idle", of |-> 0]
    /\ outcome = [c \in Speaker |-> "none"]
    /\ returning = 0

-----------------------------------------------------------------------------
(* The registry and the pack.  A term is [priority, spelling, contexts,      *)
(* phrases]; a phrase is [name, tokens], named as it is compared.            *)

PhrasesOf(terms) == UNION {Range(t.phrases) : t \in terms}

\* load_registry: every phrase once, and a default context.
RegistryIsClosed(terms) ==
    /\ terms # {}
    /\ \E t \in terms : "default" \in t.contexts
    /\ \A t \in terms : \A i, j \in DOMAIN t.phrases :
           i # j => t.phrases[i].name # t.phrases[j].name
    /\ \A t, u \in terms : t # u =>
           \A p \in Range(t.phrases), q \in Range(u.phrases) : p.name # q.name

\* _count_hotword_tokens of the phrases joined, a separator between them.
Measured(phrases) ==
    FoldLeft(LAMBDA n, p : n + p.tokens, 0, phrases)
        + (IF phrases = <<>> THEN 0 ELSE Len(phrases) - 1)

InOrder(terms, context) ==
    LET before(t, u) == \/ t.priority > u.priority
                        \/ t.priority = u.priority /\ t.spelling < u.spelling
        ordered == SetToSortSeq({t \in terms : context \in t.contexts}, before)
    IN FlattenSeq([i \in DOMAIN ordered |-> ordered[i].phrases])

\* Registry.select: a phrase that would cross the budget is passed over.
Select(terms, context) ==
    FoldLeft(LAMBDA pack, p :
                 IF Len(pack) < MaxPhrases /\ Measured(Append(pack, p)) <= MaxTokens
                 THEN Append(pack, p) ELSE pack,
             <<>>, InOrder(terms, context))

-----------------------------------------------------------------------------
(* The process.                                                              *)

\* create_app: a deployment's registry and context are checked before anything.
Configure(terms, context) ==
    /\ engine = "new"
    /\ engine' = IF terms # {} /\ ~ (RegistryIsClosed(terms)
                                     /\ \E t \in terms : context \in t.contexts)
                 THEN "refused" ELSE "open"
    /\ \E loaded \in BOOLEAN :        \* the model factory may fail
           LET pack == IF engine' = "open" /\ terms # {}
                       THEN Select(terms, context) ELSE <<>>
           IN /\ model' = (engine' = "open" /\ loaded /\ (terms = {} \/ pack # <<>>))
              /\ hotwords' = IF model' THEN pack ELSE <<>>
    /\ UNCHANGED <<slot, speech, upload, thread>>

AtRest(c) == speech[c].pc \in {"idle", "done"}

\* The lifespan ends when no request is left; jobs not begun are dropped with
\* their file, the running one is waited for, and the loop stands still.
Shut ==
    /\ engine = "open" /\ \A c \in Speaker : AtRest(c)
    /\ engine' = "closing" /\ jobs' = <<>>
    /\ upload' = [c \in Speaker |-> IF c \in Range(jobs) THEN "dropped" ELSE upload[c]]
    /\ UNCHANGED <<model, hotwords, slot, speech, worker, outcome, returning>>

Closed ==
    /\ engine = "closing" /\ worker.pc = "idle"
    /\ engine' = "closed" /\ model' = FALSE
    /\ UNCHANGED <<hotwords, slot, speech, upload, thread>>

-----------------------------------------------------------------------------
(* The loop: from the gate to the slot.                                      *)

To(c, pc) == speech' = [speech EXCEPT ![c].pc = pc]
Answer(c, code) == speech' = [speech EXCEPT ![c].pc = "done", ![c].code = code]
Refuse(c) ==      \* with the code the flaw calls for
    speech' = [speech EXCEPT ![c] = [pc |-> "done", flaw |-> "none", code |-> "refused"]]

\* _remove_exact: a refusal of the file system is logged and swallowed, and
\* the file stays.
Removed(c) == \E rest \in {"none", "refused"} : upload' = [upload EXCEPT ![c] = rest]

\* Gate: the key, then readiness, then the declared length.
Arrive(c, flaw) ==
    /\ engine = "open" /\ speech[c].pc = "idle"
    /\ \A d \in Speaker : d < c => speech[d].pc # "idle"
    /\ IF flaw \in {"key", "declared"} \/ ~ model
       THEN Refuse(c)
       ELSE speech' = [speech EXCEPT ![c].pc = "body", ![c].flaw = flaw]
    /\ UNCHANGED <<engine, model, hotwords, slot, upload, thread>>

\* The body is parsed under the stream's ceiling; fields and format are
\* checked before a file is made for it.
ParseBody(c) ==
    /\ speech[c].pc = "body"
    /\ \/ /\ speech[c].flaw \in {"streamed", "shape", "field", "format"}
          /\ Refuse(c)
          /\ UNCHANGED upload
       \/ /\ speech[c].flaw \notin {"streamed", "shape", "field", "format"}
          /\ To(c, "stage")
          /\ upload' = [upload EXCEPT ![c] = "partial"]
    /\ UNCHANGED <<engine, model, hotwords, slot, thread>>

\* _stage gives up: too large, empty, or the disk.
StagingFails(c) ==
    /\ speech[c].pc = "stage"
    /\ Refuse(c) /\ Removed(c)
    /\ UNCHANGED <<engine, model, hotwords, slot, thread>>

Staged(c) == speech[c].pc = "stage" /\ speech[c].flaw \notin {"large", "empty"}

\* transcribe refuses at once when enough callers wait already.
Busy(c) ==
    /\ Staged(c) /\ waiting >= MaxWaiting
    /\ Refuse(c) /\ Removed(c)
    /\ UNCHANGED <<engine, model, hotwords, slot, thread>>

\* The caller owns the slot until the job is submitted, the worker after that.
Submit(c) ==
    /\ jobs' = Append(jobs, c)
    /\ upload' = [upload EXCEPT ![c] = "whole"]
    /\ To(c, "answer")
    /\ UNCHANGED <<worker, outcome, returning>>

\* A free slot that nobody waits for is taken without suspending.
Enter(c) ==
    /\ Staged(c) /\ waiting < MaxWaiting
    /\ value > 0 /\ waiters = <<>>
    /\ value' = value - 1
    /\ Submit(c)
    /\ UNCHANGED <<engine, model, hotwords, waiters, granted, waiting>>

Wait(c) ==
    /\ Staged(c) /\ waiting < MaxWaiting
    /\ ~ (value > 0 /\ waiters = <<>>)
    /\ waiting' = waiting + 1
    /\ waiters' = Append(waiters, c)
    /\ upload' = [upload EXCEPT ![c] = "whole"]
    /\ To(c, "wait")
    /\ UNCHANGED <<engine, model, hotwords, value, granted, thread>>

-----------------------------------------------------------------------------
(* The semaphore.                                                            *)

\* _wake_up_next: the first waiter whose future is not set yet gets the slot.
Handed(v, queue, set) ==
    LET asleep == SelectSeq(queue, LAMBDA c : c \notin set)
    IN IF v > 0 /\ asleep # <<>> THEN [value |-> v - 1, granted |-> set \cup {Head(asleep)}]
       ELSE [value |-> v, granted |-> set]

Leave(c, v) ==
    LET handed == Handed(v, Remove(waiters, c), granted \ {c})
    IN /\ waiters' = Remove(waiters, c)
       /\ value' = handed.value /\ granted' = handed.granted
       /\ waiting' = waiting - 1

\* The granted waiter runs and submits its job.
Resume(c) ==
    /\ speech[c].pc = "wait" /\ c \in granted
    /\ Leave(c, value)
    /\ Submit(c)
    /\ UNCHANGED <<engine, model, hotwords>>

\* The wait runs out or is cancelled.  A slot granted in the meantime goes
\* back, to the next waiter if there is one.
WaitEnds(c) ==
    /\ speech[c].pc = "wait"
    /\ Leave(c, value + Cardinality({c} \cap granted))
    /\ Refuse(c) /\ Removed(c)
    /\ UNCHANGED <<engine, model, hotwords, thread>>

\* The callback the worker scheduled: Semaphore.release.
Release ==
    /\ returning > 0 /\ engine = "open"
    /\ returning' = returning - 1
    /\ LET handed == Handed(value + 1, waiters, granted)
       IN value' = handed.value /\ granted' = handed.granted
    /\ UNCHANGED <<engine, model, hotwords, waiters, waiting, speech, upload,
                   jobs, worker, outcome>>

-----------------------------------------------------------------------------
(* The worker thread: SpeechEngine._run.                                     *)

Working(pc) == worker.pc = pc /\ UNCHANGED <<engine, model, hotwords, slot, speech>>

Take ==
    /\ Working("idle") /\ jobs # <<>>
    /\ worker' = [pc |-> "probe", of |-> Head(jobs)]
    /\ jobs' = Tail(jobs)
    /\ UNCHANGED <<upload, outcome, returning>>

\* The file is measured before the model sees it.
Probe ==
    /\ Working("probe")
    /\ LET c == worker.of
           verdict == CASE speech[c].flaw = "undecodable" -> "invalid_audio"
                        [] speech[c].flaw = "long" -> "audio_too_long"
                        [] OTHER -> "none"
       IN /\ outcome' = [outcome EXCEPT ![c] = verdict]
          /\ worker' = [worker EXCEPT !.pc = IF verdict = "none" THEN "hear" ELSE "remove"]
    /\ UNCHANGED <<upload, jobs, returning>>

Transcribe ==
    /\ Working("hear")
    /\ \E end \in {"text", "internal_error"} :
           outcome' = [outcome EXCEPT ![worker.of] = end]
    /\ worker' = [worker EXCEPT !.pc = "remove"]
    /\ UNCHANGED <<upload, jobs, returning>>

RemoveFile ==
    /\ Working("remove")
    /\ Removed(worker.of)
    /\ worker' = [worker EXCEPT !.pc = "return"]
    /\ UNCHANGED <<jobs, outcome, returning>>

ReturnSlot ==
    /\ Working("return")
    /\ returning' = returning + 1
    /\ worker' = [worker EXCEPT !.pc = "end"]
    /\ UNCHANGED <<upload, jobs, outcome>>

JobEnds ==
    /\ Working("end")
    /\ worker' = [pc |-> "idle", of |-> 0]
    /\ UNCHANGED <<upload, jobs, outcome, returning>>

JobOver(c) == c \notin Range(jobs) /\ c # worker.of

\* Mutant: a caller who leaves takes his upload away.
AnswerTakesFile(c) ==
    /\ speech[c].pc = "answer"
    /\ \/ JobOver(c) /\ Answer(c, outcome[c]) /\ UNCHANGED upload
       \/ Answer(c, "refused") /\ Removed(c)
    /\ UNCHANGED <<engine, model, hotwords, slot, thread>>

\* The shielded future: its result, or the caller leaves without it.
Answered(c) ==
    /\ speech[c].pc = "answer"
    /\ \/ JobOver(c) /\ Answer(c, outcome[c])
       \/ Answer(c, "refused")       \* speech_timeout, or cancelled
    /\ UNCHANGED <<engine, model, hotwords, slot, upload, thread>>

\* A request is cancelled while its body or its upload is awaited.
BodyCancelled(c) ==
    /\ speech[c].pc \in {"body", "stage"}
    /\ Refuse(c)
    /\ IF speech[c].pc = "stage" THEN Removed(c) ELSE UNCHANGED upload
    /\ UNCHANGED <<engine, model, hotwords, slot, thread>>

SpeechNext ==
    \/ \E terms \in Registries, context \in {"default", "other"} : Configure(terms, context)
    \/ Shut \/ Closed \/ Release
    \/ Take \/ Probe \/ Transcribe \/ RemoveFile \/ ReturnSlot \/ JobEnds
    \/ \E c \in Speaker :
         \/ \E flaw \in Flaws : Arrive(c, flaw)
         \/ ParseBody(c) \/ StagingFails(c) \/ Busy(c) \/ Enter(c) \/ Wait(c)
         \/ Resume(c) \/ WaitEnds(c) \/ Answered(c) \/ BodyCancelled(c)

-----------------------------------------------------------------------------
(* What must hold.                                                           *)

\* The slot is always somewhere: free, granted, with a job, or on its way back.
SlotIsOne ==
    engine \notin {"closing", "closed"} =>
        value + Cardinality(granted) + Len(jobs) + returning
            + (IF worker.pc \in {"idle", "end"} THEN 0 ELSE 1) = 1

\* Nobody sleeps beside a free slot, and the count is of those who wait.
WaitersAreServed ==
    /\ value > 0 => Range(waiters) \subseteq granted
    /\ granted \subseteq Range(waiters)
    /\ Range(waiters) = {c \in Speaker : speech[c].pc = "wait"}
    /\ waiting = Len(waiters) /\ waiting <= MaxWaiting

\* A staged file that nobody has tried to remove has somebody who will: the
\* request until the job is submitted, the worker from then on, and only the
\* end of the service drops one with its job.  Nobody else takes it away: a
\* caller who leaves does not pull it from under the job.
UploadsHaveOneOwner ==
    \A c \in Speaker :
        /\ upload[c] \in {"partial", "whole"} =>
              \/ speech[c].pc \in {"stage", "wait"}
              \/ c \in Range(jobs)
              \/ c = worker.of /\ worker.pc \in {"probe", "hear", "remove"}
        /\ upload[c] = "dropped" => engine \in {"closing", "closed"}
        /\ \/ speech[c].pc = "wait"
           \/ c \in Range(jobs)
           \/ c = worker.of /\ worker.pc \in {"probe", "hear"}
           => upload[c] = "whole"

\* The model hears nothing that has not passed every check, and what is wrong
\* with an upload is what its request is told, if it waits for the answer.
OnlyCheckedAudioIsHeard ==
    /\ worker.pc = "hear" => model /\ speech[worker.of].flaw = "none"
    /\ \A c \in Speaker : speech[c].code = "text" => speech[c].flaw = "none"

\* The single slot of the model is neither lost nor doubled, whoever gives up
\* when; every staged file has one owner, who alone removes it or is refused;
\* and the model is given only checked audio (SpeechEngine).
SpeechHolds ==
    /\ SlotIsOne /\ WaitersAreServed /\ UploadsHaveOneOwner
    /\ OnlyCheckedAudioIsHeard
=============================================================================
