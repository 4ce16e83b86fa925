--------------------------- MODULE ContainedCall ---------------------------
(* One program started by the agent loop inside a container, from the launch *)
(* to the answer its caller believes: the readers, the prompt writer, the     *)
(* watcher of the answer file, the deadline, the one grace budget and the     *)
(* order in which each of the five callers of launch_contained weighs what it *)
(* saw.                                                                       *)
EXTENDS Integers, Sequences

CONSTANTS
    CallKind,    \* callers: "implementer", "evaluator", "command", "git", "status"
    Host,        \* "posix" (a session) and "windows" (a job object)
    Stream,      \* the pipes read: {"stdout", "stderr"}
    Limit,       \* units of output a caller admits per stream
    PromptSize,  \* units of prompt written to the program
    PipeSize     \* units a pipe holds that nobody has read

ASSUME CallAssumption ==
    /\ CallKind \subseteq {"implementer", "evaluator", "command", "git", "status"}
    /\ Host \subseteq {"posix", "windows"}
    /\ Limit \in Nat /\ PromptSize \in Nat /\ PipeSize \in Nat

VARIABLES
    call,  \* what the calling thread knows
    prog,  \* the program and what it started
    io     \* the threads between them

callVars == <<call, prog, io>>

Threads(k) ==
    CASE k = "implementer" -> Stream \cup {"writer"}
      [] k = "evaluator"   -> Stream \cup {"writer", "watcher"}
      [] k = "git"         -> Stream \cup {"writer"}
      [] OTHER             -> Stream

Prompted == call.kind \in {"implementer", "evaluator", "git"}

Results == {"none", "answer", "malformed", "unreleased", "uncontained",
            "raised", "refused", "survived", "timeout", "overflow", "failed",
            "unasked", "broken"}

CallTypeOK ==
    /\ call \in [kind : CallKind, host : Host, late : BOOLEAN, over : BOOLEAN,
                 timedOut : BOOLEAN, raised : BOOLEAN, clean : BOOLEAN,
                 joined : BOOLEAN, drained : BOOLEAN, result : Results,
                 pc : {"launch", "attach", "resume", "start", "poll", "stop",
                       "stopping", "drain", "emptying", "join", "judge",
                       "again", "done"}]
    /\ prog \in [leader : {"none", "frozen", "running", "zombie", "gone"},
                 child : {"unborn", "inside", "outside", "gone"},
                 doomed : SUBSET {"leader", "child"}, code : 0..1,
                 ran : BOOLEAN, taken : 0..PromptSize, file : 0..Limit + 1,
                 wrote : [Stream -> 0..Limit + 1]]
    /\ io \in [started : SUBSET (Stream \cup {"writer", "watcher"}),
               ended : SUBSET (Stream \cup {"writer", "watcher"}),
               got : [Stream -> 0..Limit], given : 0..PromptSize,
               outcome : [Stream -> {"pending", "completed", "overflowed",
                                     "read_failed"}],
               complete : BOOLEAN, exceeded : BOOLEAN, tripped : BOOLEAN]

CallInit ==
    /\ call \in [kind : CallKind, host : Host, late : {FALSE}, over : {FALSE},
                 timedOut : {FALSE}, raised : {FALSE}, clean : {TRUE},
                 joined : {FALSE}, drained : {FALSE}, result : {"none"},
                 pc : {"launch"}]
    /\ prog = [leader |-> "none", child |-> "unborn", doomed |-> {}, code |-> 0,
               ran |-> FALSE, taken |-> 0, file |-> 0,
               wrote |-> [s \in Stream |-> 0]]
    /\ io = [started |-> {}, ended |-> {}, got |-> [s \in Stream |-> 0],
             given |-> 0, outcome |-> [s \in Stream |-> "pending"],
             complete |-> FALSE, exceeded |-> FALSE, tripped |-> FALSE]

-----------------------------------------------------------------------------
(* The program.  It owes the caller nothing: it may answer without reading,   *)
(* read without answering, start a child that outlives it and, on POSIX,      *)
(* leave the session the caller made for it.                                  *)

Alive == prog.leader = "running" \/ prog.child \in {"inside", "outside"}

\* Every process of the call inherits its pipes.
Holding == Alive \/ prog.leader = "frozen"

ProgramWrites(s) ==
    /\ Alive /\ prog.wrote[s] <= Limit
    /\ prog' = [prog EXCEPT !.wrote[s] = @ + 1, !.ran = TRUE]
    /\ UNCHANGED <<call, io>>

ProgramWritesFile ==
    /\ call.kind = "evaluator" /\ Alive /\ prog.file <= Limit
    /\ prog' = [prog EXCEPT !.file = @ + 1, !.ran = TRUE]
    /\ UNCHANGED <<call, io>>

ProgramReads ==
    /\ Alive /\ prog.taken < io.given
    /\ prog' = [prog EXCEPT !.taken = @ + 1, !.ran = TRUE]
    /\ UNCHANGED <<call, io>>

Spawns ==
    /\ prog.leader = "running" /\ prog.child = "unborn"
    /\ \E c \in {"inside"} \cup (IF call.host = "posix" THEN {"outside"} ELSE {}) :
          prog' = [prog EXCEPT !.child = c, !.ran = TRUE]
    /\ UNCHANGED <<call, io>>

Exits ==
    /\ \/ /\ prog.leader = "running"
          /\ \E c \in 0..1 :
                prog' = [prog EXCEPT !.leader = "zombie", !.code = c, !.ran = TRUE]
       \/ /\ prog.child \in {"inside", "outside"}
          /\ prog' = [prog EXCEPT !.child = "gone"]
    /\ UNCHANGED <<call, io>>

\* The system ends what was killed, in its own time.
Dies ==
    /\ \/ /\ "leader" \in prog.doomed /\ prog.leader \in {"running", "frozen"}
          /\ prog' = [prog EXCEPT !.leader = "zombie", !.code = 1]
       \/ /\ "child" \in prog.doomed /\ prog.child = "inside"
          /\ prog' = [prog EXCEPT !.child = "gone"]
    /\ UNCHANGED <<call, io>>

-----------------------------------------------------------------------------
(* The threads of the call.                                                   *)

\* What a reader that ends does to its record and to the shared event.
ReaderEnds(s, outcome) ==
    [io EXCEPT !.outcome[s] = outcome, !.ended = @ \cup {s},
               !.tripped = @ \/ outcome = "overflowed"]

Reading(s) == s \in io.started \ io.ended

BoundedRead(s) ==
    /\ Reading(s) /\ io.got[s] < prog.wrote[s]
    /\ LET n == io.got[s] + 1 IN
         io' = IF n > Limit THEN ReaderEnds(s, "overflowed")
               ELSE [io EXCEPT !.got[s] = n]
    /\ UNCHANGED <<call, prog>>

ReadToEnd(s) ==
    /\ Reading(s) /\ io.got[s] = prog.wrote[s] /\ ~Holding
    /\ io' = ReaderEnds(s, "completed")
    /\ UNCHANGED <<call, prog>>

\* A read or the close of a pipe fails.
ReadBreaks(s) ==
    /\ Reading(s)
    /\ io' = ReaderEnds(s, "read_failed")
    /\ UNCHANGED <<call, prog>>

Writing == "writer" \in io.started \ io.ended

PromptDelivered ==
    /\ Writing /\ io.given = PromptSize
    /\ io' = [io EXCEPT !.ended = @ \cup {"writer"}, !.complete = TRUE]
    /\ UNCHANGED <<call, prog>>

PromptMoves ==
    /\ Writing /\ Holding /\ io.given < PromptSize
    /\ io.given - prog.taken < PipeSize
    /\ io' = [io EXCEPT !.given = @ + 1]
    /\ UNCHANGED <<call, prog>>

PromptCutShort ==
    /\ Writing /\ io.given < PromptSize /\ ~Holding
    /\ io' = [io EXCEPT !.ended = @ \cup {"writer"}]
    /\ UNCHANGED <<call, prog>>

\* A file past its ceiling trips the call; once the call has finished polling
\* the watcher ends, with or without another look.
WatchFile ==
    /\ "watcher" \in io.started \ io.ended
    /\ \E over \in BOOLEAN :
          /\ IF over THEN prog.file > Limit ELSE call.pc \notin {"start", "poll"}
          /\ io' = [io EXCEPT !.ended = @ \cup {"watcher"}, !.exceeded = over,
                              !.tripped = @ \/ over]
    /\ UNCHANGED <<call, prog>>

DeadlinePasses ==
    /\ call.pc = "poll" /\ ~call.late
    /\ call' = [call EXCEPT !.late = TRUE]
    /\ UNCHANGED <<prog, io>>

GracePasses ==
    /\ call.pc \in {"stopping", "emptying", "join"} /\ ~call.over
    /\ call' = [call EXCEPT !.over = TRUE]
    /\ UNCHANGED <<prog, io>>

-----------------------------------------------------------------------------
(* launch_contained: the container exists before the program runs.           *)

Ended == prog.leader \in {"zombie", "gone"}
Reaped(p) == IF p.leader = "zombie" THEN [p EXCEPT !.leader = "gone"] ELSE p

\* drain finds the session, or the job, empty.  An exited leader that nobody has
\* waited for is still a member of its process group.
ContainerEmpty ==
    /\ prog.leader \notin {"running", "frozen"} /\ prog.child # "inside"
    /\ call.host = "windows" \/ prog.leader # "zombie"

Started == IF call.host = "posix" THEN "running" ELSE "frozen"

Launch ==
    /\ call.pc = "launch"
    /\ \/ /\ prog' = [prog EXCEPT !.leader = Started]
          /\ call' = [call EXCEPT !.pc =
                        IF call.host = "posix" THEN "start" ELSE "attach"]
       \/ /\ call' = [call EXCEPT !.pc = "done", !.result =
                        IF call.kind \in {"command", "git"} THEN "uncontained"
                        ELSE "raised"]
          /\ UNCHANGED prog
    /\ UNCHANGED io

\* _attach_job and its cleanup: a process the job refused is killed unheard.
Attach ==
    /\ call.pc = "attach"
    /\ \/ /\ call' = [call EXCEPT !.pc = "resume"]
          /\ UNCHANGED prog
       \/ /\ call' = [call EXCEPT !.pc = "done", !.result = "uncontained"]
          /\ prog' = [prog EXCEPT !.doomed = @ \cup {"leader"}]
    /\ UNCHANGED io

Resume ==
    /\ call.pc = "resume"
    /\ \/ /\ prog' = [prog EXCEPT !.leader = IF @ = "frozen" THEN "running" ELSE @]
          /\ call' = [call EXCEPT !.pc = "start"]
       \/ /\ call' = [call EXCEPT !.pc = "done", !.result = "uncontained"]
          /\ prog' = [prog EXCEPT !.doomed = @ \cup {"leader"}]
    /\ UNCHANGED io

-----------------------------------------------------------------------------
(* From the launch to the verdict.                                            *)

\* git starts its writer first, the others last.
StartThreads ==
    /\ call.pc = "start"
    /\ LET missing == Threads(call.kind) \ io.started IN
       \/ \E t \in missing :
             /\ IF call.kind = "git" THEN "writer" \in missing => t = "writer"
                ELSE t = "writer" => missing = {"writer"}
             /\ io' = [io EXCEPT !.started = @ \cup {t}]
             /\ UNCHANGED call
       \/ /\ missing = {}
          /\ call' = [call EXCEPT !.pc = "poll"]
          /\ UNCHANGED io
    /\ UNCHANGED prog

\* A thread that cannot be started, or an interrupt, ends the call.  Two callers
\* reclaim all they had started; the others only drain the container.
BreaksOff ==
    /\ call.pc \in {"start", "poll"}
    /\ call' = IF call.kind \in {"command", "git"}
               THEN [call EXCEPT !.raised = TRUE, !.pc = "stop"]
               ELSE [call EXCEPT !.raised = TRUE, !.pc = "again", !.result = "raised"]
    /\ UNCHANGED <<prog, io>>

\* git alone also waits for its readers before it believes the exit.
Finished == Ended /\ (call.kind = "git" => Stream \subseteq io.ended)

\* Mutant: the prompt is written before the deadline is watched.
PollEndsAfterPrompt ==
    /\ call.pc = "poll"
    /\ "writer" \in io.started => "writer" \in io.ended
    /\ io.tripped \/ Finished \/ call.late
    /\ call' = [call EXCEPT !.pc = "stop", !.timedOut = ~io.tripped /\ ~Finished]
    /\ prog' = IF io.tripped /\ call.kind # "git" THEN prog ELSE Reaped(prog)
    /\ UNCHANGED io

\* The loop ends on the ceiling, on the exit of the program, or on the clock.
PollEnds ==
    /\ call.pc = "poll"
    /\ io.tripped \/ Finished \/ call.late
    /\ call' = [call EXCEPT !.pc = "stop", !.timedOut = ~io.tripped /\ ~Finished]
    /\ prog' = IF io.tripped /\ call.kind # "git" THEN prog ELSE Reaped(prog)
    /\ UNCHANGED io

\* stop is called for what was tripped, timed out or interrupted.  It asks the
\* tree, kills the leader whatever the answer, and waits inside the grace.
Stop ==
    /\ call.pc = "stop"
    /\ IF (io.tripped \/ call.timedOut \/ call.raised)
          /\ (call.kind = "git" => ~Ended)
       THEN \E tree \in BOOLEAN :
              /\ prog' = [prog EXCEPT !.doomed = @ \cup {"leader"} \cup
                            (IF tree THEN {"child"} ELSE {})]
              /\ call' = [call EXCEPT !.pc = "stopping", !.clean = @ /\ tree]
       ELSE /\ call' = [call EXCEPT !.pc = "drain"]
            /\ UNCHANGED prog
    /\ UNCHANGED io

StopWaits ==
    /\ call.pc = "stopping"
    /\ Ended \/ call.over
    /\ prog' = Reaped(prog)
    /\ call' = [call EXCEPT !.pc = "drain", !.clean = @ /\ Ended]
    /\ UNCHANGED io

DrainedQuietly(answer) == [call EXCEPT !.pc = "join", !.drained = answer]

Drained(answer) ==
    [call EXCEPT !.pc = "join", !.drained = answer, !.clean = @ /\ answer]

\* The container is told to end, or refuses.
Drain ==
    /\ call.pc = "drain"
    /\ \/ /\ prog' = [prog EXCEPT !.doomed = {"leader", "child"}]
          /\ call' = [call EXCEPT !.pc = "emptying"]
       \/ /\ call' = Drained(FALSE)
          /\ prog' = IF call.host = "windows"
                     THEN [prog EXCEPT !.doomed = {"leader", "child"}] ELSE prog
    /\ UNCHANGED io

Emptying ==
    /\ call.pc = "emptying"
    /\ ContainerEmpty \/ call.over
    /\ call' = Drained(ContainerEmpty)
    /\ UNCHANGED <<prog, io>>

\* join_within, and for git the reap that ends its cleanup.
Join ==
    /\ call.pc = "join"
    /\ io.started \subseteq io.ended \/ call.over
    /\ LET all == io.started \subseteq io.ended IN
         call' = [call EXCEPT !.pc = "judge", !.joined = all,
                    !.clean = @ /\ all
                              /\ (call.kind \in {"git", "command"} => Ended)]
    /\ prog' = IF call.kind = "git" THEN Reaped(prog) ELSE prog
    /\ UNCHANGED io

-----------------------------------------------------------------------------
(* The verdict: for each caller, the first line of its ladder that applies.   *)

Overflowed == \E s \in Stream : io.outcome[s] = "overflowed"

Broken == \E s \in Stream : io.outcome[s] # "completed"

FileTooLong == prog.file > Limit

Otherwise == <<TRUE, "answer">>

ImplementerLadder ==
    << <<call.timedOut, "timeout">>, <<Overflowed, "overflow">>,
       <<prog.code # 0, "failed">>, <<~io.complete, "unasked">>,
       <<~call.drained, "survived">>, Otherwise >>

EvaluatorLadder ==
    << <<call.timedOut, "timeout">>, <<io.exceeded, "overflow">>,
       <<Overflowed, "overflow">>, <<Broken, "broken">>,
       <<prog.code # 0, "failed">>, <<~io.complete, "unasked">>,
       <<~call.drained, "survived">>, <<FileTooLong, "overflow">>, Otherwise >>

CommandLadder ==
    << <<call.raised /\ ~call.clean, "survived">>, <<call.raised, "refused">>,
       <<~call.drained, "survived">>, <<call.timedOut, "timeout">>,
       <<Overflowed, "overflow">>, <<~call.joined \/ Broken, "broken">>,
       Otherwise >>

GitLadder ==
    << <<~call.clean, "survived">>, <<call.raised, "refused">>,
       <<call.timedOut, "timeout">>, <<io.tripped, "overflow">>,
       <<Broken, "broken">>, <<prog.code # 0, "failed">>,
       <<~io.complete, "unasked">>, Otherwise >>

StatusLadder ==
    << <<~call.clean, "survived">>, <<call.timedOut, "timeout">>,
       <<Broken, "broken">>, Otherwise >>

Ladder ==
    CASE call.kind = "implementer" -> ImplementerLadder
      [] call.kind = "evaluator"   -> EvaluatorLadder
      [] call.kind = "command"     -> CommandLadder
      [] call.kind = "git"         -> GitLadder
      [] OTHER                     -> StatusLadder

Verdict ==
    LET n == CHOOSE i \in DOMAIN Ladder :
                Ladder[i][1] /\ \A j \in 1..i - 1 : ~Ladder[j][1]
    IN Ladder[n][2]

\* What an answer may still turn out to be: no valid reply, or one whose holder
\* cannot be removed.
Readings ==
    IF Verdict # "answer" THEN {Verdict}
    ELSE CASE call.kind = "implementer" -> {"answer", "malformed"}
           [] call.kind = "evaluator"   -> {"answer", "malformed", "unreleased"}
           [] OTHER                     -> {"answer"}

\* The waits without a limit: status always waits for the leader, the others
\* unless a verdict above the exit code was reached.
MustWait ==
    \/ call.kind = "status"
    \/ call.kind \in {"implementer", "evaluator"} /\ ~call.timedOut
       /\ ~Overflowed /\ ~io.exceeded
    \/ call.kind = "command" /\ Verdict = "answer"

Judge ==
    /\ call.pc = "judge"
    /\ MustWait => Ended
    /\ \E r \in Readings :
          call' = [call EXCEPT !.result = r,
                     !.pc = IF call.kind \in {"implementer", "evaluator", "status"}
                               /\ ~call.drained
                            THEN "again" ELSE "done"]
    /\ prog' = IF MustWait THEN Reaped(prog) ELSE prog
    /\ UNCHANGED io

\* The drain of the finally: on Windows the job is closed already unless the
\* call never reached its first drain.
DrainAgain ==
    /\ call.pc = "again"
    /\ prog' \in {prog, [prog EXCEPT !.doomed = {"leader", "child"}]}
    /\ call.host = "windows" => prog'.doomed = {"leader", "child"}
    /\ call' = [call EXCEPT !.pc = "done"]
    /\ UNCHANGED io

-----------------------------------------------------------------------------
Program ==
    \/ \E s \in Stream : ProgramWrites(s)
    \/ ProgramWritesFile \/ ProgramReads \/ Spawns \/ Exits

Helpers ==
    \/ \E s \in Stream : BoundedRead(s) \/ ReadToEnd(s) \/ ReadBreaks(s)
    \/ PromptMoves \/ PromptDelivered \/ PromptCutShort \/ WatchFile

Caller ==
    \/ Launch \/ Attach \/ Resume \/ StartThreads \/ PollEnds
    \/ Stop \/ StopWaits \/ Drain \/ Emptying \/ Join \/ Judge \/ DrainAgain

Over == call.pc = "done"

\* Observed until the caller has its answer.
CallNext ==
    /\ ~Over
    /\ \/ Program \/ Dies \/ Helpers \/ Caller \/ BreaksOff
       \/ DeadlinePasses \/ GracePasses

CallSpec == CallInit /\ [][CallNext]_callVars

-----------------------------------------------------------------------------
Survivor == prog.leader = "running" \/ prog.child = "inside"

\* execution.py, audit.py: no reply is returned from a container that was not
\* emptied; nothing the call started is left inside when it is believed.
AnswerLeavesNobody == call.result = "answer" => ~Survivor

\* plan_auth.py: a process this loop started that is still alive is an incident,
\* never an ordinary refusal.  Unless an exception travels out as it came, a
\* process left in the container is told: by the verdict, or by the
\* cleanup_complete that the two model calls put beside theirs.
SurvivorsAreTold ==
    Over /\ Survivor /\ call.result # "raised" =>
        \/ call.result = "survived"
        \/ call.kind \in {"implementer", "evaluator"} /\ ~call.clean

\* process.py: a reader that did not complete is not a short answer.  Except for
\* the implementer's reply, an answer is read from streams that ended, and holds
\* everything the program wrote.
AnswerIsWhole ==
    call.result = "answer" /\ call.kind # "implementer" =>
        \A s \in Stream : io.got[s] = prog.wrote[s]

\* PromptNotDelivered: an answer answers the prompt.  Of a delivered prompt at
\* most what a pipe holds was never read by the program.
AnsweredWasAsked ==
    call.result = "answer" /\ Prompted => PromptSize - prog.taken <= PipeSize

\* _FileCeiling, _read_bounded: no answer comes from a file past its ceiling, also
\* when it grew between the last look of the watcher and the read.
AnswerIsBounded ==
    call.result = "answer" /\ prog.child # "outside" => prog.file <= Limit

\* process.py: if the container cannot be built, the program never runs at all.
UncontainedNeverRan == call.result = "uncontained" => ~prog.ran

\* What a caller believes is everything the program said, to the prompt it was
\* given, and no more than the limits allow.
AnswersAreWhole ==
    CallTypeOK /\ AnswerIsWhole /\ AnsweredWasAsked /\ AnswerIsBounded

\* Nothing runs that the caller has not contained, and nothing is left of it
\* that the caller was not told of.
LeftoversAreTold == AnswerLeavesNobody /\ SurvivorsAreTold /\ UncontainedNeverRan

\* A call is believed only if it is whole and leaves nobody behind.
CallsAreHonest == AnswersAreWhole /\ LeftoversAreTold
=============================================================================
