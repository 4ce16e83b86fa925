---------------------------- MODULE MCAgentCalls ----------------------------
(* The contained call, the acceptance gate and the judging of replies for     *)
(* model checking.  They share no state: a behaviour is of one of them, and   *)
(* the others never leave their initial state.                                *)
EXTENDS ContainedCall, AcceptanceGate, ProgramReplies

VARIABLE use

vars == <<use, callVars, gateVars, replyVars>>

NoReply ==
    /\ asked = [road |-> "none"] /\ said = [form |-> "none"] /\ reply = [pc |-> "none"]

Init ==
    /\ use \in {"call", "gate", "reply"}
    /\ CallInit /\ GateInit
    \* On Windows, one caller that only drains and one that reclaims.
    /\ call.host = "windows" => call.kind \in {"implementer", "command"}
    /\ use # "call" => call.kind = "command" /\ call.host = "posix"
    /\ IF use = "reply" THEN ReplyInit ELSE NoReply

Next ==
    /\ UNCHANGED use
    /\ \/ use = "call" /\ CallNext /\ UNCHANGED <<gateVars, replyVars>>
       \/ use = "gate" /\ GateNext /\ UNCHANGED <<callVars, replyVars>>
       \/ use = "reply" /\ ReplyNext /\ UNCHANGED <<callVars, gateVars>>

\* The caller's thread is scheduled, its clock runs and what was killed dies.
\* Nothing is assumed of the program, nor of the threads it feeds, and nobody
\* interrupts the caller for it (BreaksOff is no part of Caller).
Fairness ==
    /\ WF_vars(use = "call" /\ Caller /\ UNCHANGED <<use, gateVars, replyVars>>)
    /\ WF_vars(use = "call" /\ ~Over /\ Dies /\ UNCHANGED <<use, gateVars, replyVars>>)
    /\ WF_vars(use = "call" /\ (DeadlinePasses \/ GracePasses) /\ UNCHANGED <<use, gateVars, replyVars>>)

Spec == Init /\ [][Next]_vars /\ Fairness

\* A deaf, silent, endless or escaping program does not keep its caller: the
\* deadline and the one grace budget end every call.
CallEnds == use = "call" ~> Over
=============================================================================
