---------------------------- MODULE MCIdentities ----------------------------
(* What stands before the application, for model checking: the machine with a *)
(* service account, the browser with a login, the request with a tenant, the  *)
(* dictation service.  They share no state: a behaviour is of one of them.    *)
EXTENDS ServiceAccounts, TenantContext, BrowserSessions, SpeechService

VARIABLE use

identities == <<use, vars, tenancy, sessions, speechvars>>

\* The control plane is behind the data plane or level with it.
ClockDifferences == {-1, 0}

\* No profile, one whose second phrase does not fit, one without a default
\* context, and one that names a phrase twice.
Named(name, tokens) == [name |-> name, tokens |-> tokens]
Entry(priority, spelling, contexts, phrases) ==
    [priority |-> priority, spelling |-> spelling, contexts |-> contexts,
     phrases |-> phrases]
Fitting == Entry(2, 1, {"default"}, <<Named("a", 1), Named("b", 4)>>)
Apart == Entry(1, 3, {"other"}, <<Named("d", 5)>>)
Again == Entry(3, 5, {"default"}, <<Named("a", 2)>>)
SomeRegistries == {{}, {Fitting}, {Apart}, {Fitting, Again}}

IdentitiesInit ==
    /\ use \in {"account", "context", "session", "speech"}
    /\ Init /\ TenancyInit /\ SessionsInit /\ SpeechInit
    /\ use # "account" => skew = 0
    /\ use # "context" => route = membership /\ \A s \in Subject : route[s] = None

\* The tenant is closed and its policy moved only under level clocks.
TenantRests == skew # 0 => tenant' = tenant

IdentitiesNext ==
    /\ UNCHANGED use
    /\ \/ use = "account" /\ Next /\ TenantRests
          /\ UNCHANGED <<tenancy, sessions, speechvars>>
       \/ use = "context" /\ TenancyNext /\ UNCHANGED <<vars, sessions, speechvars>>
       \/ use = "session" /\ SessionsNext /\ UNCHANGED <<vars, tenancy, speechvars>>
       \/ use = "speech" /\ SpeechNext /\ UNCHANGED <<vars, tenancy, sessions>>

IdentitiesSpec == IdentitiesInit /\ [][IdentitiesNext]_identities
=============================================================================
