--------------------------- MODULE BrowserSessions ---------------------------
(***************************************************************************)
(* SessionStore and OIDCClient: logins that are begun, calls of the        *)
(* callback that compete for them, and the sessions they open.  Each call  *)
(* keeps the time it began with.  Whether the provider's keys vouch for a  *)
(* token is left open; what the token says is not.                         *)
(***************************************************************************)
EXTENDS Naturals, FiniteSets

CONSTANTS Login, Call, Nothing,
          LoginTime, SessionTime, Skew,
          MaxLogins, MaxSessions,      \* MAX_PENDING_LOGINS, MAX_SESSIONS
          MaxHour

ASSUME SessionsAssumption ==
    /\ Nothing \notin Login
    /\ {LoginTime, SessionTime, Skew, MaxLogins, MaxSessions} \subseteq Nat
    /\ MaxHour \in Nat \ {0}

VARIABLES hour,
          provider,    \* the discovery document and the verifier, once fetched
          pending,     \* begun logins, until when
          asked,       \* logins that were begun
          calls,       \* callbacks under way
          session,     \* open sessions, by the login that opened them
          opened,      \* how many sessions a login opened
          ended        \* logins whose session was logged out

sessions == <<hour, provider, pending, asked, calls, session, opened, ended>>

NoCall == [pc |-> "idle", now |-> 0, login |-> Nothing, token |-> Nothing]
Token == [nonce : Login, exp : 0 .. MaxHour + SessionTime]
NoSession == [ends |-> 0, exp |-> 0, nonce |-> Nothing]

SessionsInit ==
    /\ hour = 1 /\ provider = "unknown"
    /\ pending = [l \in Login |-> 0]
    /\ asked = {}
    /\ calls = [c \in Call |-> NoCall]
    /\ session = [l \in Login |-> NoSession]
    /\ opened = [l \in Login |-> 0]
    /\ ended = {}

-----------------------------------------------------------------------------
Earlier(a, b) == IF a < b THEN a ELSE b

\* _purge drops what is over at the time the caller kept.
PurgedLogins(now) == [l \in Login |-> IF pending[l] > now THEN pending[l] ELSE 0]
PurgedSessions(now) ==
    [l \in Login |-> IF session[l].ends > now THEN session[l] ELSE NoSession]

Size(f, none) == Cardinality({l \in Login : f[l] # none})

\* discover stores the document, then a verifier for it.
Discover ==
    /\ provider \in {"unknown", "document"}
    /\ provider' = IF provider = "unknown" THEN "document" ELSE "verifier"
    /\ UNCHANGED <<hour, pending, asked, calls, session, opened, ended>>

\* SessionStore.begin: a fresh state, nonce and verifier.
Begin(l) ==
    /\ provider # "unknown" /\ l \notin asked
    /\ Size(PurgedLogins(hour), 0) < MaxLogins
    /\ pending' = [PurgedLogins(hour) EXCEPT ![l] = hour + LoginTime]
    /\ session' = PurgedSessions(hour)
    /\ asked' = asked \cup {l}
    /\ UNCHANGED <<hour, provider, calls, opened, ended>>

CallOver(c) == [calls EXCEPT ![c] = NoCall]

\* The browser comes back, perhaps twice, with a state it was given.
Callback(c) ==
    /\ calls[c].pc = "idle"
    /\ \E l \in asked :
          calls' = [calls EXCEPT ![c] = [@ EXCEPT !.pc = "consume", !.now = hour,
                                                  !.login = l]]
    /\ UNCHANGED <<hour, provider, pending, asked, session, opened, ended>>

\* Mutant: the login is removed when the session is made.
PeekLogin(c) ==
    /\ calls[c].pc = "consume"
    /\ calls' = IF pending[calls[c].login] > calls[c].now
                THEN [calls EXCEPT ![c].pc = "exchange"] ELSE CallOver(c)
    /\ UNCHANGED <<hour, provider, pending, asked, session, opened, ended>>

\* consume_login takes the login out under the lock, expired or not.
ConsumeLogin(c) ==
    /\ calls[c].pc = "consume"
    /\ LET l == calls[c].login IN
         /\ pending' = [pending EXCEPT ![l] = 0]
         /\ calls' = IF pending[l] > calls[c].now
                     THEN [calls EXCEPT ![c].pc = "exchange"] ELSE CallOver(c)
    /\ UNCHANGED <<hour, provider, asked, session, opened, ended>>

\* The code is exchanged for a token, which may be another login's.  A call that
\* finds the document without its verifier has lost its login.
Exchange(c) ==
    /\ calls[c].pc = "exchange"
    /\ \/ /\ provider = "verifier"
          /\ \E t \in [nonce : asked, exp : hour .. hour + SessionTime] :
                calls' = [calls EXCEPT ![c].token = t, ![c].pc = "verify"]
       \/ calls' = CallOver(c)
    /\ UNCHANGED <<hour, provider, pending, asked, session, opened, ended>>

\* JWKSVerifier.verify and _validate_claims.
Verify(c) ==
    /\ calls[c].pc = "verify"
    /\ LET t == calls[c].token IN
         \/ /\ t.nonce = calls[c].login /\ t.exp + Skew > calls[c].now
            /\ calls' = [calls EXCEPT ![c].pc = "create"]
         \/ calls' = CallOver(c)
    /\ UNCHANGED <<hour, provider, pending, asked, session, opened, ended>>

\* SessionStore.create takes no identity whose end has come, skew or not.
Create(c) ==
    /\ calls[c].pc = "create"
    /\ LET now == calls[c].now
           t == calls[c].token
           l == calls[c].login
           ends == Earlier(t.exp, now + SessionTime)
       IN IF t.exp <= now \/ Size(PurgedSessions(now), NoSession) >= MaxSessions
          THEN UNCHANGED <<session, opened>>
          ELSE /\ session' = [PurgedSessions(now) EXCEPT
                                ![l] = [ends |-> ends, exp |-> t.exp,
                                        nonce |-> t.nonce]]
               /\ opened' = [opened EXCEPT ![l] = @ + 1]
    /\ pending' = PurgedLogins(calls[c].now)
    /\ calls' = CallOver(c)
    /\ UNCHANGED <<hour, provider, asked, ended>>

\* authenticate drops a session that it finds over.
Authenticate(l) ==
    /\ session[l] # NoSession /\ session[l].ends <= hour
    /\ session' = [session EXCEPT ![l] = NoSession]
    /\ UNCHANGED <<hour, provider, pending, asked, calls, opened, ended>>

\* revoke, for the bearer of the cookie and its csrf token.
LogOut(l) ==
    /\ session[l].ends > hour
    /\ session' = [session EXCEPT ![l] = NoSession]
    /\ ended' = ended \cup {l}
    /\ UNCHANGED <<hour, provider, pending, asked, calls, opened>>

HourPasses ==
    /\ hour < MaxHour
    /\ hour' = hour + 1
    /\ UNCHANGED <<provider, pending, asked, calls, session, opened, ended>>

SessionsNext ==
    \/ Discover \/ HourPasses
    \/ \E l \in Login : Begin(l) \/ Authenticate(l) \/ LogOut(l)
    \/ \E c \in Call : \/ Callback(c) \/ ConsumeLogin(c) \/ Exchange(c)
                       \/ Verify(c) \/ Create(c)

SessionsSpec == SessionsInit /\ [][SessionsNext]_sessions

-----------------------------------------------------------------------------
SessionsType ==
    /\ hour \in 1 .. MaxHour
    /\ provider \in {"unknown", "document", "verifier"}
    /\ pending \in [Login -> 0 .. MaxHour + LoginTime]
    /\ \A c \in Call : calls[c].token \in Token \cup {Nothing}
    /\ ended \subseteq asked

\* oidc_session.py: whatever calls compete for it, a login opens one session, for
\* the identity that answered its own nonce; it ends with that identity, and
\* once logged out it does not come back.
LoginOpensOneSession ==
    \A l \in Login :
        /\ opened[l] <= 1
        /\ l \in ended => session[l] = NoSession
        /\ session[l] # NoSession =>
              session[l].nonce = l /\ session[l].ends <= session[l].exp

\* MAX_PENDING_LOGINS, MAX_SESSIONS: a flood of either is refused.
StoresAreBounded ==
    /\ Size(pending, 0) <= MaxLogins
    /\ Size(session, NoSession) <= MaxSessions

SessionsKeepTheirLogin ==
    SessionsType /\ LoginOpensOneSession /\ StoresAreBounded
=============================================================================
