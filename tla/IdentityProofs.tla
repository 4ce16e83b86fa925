--------------------------- MODULE IdentityProofs ---------------------------
(* Theorems about what stands before the application: TenantContext,       *)
(* BrowserSessions and ServiceAccounts, for any tenants, connections,      *)
(* requests, logins, calls and accounts.                                   *)
EXTENDS ServiceAccounts, TenantContext, BrowserSessions, FiniteSetTheorems, TLAPS

-----------------------------------------------------------------------------
(* The tenant of a request.  Its rows are safe because of where its        *)
(* connection is: clean when it is borrowed, bound to one tenant or to     *)
(* none while the handler commits and rolls back, clean when it is left.   *)

Carrying == {"borrowed", "body", "leave", "cleared"}

\* A connection is with the one request that carries it, and otherwise clean.
Seats ==
    /\ \A r \in Request : req[r].conn # None <=> req[r].pc \in Carrying
    /\ \A r, s \in Request : req[r].conn = req[s].conn /\ r # s => req[r].conn = None
    /\ \A c \in Conn : Free(c) => conn[c] = Clean

\* What the session s may hold while the request q carries it.
Holds(q, s) ==
    /\ q.pc = "borrowed" => s = Clean
    /\ q.pc = "body" => {s.kept.tenant, s.now.tenant} \subseteq {None, q.tenant}
    /\ q.pc = "leave" => s.tx = Idle
    /\ q.pc = "cleared" => s.now = Unbound

Settings == \A r \in Request : req[r].pc \in Carrying => Holds(req[r], conn[req[r].conn])

\* What a request has seen, and how it came to its tenant.
Admission(q) ==
    /\ q.saw \subseteq {q.tenant}
    /\ q.pc \in {"away", "routed", "bound"} => q.saw = {}
    /\ q.pc \in {"away", "routed"} => q.tenant = None
    /\ q.pc = "routed" => q.subject # None
    /\ q.pc = "routed" /\ q.source = "oidc" => q.routed \in q.offered
    /\ q.source = "oidc" /\ q.tenant # None => q.tenant \in q.offered

Admitted == \A r \in Request : Admission(req[r])

Tenanted == TenancyType /\ Seats /\ Settings /\ Admitted

-----------------------------------------------------------------------------
(* The login of a session.  A login that was begun is in one place: in the *)
(* store, with the one call that took it out, spent, or in its session.    *)

Row == [pc : {"idle", "consume", "exchange", "verify", "create"},
        now : 0 .. MaxHour, login : Login \cup {Nothing},
        token : Token \cup {Nothing}]

Opening == [ends : Nat, exp : Nat, nonce : Login \cup {Nothing}]

SessionsTyped ==
    /\ hour \in 1 .. MaxHour
    /\ provider \in {"unknown", "document", "verifier"}
    /\ pending \in [Login -> 0 .. MaxHour + LoginTime]
    /\ asked \subseteq Login /\ IsFiniteSet(asked)
    /\ calls \in [Call -> Row]
    /\ session \in [Login -> Opening]
    /\ opened \in [Login -> {0, 1}]
    /\ ended \subseteq asked

\* The call has taken its login out of the store.
Took(c) == calls[c].pc \in {"exchange", "verify", "create"}

OnePlace ==
    /\ \A c \in Call : calls[c].pc # "idle" => calls[c].login \in asked
    /\ \A c \in Call : Took(c) => /\ pending[calls[c].login] = 0
                                 /\ opened[calls[c].login] = 0
    /\ \A c, d \in Call : Took(c) /\ Took(d) /\ calls[c].login = calls[d].login => c = d
    /\ \A l \in Login : pending[l] # 0 => l \in asked /\ opened[l] = 0
    /\ \A l \in Login : opened[l] # 0 => l \in asked

TokensFit == \A c \in Call :
    /\ calls[c].pc \in {"verify", "create"} => calls[c].token \in Token
    /\ calls[c].pc = "create" => calls[c].token.nonce = calls[c].login

OpenedFit ==
    /\ \A l \in Login : session[l] # NoSession =>
          opened[l] = 1 /\ session[l].nonce = l /\ session[l].ends <= session[l].exp
    /\ \A l \in ended : opened[l] = 1 /\ session[l] = NoSession

LoggedIn == SessionsTyped /\ OnePlace /\ TokensFit /\ OpenedFit /\ StoresAreBounded

-----------------------------------------------------------------------------
(* The credentials of an account.  The active one is the last; what an     *)
(* approval bought carries its number; a nonce is forgotten only after its *)
(* assertion has expired; and whoever had an assertion signed was an       *)
(* administrator then, so if he is none now he lost that no earlier.       *)

AccountRow == [state : {"none", "active", "revoked"}, rev : 0 .. MaxRevision + 1,
               ends : Ends \cup {0}]
CredentialRow == [version : 1 .. MaxRevision, ends : Ends,
                  state : {"active", "retired", "revoked"}, by : 0 .. MaxApproval]
ApprovalRow == [account : Account, action : {"issue", "rotate"},
                state : {"approved", "redeemed", "cancelled"},
                expects : 0 .. MaxRevision, policy : 1 .. MaxPolicy,
                ends : Ends, expires : Int, redeemed_at : Int]
Word == {"created", "cancelled", "redeemed"}
ProofRow == [purpose : Purpose, by : Member, approval : 0 .. MaxApproval,
             issued : 0 .. MaxTime, minted : 0 .. MaxTime, used : 0 .. MaxUse]

DataTyped ==
    /\ clock \in 0 .. MaxTime /\ skew \in Skews
    /\ member \in [Member -> Standing]
    /\ epoch \in 1 .. MaxEpoch
    /\ lapse \in [Member -> -1 .. MaxTime]
    /\ proof \in Seq(ProofRow) /\ Len(proof) <= MaxProof

ControlTyped ==
    /\ tenant \in [open : BOOLEAN, policy : 1 .. MaxPolicy]
    /\ account \in [Account -> AccountRow]
    /\ credential \in [Account -> Seq(CredentialRow)]
    /\ approval \in Seq(ApprovalRow) /\ Len(approval) <= MaxApproval
    /\ story \in Seq(Seq(Word)) /\ Len(story) = Len(approval)
    /\ nonce \subseteq Proofs

\* The account a and its credentials s.
Ladder(a, s) ==
    /\ a.state = "none" => s = <<>> /\ a.rev = 0
    /\ a.state = "active" =>
          /\ Len(s) # 0 /\ a.rev \in 1 .. MaxRevision
          /\ \A i \in 1 .. Len(s) : s[i].state = "active" <=> i = Len(s)
          /\ s[Len(s)].version = a.rev
    /\ a.state = "revoked" => \A i \in 1 .. Len(s) : s[i].state # "active"

Ladders == \A a \in Account : Ladder(account[a], credential[a])

\* What the approval number n, with the row x, has bought among s.
Purchase(n, x, s) ==
    /\ \A i \in 1 .. Len(s) : s[i].by = n =>
          x.state = "redeemed" /\ s[i].version = x.expects + 1
    /\ \A i, j \in 1 .. Len(s) : s[i].by = n /\ s[j].by = n => i = j
    /\ x.state = "redeemed" => \E i \in 1 .. Len(s) : s[i].by = n

Purchases ==
    /\ \A a \in Account : \A i \in 1 .. Len(credential[a]) :
          credential[a][i].by \in 0 .. Len(approval)
    /\ \A n \in Approvals : Purchase(n, approval[n], credential[approval[n].account])

Decisions ==
    /\ \A n \in Approvals :
          /\ story[n] = IF approval[n].state = "approved" THEN <<"created">>
                        ELSE <<"created", approval[n].state>>
          /\ approval[n].action = "issue" => approval[n].expects = 0
          /\ approval[n].action = "rotate" => approval[n].expects < MaxRevision
    /\ \A a \in Account : /\ \A n, m \in Pending(a) : n = m
                          /\ account[a].state = "revoked" => Pending(a) = {}

\* The assertions.
Authorised == \A p \in Proofs :
    /\ proof[p].issued <= clock
    /\ ~HasAuthority(proof[p].by) => proof[p].issued <= lapse[proof[p].by]
    /\ proof[p].used # 0 => p \in nonce \/ Expires(p) <= now
    /\ proof[p].used > 1 => Expires(p) <= now

Accounted ==
    DataTyped /\ ControlTyped /\ Ladders /\ Purchases /\ Decisions /\ Authorised

-----------------------------------------------------------------------------
(* The tenant of a request: the proof.                                     *)

USE DEF Idle

LEMMA CleanSession == Clean \in Session
BY TenancyAssumption DEF Clean, Session, Context, Unbound

\* What the operations make of a session.
LEMMA SessionBegins ==
    ASSUME time \in 1 .. MaxClock, NEW s \in Session
    PROVE  /\ Begun(s) \in Session
           /\ Begun(s).now = s.now /\ Begun(s).kept = s.kept
<1>1. PICK x : x = [s EXCEPT !.tx = time]
  OBVIOUS
<1>2. time \in 0 .. MaxClock
  BY TenancyAssumption
<1>3. x \in Session /\ x.now = s.now /\ x.kept = s.kept
  BY <1>1, <1>2 DEF Session
<1> QED
  BY <1>1, <1>3 DEF Begun

LEMMA SessionIsBound ==
    ASSUME time \in 1 .. MaxClock, NEW s \in Session, NEW t \in Tenant \cup {None}
    PROVE  /\ Bound(s, t) \in Session
           /\ Bound(s, t).now.tenant = t /\ Bound(s, t).kept = s.kept
<1>1. PICK b : b = Begun(s)
  OBVIOUS
<1>2. b \in Session /\ b.kept = s.kept
  BY <1>1, SessionBegins
<1>3. PICK u : u = [tenant |-> t, at |-> time]
  OBVIOUS
<1>4. u \in Context /\ u.tenant = t
  BY <1>3, TenancyAssumption DEF Context
<1>5. PICK x : x = [b EXCEPT !.now = u]
  OBVIOUS
<1>6. x \in Session /\ x.now = u /\ x.kept = b.kept
  BY <1>2, <1>4, <1>5 DEF Session
<1>7. x = Bound(s, t)
  BY <1>1, <1>3, <1>5 DEF Bound
<1> QED
  BY <1>2, <1>4, <1>6, <1>7

LEMMA SessionIsReset ==
    ASSUME time \in 1 .. MaxClock, NEW s \in Session
    PROVE  Reset(s) \in Session /\ Reset(s).now = Unbound
<1>1. PICK b : b = Begun(s)
  OBVIOUS
<1>2. b \in Session
  BY <1>1, SessionBegins
<1>3. Unbound \in Context
  BY TenancyAssumption DEF Context, Unbound
<1>4. [b EXCEPT !.now = Unbound] \in Session /\ [b EXCEPT !.now = Unbound].now = Unbound
  BY <1>2, <1>3 DEF Session
<1> QED
  BY <1>1, <1>4 DEF Reset

LEMMA SessionEnds ==
    ASSUME NEW s \in Session
    PROVE  /\ Committed(s) \in Session /\ RolledBack(s) \in Session
           /\ Committed(s) = [kept |-> s.now, now |-> s.now, tx |-> Idle]
           /\ RolledBack(s) = [kept |-> s.kept, now |-> s.kept, tx |-> Idle]
<1>1. Idle \in 0 .. MaxClock
  BY TenancyAssumption
<1>2. PICK x : x = [s EXCEPT !.kept = s.now, !.tx = Idle]
  OBVIOUS
<1>3. PICK y : y = [s EXCEPT !.now = s.kept, !.tx = Idle]
  OBVIOUS
<1>4. x \in Session /\ x = [kept |-> s.now, now |-> s.now, tx |-> Idle]
  BY <1>1, <1>2 DEF Session
<1>5. y \in Session /\ y = [kept |-> s.kept, now |-> s.kept, tx |-> Idle]
  BY <1>1, <1>3 DEF Session
<1> QED
  BY <1>2, <1>3, <1>4, <1>5 DEF Committed, RolledBack
\* A step of one request: its row becomes q, and of the connections at most
\* the one it carries, or carried, changes.
LEMMA RequestMoves ==
    ASSUME Tenanted, NEW r \in Request, NEW q \in RequestState, Admission(q),
           req' = [req EXCEPT ![r] = q],
           conn' \in [Conn -> Session],
           q.conn # None <=> q.pc \in Carrying,
           q.conn # None => Holds(q, conn'[q.conn]),
           \A s \in Request : s # r /\ req[s].conn # None =>
               req[s].conn # q.conn /\ conn'[req[s].conn] = conn[req[s].conn],
           \A c \in Conn : c # q.conn /\ (\A s \in Request \ {r} : req[s].conn # c) =>
               conn'[c] = Clean,
           UNCHANGED <<time, moves, route, membership>>
    PROVE  Tenanted'
<1>1. req \in [Request -> RequestState]
  BY DEF Tenanted, TenancyType
<1>2. req'[r] = q /\ \A s \in Request : s # r => req'[s] = req[s]
  BY <1>1
<1>3. req' \in [Request -> RequestState]
  BY <1>1
<1>4. TenancyType'
  BY <1>3 DEF Tenanted, TenancyType
<1>5. Seats'
  <2>1. \A s \in Request : req'[s].conn # None <=> req'[s].pc \in Carrying
    BY <1>2 DEF Tenanted, Seats
  <2>2. \A s, o \in Request : req'[s].conn = req'[o].conn /\ s # o => req'[s].conn = None
    BY <1>2 DEF Tenanted, Seats
  <2>3. \A c \in Conn : Free(c)' => conn'[c] = Clean
    BY <1>2 DEF Free
  <2> QED
    BY <2>1, <2>2, <2>3 DEF Seats
<1>6. Settings'
  <2> SUFFICES ASSUME NEW s \in Request, req'[s].pc \in Carrying
               PROVE  Holds(req'[s], conn'[req'[s].conn])
    BY DEF Settings
  <2>1. CASE s = r
    BY <1>2, <2>1
  <2>2. CASE s # r
    <3>1. req[s].pc \in Carrying /\ req'[s] = req[s]
      BY <1>2, <2>2
    <3>2. req[s].conn # None
      BY <3>1 DEF Tenanted, Seats
    <3>3. conn'[req[s].conn] = conn[req[s].conn]
      BY <2>2, <3>2
    <3> QED
      BY <3>1, <3>3 DEF Tenanted, Settings
  <2> QED
    BY <2>1, <2>2
<1>7. Admitted'
  BY <1>2 DEF Tenanted, Admitted
<1> QED
  BY <1>4, <1>5, <1>6, <1>7 DEF Tenanted

\* The request carries no connection, or carries on without touching it.
LEMMA WithoutConnection ==
    ASSUME Tenanted, NEW r \in Request, NEW q \in RequestState, Admission(q),
           req' = [req EXCEPT ![r] = q],
           req[r].conn = None, q.conn = None, q.pc \notin Carrying,
           UNCHANGED <<time, moves, route, membership, conn>>
    PROVE  Tenanted'
<1>1. conn' \in [Conn -> Session]
  BY DEF Tenanted, TenancyType
<1>2. \A c \in Conn : (\A s \in Request \ {r} : req[s].conn # c) => conn[c] = Clean
  BY TenancyAssumption DEF Tenanted, Seats, Free
<1> QED
  BY <1>1, <1>2, RequestMoves

\* The request changes the connection it carries, and keeps it.
LEMMA OnItsConnection ==
    ASSUME Tenanted, NEW r \in Request, NEW q \in RequestState, Admission(q),
           NEW x \in Session,
           req' = [req EXCEPT ![r] = q],
           conn' = [conn EXCEPT ![req[r].conn] = x],
           req[r].pc \in Carrying, q.conn = req[r].conn, q.pc \in Carrying,
           Holds(q, x),
           UNCHANGED <<time, moves, route, membership>>
    PROVE  Tenanted'
<1>1. PICK c : c = req[r].conn
  OBVIOUS
<1>2. c # None /\ c \in Conn
  BY <1>1 DEF Tenanted, Seats, TenancyType, RequestState
<1>3. conn \in [Conn -> Session]
  BY DEF Tenanted, TenancyType
<1>4. conn' \in [Conn -> Session] /\ conn'[c] = x /\ \A d \in Conn : d # c => conn'[d] = conn[d]
  BY <1>1, <1>2, <1>3
<1>5. \A s \in Request : s # r /\ req[s].conn # None =>
         req[s].conn # c /\ req[s].conn \in Conn
  BY <1>1 DEF Tenanted, Seats, TenancyType, RequestState
<1>6. \A d \in Conn : d # c /\ (\A s \in Request \ {r} : req[s].conn # d) => conn'[d] = Clean
  BY <1>1, <1>4 DEF Tenanted, Seats, Free
<1>7. q.conn = c /\ Holds(q, conn'[q.conn])
  BY <1>1, <1>4
<1>8. \A s \in Request : s # r /\ req[s].conn # None =>
         req[s].conn # q.conn /\ conn'[req[s].conn] = conn[req[s].conn]
  BY <1>4, <1>5, <1>7
<1>9. \A d \in Conn : d # q.conn /\ (\A s \in Request \ {r} : req[s].conn # d) => conn'[d] = Clean
  BY <1>6, <1>7
<1> QED
  BY <1>2, <1>4, <1>7, <1>8, <1>9, RequestMoves

\* The request leaves its connection clean.
LEMMA GivenBack ==
    ASSUME Tenanted, NEW r \in Request, NEW q \in RequestState, Admission(q),
           req' = [req EXCEPT ![r] = q],
           conn' = [conn EXCEPT ![req[r].conn] = Clean],
           req[r].conn # None, q.conn = None, q.pc = "done",
           UNCHANGED <<time, moves, route, membership>>
    PROVE  Tenanted'
<1>1. PICK c : c = req[r].conn
  OBVIOUS
<1>2. c # None /\ c \in Conn
  BY <1>1 DEF Tenanted, TenancyType, RequestState
<1>3. conn \in [Conn -> Session]
  BY DEF Tenanted, TenancyType
<1>4. conn' \in [Conn -> Session] /\ conn'[c] = Clean /\ \A d \in Conn : d # c => conn'[d] = conn[d]
  BY <1>1, <1>2, <1>3, CleanSession
<1>5. \A s \in Request : s # r /\ req[s].conn # None =>
         req[s].conn # c /\ req[s].conn \in Conn
  BY <1>1 DEF Tenanted, Seats, TenancyType, RequestState
<1>6. \A d \in Conn : (\A s \in Request \ {r} : req[s].conn # d) => conn'[d] = Clean
  <2> SUFFICES ASSUME NEW d \in Conn, \A s \in Request \ {r} : req[s].conn # d
               PROVE  conn'[d] = Clean
    OBVIOUS
  <2>1. CASE d = c
    BY <2>1, <1>4
  <2>2. CASE d # c
    BY <1>1, <1>4, <2>2 DEF Tenanted, Seats, Free
  <2> QED
    BY <2>1, <2>2
<1>7. q.pc \notin Carrying
  BY DEF Carrying
<1> QED
  BY <1>2, <1>4, <1>5, <1>6, <1>7, RequestMoves
LEMMA ResolvingStays ==
    ASSUME Tenanted, NEW r \in Request, ResolveRoute(r) \/ ResolveMember(r)
    PROVE  Tenanted'
<1>1. req[r] \in RequestState /\ Admission(req[r])
  BY DEF Tenanted, TenancyType, Admitted
<1>2. CASE ResolveRoute(r)
  <2>1. req[r].pc = "away" /\ UNCHANGED <<time, moves, route, membership, conn>>
    BY <1>2 DEF ResolveRoute
  <2>2. PICK s \in Subject, source \in {"oidc", "openwebui"} :
          req' = [req EXCEPT ![r] =
                    [@ EXCEPT !.subject = s, !.source = source,
                       !.routed = IF source = "oidc" THEN route[s] ELSE None,
                       !.offered = {route[s]},
                       !.pc = IF source = "oidc" /\ route[s] = None
                              THEN "refused" ELSE "routed"]]
    BY <1>2 DEF ResolveRoute
  <2>3. PICK to : to = IF source = "oidc" THEN route[s] ELSE None
    OBVIOUS
  <2>4. PICK pc : pc = IF source = "oidc" /\ route[s] = None THEN "refused" ELSE "routed"
    OBVIOUS
  <2>5. PICK by : by = {route[s]}
    OBVIOUS
  <2>6. route[s] \in Tenant \cup {None}
    BY DEF Tenanted, TenancyType
  <2>7. PICK q : q = [req[r] EXCEPT !.subject = s, !.source = source, !.routed = to,
                                    !.offered = by, !.pc = pc]
    OBVIOUS
  <2>8. req' = [req EXCEPT ![r] = q]
    BY <2>2, <2>3, <2>4, <2>5, <2>7
  <2>9. q \in RequestState
    BY <1>1, <2>3, <2>4, <2>5, <2>6, <2>7 DEF RequestState
  <2>10. /\ q.source = source /\ q.routed = to /\ q.offered = by /\ q.pc = pc
         /\ q.tenant = req[r].tenant /\ q.conn = req[r].conn /\ q.saw = req[r].saw
    BY <1>1, <2>7 DEF RequestState
  <2>11. req[r].tenant = None /\ req[r].saw = {}
    BY <1>1, <2>1 DEF Admission
  <2>12. source = "oidc" => to \in by
    BY <2>3, <2>5
  <2>13. pc \in {"refused", "routed"}
    BY <2>4
  <2>14. q.subject = s /\ s # None
    BY <1>1, <2>7, TenancyAssumption DEF RequestState
  <2>16. Admission(q)
    BY <2>10, <2>11, <2>12, <2>13, <2>14 DEF Admission
  <2>15. req[r].conn = None /\ pc \notin Carrying
    BY <2>1, <2>13 DEF Tenanted, Seats, Carrying
  <2> QED
    BY <2>1, <2>8, <2>9, <2>10, <2>15, <2>16, WithoutConnection
<1>3. CASE ResolveMember(r)
  <2>1. req[r].pc = "routed" /\ UNCHANGED <<time, moves, route, membership, conn>>
    BY <1>3 DEF ResolveMember
  <2> DEFINE t == membership[req[r].subject]
  <2>3. PICK u : u = IF t = None \/ (req[r].source = "oidc" /\ t # req[r].routed) THEN None ELSE t
    OBVIOUS
  <2>4. PICK pc : pc = IF t = None \/ (req[r].source = "oidc" /\ t # req[r].routed) THEN "refused" ELSE "bound"
    OBVIOUS
  <2>5. req' = [req EXCEPT ![r].tenant = u, ![r].pc = pc]
    BY <1>3, <2>3, <2>4 DEF ResolveMember
  <2>6. PICK q : q = [req[r] EXCEPT !.tenant = u, !.pc = pc]
    OBVIOUS
  <2>7. req' = [req EXCEPT ![r] = q]
    BY <2>5, <2>6
  <2>8. req[r].subject \in Subject
    BY <1>1, <2>1 DEF RequestState, Admission
  <2>9. t \in Tenant \cup {None}
    BY <2>8 DEF Tenanted, TenancyType
  <2>10. /\ u \in Tenant \cup {None} /\ pc \in {"refused", "bound"}
         /\ pc = "refused" => u = None
         /\ req[r].source = "oidc" /\ u # None => u = req[r].routed
    BY <2>3, <2>4, <2>9
  <2> HIDE DEF t
  <2>11. q \in RequestState
    BY <1>1, <2>6, <2>10 DEF RequestState
  <2>12. /\ q.source = req[r].source /\ q.offered = req[r].offered /\ q.pc = pc
         /\ q.tenant = u /\ q.conn = req[r].conn /\ q.saw = req[r].saw
    BY <1>1, <2>6 DEF RequestState
  <2>13. Admission(q)
    BY <1>1, <2>1, <2>10, <2>12 DEF Admission
  <2>14. req[r].conn = None /\ pc \notin Carrying
    BY <2>1, <2>10 DEF Tenanted, Seats, Carrying
  <2> QED
    BY <2>1, <2>7, <2>11, <2>12, <2>13, <2>14, WithoutConnection
<1> QED
  BY <1>2, <1>3
\* The row of a request that only moves on, and what it carries.
LEMMA RowMovesOn ==
    ASSUME NEW o \in RequestState, NEW pc \in {"body", "leave", "cleared"},
           NEW q, q = [o EXCEPT !.pc = pc], Admission(o)
    PROVE  /\ q \in RequestState /\ q.pc = pc
           /\ q.conn = o.conn /\ q.tenant = o.tenant /\ Admission(q)
<1>1. q \in RequestState
  BY DEF RequestState
<1>2. /\ q.pc = pc /\ q.source = o.source /\ q.offered = o.offered
      /\ q.tenant = o.tenant /\ q.conn = o.conn /\ q.saw = o.saw
  BY DEF RequestState
<1> QED
  BY <1>1, <1>2 DEF Admission

\* What a request knows of the connection it carries.
LEMMA Carried ==
    ASSUME Tenanted, NEW r \in Request, req[r].pc \in Carrying
    PROVE  /\ req[r] \in RequestState /\ Admission(req[r])
           /\ req[r].conn \in Conn /\ conn[req[r].conn] \in Session
           /\ Holds(req[r], conn[req[r].conn])
           /\ time \in 1 .. MaxClock
<1>1. req[r] \in RequestState /\ Admission(req[r]) /\ time \in 1 .. MaxClock
  BY DEF Tenanted, TenancyType, Admitted
<1>2. req[r].conn # None
  BY DEF Tenanted, Seats
<1>3. req[r].conn \in Conn
  BY <1>1, <1>2 DEF RequestState
<1> QED
  BY <1>1, <1>3 DEF Tenanted, TenancyType, Settings

LEMMA BindingStays ==
    ASSUME Tenanted, NEW r \in Request, SetTenantContext(r)
    PROVE  Tenanted'
<1>1. req[r].pc = "borrowed" /\ req[r].pc \in Carrying
  BY DEF SetTenantContext, Carrying
<1>2. PICK o : o = req[r]
  OBVIOUS
<1>3. PICK s : s = conn[req[r].conn]
  OBVIOUS
<1>4. /\ o \in RequestState /\ Admission(o) /\ s = Clean /\ s \in Session
      /\ time \in 1 .. MaxClock
  BY <1>1, <1>2, <1>3, Carried, CleanSession DEF Holds
<1>5. o.tenant \in Tenant \cup {None}
  BY <1>4 DEF RequestState
<1>6. PICK q : q = [o EXCEPT !.pc = "body"]
  OBVIOUS
<1>7. /\ q \in RequestState /\ q.pc = "body"
      /\ q.conn = o.conn /\ q.tenant = o.tenant /\ Admission(q)
  BY <1>4, <1>6, RowMovesOn
<1>8. PICK x : x = Bound(s, o.tenant)
  OBVIOUS
<1>9. x \in Session /\ x.now.tenant = o.tenant /\ x.kept = s.kept
  BY <1>4, <1>5, <1>8, SessionIsBound
<1>10. s.kept.tenant = None
  BY <1>4 DEF Clean, Unbound
<1>11. Holds(q, x)
  BY <1>7, <1>9, <1>10 DEF Holds
<1>12. req' = [req EXCEPT ![r] = q] /\ UNCHANGED <<time, moves, route, membership>>
  BY <1>2, <1>6 DEF SetTenantContext
<1>13. conn' = [conn EXCEPT ![req[r].conn] = x]
  BY <1>2, <1>3, <1>8 DEF SetTenantContext
<1>14. q.conn = req[r].conn /\ q.pc \in Carrying
  BY <1>2, <1>7 DEF Carrying
<1> QED
  BY <1>1, <1>7, <1>9, <1>11, <1>12, <1>13, <1>14, OnItsConnection
\* A statement sees the rows of the request's tenant or none.
LEMMA StatementStays ==
    ASSUME Tenanted, NEW r \in Request, Statement(r)
    PROVE  Tenanted'
<1>1. req[r].pc = "body" /\ req[r].pc \in Carrying
  BY DEF Statement, Carrying
<1>2. PICK o : o = req[r]
  OBVIOUS
<1>3. PICK s : s = conn[req[r].conn]
  OBVIOUS
<1>4. /\ o \in RequestState /\ Admission(o) /\ s \in Session /\ Holds(o, s)
      /\ time \in 1 .. MaxClock
  BY <1>1, <1>2, <1>3, Carried
<1>5. PICK x : x = Begun(s)
  OBVIOUS
<1>6. x \in Session /\ x.now = s.now /\ x.kept = s.kept
  BY <1>4, <1>5, SessionBegins
<1>7. PICK seen : seen = {EffectiveTenant(s)} \ {None}
  OBVIOUS
<1>8. {s.kept.tenant, s.now.tenant} \subseteq {None, o.tenant}
  BY <1>1, <1>2, <1>4 DEF Holds
<1>9. EffectiveTenant(s) \in {s.now.tenant, None}
  BY DEF EffectiveTenant
<1>10. seen \subseteq {o.tenant} /\ None \notin seen
  BY <1>7, <1>8, <1>9
<1>11. PICK saw : saw = o.saw \cup seen
  OBVIOUS
<1>12. saw \in SUBSET Tenant
  BY <1>4, <1>10, <1>11 DEF RequestState
<1>13. PICK q : q = [o EXCEPT !.saw = saw]
  OBVIOUS
<1>14. q \in RequestState
  BY <1>4, <1>12, <1>13 DEF RequestState
<1>15. /\ q.pc = o.pc /\ q.conn = o.conn /\ q.tenant = o.tenant /\ q.saw = saw
       /\ q.source = o.source /\ q.offered = o.offered
  BY <1>4, <1>13 DEF RequestState
<1>16. Admission(q)
  BY <1>1, <1>2, <1>4, <1>10, <1>11, <1>15 DEF Admission
<1>17. Holds(q, x)
  BY <1>1, <1>2, <1>6, <1>8, <1>15 DEF Holds
<1>18. req' = [req EXCEPT ![r] = q]
  BY <1>2, <1>3, <1>7, <1>11, <1>13 DEF Statement
<1>19. /\ conn' = [conn EXCEPT ![req[r].conn] = x]
       /\ UNCHANGED <<time, moves, route, membership>>
  BY <1>3, <1>5 DEF Statement
<1>20. q.conn = req[r].conn /\ q.pc \in Carrying
  BY <1>1, <1>2, <1>15
<1> QED
  BY <1>1, <1>6, <1>14, <1>16, <1>17, <1>18, <1>19, <1>20, OnItsConnection

\* Whatever the handler commits or rolls back is its own context or none.
LEMMA TransactionsStay ==
    ASSUME Tenanted, NEW r \in Request, TransactionEnds(r)
    PROVE  Tenanted'
<1>1. req[r].pc = "body" /\ req[r].pc \in Carrying
  BY DEF TransactionEnds, Carrying
<1>2. PICK s : s = conn[req[r].conn]
  OBVIOUS
<1>3. /\ req[r] \in RequestState /\ Admission(req[r]) /\ s \in Session
      /\ Holds(req[r], s)
  BY <1>1, <1>2, Carried
<1>4. PICK x \in {Committed(s), RolledBack(s)} : conn' = [conn EXCEPT ![req[r].conn] = x]
  BY <1>2 DEF TransactionEnds
<1>5. x \in Session /\ x.kept = x.now /\ x.now \in {s.kept, s.now}
  <2>1. CASE x = Committed(s)
    <3>1. x \in Session /\ x = [kept |-> s.now, now |-> s.now, tx |-> Idle]
      BY <1>3, <2>1, SessionEnds
    <3> QED
      BY <3>1
  <2>2. CASE x = RolledBack(s)
    <3>1. x \in Session /\ x = [kept |-> s.kept, now |-> s.kept, tx |-> Idle]
      BY <1>3, <2>2, SessionEnds
    <3> QED
      BY <3>1
  <2> QED
    BY <1>4, <2>1, <2>2
<1>6. Holds(req[r], x)
  BY <1>1, <1>3, <1>5 DEF Holds
<1>7. req \in [Request -> RequestState]
  BY DEF Tenanted, TenancyType
<1>8. req' = [req EXCEPT ![r] = req[r]] /\ UNCHANGED <<time, moves, route, membership>>
  BY <1>7 DEF TransactionEnds
<1> QED
  BY <1>1, <1>3, <1>4, <1>5, <1>6, <1>8, OnItsConnection

LEMMA LeavingStays ==
    ASSUME Tenanted, NEW r \in Request, LeaveBody(r) \/ ResetSettings(r)
    PROVE  Tenanted'
<1>1. PICK o : o = req[r]
  OBVIOUS
<1>2. PICK s : s = conn[req[r].conn]
  OBVIOUS
<1>3. CASE LeaveBody(r)
  <2>1. req[r].pc = "body" /\ req[r].pc \in Carrying
    BY <1>3 DEF LeaveBody, Carrying
  <2>2. o \in RequestState /\ Admission(o) /\ s \in Session
    BY <2>1, <1>1, <1>2, Carried
  <2>3. PICK q : q = [o EXCEPT !.pc = "leave"]
    OBVIOUS
  <2>4. /\ q \in RequestState /\ q.pc = "leave" /\ q.conn = o.conn /\ Admission(q)
    BY <2>2, <2>3, RowMovesOn
  <2>5. PICK x : x = RolledBack(s)
    OBVIOUS
  <2>6. x \in Session /\ x.tx = Idle
    BY <2>2, <2>5, SessionEnds
  <2>7. Holds(q, x)
    BY <2>4, <2>6 DEF Holds
  <2>8. req' = [req EXCEPT ![r] = q] /\ UNCHANGED <<time, moves, route, membership>>
    BY <1>1, <1>3, <2>3 DEF LeaveBody
  <2>9. conn' = [conn EXCEPT ![req[r].conn] = x]
    BY <1>2, <1>3, <2>5 DEF LeaveBody
  <2>10. q.conn = req[r].conn /\ q.pc \in Carrying
    BY <1>1, <2>4 DEF Carrying
  <2> QED
    BY <2>1, <2>4, <2>6, <2>7, <2>8, <2>9, <2>10, OnItsConnection
<1>4. CASE ResetSettings(r)
  <2>1. req[r].pc = "leave" /\ req[r].pc \in Carrying
    BY <1>4 DEF ResetSettings, Carrying
  <2>2. o \in RequestState /\ Admission(o) /\ s \in Session /\ time \in 1 .. MaxClock
    BY <2>1, <1>1, <1>2, Carried
  <2>3. PICK q : q = [o EXCEPT !.pc = "cleared"]
    OBVIOUS
  <2>4. /\ q \in RequestState /\ q.pc = "cleared" /\ q.conn = o.conn /\ Admission(q)
    BY <2>2, <2>3, RowMovesOn
  <2>5. PICK x : x = Reset(s)
    OBVIOUS
  <2>6. x \in Session /\ x.now = Unbound
    BY <2>2, <2>5, SessionIsReset
  <2>7. Holds(q, x)
    BY <2>4, <2>6 DEF Holds
  <2>8. req' = [req EXCEPT ![r] = q] /\ UNCHANGED <<time, moves, route, membership>>
    BY <1>1, <1>4, <2>3 DEF ResetSettings
  <2>9. conn' = [conn EXCEPT ![req[r].conn] = x]
    BY <1>2, <1>4, <2>5 DEF ResetSettings
  <2>10. q.conn = req[r].conn /\ q.pc \in Carrying
    BY <1>1, <2>4 DEF Carrying
  <2> QED
    BY <2>1, <2>4, <2>6, <2>7, <2>8, <2>9, <2>10, OnItsConnection
<1> QED
  BY <1>3, <1>4

LEMMA GivingBackStays ==
    ASSUME Tenanted, NEW r \in Request, GiveBack(r) \/ ConnectionLost(r)
    PROVE  Tenanted'
<1>1. req[r].conn # None /\ req[r].pc \in Carrying
  BY DEF GiveBack, ConnectionLost, Tenanted, Seats, Carrying
<1>2. PICK o : o = req[r]
  OBVIOUS
<1>3. o \in RequestState /\ Admission(o)
  BY <1>1, <1>2, Carried
<1>4. PICK q : q = [o EXCEPT !.pc = "done", !.conn = None]
  OBVIOUS
<1>5. q \in RequestState
  BY <1>3, <1>4 DEF RequestState
<1>6. /\ q.pc = "done" /\ q.conn = None /\ q.source = o.source
      /\ q.offered = o.offered /\ q.tenant = o.tenant /\ q.saw = o.saw
  BY <1>3, <1>4 DEF RequestState
<1>7. Admission(q)
  BY <1>3, <1>6 DEF Admission
<1>8. req' = [req EXCEPT ![r] = q] /\ UNCHANGED <<time, moves, route, membership>>
  BY <1>2, <1>4 DEF GiveBack, ConnectionLost
<1>9. conn' = [conn EXCEPT ![req[r].conn] = Clean]
  <2>1. CASE GiveBack(r)
    <3>1. PICK s : s = conn[req[r].conn]
      OBVIOUS
    <3>2. s \in Session /\ s.now = Unbound
      BY <1>1, <2>1, <3>1, Carried DEF GiveBack, Holds
    <3>3. Committed(s) = Clean
      BY <3>2, SessionEnds DEF Clean
    <3>4. conn' = [conn EXCEPT ![req[r].conn] = Committed(s)]
      BY <2>1, <3>1 DEF GiveBack
    <3> QED
      BY <3>3, <3>4
  <2>2. CASE ConnectionLost(r)
    BY <2>2 DEF ConnectionLost
  <2> QED
    BY <2>1, <2>2
<1> QED
  BY <1>1, <1>5, <1>6, <1>7, <1>8, <1>9, GivenBack
LEMMA BorrowingStays ==
    ASSUME Tenanted, NEW r \in Request, Borrow(r)
    PROVE  Tenanted'
<1>1. PICK c \in Conn : Free(c) /\ req' = [req EXCEPT ![r].conn = c, ![r].pc = "borrowed"]
  BY DEF Borrow
<1>2. req[r].pc = "bound" /\ UNCHANGED <<time, moves, route, membership, conn>>
  BY DEF Borrow
<1>3. PICK o : o = req[r]
  OBVIOUS
<1>4. o \in RequestState /\ Admission(o)
  BY <1>3 DEF Tenanted, TenancyType, Admitted
<1>5. PICK q : q = [o EXCEPT !.conn = c, !.pc = "borrowed"]
  OBVIOUS
<1>6. q \in RequestState
  BY <1>4, <1>5 DEF RequestState
<1>7. /\ q.pc = "borrowed" /\ q.conn = c /\ q.source = o.source
      /\ q.offered = o.offered /\ q.tenant = o.tenant /\ q.saw = o.saw
  BY <1>4, <1>5 DEF RequestState
<1>8. Admission(q)
  BY <1>4, <1>7 DEF Admission
<1>9. req' = [req EXCEPT ![r] = q]
  BY <1>1, <1>3, <1>5
<1>10. conn' \in [Conn -> Session]
  BY <1>2 DEF Tenanted, TenancyType
<1>11. q.conn # None /\ q.pc \in Carrying
  BY <1>7, TenancyAssumption DEF Carrying
<1>12. conn'[c] = Clean
  BY <1>1, <1>2 DEF Tenanted, Seats
<1>13. Holds(q, conn'[q.conn])
  BY <1>7, <1>12 DEF Holds
<1>14. \A s \in Request : s # r /\ req[s].conn # None =>
          req[s].conn # q.conn /\ conn'[req[s].conn] = conn[req[s].conn]
  BY <1>1, <1>2, <1>7 DEF Free
<1>15. \A d \in Conn : d # q.conn /\ (\A s \in Request \ {r} : req[s].conn # d) =>
          conn'[d] = Clean
  <2>1. req[r].conn = None
    BY <1>2 DEF Tenanted, Seats, Carrying
  <2> QED
    BY <1>2, <2>1, TenancyAssumption DEF Tenanted, Seats, Free
<1> QED
  BY <1>2, <1>6, <1>8, <1>9, <1>10, <1>11, <1>13, <1>14, <1>15, RequestMoves

\* A route that moves is one more offer to whoever is under way.
LEMMA RoutingStays ==
    ASSUME Tenanted, NEW s \in Subject, RouteMoves(s)
    PROVE  Tenanted'
<1>1. PICK t \in Tenant \cup {None} : route' = [route EXCEPT ![s] = t] /\ req' = Noticed(s, t)
  BY DEF RouteMoves
<1>2. moves < MaxMove /\ moves' = moves + 1 /\ UNCHANGED <<time, membership, conn>>
  BY DEF RouteMoves
<1>3. \A r \in Request :
        /\ req'[r] \in RequestState
        /\ Admission(req'[r])
        /\ req'[r].pc = req[r].pc /\ req'[r].conn = req[r].conn
        /\ req'[r].tenant = req[r].tenant
  <2> SUFFICES ASSUME NEW r \in Request
               PROVE  /\ req'[r] \in RequestState
                      /\ Admission(req'[r])
                      /\ req'[r].pc = req[r].pc /\ req'[r].conn = req[r].conn
                      /\ req'[r].tenant = req[r].tenant
    OBVIOUS
  <2>1. PICK o : o = req[r]
    OBVIOUS
  <2>2. o \in RequestState /\ Admission(o)
    BY <2>1 DEF Tenanted, TenancyType, Admitted
  <2>3. PICK by : by = o.offered \cup {t}
    OBVIOUS
  <2>4. PICK q : q = [o EXCEPT !.offered = by]
    OBVIOUS
  <2>5. q \in RequestState
    BY <2>2, <2>3, <2>4 DEF RequestState
  <2>6. /\ q.offered = by /\ q.pc = o.pc /\ q.conn = o.conn /\ q.tenant = o.tenant
        /\ q.saw = o.saw /\ q.source = o.source /\ q.routed = o.routed
        /\ q.subject = o.subject
    BY <2>2, <2>4 DEF RequestState
  <2>7. Admission(q)
    BY <2>2, <2>3, <2>6 DEF Admission
  <2>8. req'[r] = q \/ req'[r] = o
    BY <1>1, <2>1, <2>3, <2>4 DEF Noticed
  <2> QED
    BY <2>1, <2>2, <2>5, <2>6, <2>7, <2>8
<1>4. req' \in [Request -> RequestState]
  BY <1>1, <1>3 DEF Noticed
<1>5. route' \in [Subject -> Tenant \cup {None}]
  BY <1>1 DEF Tenanted, TenancyType
<1>6. moves' \in 0 .. MaxMove
  BY <1>2, TenancyAssumption DEF Tenanted, TenancyType
<1>7. TenancyType'
  BY <1>2, <1>4, <1>5, <1>6 DEF Tenanted, TenancyType
<1>8. Seats'
  BY <1>2, <1>3 DEF Tenanted, Seats, Free
<1>9. Settings'
  BY <1>2, <1>3 DEF Tenanted, Settings, Holds
<1>10. Admitted'
  BY <1>3 DEF Admitted
<1> QED
  BY <1>7, <1>8, <1>9, <1>10 DEF Tenanted

\* What changes neither a request nor a connection.
LEMMA RestStays ==
    ASSUME Tenanted, TimePasses \/ (\E s \in Subject : MemberMoves(s)) \/ UNCHANGED tenancy
    PROVE  Tenanted'
<1>1. UNCHANGED <<conn, req>>
  BY DEF TimePasses, MemberMoves, tenancy
<1>2. TenancyType'
  BY <1>1, TenancyAssumption DEF Tenanted, TenancyType, TimePasses, MemberMoves, tenancy
<1>3. Seats'
  BY <1>1 DEF Tenanted, Seats, Free
<1>4. Settings'
  BY <1>1 DEF Tenanted, Settings
<1>5. Admitted'
  BY <1>1 DEF Tenanted, Admitted
<1> QED
  BY <1>2, <1>3, <1>4, <1>5 DEF Tenanted

LEMMA TenantedAtFirst == TenancyInit => Tenanted
<1> SUFFICES ASSUME TenancyInit PROVE Tenanted
  OBVIOUS
<1>1. NoRequest \in RequestState /\ NoRequest.pc = "away" /\ NoRequest.conn = None
  BY DEF NoRequest, RequestState
<1>2. Admission(NoRequest)
  BY DEF NoRequest, Admission
<1>3. TenancyType
  BY <1>1, CleanSession, TenancyAssumption DEF TenancyInit, TenancyType
<1>4. Seats
  BY <1>1, TenancyAssumption DEF TenancyInit, Seats, Carrying
<1>5. Settings
  BY <1>1 DEF TenancyInit, Settings, Carrying
<1>6. Admitted
  BY <1>2 DEF TenancyInit, Admitted
<1> QED
  BY <1>3, <1>4, <1>5, <1>6 DEF Tenanted

\* In every state a connection is with the one request that carries it or is
\* clean, and what it holds is that request's tenant or none.
THEOREM TenantedAlways == TenancySpec => []Tenanted
<1>1. TenancyInit => Tenanted
  BY TenantedAtFirst
<1>2. Tenanted /\ [TenancyNext]_tenancy => Tenanted'
  <2> SUFFICES ASSUME Tenanted, [TenancyNext]_tenancy PROVE Tenanted'
    OBVIOUS
  <2>1. ASSUME NEW s \in Subject, RouteMoves(s) PROVE Tenanted'
    BY <2>1, RoutingStays
  <2>2. ASSUME NEW r \in Request, ResolveRoute(r) \/ ResolveMember(r) PROVE Tenanted'
    BY <2>2, ResolvingStays
  <2>3. ASSUME NEW r \in Request, Borrow(r) PROVE Tenanted'
    BY <2>3, BorrowingStays
  <2>4. ASSUME NEW r \in Request, SetTenantContext(r) PROVE Tenanted'
    BY <2>4, BindingStays
  <2>5. ASSUME NEW r \in Request, Statement(r) PROVE Tenanted'
    BY <2>5, StatementStays
  <2>6. ASSUME NEW r \in Request, TransactionEnds(r) PROVE Tenanted'
    BY <2>6, TransactionsStay
  <2>7. ASSUME NEW r \in Request, LeaveBody(r) \/ ResetSettings(r) PROVE Tenanted'
    BY <2>7, LeavingStays
  <2>8. ASSUME NEW r \in Request, GiveBack(r) \/ ConnectionLost(r) PROVE Tenanted'
    BY <2>8, GivingBackStays
  <2> QED
    BY <2>1, <2>2, <2>3, <2>4, <2>5, <2>6, <2>7, <2>8, RestStays DEF TenancyNext
<1> QED
  BY <1>1, <1>2, PTL DEF TenancySpec

\* db.py set_tenant_context and clear_tenant_context, app.py _principal_db_conn:
\* whatever handlers commit and roll back and whoever had the connection before, a
\* request sees rows of its own tenant or none, and a browser's tenant is one that
\* the control plane routed its subject to in the course of the request.
THEOREM RequestsKeepTheirTenant == TenancySpec => []RequestsStayInTheirTenant
<1>1. Tenanted => RequestsStayInTheirTenant
  <2> SUFFICES ASSUME Tenanted PROVE RequestsStayInTheirTenant
    OBVIOUS
  <2>1. RowsOfOneTenant
    BY DEF Tenanted, Seats, Admitted, Admission, RowsOfOneTenant
  <2>2. RoutedToItsTenant
    BY DEF Tenanted, Admitted, Admission, RoutedToItsTenant
  <2> QED
    BY <2>1, <2>2 DEF Tenanted, RequestsStayInTheirTenant
<1> QED
  BY <1>1, TenantedAlways, PTL
-----------------------------------------------------------------------------
(* The login of a session: the proof.                                      *)

LEMMA PartIsSmaller ==
    ASSUME NEW T, IsFiniteSet(T), NEW S \in SUBSET T
    PROVE  IsFiniteSet(S) /\ Cardinality(S) \in Nat /\ Cardinality(S) <= Cardinality(T)
BY FS_Subset, FS_CardinalityType

LEMMA OneMoreAtMost ==
    ASSUME NEW T, IsFiniteSet(T), NEW x, NEW S \in SUBSET (T \cup {x})
    PROVE  Cardinality(S) <= Cardinality(T) + 1
<1>1. IsFiniteSet(T \cup {x}) /\ Cardinality(T \cup {x}) <= Cardinality(T) + 1
  <2>1. IsFiniteSet(T \cup {x}) /\ Cardinality(T) \in Nat
        /\ Cardinality(T \cup {x}) = IF x \in T THEN Cardinality(T) ELSE Cardinality(T) + 1
    BY FS_AddElement, FS_CardinalityType
  <2> QED
    BY <2>1
<1>2. Cardinality(S) <= Cardinality(T \cup {x})
  BY <1>1, PartIsSmaller
<1> QED
  BY <1>1, <1>2, FS_CardinalityType, PartIsSmaller

\* The logins that a store holds are some of those that were begun.
InUse(f, none) == {l \in Login : f[l] # none}

LEMMA StoresAreFinite ==
    ASSUME LoggedIn
    PROVE  /\ IsFiniteSet(InUse(pending, 0)) /\ IsFiniteSet(InUse(session, NoSession))
           /\ Cardinality(InUse(pending, 0)) \in Nat
           /\ Cardinality(InUse(session, NoSession)) \in Nat
<1>1. InUse(pending, 0) \subseteq asked
  BY DEF LoggedIn, OnePlace, InUse
<1>2. InUse(session, NoSession) \subseteq asked
  BY DEF LoggedIn, OnePlace, OpenedFit, InUse
<1>3. IsFiniteSet(asked)
  BY DEF LoggedIn, SessionsTyped
<1> QED
  BY <1>1, <1>2, <1>3, PartIsSmaller

LEMMA PendingStaysBounded ==
    ASSUME LoggedIn, \A l \in Login : pending'[l] # 0 => pending[l] # 0
    PROVE  Size(pending, 0)' <= MaxLogins
<1>1. InUse(pending, 0)' \subseteq InUse(pending, 0)
  BY DEF InUse
<1>2. Size(pending, 0) <= MaxLogins
  BY DEF LoggedIn, StoresAreBounded
<1>3. /\ Size(pending, 0) = Cardinality(InUse(pending, 0))
      /\ Size(pending, 0)' = Cardinality(InUse(pending, 0)')
  BY DEF Size, InUse
<1>4. /\ Cardinality(InUse(pending, 0)') \in Nat
      /\ Cardinality(InUse(pending, 0)') <= Cardinality(InUse(pending, 0))
  BY <1>1, StoresAreFinite, PartIsSmaller
<1> QED
  BY <1>2, <1>3, <1>4, StoresAreFinite, SessionsAssumption

LEMMA SessionStaysBounded ==
    ASSUME LoggedIn, \A l \in Login : session'[l] # NoSession => session[l] # NoSession
    PROVE  Size(session, NoSession)' <= MaxSessions
<1>1. InUse(session, NoSession)' \subseteq InUse(session, NoSession)
  BY DEF InUse, NoSession
<1>2. Size(session, NoSession) <= MaxSessions
  BY DEF LoggedIn, StoresAreBounded
<1>3. /\ Size(session, NoSession) = Cardinality(InUse(session, NoSession))
      /\ Size(session, NoSession)' = Cardinality(InUse(session, NoSession)')
  BY DEF Size, InUse
<1>4. /\ Cardinality(InUse(session, NoSession)') \in Nat
      /\ Cardinality(InUse(session, NoSession)') <= Cardinality(InUse(session, NoSession))
  BY <1>1, StoresAreFinite, PartIsSmaller
<1> QED
  BY <1>2, <1>3, <1>4, StoresAreFinite, SessionsAssumption

\* A purge keeps rows or drops them.
LEMMA Purges ==
    ASSUME LoggedIn, NEW at \in Nat
    PROVE  /\ PurgedLogins(at) \in [Login -> 0 .. MaxHour + LoginTime]
           /\ \A l \in Login : PurgedLogins(at)[l] \in {pending[l], 0}
           /\ PurgedSessions(at) \in [Login -> Opening]
           /\ \A l \in Login : PurgedSessions(at)[l] \in {session[l], NoSession}
<1>1. NoSession \in Opening
  BY DEF NoSession, Opening
<1>2. pending \in [Login -> 0 .. MaxHour + LoginTime] /\ session \in [Login -> Opening]
  BY DEF LoggedIn, SessionsTyped
<1>3. 0 \in 0 .. MaxHour + LoginTime
  BY SessionsAssumption
<1> QED
  BY <1>1, <1>2, <1>3 DEF PurgedLogins, PurgedSessions

LEMMA NoCallIsRow == NoCall \in Row /\ NoCall.pc = "idle"
BY SessionsAssumption DEF NoCall, Row

\* A call goes on with the login it has, or is over.
LEMMA CallMovesOn ==
    ASSUME LoggedIn, NEW c \in Call, NEW r \in Row, calls' = [calls EXCEPT ![c] = r],
           r.pc # "idle" => r.login \in asked,
           r.pc \in {"exchange", "verify", "create"} =>
               Took(c) /\ r.login = calls[c].login,
           r.pc \in {"verify", "create"} => r.token \in Token,
           r.pc = "create" => r.token.nonce = r.login,
           UNCHANGED <<hour, provider, pending, asked, session, opened, ended>>
    PROVE  LoggedIn'
<1>1. calls \in [Call -> Row]
  BY DEF LoggedIn, SessionsTyped
<1>2. calls' \in [Call -> Row] /\ calls'[c] = r
      /\ \A d \in Call : d # c => calls'[d] = calls[d]
  BY <1>1
<1>3. SessionsTyped'
  BY <1>2 DEF LoggedIn, SessionsTyped
<1>4. OnePlace'
  <2>1. \A d \in Call : Took(d)' => Took(d) /\ calls'[d].login = calls[d].login
    BY <1>2 DEF Took
  <2>2. \A d \in Call : calls'[d].pc # "idle" => calls'[d].login \in asked
    BY <1>2 DEF LoggedIn, OnePlace
  <2> QED
    BY <2>1, <2>2 DEF LoggedIn, OnePlace
<1>5. TokensFit'
  BY <1>2 DEF LoggedIn, TokensFit
<1>6. OpenedFit'
  BY DEF LoggedIn, OpenedFit, NoSession
<1>7. StoresAreBounded'
  BY PendingStaysBounded, SessionStaysBounded DEF StoresAreBounded
<1> QED
  BY <1>3, <1>4, <1>5, <1>6, <1>7 DEF LoggedIn
LEMMA CallStays ==
    ASSUME LoggedIn, NEW c \in Call, Callback(c) \/ Exchange(c) \/ Verify(c)
    PROVE  LoggedIn'
<1>1. PICK o : o = calls[c]
  OBVIOUS
<1>2. o \in Row /\ (o.pc # "idle" => o.login \in asked)
  BY <1>1 DEF LoggedIn, SessionsTyped, OnePlace
<1>3. UNCHANGED <<hour, provider, pending, asked, session, opened, ended>>
  BY DEF Callback, Exchange, Verify
<1>4. hour \in 0 .. MaxHour /\ hour \in Nat /\ asked \subseteq Login
  BY SessionsAssumption DEF LoggedIn, SessionsTyped
<1>5. CASE Callback(c)
  <2>1. PICK l \in asked : calls' = [calls EXCEPT ![c] =
                              [@ EXCEPT !.pc = "consume", !.now = hour, !.login = l]]
    BY <1>5 DEF Callback
  <2>2. PICK r : r = [o EXCEPT !.pc = "consume", !.now = hour, !.login = l]
    OBVIOUS
  <2>3. r \in Row /\ r.pc = "consume" /\ r.login = l
    BY <1>2, <1>4, <2>2 DEF Row
  <2>4. calls' = [calls EXCEPT ![c] = r]
    BY <1>1, <2>1, <2>2
  <2> QED
    BY <1>3, <2>3, <2>4, CallMovesOn
<1>6. CASE calls' = CallOver(c)
  <2>1. calls' = [calls EXCEPT ![c] = NoCall]
    BY <1>6 DEF CallOver
  <2> QED
    BY <1>3, <2>1, NoCallIsRow, CallMovesOn
<1>7. CASE Exchange(c) /\ calls' # CallOver(c)
  <2>1. o.pc = "exchange" /\ Took(c)
    BY <1>1, <1>7 DEF Exchange, Took
  <2>2. PICK t \in [nonce : asked, exp : hour .. hour + SessionTime] :
           calls' = [calls EXCEPT ![c].token = t, ![c].pc = "verify"]
    BY <1>7 DEF Exchange
  <2>3. t \in Token
    BY <1>4, <2>2, SessionsAssumption DEF Token, LoggedIn, SessionsTyped
  <2>4. PICK r : r = [o EXCEPT !.token = t, !.pc = "verify"]
    OBVIOUS
  <2>5. r \in Row /\ r.pc = "verify" /\ r.login = o.login /\ r.token = t
    BY <1>2, <2>3, <2>4 DEF Row
  <2>6. calls' = [calls EXCEPT ![c] = r]
    BY <1>1, <2>2, <2>4
  <2> QED
    BY <1>1, <1>2, <1>3, <2>1, <2>3, <2>5, <2>6, CallMovesOn
<1>8. CASE Verify(c) /\ calls' # CallOver(c)
  <2>1. o.pc = "verify" /\ Took(c)
    BY <1>1, <1>8 DEF Verify, Took
  <2>2. o.token.nonce = o.login /\ calls' = [calls EXCEPT ![c].pc = "create"]
    BY <1>1, <1>8 DEF Verify
  <2>3. o.token \in Token
    BY <1>1, <2>1 DEF LoggedIn, TokensFit
  <2>4. PICK r : r = [o EXCEPT !.pc = "create"]
    OBVIOUS
  <2>5. r \in Row /\ r.pc = "create" /\ r.login = o.login /\ r.token = o.token
    BY <1>2, <2>4 DEF Row
  <2>6. calls' = [calls EXCEPT ![c] = r]
    BY <1>1, <2>2, <2>4
  <2>7. /\ r.login \in asked /\ r.login = calls[c].login
        /\ r.token \in Token /\ r.token.nonce = r.login
    BY <1>1, <1>2, <2>1, <2>2, <2>3, <2>5
  <2> QED
    BY <1>3, <2>1, <2>5, <2>6, <2>7, CallMovesOn
<1> QED
  BY <1>5, <1>6, <1>7, <1>8

\* The call that takes a login out is the only one that has it.
LEMMA ConsumingStays ==
    ASSUME LoggedIn, NEW c \in Call, ConsumeLogin(c)
    PROVE  LoggedIn'
<1>1. PICK o : o = calls[c]
  OBVIOUS
<1>2. o.pc = "consume" /\ UNCHANGED <<hour, provider, asked, session, opened, ended>>
  BY <1>1 DEF ConsumeLogin
<1>3. PICK l : l = o.login
  OBVIOUS
<1>4. o \in Row /\ l \in asked /\ l \in Login
  BY <1>1, <1>2, <1>3 DEF LoggedIn, SessionsTyped, OnePlace
<1>5. PICK x : x = [o EXCEPT !.pc = "exchange"]
  OBVIOUS
<1>6. x \in Row /\ x.pc = "exchange" /\ x.login = l
  BY <1>3, <1>4, <1>5 DEF Row
<1>7. PICK r : r = IF pending[l] > o.now THEN x ELSE NoCall
  OBVIOUS
<1>8. calls' = [calls EXCEPT ![c] = r]
  BY <1>1, <1>3, <1>5, <1>7 DEF ConsumeLogin, CallOver
<1>9. r \in Row /\ r.pc \in {"idle", "exchange"}
  BY <1>6, <1>7, NoCallIsRow
<1>10. pending' = [pending EXCEPT ![l] = 0]
  BY <1>1, <1>3 DEF ConsumeLogin
<1>11. /\ pending \in [Login -> 0 .. MaxHour + LoginTime]
       /\ calls \in [Call -> Row]
  BY DEF LoggedIn, SessionsTyped
<1>12. /\ pending' \in [Login -> 0 .. MaxHour + LoginTime]
       /\ pending'[l] = 0
       /\ \A k \in Login : k # l => pending'[k] = pending[k]
  BY <1>4, <1>10, <1>11, SessionsAssumption
<1>13. /\ calls' \in [Call -> Row] /\ calls'[c] = r
       /\ \A d \in Call : d # c => calls'[d] = calls[d]
  BY <1>8, <1>9, <1>11
<1>14. r.pc = "exchange" => r.login = l /\ pending[l] # 0
  <2> SUFFICES ASSUME r.pc = "exchange" PROVE r.login = l /\ pending[l] # 0
    OBVIOUS
  <2>1. r = x /\ pending[l] > o.now
    BY <1>7, NoCallIsRow
  <2>2. o.now \in Nat /\ pending[l] \in Nat
    BY <1>4, <1>11, SessionsAssumption DEF Row
  <2> QED
    BY <1>6, <2>1, <2>2
<1>15. SessionsTyped'
  BY <1>2, <1>12, <1>13 DEF LoggedIn, SessionsTyped
<1>16. OnePlace'
  <2>1. \A d \in Call : Took(d)' =>
           \/ d # c /\ Took(d) /\ calls'[d] = calls[d]
           \/ d = c /\ calls'[d].login = l /\ pending[l] # 0
    BY <1>9, <1>13, <1>14 DEF Took
  <2>2. \A d \in Call : calls'[d].pc # "idle" => calls'[d].login \in asked
    BY <1>4, <1>9, <1>13, <1>14 DEF LoggedIn, OnePlace
  <2>3. \A d \in Call : Took(d)' => /\ pending'[calls'[d].login] = 0
                                   /\ opened[calls'[d].login] = 0
    <3> SUFFICES ASSUME NEW d \in Call, Took(d)'
                 PROVE  pending'[calls'[d].login] = 0 /\ opened[calls'[d].login] = 0
      OBVIOUS
    <3>1. CASE d = c
      BY <1>4, <1>12, <2>1, <3>1 DEF LoggedIn, OnePlace
    <3>2. CASE d # c
      <4>1. Took(d) /\ calls'[d] = calls[d] /\ calls[d].login \in Login
        BY <2>1, <3>2 DEF LoggedIn, OnePlace, SessionsTyped, Took
      <4> QED
        BY <1>12, <4>1 DEF LoggedIn, OnePlace
    <3> QED
      BY <3>1, <3>2
  <2>4. \A d, e \in Call : Took(d)' /\ Took(e)' /\ calls'[d].login = calls'[e].login => d = e
    <3> SUFFICES ASSUME NEW d \in Call, NEW e \in Call, Took(d)', Took(e)',
                        calls'[d].login = calls'[e].login
                 PROVE  d = e
      OBVIOUS
    <3>1. CASE d # c /\ e # c
      BY <2>1, <3>1 DEF LoggedIn, OnePlace
    <3>2. \A k \in Call : Took(k) => pending[calls[k].login] = 0
      BY DEF LoggedIn, OnePlace
    <3> QED
      BY <2>1, <3>1, <3>2
  <2> QED
    BY <1>2, <1>12, <2>2, <2>3, <2>4 DEF LoggedIn, OnePlace
<1>17. TokensFit'
  BY <1>9, <1>13 DEF LoggedIn, TokensFit
<1>18. OpenedFit'
  BY <1>2 DEF LoggedIn, OpenedFit, NoSession
<1>19. StoresAreBounded'
  BY <1>2, <1>12, PendingStaysBounded, SessionStaysBounded DEF StoresAreBounded
<1> QED
  BY <1>15, <1>16, <1>17, <1>18, <1>19 DEF LoggedIn
\* A session opens for a login that is spent with it.
LEMMA OpeningStays ==
    ASSUME LoggedIn, NEW c \in Call, Create(c)
    PROVE  LoggedIn'
<1>1. PICK o : o = calls[c]
  OBVIOUS
<1>2. PICK l : l = o.login
  OBVIOUS
<1>3. PICK t : t = o.token
  OBVIOUS
<1>4. PICK at : at = o.now
  OBVIOUS
<1>5. PICK ends : ends = Earlier(t.exp, at + SessionTime)
  OBVIOUS
<1>6. o.pc = "create" /\ Took(c) /\ UNCHANGED <<hour, provider, asked, ended>>
  BY <1>1 DEF Create, Took
<1>7. /\ o \in Row /\ l \in asked /\ l \in Login /\ t \in Token /\ t.nonce = l
      /\ pending[l] = 0 /\ opened[l] = 0
  BY <1>1, <1>2, <1>3, <1>6 DEF LoggedIn, SessionsTyped, OnePlace, TokensFit
<1>8. at \in Nat /\ t.exp \in Nat /\ ends \in Nat /\ ends <= t.exp
  BY <1>4, <1>5, <1>7, SessionsAssumption DEF Row, Token, Earlier
<1>9. PICK new : new = [ends |-> ends, exp |-> t.exp, nonce |-> t.nonce]
  OBVIOUS
<1>10. new \in Opening /\ new.nonce = l /\ new.ends <= new.exp
  BY <1>7, <1>8, <1>9 DEF Opening
<1>11. pending' = PurgedLogins(at) /\ calls' = [calls EXCEPT ![c] = NoCall]
  BY <1>1, <1>4 DEF Create, CallOver
<1>12. \/ UNCHANGED <<session, opened>>
       \/ /\ Size(PurgedSessions(at), NoSession) < MaxSessions
          /\ session' = [PurgedSessions(at) EXCEPT ![l] = new]
          /\ opened' = [opened EXCEPT ![l] = @ + 1]
  <2>1. CASE t.exp <= at \/ Size(PurgedSessions(at), NoSession) >= MaxSessions
    BY <1>1, <1>3, <1>4, <2>1 DEF Create
  <2>2. CASE ~(t.exp <= at \/ Size(PurgedSessions(at), NoSession) >= MaxSessions)
    <3>1. /\ session' = [PurgedSessions(at) EXCEPT ![l] = new]
          /\ opened' = [opened EXCEPT ![l] = @ + 1]
      BY <1>1, <1>2, <1>3, <1>4, <1>5, <1>9, <2>2 DEF Create
    <3>2. Size(PurgedSessions(at), NoSession) \in Nat
      <4>1. InUse(PurgedSessions(at), NoSession) \subseteq InUse(session, NoSession)
        BY <1>8, Purges DEF InUse
      <4>2. Cardinality(InUse(PurgedSessions(at), NoSession)) \in Nat
        BY <4>1, StoresAreFinite, PartIsSmaller
      <4> QED
        BY <4>2 DEF Size, InUse
    <3> QED
      BY <2>2, <3>1, <3>2, SessionsAssumption
  <2> QED
    BY <2>1, <2>2
<1>13. /\ pending' \in [Login -> 0 .. MaxHour + LoginTime]
       /\ \A k \in Login : pending'[k] \in {pending[k], 0}
  BY <1>8, <1>11, Purges
<1>14. calls \in [Call -> Row] /\ session \in [Login -> Opening] /\ opened \in [Login -> {0, 1}]
  BY DEF LoggedIn, SessionsTyped
<1>15. /\ calls' \in [Call -> Row] /\ calls'[c].pc = "idle"
       /\ \A d \in Call : d # c => calls'[d] = calls[d]
  BY <1>11, <1>14, NoCallIsRow
<1>16. /\ session' \in [Login -> Opening] /\ opened' \in [Login -> {0, 1}]
       /\ \A k \in Login : k # l =>
             opened'[k] = opened[k] /\ session'[k] \in {session[k], NoSession}
       /\ \/ session'[l] = session[l] /\ opened'[l] = opened[l]
          \/ session'[l] = new /\ opened'[l] = 1
  <2>1. CASE UNCHANGED <<session, opened>>
    BY <1>14, <2>1
  <2>2. CASE /\ session' = [PurgedSessions(at) EXCEPT ![l] = new]
             /\ opened' = [opened EXCEPT ![l] = @ + 1]
    <3>1. PICK f : f = PurgedSessions(at)
      OBVIOUS
    <3>2. f \in [Login -> Opening] /\ \A k \in Login : f[k] \in {session[k], NoSession}
      BY <1>8, <3>1, Purges
    <3>3. session' = [f EXCEPT ![l] = new]
      BY <2>2, <3>1
    <3>4. /\ session' \in [Login -> Opening] /\ session'[l] = new
          /\ \A k \in Login : k # l => session'[k] = f[k]
      BY <1>7, <1>10, <3>2, <3>3
    <3>5. /\ opened' \in [Login -> {0, 1}] /\ opened'[l] = 1
          /\ \A k \in Login : k # l => opened'[k] = opened[k]
      BY <1>7, <1>14, <2>2
    <3> QED
      BY <3>2, <3>4, <3>5
  <2> QED
    BY <1>12, <2>1, <2>2
<1>17. SessionsTyped'
  BY <1>6, <1>13, <1>15, <1>16 DEF LoggedIn, SessionsTyped
<1>18. OnePlace'
  <2>1. \A d \in Call : Took(d)' => d # c /\ Took(d) /\ calls'[d] = calls[d]
    BY <1>15 DEF Took
  <2>2. \A d \in Call : calls'[d].pc # "idle" => calls'[d].login \in asked
    BY <1>15 DEF LoggedIn, OnePlace
  <2>3. \A d \in Call : Took(d)' => /\ pending'[calls'[d].login] = 0
                                   /\ opened'[calls'[d].login] = 0
    <3> SUFFICES ASSUME NEW d \in Call, Took(d)'
                 PROVE  pending'[calls'[d].login] = 0 /\ opened'[calls'[d].login] = 0
      OBVIOUS
    <3>1. d # c /\ Took(d) /\ calls'[d] = calls[d]
      BY <2>1
    <3>2. calls[d].login \in Login /\ calls[d].login # l
      BY <1>1, <1>2, <1>6, <3>1 DEF LoggedIn, OnePlace, SessionsTyped, Took
    <3>3. pending[calls[d].login] = 0 /\ opened[calls[d].login] = 0
      BY <3>1 DEF LoggedIn, OnePlace
    <3> QED
      BY <1>13, <1>16, <3>1, <3>2, <3>3
  <2>4. \A d, e \in Call : Took(d)' /\ Took(e)' /\ calls'[d].login = calls'[e].login => d = e
    BY <2>1 DEF LoggedIn, OnePlace
  <2>5. \A k \in Login : pending'[k] # 0 => k \in asked /\ opened'[k] = 0
    BY <1>7, <1>13, <1>16 DEF LoggedIn, OnePlace
  <2>6. \A k \in Login : opened'[k] # 0 => k \in asked
    BY <1>7, <1>16 DEF LoggedIn, OnePlace
  <2> QED
    BY <1>6, <2>2, <2>3, <2>4, <2>5, <2>6 DEF OnePlace
<1>19. TokensFit'
  BY <1>15 DEF LoggedIn, TokensFit
<1>20. OpenedFit'
  <2>1. l \notin ended
    BY <1>7 DEF LoggedIn, OpenedFit
  <2>2. \A k \in Login : session'[k] # NoSession =>
           opened'[k] = 1 /\ session'[k].nonce = k /\ session'[k].ends <= session'[k].exp
    <3> SUFFICES ASSUME NEW k \in Login, session'[k] # NoSession
                 PROVE  opened'[k] = 1 /\ session'[k].nonce = k
                          /\ session'[k].ends <= session'[k].exp
      OBVIOUS
    <3>1. CASE k = l /\ session'[l] = new /\ opened'[l] = 1
      BY <1>10, <3>1
    <3>2. CASE session'[k] = session[k] /\ opened'[k] = opened[k]
      BY <3>2 DEF LoggedIn, OpenedFit
    <3> QED
      BY <1>16, <3>1, <3>2
  <2>3. \A k \in ended : k \in Login /\ opened[k] = 1 /\ session[k] = NoSession
    BY DEF LoggedIn, OpenedFit, SessionsTyped
  <2>4. \A k \in ended : opened'[k] = 1 /\ session'[k] = NoSession
    BY <1>16, <2>1, <2>3
  <2> QED
    BY <1>6, <2>2, <2>4 DEF OpenedFit, NoSession
<1>21. Size(session, NoSession)' <= MaxSessions
  <2>1. CASE UNCHANGED <<session, opened>>
    BY <2>1, SessionStaysBounded
  <2>2. CASE /\ Size(PurgedSessions(at), NoSession) < MaxSessions
             /\ session' = [PurgedSessions(at) EXCEPT ![l] = new]
    <3>1. PICK f : f = PurgedSessions(at)
      OBVIOUS
    <3>2. f \in [Login -> Opening] /\ \A k \in Login : f[k] \in {session[k], NoSession}
      BY <1>8, <3>1, Purges
    <3>3. InUse(f, NoSession) \subseteq InUse(session, NoSession)
      BY <3>2 DEF InUse
    <3>4. IsFiniteSet(InUse(f, NoSession)) /\ Cardinality(InUse(f, NoSession)) \in Nat
      BY <3>3, StoresAreFinite, PartIsSmaller
    <3>5. session' = [f EXCEPT ![l] = new]
      BY <2>2, <3>1
    <3>6. \A k \in Login : k # l => session'[k] = f[k]
      BY <3>2, <3>5
    <3>7. InUse(session, NoSession)' \subseteq InUse(f, NoSession) \cup {l}
      BY <3>6 DEF InUse, NoSession
    <3>8. /\ Cardinality(InUse(session, NoSession)') <= Cardinality(InUse(f, NoSession)) + 1
          /\ Cardinality(InUse(session, NoSession)') \in Nat
      <4>1. IsFiniteSet(InUse(f, NoSession) \cup {l})
        BY <3>4, FS_AddElement
      <4> QED
        BY <3>4, <3>7, <4>1, OneMoreAtMost, PartIsSmaller
    <3>9. /\ Size(session, NoSession)' = Cardinality(InUse(session, NoSession)')
          /\ Size(f, NoSession) = Cardinality(InUse(f, NoSession))
      BY DEF Size, InUse
    <3>10. Size(f, NoSession) < MaxSessions
      BY <2>2, <3>1
    <3> QED
      BY <3>4, <3>8, <3>9, <3>10, SessionsAssumption
  <2> QED
    BY <1>12, <2>1, <2>2
<1>22. StoresAreBounded'
  BY <1>13, <1>21, PendingStaysBounded DEF StoresAreBounded
<1> QED
  BY <1>17, <1>18, <1>19, <1>20, <1>22 DEF LoggedIn
\* A login that is begun was in no place yet.
LEMMA BeginningStays ==
    ASSUME LoggedIn, NEW l \in Login, Begin(l)
    PROVE  LoggedIn'
<1>1. PICK f : f = PurgedLogins(hour)
  OBVIOUS
<1>2. hour \in 1 .. MaxHour /\ hour \in Nat
  BY SessionsAssumption DEF LoggedIn, SessionsTyped
<1>3. f \in [Login -> 0 .. MaxHour + LoginTime] /\ \A k \in Login : f[k] \in {pending[k], 0}
  BY <1>1, <1>2, Purges
<1>4. /\ l \notin asked /\ asked' = asked \cup {l} /\ session' = PurgedSessions(hour)
      /\ UNCHANGED <<hour, provider, calls, opened, ended>>
  BY DEF Begin
<1>5. pending' = [f EXCEPT ![l] = hour + LoginTime]
  BY <1>1 DEF Begin
<1>6. hour + LoginTime \in 0 .. MaxHour + LoginTime
  BY <1>2, SessionsAssumption
<1>7. /\ pending' \in [Login -> 0 .. MaxHour + LoginTime]
      /\ \A k \in Login : k # l => pending'[k] \in {pending[k], 0}
  BY <1>3, <1>5, <1>6
<1>8. /\ session' \in [Login -> Opening]
      /\ \A k \in Login : session'[k] \in {session[k], NoSession}
  BY <1>2, <1>4, Purges
<1>9. IsFiniteSet(asked') /\ asked' \subseteq Login
  BY <1>4, FS_AddElement DEF LoggedIn, SessionsTyped
<1>10. SessionsTyped'
  BY <1>4, <1>7, <1>8, <1>9 DEF LoggedIn, SessionsTyped
<1>11. opened[l] = 0
  BY <1>4 DEF LoggedIn, OnePlace
<1>12. OnePlace'
  <2>1. \A c \in Call : Took(c)' => Took(c)
    BY <1>4 DEF Took
  <2>2. \A c \in Call : calls[c].pc # "idle" => calls[c].login \in asked /\ calls[c].login # l
    BY <1>4 DEF LoggedIn, OnePlace
  <2>3. \A c \in Call : Took(c) => /\ calls[c].login # l /\ calls[c].login \in Login
                                  /\ pending[calls[c].login] = 0
                                  /\ opened[calls[c].login] = 0
    BY <2>2 DEF LoggedIn, OnePlace, SessionsTyped, Took
  <2>4. \A c \in Call : Took(c)' => /\ pending'[calls[c].login] = 0
                                   /\ opened[calls[c].login] = 0
    BY <1>7, <2>1, <2>3
  <2>5. \A k \in Login : pending'[k] # 0 => k \in asked' /\ opened[k] = 0
    BY <1>4, <1>7, <1>11 DEF LoggedIn, OnePlace
  <2>6. \A k \in Login : opened[k] # 0 => k \in asked'
    BY <1>4 DEF LoggedIn, OnePlace
  <2>7. \A c, d \in Call : Took(c)' /\ Took(d)' /\ calls[c].login = calls[d].login => c = d
    BY <2>1 DEF LoggedIn, OnePlace
  <2>8. \A c \in Call : calls[c].pc # "idle" => calls[c].login \in asked'
    BY <1>4, <2>2
  <2> QED
    BY <1>4, <2>4, <2>5, <2>6, <2>7, <2>8 DEF OnePlace
<1>13. TokensFit'
  BY <1>4 DEF LoggedIn, TokensFit
<1>14. OpenedFit'
  <2>1. \A k \in Login : session'[k] # NoSession =>
           opened[k] = 1 /\ session'[k].nonce = k /\ session'[k].ends <= session'[k].exp
    <3> SUFFICES ASSUME NEW k \in Login, session'[k] # NoSession
                 PROVE  opened[k] = 1 /\ session'[k].nonce = k
                          /\ session'[k].ends <= session'[k].exp
      OBVIOUS
    <3>1. session'[k] = session[k]
      BY <1>8
    <3> QED
      BY <3>1 DEF LoggedIn, OpenedFit
  <2>2. \A k \in ended : k \in Login /\ opened[k] = 1 /\ session[k] = NoSession
    BY DEF LoggedIn, OpenedFit, SessionsTyped
  <2>3. \A k \in ended : opened[k] = 1 /\ session'[k] = NoSession
    BY <1>8, <2>2
  <2> QED
    BY <1>4, <2>1, <2>3 DEF OpenedFit, NoSession
<1>15. Size(pending, 0)' <= MaxLogins
  <2>1. InUse(f, 0) \subseteq InUse(pending, 0)
    BY <1>3 DEF InUse
  <2>2. IsFiniteSet(InUse(f, 0)) /\ Cardinality(InUse(f, 0)) \in Nat
    BY <2>1, StoresAreFinite, PartIsSmaller
  <2>3. \A k \in Login : k # l => pending'[k] = f[k]
    BY <1>3, <1>5
  <2>4. InUse(pending, 0)' \subseteq InUse(f, 0) \cup {l}
    BY <2>3 DEF InUse
  <2>5. /\ Cardinality(InUse(pending, 0)') <= Cardinality(InUse(f, 0)) + 1
        /\ Cardinality(InUse(pending, 0)') \in Nat
    <3>1. IsFiniteSet(InUse(f, 0) \cup {l})
      BY <2>2, FS_AddElement
    <3> QED
      BY <2>2, <2>4, <3>1, OneMoreAtMost, PartIsSmaller
  <2>6. /\ Size(pending, 0)' = Cardinality(InUse(pending, 0)')
        /\ Size(f, 0) = Cardinality(InUse(f, 0))
    BY DEF Size, InUse
  <2>7. Size(f, 0) < MaxLogins
    BY <1>1 DEF Begin
  <2> QED
    BY <2>2, <2>5, <2>6, <2>7, SessionsAssumption
<1>16. StoresAreBounded'
  BY <1>8, <1>15, SessionStaysBounded DEF StoresAreBounded
<1> QED
  BY <1>10, <1>12, <1>13, <1>14, <1>16 DEF LoggedIn

\* A session that ends leaves its login spent.
LEMMA EndingStays ==
    ASSUME LoggedIn, NEW l \in Login, Authenticate(l) \/ LogOut(l)
    PROVE  LoggedIn'
<1>1. session' = [session EXCEPT ![l] = NoSession]
  BY DEF Authenticate, LogOut
<1>2. /\ UNCHANGED <<hour, provider, pending, asked, calls, opened>>
      /\ ended' = ended \/ ended' = ended \cup {l}
  BY DEF Authenticate, LogOut
<1>3. NoSession \in Opening /\ session \in [Login -> Opening] /\ ended \subseteq asked
  BY DEF NoSession, Opening, LoggedIn, SessionsTyped
<1>4. /\ session' \in [Login -> Opening] /\ session'[l] = NoSession
      /\ \A k \in Login : k # l => session'[k] = session[k]
  BY <1>1, <1>3
<1>5. session[l] # NoSession
  <2>1. CASE Authenticate(l)
    BY <2>1 DEF Authenticate
  <2>2. CASE LogOut(l)
    <3>1. session[l].ends > hour /\ hour \in Nat
      BY <2>2, SessionsAssumption DEF LogOut, LoggedIn, SessionsTyped
    <3>2. NoSession.ends = 0
      BY DEF NoSession
    <3> QED
      BY <3>1, <3>2
  <2> QED
    BY <2>1, <2>2
<1>6. opened[l] = 1 /\ l \in asked
  BY <1>5 DEF LoggedIn, OpenedFit, OnePlace
<1>7. SessionsTyped'
  BY <1>2, <1>3, <1>4, <1>6 DEF LoggedIn, SessionsTyped
<1>8. OnePlace'
  BY <1>2 DEF LoggedIn, OnePlace, Took
<1>9. TokensFit'
  BY <1>2 DEF LoggedIn, TokensFit
<1>10. OpenedFit'
  <2>1. \A k \in Login : session'[k] # NoSession =>
           opened[k] = 1 /\ session'[k].nonce = k /\ session'[k].ends <= session'[k].exp
    <3> SUFFICES ASSUME NEW k \in Login, session'[k] # NoSession
                 PROVE  opened[k] = 1 /\ session'[k].nonce = k
                          /\ session'[k].ends <= session'[k].exp
      OBVIOUS
    <3>1. session'[k] = session[k]
      BY <1>4
    <3> QED
      BY <3>1 DEF LoggedIn, OpenedFit
  <2>2. \A k \in ended : k \in Login /\ opened[k] = 1 /\ session[k] = NoSession
    BY DEF LoggedIn, OpenedFit, SessionsTyped
  <2>3. \A k \in ended' : opened[k] = 1 /\ session'[k] = NoSession
    BY <1>2, <1>4, <1>6, <2>2
  <2> QED
    BY <1>2, <2>1, <2>3 DEF OpenedFit, NoSession
<1>11. StoresAreBounded'
  BY <1>2, <1>4, PendingStaysBounded, SessionStaysBounded DEF StoresAreBounded
<1> QED
  BY <1>7, <1>8, <1>9, <1>10, <1>11 DEF LoggedIn

\* Only time, or what is known of the provider, moves.
LEMMA LoginsRest ==
    ASSUME LoggedIn, Discover \/ HourPasses \/ UNCHANGED sessions
    PROVE  LoggedIn'
<1>1. UNCHANGED <<pending, asked, calls, session, opened, ended>>
  BY DEF Discover, HourPasses, sessions
<1>2. hour' \in 1 .. MaxHour /\ provider' \in {"unknown", "document", "verifier"}
  BY SessionsAssumption DEF LoggedIn, SessionsTyped, Discover, HourPasses, sessions
<1>3. SessionsTyped'
  BY <1>1, <1>2 DEF LoggedIn, SessionsTyped
<1>4. OnePlace' /\ TokensFit'
  BY <1>1 DEF LoggedIn, OnePlace, TokensFit, Took
<1>5. OpenedFit'
  BY <1>1 DEF LoggedIn, OpenedFit, NoSession
<1>6. StoresAreBounded'
  BY <1>1, PendingStaysBounded, SessionStaysBounded DEF StoresAreBounded
<1> QED
  BY <1>3, <1>4, <1>5, <1>6 DEF LoggedIn

LEMMA LoggedInAtFirst == SessionsInit => LoggedIn
<1> SUFFICES ASSUME SessionsInit PROVE LoggedIn
  OBVIOUS
<1>1. NoSession \in Opening
  BY DEF NoSession, Opening
<1>2. SessionsTyped
  BY <1>1, NoCallIsRow, FS_EmptySet, SessionsAssumption DEF SessionsInit, SessionsTyped
<1>3. OnePlace /\ TokensFit
  BY NoCallIsRow DEF SessionsInit, OnePlace, TokensFit, Took
<1>4. OpenedFit
  BY DEF SessionsInit, OpenedFit
<1>5. InUse(pending, 0) = {} /\ InUse(session, NoSession) = {}
  BY DEF SessionsInit, InUse
<1>6. Size(pending, 0) = 0 /\ Size(session, NoSession) = 0
  BY <1>5, FS_EmptySet DEF Size, InUse
<1>7. StoresAreBounded
  BY <1>6, SessionsAssumption DEF StoresAreBounded
<1> QED
  BY <1>2, <1>3, <1>4, <1>7 DEF LoggedIn

\* In every state a login is in one place at most: in the store, with the one
\* call that took it out, or spent on the session it opened.
THEOREM LoggedInAlways == SessionsSpec => []LoggedIn
<1>1. SessionsInit => LoggedIn
  BY LoggedInAtFirst
<1>2. LoggedIn /\ [SessionsNext]_sessions => LoggedIn'
  <2> SUFFICES ASSUME LoggedIn, [SessionsNext]_sessions PROVE LoggedIn'
    OBVIOUS
  <2>1. ASSUME NEW l \in Login, Begin(l) PROVE LoggedIn'
    BY <2>1, BeginningStays
  <2>2. ASSUME NEW l \in Login, Authenticate(l) \/ LogOut(l) PROVE LoggedIn'
    BY <2>2, EndingStays
  <2>3. ASSUME NEW c \in Call, Callback(c) \/ Exchange(c) \/ Verify(c) PROVE LoggedIn'
    BY <2>3, CallStays
  <2>4. ASSUME NEW c \in Call, ConsumeLogin(c) PROVE LoggedIn'
    BY <2>4, ConsumingStays
  <2>5. ASSUME NEW c \in Call, Create(c) PROVE LoggedIn'
    BY <2>5, OpeningStays
  <2> QED
    BY <2>1, <2>2, <2>3, <2>4, <2>5, LoginsRest DEF SessionsNext
<1> QED
  BY <1>1, <1>2, PTL DEF SessionsSpec

\* oidc_session.py SessionStore: whatever callbacks compete for a login it opens
\* one session at most, for the identity that answered its own nonce and no
\* longer than that identity stands; a session that was logged out stays closed,
\* and neither store outgrows its limit.
THEOREM LoginsOpenOneSession == SessionsSpec => []SessionsKeepTheirLogin
<1>1. LoggedIn => SessionsKeepTheirLogin
  <2> SUFFICES ASSUME LoggedIn PROVE SessionsKeepTheirLogin
    OBVIOUS
  <2>1. SessionsType
    BY DEF LoggedIn, SessionsTyped, SessionsType, Row
  <2>2. \A l \in Login : opened[l] <= 1
    BY DEF LoggedIn, SessionsTyped
  <2>3. LoginOpensOneSession
    BY <2>2 DEF LoggedIn, OpenedFit, LoginOpensOneSession
  <2> QED
    BY <2>1, <2>3 DEF LoggedIn, SessionsKeepTheirLogin
<1> QED
  BY <1>1, LoggedInAlways, PTL
-----------------------------------------------------------------------------
(* The credentials of an account: the proof.                               *)

LEMMA ClocksAgree ==
    ASSUME skew \in Skews
    PROVE  skew \in Int /\ -Tolerance <= skew /\ skew <= Tolerance
BY ConstantsAssumption

LEMMA ProofRows ==
    ASSUME Accounted
    PROVE  /\ clock \in Int /\ skew \in Int /\ Life \in Int
           /\ \A x \in Proofs : /\ proof[x] \in ProofRow /\ proof[x].issued \in Int
                                /\ proof[x].by \in Member
                                /\ proof[x].minted \in Nat /\ proof[x].used \in Nat
<1>1. clock \in Int /\ skew \in Int /\ Life \in Int
  BY ClocksAgree, ConstantsAssumption DEF Accounted, DataTyped
<1>2. \A x \in Proofs : proof[x] \in ProofRow
  BY DEF Accounted, DataTyped, Proofs
<1>3. \A r \in ProofRow : /\ r.issued \in Int /\ r.by \in Member
                          /\ r.minted \in Nat /\ r.used \in Nat
  BY ConstantsAssumption DEF ProofRow
<1> QED
  BY <1>1, <1>2, <1>3

\* A statement has begun when it commits.
LEMMA StampsHavePassed ==
    ASSUME Accounted, NEW t \in Nat, NEW stamp \in StampsSince(t)
    PROVE  stamp \in Int /\ now \in Int /\ stamp <= now
<1>1. clock \in Int /\ skew \in Int
  BY ProofRows
<1>2. PICK began \in t .. clock : stamp = began + skew
  BY DEF StampsSince
<1> QED
  BY <1>1, <1>2 DEF now

\* What stands as long as the control plane's rows do.
LEMMA ControlRests ==
    ASSUME Accounted, UNCHANGED <<control, proof>>
    PROVE  ControlTyped' /\ Ladders' /\ Purchases' /\ Decisions'
<1>1. UNCHANGED <<tenant, account, credential, approval, story, nonce, proof>>
  BY DEF control
<1>2. ControlTyped'
  BY <1>1 DEF Accounted, ControlTyped, Proofs
<1>3. Ladders'
  BY <1>1 DEF Accounted, Ladders
<1>4. Purchases'
  BY <1>1 DEF Accounted, Purchases, Approvals
<1>5. Decisions'
  BY <1>1 DEF Accounted, Decisions, Pending, Approvals
<1> QED
  BY <1>2, <1>3, <1>4, <1>5

\* An assertion whose nonce was forgotten had expired by the stamp of whoever
\* forgot it, so that it is used again only when it has expired.
LEMMA ConsumingUsesOnce ==
    ASSUME Accounted, NEW p \in Proofs, NEW stamp \in Int, stamp <= now,
           Consume(p, stamp), UNCHANGED <<clock, skew, data>>
    PROVE  DataTyped' /\ nonce' \subseteq Proofs' /\ Authorised'
<1>1. PICK gone \in SUBSET Prunable(stamp) : p \notin nonce \ gone /\ nonce' = (nonce \ gone) \cup {p}
  BY DEF Consume
<1>2. PICK o : o = proof[p]
  OBVIOUS
<1>3. MaxUse \in Nat /\ proof \in Seq(ProofRow) /\ nonce \subseteq Proofs
  BY ConstantsAssumption DEF Accounted, DataTyped, ControlTyped
<1>4. o \in ProofRow
  BY <1>2, <1>3 DEF Proofs
<1>5. PICK k \in 0 .. MaxUse : k = o.used + 1 /\ k > 0
  <2>1. o.used \in 0 .. MaxUse /\ o.used < MaxUse
    BY <1>2, <1>4 DEF Consume, ProofRow
  <2> QED
    BY <1>3, <2>1
<1>6. PICK q : q = [o EXCEPT !.used = k]
  OBVIOUS
<1>7. proof' = [proof EXCEPT ![p] = q]
  BY <1>2, <1>5, <1>6 DEF Consume
<1>8. /\ q \in ProofRow /\ q.used = k /\ q.issued = o.issued /\ q.by = o.by
  BY <1>4, <1>5, <1>6 DEF ProofRow
<1>9. /\ proof' \in Seq(ProofRow) /\ Len(proof') = Len(proof) /\ proof'[p] = q
      /\ \A x \in Proofs : x # p => proof'[x] = proof[x]
  BY <1>3, <1>7, <1>8 DEF Proofs
<1>10. Proofs' = Proofs
  BY <1>9 DEF Proofs
<1>11. DataTyped'
  BY <1>9 DEF Accounted, DataTyped, data
<1>12. /\ clock \in Int /\ skew \in Int /\ Life \in Int
       /\ \A x \in Proofs : proof[x].issued \in Int
  BY ProofRows
<1>13. Expires(p) \in Int /\ now \in Int
  BY <1>12 DEF Expires, now
<1>14. \A x \in gone : Expires(x) <= stamp
  BY <1>1 DEF Prunable
<1>15. o.used # 0 => Expires(p) <= now
  <2>1. CASE p \in nonce
    <3>1. Expires(p) <= stamp
      BY <1>1, <1>14, <2>1
    <3> QED
      BY <1>13, <3>1
  <2>2. CASE p \notin nonce
    BY <1>2, <2>2 DEF Accounted, Authorised
  <2> QED
    BY <2>1, <2>2
<1>16. nonce' \subseteq Proofs'
  BY <1>1, <1>3, <1>10
<1>17. \A x \in Proofs : /\ proof'[x].issued = proof[x].issued /\ proof'[x].by = proof[x].by
                         /\ Expires(x)' = Expires(x)
  BY <1>2, <1>8, <1>9 DEF Expires
<1>18. Authorised'
  <2> SUFFICES ASSUME NEW x \in Proofs
               PROVE  /\ proof'[x].issued <= clock'
                      /\ member'[proof'[x].by] # "admin" => proof'[x].issued <= lapse'[proof'[x].by]
                      /\ proof'[x].used # 0 => x \in nonce' \/ Expires(x)' <= now'
                      /\ proof'[x].used > 1 => Expires(x)' <= now'
    BY <1>10 DEF Authorised, HasAuthority
  <2>1. /\ proof'[x].issued <= clock'
        /\ member'[proof'[x].by] # "admin" => proof'[x].issued <= lapse'[proof'[x].by]
    <3>1. proof[x].issued <= clock /\ (member[proof[x].by] # "admin" =>
                                        proof[x].issued <= lapse[proof[x].by])
      BY DEF Accounted, Authorised, HasAuthority
    <3> QED
      BY <1>17, <3>1 DEF data
  <2>2. CASE x = p
    <3>1. p \in nonce' /\ now' = now /\ Expires(p)' = Expires(p) /\ proof'[p].used = k
      BY <1>1, <1>8, <1>9, <1>17, <2>2 DEF now
    <3>2. k > 1 => Expires(p) <= now
      <4>1. o.used \in Nat
        BY <1>2, ProofRows
      <4>2. k > 1 => o.used # 0
        BY <1>5, <4>1
      <4> QED
        BY <1>15, <4>2
    <3> QED
      BY <2>1, <2>2, <3>1, <3>2
  <2>3. CASE x # p
    <3>1. proof'[x] = proof[x] /\ now' = now /\ Expires(x)' = Expires(x)
      BY <1>9, <1>17, <2>3 DEF now
    <3>2. x \in nonce => x \in nonce' \/ Expires(x) <= now
      <4>1. Expires(x) \in Int
        BY <1>12 DEF Expires
      <4>2. x \in nonce => x \in nonce' \/ Expires(x) <= stamp
        BY <1>1, <1>14
      <4> QED
        BY <1>13, <4>1, <4>2
    <3>3. /\ proof[x].used # 0 => x \in nonce \/ Expires(x) <= now
          /\ proof[x].used > 1 => Expires(x) <= now
      BY DEF Accounted, Authorised
    <3>4. /\ proof'[x].used # 0 => x \in nonce' \/ Expires(x)' <= now'
          /\ proof'[x].used > 1 => Expires(x)' <= now'
      BY <3>1, <3>2, <3>3
    <3> QED
      BY <2>1, <3>4
  <2> QED
    BY <2>2, <2>3
<1> QED
  BY <1>11, <1>16, <1>18

\* Minting adds one that an administrator of this instant answers for.
LEMMA MintingStays ==
    ASSUME Accounted, NEW m \in Member, MintAny(m)
    PROVE  Accounted'
<1>1. PICK purpose \in Purpose, n \in 0 .. MaxApproval : Mint(m, purpose, n)
  <2>1. CASE Mint(m, "read", 0)
    BY <2>1, ConstantsAssumption DEF Purpose
  <2>2. CASE \E n \in Approvals : Mint(m, approval[n].action, n)
    <3>1. PICK n \in Approvals : Mint(m, approval[n].action, n)
      BY <2>2
    <3>2. approval[n] \in ApprovalRow /\ n \in 0 .. MaxApproval
      BY <3>1, ConstantsAssumption DEF Accounted, ControlTyped, Approvals
    <3>3. approval[n].action \in Purpose
      BY <3>2 DEF ApprovalRow, Purpose
    <3> QED
      BY <3>1, <3>2, <3>3
  <2> QED
    BY <2>1, <2>2 DEF MintAny
<1>0. PICK issued \in 0 .. clock : proof' = Append(proof, Assertion(m, purpose, n, issued))
  BY <1>1 DEF Mint
<1>2. PICK q : q = Assertion(m, purpose, n, issued)
  OBVIOUS
<1>3. /\ proof' = Append(proof, q) /\ HasAuthority(m) /\ Len(proof) < MaxProof
      /\ UNCHANGED <<clock, skew, data, control>>
  BY <1>0, <1>1, <1>2 DEF Mint
<1>4. q \in ProofRow /\ q.by = m /\ q.issued = issued /\ q.used = 0
  <2>1. clock \in 0 .. MaxTime /\ issued \in 0 .. MaxTime
    BY ConstantsAssumption DEF Accounted, DataTyped
  <2> QED
    BY <1>1, <1>2, <2>1, ConstantsAssumption DEF ProofRow, Assertion
<1>5. proof \in Seq(ProofRow)
  BY DEF Accounted, DataTyped
<1>6. /\ proof' \in Seq(ProofRow) /\ Len(proof') = Len(proof) + 1
      /\ proof'[Len(proof) + 1] = q
      /\ \A x \in Proofs : proof'[x] = proof[x]
  BY <1>3, <1>4, <1>5 DEF Proofs
<1>7. DataTyped'
  BY <1>3, <1>5, <1>6, ConstantsAssumption DEF Accounted, DataTyped, data
<1>8. Proofs' = Proofs \cup {Len(proof) + 1}
  BY <1>5, <1>6 DEF Proofs
<1>9. ControlTyped'
  BY <1>3, <1>8 DEF Accounted, ControlTyped, control
<1>10. Ladders' /\ Purchases' /\ Decisions'
  BY <1>3 DEF Accounted, Ladders, Purchases, Decisions, Pending, Approvals, control
<1>11. Authorised'
  <2> SUFFICES ASSUME NEW x \in Proofs'
               PROVE  /\ proof'[x].issued <= clock'
                      /\ member'[proof'[x].by] # "admin" => proof'[x].issued <= lapse'[proof'[x].by]
                      /\ proof'[x].used # 0 => x \in nonce' \/ Expires(x)' <= now'
                      /\ proof'[x].used > 1 => Expires(x)' <= now'
    BY DEF Authorised, HasAuthority
  <2>1. CASE x = Len(proof) + 1
    <3>1. proof'[x] = q /\ clock' = clock /\ clock \in Int
      BY <1>3, <1>6, <2>1 DEF Accounted, DataTyped
    <3>2. member'[m] = "admin"
      BY <1>3 DEF HasAuthority, data
    <3>3. proof'[x].issued <= clock' /\ proof'[x].used = 0 /\ proof'[x].by = m
      BY <1>2, <1>4, <3>1
    <3>4. ~ (proof'[x].used > 1)
      BY <3>3
    <3> QED
      BY <3>2, <3>3, <3>4
  <2>2. CASE x \in Proofs
    <3>1. proof'[x] = proof[x] /\ Expires(x)' = Expires(x) /\ now' = now
      BY <1>3, <1>6, <2>2 DEF Expires, now
    <3>2. /\ proof[x].issued <= clock
          /\ proof[x].used > 1 => Expires(x) <= now
          /\ member[proof[x].by] # "admin" => proof[x].issued <= lapse[proof[x].by]
          /\ proof[x].used # 0 => x \in nonce \/ Expires(x) <= now
      BY <2>2 DEF Accounted, Authorised, HasAuthority
    <3> QED
      BY <1>3, <3>1, <3>2 DEF data, control
  <2> QED
    BY <1>8, <2>1, <2>2
<1> QED
  BY <1>7, <1>9, <1>10, <1>11 DEF Accounted

\* Whoever loses his authority loses it now, after all that was signed for him.
LEMMA ReorganisingStays ==
    ASSUME Accounted, NEW new \in [Member -> Standing], Reorganise(new)
    PROVE  Accounted'
<1>1. /\ member' = new /\ epoch' = epoch + 1 /\ epoch < MaxEpoch
      /\ lapse' = [m \in Member |-> IF HasAuthority(m) /\ ~HasAuthority(m)'
                                     THEN clock ELSE lapse[m]]
      /\ UNCHANGED <<clock, skew, control, proof>>
  BY DEF Reorganise
<1>2. clock \in -1 .. MaxTime /\ lapse \in [Member -> -1 .. MaxTime]
  BY ConstantsAssumption DEF Accounted, DataTyped
<1>3. lapse' \in [Member -> -1 .. MaxTime]
  BY <1>1, <1>2
<1>4. DataTyped'
  BY <1>1, <1>3, ConstantsAssumption DEF Accounted, DataTyped
<1>5. ControlTyped' /\ Ladders' /\ Purchases' /\ Decisions'
  BY <1>1, ControlRests
<1>6. Authorised'
  <2> SUFFICES ASSUME NEW x \in Proofs
               PROVE  /\ proof[x].issued <= clock
                      /\ member'[proof[x].by] # "admin" => proof[x].issued <= lapse'[proof[x].by]
                      /\ proof[x].used > 1 => Expires(x) <= now
                      /\ proof[x].used # 0 => x \in nonce \/ Expires(x) <= now
    BY <1>1 DEF Authorised, Proofs, Expires, now, control, HasAuthority
  <2>1. /\ proof[x].issued <= clock
        /\ member[proof[x].by] # "admin" => proof[x].issued <= lapse[proof[x].by]
        /\ proof[x].used > 1 => Expires(x) <= now
        /\ proof[x].used # 0 => x \in nonce \/ Expires(x) <= now
    BY DEF Accounted, Authorised, HasAuthority
  <2>2. proof[x].by \in Member
    BY ProofRows
  <2>3. member'[proof[x].by] # "admin" => proof[x].issued <= lapse'[proof[x].by]
    BY <1>1, <2>1, <2>2 DEF HasAuthority
  <2> QED
    BY <2>1, <2>3
<1> QED
  BY <1>4, <1>5, <1>6 DEF Accounted

LEMMA TickingStays ==
    ASSUME Accounted, Tick
    PROVE  Accounted'
<1>1. clock < MaxTime /\ clock' = clock + 1 /\ UNCHANGED <<skew, data, control, proof>>
  BY DEF Tick
<1>2. DataTyped'
  BY <1>1, ConstantsAssumption DEF Accounted, DataTyped, data
<1>3. ControlTyped' /\ Ladders' /\ Purchases' /\ Decisions'
  BY <1>1, ControlRests
<1>4. /\ clock \in Int /\ skew \in Int /\ Life \in Int
      /\ \A x \in Proofs : proof[x].issued \in Int
  BY ProofRows
<1>5. now' = now + 1 /\ now \in Int
  BY <1>1, <1>4 DEF now
<1>6. Authorised'
  <2> SUFFICES ASSUME NEW x \in Proofs
               PROVE  /\ proof[x].issued <= clock'
                      /\ ~HasAuthority(proof[x].by) => proof[x].issued <= lapse[proof[x].by]
                      /\ proof[x].used > 1 => Expires(x) <= now'
                      /\ proof[x].used # 0 => x \in nonce \/ Expires(x) <= now'
    BY <1>1 DEF Authorised, Proofs, Expires, control, data, HasAuthority
  <2>1. /\ proof[x].issued <= clock
        /\ ~HasAuthority(proof[x].by) => proof[x].issued <= lapse[proof[x].by]
        /\ proof[x].used > 1 => Expires(x) <= now
        /\ proof[x].used # 0 => x \in nonce \/ Expires(x) <= now
    BY DEF Accounted, Authorised
  <2>2. Expires(x) \in Int
    BY <1>4 DEF Expires
  <2> QED
    BY <1>1, <1>4, <1>5, <2>1, <2>2
<1> QED
  BY <1>2, <1>3, <1>6 DEF Accounted
\* What stands as long as nobody's authority and no assertion changes.
LEMMA AuthorityRests ==
    ASSUME Accounted, UNCHANGED <<clock, skew, data, proof, nonce>>
    PROVE  DataTyped' /\ Authorised' /\ nonce' \subseteq Proofs'
<1>1. UNCHANGED <<clock, skew, member, epoch, lapse, proof, nonce>>
  BY DEF data
<1>2. DataTyped'
  BY <1>1 DEF Accounted, DataTyped
<1>3. Authorised'
  BY <1>1 DEF Accounted, Authorised, Proofs, Expires, now, HasAuthority
<1> QED
  BY <1>1, <1>2, <1>3 DEF Accounted, ControlTyped, Proofs

LEMMA Bounds ==
    /\ MaxRevision \in Nat \ {0} /\ MaxApproval \in Nat \ {0} /\ Window \in Nat
    /\ MaxPolicy \in Nat \ {0}
    /\ \A e \in Ends : e \in Nat
BY ConstantsAssumption

LEMMA ApprovalRows ==
    ASSUME Accounted
    PROVE  /\ Len(approval) \in Nat /\ Len(story) = Len(approval)
           /\ \A n \in Approvals : /\ approval[n] \in ApprovalRow
                                   /\ approval[n].account \in Account
                                   /\ approval[n].expects \in 0 .. MaxRevision
                                   /\ approval[n].ends \in Ends
                                   /\ approval[n].ends \in Int /\ approval[n].expires \in Int
                                   /\ approval[n].action \in {"issue", "rotate"}
           /\ \A a \in Account : /\ account[a] \in AccountRow
                                 /\ account[a].state \in {"none", "active", "revoked"}
                                 /\ account[a].rev \in Nat /\ account[a].ends \in Int
                                 /\ credential[a] \in Seq(CredentialRow)
<1>1. \A n \in Approvals : approval[n] \in ApprovalRow
  BY DEF Accounted, ControlTyped, Approvals
<1>2. \A r \in ApprovalRow : /\ r.account \in Account /\ r.expects \in 0 .. MaxRevision
                             /\ r.ends \in Ends /\ r.ends \in Int /\ r.expires \in Int
                             /\ r.action \in {"issue", "rotate"}
  BY Bounds DEF ApprovalRow
<1>3. \A r \in AccountRow : /\ r.state \in {"none", "active", "revoked"}
                            /\ r.rev \in Nat /\ r.ends \in Int
  BY Bounds DEF AccountRow
<1>4. \A a \in Account : account[a] \in AccountRow /\ credential[a] \in Seq(CredentialRow)
  BY DEF Accounted, ControlTyped
<1>5. Len(approval) \in Nat /\ Len(story) = Len(approval)
  BY DEF Accounted, ControlTyped
<1> QED
  BY <1>1, <1>2, <1>3, <1>4, <1>5

\* Approvals c and events st in which those of ns were decided, all pending.
Decides(ns, how, c, st) ==
    /\ ns \subseteq Approvals /\ how \in {"cancelled", "redeemed"}
    /\ \A n \in ns : approval[n].state = "approved"
    /\ c \in Seq(ApprovalRow) /\ Len(c) = Len(approval)
    /\ \A n \in Approvals :
          /\ c[n].state = IF n \in ns THEN how ELSE approval[n].state
          /\ c[n].account = approval[n].account /\ c[n].action = approval[n].action
          /\ c[n].expects = approval[n].expects
    /\ st \in Seq(Seq(Word)) /\ Len(st) = Len(approval)
    /\ \A n \in Approvals : st[n] = IF n \in ns THEN <<"created", how>> ELSE story[n]

LEMMA Appended ==
    ASSUME NEW S, NEW s \in Seq(S), NEW x \in S, NEW t, t = Append(s, x)
    PROVE  /\ t \in Seq(S) /\ Len(t) = Len(s) + 1
           /\ \A i \in 1 .. Len(s) : t[i] = s[i]
           /\ t[Len(s) + 1] = x
OBVIOUS

LEMMA TwoWords ==
    ASSUME NEW how \in {"cancelled", "redeemed"}
    PROVE  /\ Append(<<"created">>, how) = <<"created", how>>
           /\ <<"created", how>> \in Seq(Word)
<1>1. how \in Word /\ "created" \in Word
  BY DEF Word
<1>2. PICK c \in Word : c = "created"
  BY <1>1
<1>3. PICK s : s = <<c>>
  OBVIOUS
<1>4. s \in Seq(Word) /\ Len(s) = 1 /\ s[1] = c
  BY <1>3
<1>5. PICK t : t = Append(s, how)
  OBVIOUS
<1>6. t \in Seq(Word) /\ Len(t) = 2 /\ t[1] = c /\ t[2] = how
  <2>1. /\ t \in Seq(Word) /\ Len(t) = Len(s) + 1
        /\ \A i \in 1 .. Len(s) : t[i] = s[i]
        /\ t[Len(s) + 1] = how
    BY <1>1, <1>4, <1>5, Appended
  <2> QED
    BY <1>4, <2>1
<1>7. t = <<c, how>> /\ <<c, how>> \in Seq(Word)
  BY <1>1, <1>6
<1> QED
  BY <1>2, <1>3, <1>5, <1>7

LEMMA Telling ==
    ASSUME Accounted, NEW ns \in SUBSET Approvals,
           \A n \in ns : approval[n].state = "approved",
           NEW how \in {"cancelled", "redeemed"},
           NEW st, st = Told(ns, how)
    PROVE  /\ st \in Seq(Seq(Word)) /\ Len(st) = Len(approval)
           /\ \A n \in Approvals : st[n] = IF n \in ns THEN <<"created", how>> ELSE story[n]
<1>1. \A n \in ns : story[n] = <<"created">>
  BY DEF Accounted, Decisions
<1>2. Append(<<"created">>, how) = <<"created", how>> /\ <<"created", how>> \in Seq(Word)
  BY TwoWords
<1>3. \A n \in Approvals : st[n] = IF n \in ns THEN <<"created", how>> ELSE story[n]
  BY <1>1, <1>2 DEF Told
<1>4. \A n \in Approvals : st[n] \in Seq(Word)
  <2>1. \A n \in Approvals : story[n] \in Seq(Word)
    BY DEF Approvals, Accounted, ControlTyped
  <2> QED
    BY <1>2, <1>3, <2>1
<1>5. st \in [1 .. Len(approval) -> Seq(Word)]
  BY <1>4 DEF Told, Approvals
<1>6. st \in Seq(Seq(Word)) /\ Len(st) = Len(approval)
  BY <1>5, ApprovalRows
<1> QED
  BY <1>3, <1>6

LEMMA Cancelling ==
    ASSUME Accounted, NEW ns \in SUBSET Approvals,
           \A n \in ns : approval[n].state = "approved"
    PROVE  Decides(ns, "cancelled", Cancelled(ns), Told(ns, "cancelled"))
<1>1. PICK c : c = Cancelled(ns)
  OBVIOUS
<1>2. \A n \in Approvals :
          /\ c[n] \in ApprovalRow
          /\ c[n].state = IF n \in ns THEN "cancelled" ELSE approval[n].state
          /\ c[n].account = approval[n].account /\ c[n].action = approval[n].action
          /\ c[n].expects = approval[n].expects
  <2> SUFFICES ASSUME NEW n \in Approvals
               PROVE  /\ c[n] \in ApprovalRow
                      /\ c[n].state = IF n \in ns THEN "cancelled" ELSE approval[n].state
                      /\ c[n].account = approval[n].account /\ c[n].action = approval[n].action
                      /\ c[n].expects = approval[n].expects
    OBVIOUS
  <2>1. PICK o : o = approval[n]
    OBVIOUS
  <2>2. PICK r : r = [o EXCEPT !.state = "cancelled"]
    OBVIOUS
  <2>3. o \in ApprovalRow
    BY <2>1, ApprovalRows
  <2>4. /\ r \in ApprovalRow /\ r.state = "cancelled" /\ r.account = o.account
        /\ r.action = o.action /\ r.expects = o.expects
    BY <2>2, <2>3 DEF ApprovalRow
  <2>5. c[n] = IF n \in ns THEN r ELSE o
    BY <1>1, <2>1, <2>2 DEF Cancelled
  <2> QED
    BY <2>1, <2>3, <2>4, <2>5
<1>3. c \in [1 .. Len(approval) -> ApprovalRow]
  BY <1>1, <1>2 DEF Cancelled, Approvals
<1>4. c \in Seq(ApprovalRow) /\ Len(c) = Len(approval)
  BY <1>3, ApprovalRows
<1> QED
  BY <1>1, <1>2, <1>4, Telling DEF Decides

LEMMA Redeeming ==
    ASSUME Accounted, NEW n \in Approvals, approval[n].state = "approved", NEW stamp \in Int, Redeemed(n, stamp)
    PROVE  Decides({n}, "redeemed", approval', story')
<1>1. PICK o : o = approval[n]
  OBVIOUS
<1>2. PICK r : r = [o EXCEPT !.state = "redeemed", !.redeemed_at = stamp]
  OBVIOUS
<1>3. o \in ApprovalRow
  BY <1>1, ApprovalRows
<1>4. /\ r \in ApprovalRow /\ r.state = "redeemed" /\ r.account = o.account
      /\ r.action = o.action /\ r.expects = o.expects
  BY <1>2, <1>3 DEF ApprovalRow
<1>5. approval' = [approval EXCEPT ![n] = r] /\ story' = Told({n}, "redeemed")
  BY <1>1, <1>2 DEF Redeemed
<1>6. approval \in Seq(ApprovalRow)
  BY DEF Accounted, ControlTyped
<1>7. /\ approval' \in Seq(ApprovalRow) /\ Len(approval') = Len(approval)
      /\ approval'[n] = r /\ \A m \in Approvals : m # n => approval'[m] = approval[m]
  BY <1>4, <1>5, <1>6 DEF Approvals
<1>8. \A m \in Approvals :
          /\ approval'[m].state = IF m \in {n} THEN "redeemed" ELSE approval[m].state
          /\ approval'[m].account = approval[m].account
          /\ approval'[m].action = approval[m].action
          /\ approval'[m].expects = approval[m].expects
  BY <1>1, <1>4, <1>7
<1>9. /\ story' \in Seq(Seq(Word)) /\ Len(story') = Len(approval)
      /\ \A m \in Approvals :
            story'[m] = IF m \in {n} THEN <<"created", "redeemed">> ELSE story[m]
  <2>1. PICK ns \in SUBSET Approvals : ns = {n}
    OBVIOUS
  <2>2. PICK how \in {"cancelled", "redeemed"} : how = "redeemed"
    OBVIOUS
  <2>3. PICK st : st = story'
    OBVIOUS
  <2>4. st = Told(ns, how) /\ \A m \in ns : approval[m].state = "approved"
    BY <1>5, <2>1, <2>2, <2>3
  <2>5. /\ st \in Seq(Seq(Word)) /\ Len(st) = Len(approval)
        /\ \A m \in Approvals : st[m] = IF m \in ns THEN <<"created", how>> ELSE story[m]
    BY <2>4, Telling
  <2> QED
    BY <2>1, <2>2, <2>3, <2>5
<1> QED
  BY <1>7, <1>8, <1>9 DEF Decides

\* Decisions are final, and an account that is revoked leaves none open.
LEMMA DecisionsStay ==
    ASSUME Accounted, NEW ns, NEW how, Decides(ns, how, approval', story'),
           \A a \in Account : account'[a].state = "revoked" =>
               account[a].state = "revoked" \/ Pending(a) \subseteq ns
    PROVE  Decisions'
<1>1. Approvals' = Approvals
  BY DEF Decides, Approvals
<1>2. \A n \in Approvals :
          /\ story'[n] = IF approval'[n].state = "approved" THEN <<"created">>
                         ELSE <<"created", approval'[n].state>>
          /\ approval'[n].action = "issue" => approval'[n].expects = 0
          /\ approval'[n].action = "rotate" => approval'[n].expects < MaxRevision
  BY DEF Accounted, Decisions, Decides
<1>3. \A a \in Account : Pending(a)' \subseteq Pending(a) \ ns
  BY <1>1 DEF Decides, Pending
<1>4. \A a \in Account : /\ \A n, m \in Pending(a)' : n = m
                         /\ account'[a].state = "revoked" => Pending(a)' = {}
  BY <1>3 DEF Accounted, Decisions
<1>5. \A n \in Approvals' :
          /\ story'[n] = IF approval'[n].state = "approved" THEN <<"created">>
                         ELSE <<"created", approval'[n].state>>
          /\ approval'[n].action = "issue" => approval'[n].expects = 0
          /\ approval'[n].action = "rotate" => approval'[n].expects < MaxRevision
  BY <1>1, <1>2
<1> QED
  BY <1>4, <1>5 DEF Decisions
-----------------------------------------------------------------------------
(* The rows of an account's credentials.                                   *)

LEMMA RetiredRows ==
    ASSUME Accounted, NEW a \in Account, NEW how \in {"retired", "revoked"},
           NEW s, s = Retired(a, how)
    PROVE  /\ s \in Seq(CredentialRow) /\ Len(s) = Len(credential[a])
           /\ \A i \in 1 .. Len(s) :
                 /\ s[i].by = credential[a][i].by
                 /\ s[i].version = credential[a][i].version
                 /\ s[i].state # "active"
<1>1. PICK old : old = credential[a]
  OBVIOUS
<1>2. old \in Seq(CredentialRow)
  BY <1>1, ApprovalRows
<1>3. s = [i \in 1 .. Len(old) |-> IF old[i].state = "active"
                                 THEN [old[i] EXCEPT !.state = how] ELSE old[i]]
  BY <1>1, <1>2 DEF Retired
<1>4. \A i \in 1 .. Len(old) : /\ s[i] \in CredentialRow /\ s[i].by = old[i].by
                               /\ s[i].version = old[i].version
                               /\ s[i].state # "active"
  <2> SUFFICES ASSUME NEW i \in 1 .. Len(old)
               PROVE  /\ s[i] \in CredentialRow /\ s[i].by = old[i].by
                      /\ s[i].version = old[i].version /\ s[i].state # "active"
    OBVIOUS
  <2>1. PICK o : o = old[i]
    OBVIOUS
  <2>2. PICK r : r = [o EXCEPT !.state = how]
    OBVIOUS
  <2>3. o \in CredentialRow
    BY <1>2, <2>1
  <2>4. r \in CredentialRow /\ r.by = o.by /\ r.version = o.version /\ r.state = how
    BY <2>2, <2>3 DEF CredentialRow
  <2>5. s[i] = IF o.state = "active" THEN r ELSE o
    BY <1>3, <2>1, <2>2
  <2> QED
    BY <2>1, <2>3, <2>4, <2>5
<1>5. s \in [1 .. Len(old) -> CredentialRow]
  BY <1>3, <1>4
<1>6. s \in Seq(CredentialRow) /\ Len(s) = Len(old)
  BY <1>2, <1>5
<1> QED
  BY <1>1, <1>4, <1>6

\* The account a has one more credential t than s, bought by the approval by.
Adds(s, t, by, version) ==
    /\ t \in Seq(CredentialRow) /\ Len(t) = Len(s) + 1
    /\ \A i \in 1 .. Len(s) : t[i].by = s[i].by /\ t[i].version = s[i].version
    /\ t[Len(t)].by = by /\ t[Len(t)].version = version

CredentialAdded(a, by, version) ==
    /\ account' \in [Account -> AccountRow]
    /\ credential' \in [Account -> Seq(CredentialRow)]
    /\ Ladders'
    /\ Adds(credential[a], credential'[a], by, version)
    /\ account'[a].state = "active"
    /\ \A b \in Account : b # a =>
          account'[b] = account[b] /\ credential'[b] = credential[b]

\* The new row comes after rows of which none is active any more.
LEMMA NewIsLast ==
    ASSUME Accounted, NEW a \in Account, NEW s \in Seq(CredentialRow),
           Len(s) = Len(credential[a]),
           \A i \in 1 .. Len(s) : /\ s[i].by = credential[a][i].by
                                  /\ s[i].version = credential[a][i].version
                                  /\ s[i].state # "active",
           NEW version \in 1 .. MaxRevision, NEW ends \in Ends, NEW by \in 0 .. MaxApproval,
           NEW row \in AccountRow, row.state = "active", row.rev = version,
           account' = [account EXCEPT ![a] = row],
           credential' = [credential EXCEPT ![a] = Append(s, New(version, ends, by))]
    PROVE  CredentialAdded(a, by, version)
<1>1. PICK r : r = New(version, ends, by)
  OBVIOUS
<1>2. r \in CredentialRow /\ r.by = by /\ r.version = version /\ r.state = "active"
  BY <1>1 DEF New, CredentialRow
<1>3. PICK t : t = Append(s, r)
  OBVIOUS
<1>4. /\ t \in Seq(CredentialRow) /\ Len(t) = Len(s) + 1 /\ Len(s) \in Nat
      /\ \A i \in 1 .. Len(s) : t[i] = s[i]
      /\ t[Len(s) + 1] = r
  BY <1>2, <1>3, Appended
<1>5. credential' = [credential EXCEPT ![a] = t]
  BY <1>1, <1>3
<1>6. /\ account \in [Account -> AccountRow]
      /\ credential \in [Account -> Seq(CredentialRow)]
  BY DEF Accounted, ControlTyped
<1>7. /\ account' \in [Account -> AccountRow] /\ account'[a] = row
      /\ credential' \in [Account -> Seq(CredentialRow)] /\ credential'[a] = t
      /\ \A b \in Account : b # a =>
            account'[b] = account[b] /\ credential'[b] = credential[b]
  BY <1>4, <1>5, <1>6
<1>8. Adds(credential[a], t, by, version)
  BY <1>2, <1>4 DEF Adds
<1>9. Ladder(row, t)
  <2>1. \A i \in 1 .. Len(t) : (t[i].state = "active") <=> (i = Len(t))
    <3> SUFFICES ASSUME NEW i \in 1 .. Len(t)
                 PROVE  (t[i].state = "active") <=> (i = Len(t))
      OBVIOUS
    <3>1. CASE i \in 1 .. Len(s)
      BY <1>4, <3>1
    <3>2. CASE i = Len(s) + 1
      BY <1>2, <1>4, <3>2
    <3> QED
      BY <1>4, <3>1, <3>2
  <2>2. Len(t) # 0 /\ t[Len(t)].version = row.rev
    BY <1>2, <1>4
  <2> QED
    BY <2>1, <2>2 DEF Ladder
<1>10. Ladders'
  BY <1>7, <1>9 DEF Accounted, Ladders
<1> QED
  BY <1>7, <1>8, <1>10 DEF CredentialAdded

LEMMA Issuing ==
    ASSUME Accounted, NEW a \in Account, NEW ends \in Ends, NEW by \in 0 .. MaxApproval,
           account[a].state = "none", IssueRows(a, ends, by)
    PROVE  CredentialAdded(a, by, 1)
<1>1. credential[a] = <<>>
  BY DEF Accounted, Ladders, Ladder
<1>2. PICK s : s = credential[a]
  OBVIOUS
<1>3. s \in Seq(CredentialRow) /\ Len(s) = 0
  BY <1>1, <1>2, ApprovalRows
<1>4. PICK row : row = [state |-> "active", rev |-> 1, ends |-> ends]
  OBVIOUS
<1>5. row \in AccountRow /\ row.state = "active" /\ row.rev = 1 /\ 1 \in 1 .. MaxRevision
  BY <1>4, Bounds DEF AccountRow
<1>6. account' = [account EXCEPT ![a] = row]
  BY <1>4 DEF IssueRows
<1>7. credential' = [credential EXCEPT ![a] = Append(s, New(1, ends, by))]
  BY <1>2 DEF IssueRows
<1>8. \A i \in 1 .. Len(s) : /\ s[i].by = credential[a][i].by
                             /\ s[i].version = credential[a][i].version
                             /\ s[i].state # "active"
  BY <1>3
<1> QED
  BY <1>2, <1>3, <1>5, <1>6, <1>7, <1>8, NewIsLast

LEMMA Rotating ==
    ASSUME Accounted, NEW a \in Account, NEW ends \in Ends, NEW by \in 0 .. MaxApproval,
           account[a].state = "active", account[a].rev < MaxRevision,
           RotateRows(a, ends, by)
    PROVE  CredentialAdded(a, by, account[a].rev + 1)
<1>1. PICK o : o = account[a]
  OBVIOUS
<1>2. o \in AccountRow /\ o.rev \in Nat /\ o.state = "active"
  BY <1>1, ApprovalRows
<1>3. PICK k : k = o.rev + 1
  OBVIOUS
<1>4. k \in 1 .. MaxRevision /\ k \in 0 .. MaxRevision + 1
  BY <1>1, <1>2, <1>3, Bounds
<1>5. PICK row : row = [o EXCEPT !.rev = k]
  OBVIOUS
<1>6. row \in AccountRow /\ row.state = "active" /\ row.rev = k
  BY <1>2, <1>4, <1>5 DEF AccountRow
<1>7. account' = [account EXCEPT ![a] = row]
  BY <1>1, <1>3, <1>5 DEF RotateRows
<1>8. PICK s : s = Retired(a, "retired")
  OBVIOUS
<1>9. /\ s \in Seq(CredentialRow) /\ Len(s) = Len(credential[a])
      /\ \A i \in 1 .. Len(s) : /\ s[i].by = credential[a][i].by
                                /\ s[i].version = credential[a][i].version
                                /\ s[i].state # "active"
  BY <1>8, RetiredRows
<1>10. credential' = [credential EXCEPT ![a] = Append(s, New(k, ends, by))]
  BY <1>1, <1>3, <1>8 DEF RotateRows
<1>11. CredentialAdded(a, by, k)
  BY <1>4, <1>6, <1>7, <1>9, <1>10, NewIsLast
<1> QED
  BY <1>1, <1>3, <1>11
-----------------------------------------------------------------------------
(* What approvals have bought.                                             *)

\* t has the rows of s, and none more that the approval n bought.
NoneFor(n, s, t) ==
    /\ \A i \in 1 .. Len(s) : /\ i \in 1 .. Len(t)
                              /\ t[i].by = s[i].by /\ t[i].version = s[i].version
    /\ \A i \in 1 .. Len(t) : i \in 1 .. Len(s) \/ t[i].by # n

LEMMA PurchaseKept ==
    ASSUME NEW n, NEW x, NEW y, NEW s, NEW t, Purchase(n, x, s), NoneFor(n, s, t),
           y.expects = x.expects, y.state = "redeemed" <=> x.state = "redeemed"
    PROVE  Purchase(n, y, t)
<1>1. \A i \in 1 .. Len(t) : t[i].by = n =>
         i \in 1 .. Len(s) /\ s[i].by = n /\ t[i].version = s[i].version
  BY DEF NoneFor
<1>2. \A i \in 1 .. Len(t) : t[i].by = n =>
         y.state = "redeemed" /\ t[i].version = y.expects + 1
  BY <1>1 DEF Purchase
<1>3. \A i, j \in 1 .. Len(t) : t[i].by = n /\ t[j].by = n => i = j
  BY <1>1 DEF Purchase
<1>4. y.state = "redeemed" => \E i \in 1 .. Len(t) : t[i].by = n
  BY DEF Purchase, NoneFor
<1> QED
  BY <1>2, <1>3, <1>4 DEF Purchase

LEMMA PurchaseMade ==
    ASSUME NEW n, NEW x, NEW y, NEW s \in Seq(CredentialRow), NEW t,
           x.state = "approved", Purchase(n, x, s), Adds(s, t, n, x.expects + 1),
           y.expects = x.expects, y.state = "redeemed"
    PROVE  Purchase(n, y, t)
<1>1. Len(s) \in Nat /\ Len(t) = Len(s) + 1
  BY DEF Adds
<1>2. \A i \in 1 .. Len(s) : s[i].by # n
  BY DEF Purchase
<1>3. \A i \in 1 .. Len(t) : t[i].by = n => i = Len(t)
  <2> SUFFICES ASSUME NEW i \in 1 .. Len(t), i # Len(t)
               PROVE  t[i].by # n
    OBVIOUS
  <2>1. i \in 1 .. Len(s)
    BY <1>1
  <2> QED
    BY <1>2, <2>1 DEF Adds
<1>4. Len(t) \in 1 .. Len(t) /\ t[Len(t)].by = n /\ t[Len(t)].version = x.expects + 1
  BY <1>1 DEF Adds
<1> QED
  BY <1>3, <1>4 DEF Purchase

LEMMA AddedForAnother ==
    ASSUME NEW n, NEW by, NEW version, NEW s \in Seq(CredentialRow), NEW t,
           Adds(s, t, by, version), by # n
    PROVE  NoneFor(n, s, t)
<1>1. Len(s) \in Nat /\ Len(t) = Len(s) + 1
  BY DEF Adds
<1>2. \A i \in 1 .. Len(t) : i \in 1 .. Len(s) \/ i = Len(t)
  BY <1>1
<1>3. \A i \in 1 .. Len(s) : i \in 1 .. Len(t)
  BY <1>1
<1> QED
  BY <1>2, <1>3 DEF Adds, NoneFor

LEMMA NothingAdded ==
    ASSUME NEW n, NEW s PROVE NoneFor(n, s, s)
BY DEF NoneFor

\* An operator's credential is nobody's purchase.
LEMMA OperatorBuysNothing ==
    ASSUME Accounted, NEW a \in Account, NEW version, CredentialAdded(a, 0, version),
           UNCHANGED approval
    PROVE  Purchases'
<1>1. \A b \in Account : \A n \in Approvals : NoneFor(n, credential[b], credential'[b])
  <2> SUFFICES ASSUME NEW b \in Account, NEW n \in Approvals
               PROVE  NoneFor(n, credential[b], credential'[b])
    OBVIOUS
  <2>1. n # 0
    BY DEF Approvals
  <2>2. CASE b = a
    BY <2>1, <2>2, ApprovalRows, AddedForAnother DEF CredentialAdded
  <2>3. CASE b # a
    BY <2>3, NothingAdded DEF CredentialAdded
  <2> QED
    BY <2>2, <2>3
<1>2. \A b \in Account : \A i \in 1 .. Len(credential'[b]) :
         credential'[b][i].by \in 0 .. Len(approval)
  <2> SUFFICES ASSUME NEW b \in Account, NEW i \in 1 .. Len(credential'[b])
               PROVE  credential'[b][i].by \in 0 .. Len(approval)
    OBVIOUS
  <2>1. CASE b # a
    BY <2>1 DEF CredentialAdded, Accounted, Purchases
  <2>2. CASE b = a
    <3>1. i \in 1 .. Len(credential[a]) \/ i = Len(credential'[a])
      BY <2>2, ApprovalRows DEF CredentialAdded, Adds
    <3>2. 0 \in 0 .. Len(approval)
      BY ApprovalRows
    <3> QED
      BY <2>2, <3>1, <3>2 DEF CredentialAdded, Adds, Accounted, Purchases
  <2> QED
    BY <2>1, <2>2
<1>3. \A n \in Approvals : Purchase(n, approval[n], credential'[approval[n].account])
  BY <1>1, ApprovalRows, PurchaseKept DEF Accounted, Purchases
<1> QED
  BY <1>2, <1>3 DEF Purchases, Approvals

\* A redemption buys the next credential of the account of its approval.
LEMMA RedemptionBuysOne ==
    ASSUME Accounted, NEW n \in Approvals, approval[n].state = "approved",
           CredentialAdded(approval[n].account, n, approval[n].expects + 1),
           Decides({n}, "redeemed", approval', story')
    PROVE  Purchases'
<1>1. PICK a \in Account : a = approval[n].account
  BY ApprovalRows
<1>2. /\ Approvals' = Approvals /\ Len(approval') = Len(approval)
      /\ \A m \in Approvals :
            /\ approval'[m].account = approval[m].account
            /\ approval'[m].expects = approval[m].expects
            /\ m # n => approval'[m].state = approval[m].state
      /\ approval'[n].state = "redeemed"
  BY DEF Decides, Approvals
<1>3. CredentialAdded(a, n, approval[n].expects + 1)
  BY <1>1
<1>4. \A b \in Account : credential[b] \in Seq(CredentialRow)
  BY ApprovalRows
<1>5. \A m \in Approvals : Purchase(m, approval'[m], credential'[approval[m].account])
  <2> SUFFICES ASSUME NEW m \in Approvals
               PROVE  Purchase(m, approval'[m], credential'[approval[m].account])
    OBVIOUS
  <2>1. PICK b \in Account : b = approval[m].account
    BY ApprovalRows
  <2>2. Purchase(m, approval[m], credential[b])
    BY <2>1 DEF Accounted, Purchases
  <2>3. CASE m = n
    <3>1. Adds(credential[b], credential'[b], m, approval[m].expects + 1)
      BY <1>1, <1>3, <2>1, <2>3 DEF CredentialAdded
    <3> QED
      BY <1>2, <1>4, <2>1, <2>2, <2>3, <3>1, PurchaseMade
  <2>4. CASE m # n
    <3>1. NoneFor(m, credential[b], credential'[b])
      <4>1. CASE b = a
        BY <1>3, <1>4, <2>4, <4>1, AddedForAnother DEF CredentialAdded
      <4>2. CASE b # a
        BY <1>3, <4>2, NothingAdded DEF CredentialAdded
      <4> QED
        BY <4>1, <4>2
    <3> QED
      BY <1>2, <2>1, <2>2, <2>4, <3>1, PurchaseKept
  <2> QED
    BY <2>3, <2>4
<1>6. \A b \in Account : \A i \in 1 .. Len(credential'[b]) :
         credential'[b][i].by \in 0 .. Len(approval)
  <2> SUFFICES ASSUME NEW b \in Account, NEW i \in 1 .. Len(credential'[b])
               PROVE  credential'[b][i].by \in 0 .. Len(approval)
    OBVIOUS
  <2>1. CASE b # a
    BY <1>3, <2>1 DEF CredentialAdded, Accounted, Purchases
  <2>2. CASE b = a
    <3>1. i \in 1 .. Len(credential[a]) \/ i = Len(credential'[a])
      BY <1>3, <1>4, <2>2 DEF CredentialAdded, Adds
    <3>2. n \in 0 .. Len(approval)
      BY ApprovalRows DEF Approvals
    <3> QED
      BY <1>3, <2>2, <3>1, <3>2 DEF CredentialAdded, Adds, Accounted, Purchases
  <2> QED
    BY <2>1, <2>2
<1> QED
  BY <1>2, <1>5, <1>6 DEF Purchases

\* Cancelled approvals have bought nothing, and new ones nothing yet.
LEMMA CancellingBuysNothing ==
    ASSUME Accounted, NEW ns, NEW c, NEW st, Decides(ns, "cancelled", c, st),
           Len(approval') \in Nat, Len(approval) <= Len(approval'),
           \A n \in Approvals : approval'[n] = c[n],
           \A n \in Approvals' \ Approvals :
               approval'[n].state = "approved" /\ approval'[n].account \in Account,
           \A a \in Account : /\ Len(credential'[a]) = Len(credential[a])
                              /\ \A i \in 1 .. Len(credential[a]) :
                                    /\ credential'[a][i].by = credential[a][i].by
                                    /\ credential'[a][i].version = credential[a][i].version
    PROVE  Purchases'
<1>1. \A a \in Account : \A n : NoneFor(n, credential[a], credential'[a])
  BY DEF NoneFor
<1>2. \A a \in Account : \A i \in 1 .. Len(credential'[a]) :
         credential'[a][i].by \in 0 .. Len(approval)
  BY DEF Accounted, Purchases
<1>3. \A a \in Account : \A i \in 1 .. Len(credential'[a]) :
         credential'[a][i].by \in 0 .. Len(approval')
  BY <1>2, ApprovalRows
<1>4. \A n \in Approvals' : Purchase(n, approval'[n], credential'[approval'[n].account])
  <2> SUFFICES ASSUME NEW n \in Approvals'
               PROVE  Purchase(n, approval'[n], credential'[approval'[n].account])
    OBVIOUS
  <2>1. CASE n \in Approvals
    <3>1. /\ approval'[n].expects = approval[n].expects
          /\ approval'[n].account = approval[n].account
          /\ (approval'[n].state = "redeemed") <=> (approval[n].state = "redeemed")
      BY <2>1 DEF Decides
    <3>2. Purchase(n, approval[n], credential[approval[n].account])
      BY <2>1 DEF Accounted, Purchases
    <3>3. NoneFor(n, credential[approval[n].account], credential'[approval[n].account])
      BY <1>1, <2>1, ApprovalRows
    <3> QED
      BY <3>1, <3>2, <3>3, PurchaseKept
  <2>2. CASE n \notin Approvals
    <3>1. PICK a \in Account : a = approval'[n].account
      BY <2>2
    <3>2. approval'[n].state = "approved" /\ n \notin 0 .. Len(approval)
      BY <2>2, ApprovalRows DEF Approvals
    <3>3. \A i \in 1 .. Len(credential'[a]) : credential'[a][i].by # n
      BY <1>2, <3>2
    <3> QED
      BY <3>1, <3>2, <3>3 DEF Purchase
  <2> QED
    BY <2>1, <2>2
<1> QED
  BY <1>3, <1>4 DEF Purchases
-----------------------------------------------------------------------------
(* The operations on accounts and approvals.                               *)

LEMMA CancelStays ==
    ASSUME Accounted, NEW n \in Approvals, CancelApproval(n)
    PROVE  Accounted'
<1>1. /\ approval[n].state = "approved"
      /\ approval' = Cancelled({n}) /\ story' = Told({n}, "cancelled")
      /\ UNCHANGED <<clock, skew, data, tenant, account, credential, proof, nonce>>
  BY DEF CancelApproval
<1>2. PICK ns \in SUBSET Approvals : ns = {n}
  OBVIOUS
<1>3. Decides(ns, "cancelled", approval', story')
  BY <1>1, <1>2, Cancelling
<1>4. DataTyped' /\ Authorised' /\ nonce' \subseteq Proofs'
  BY <1>1, AuthorityRests
<1>5. ControlTyped'
  BY <1>1, <1>3, <1>4 DEF Accounted, ControlTyped, Decides
<1>6. Ladders'
  BY <1>1 DEF Accounted, Ladders
<1>7. Decisions'
  BY <1>1, <1>3, DecisionsStay
<1>8. Purchases'
  <2>1. /\ Len(approval') = Len(approval) /\ Len(approval) \in Nat
        /\ Approvals' = Approvals
    BY <1>3, ApprovalRows DEF Decides, Approvals
  <2>2. Len(approval') \in Nat /\ Len(approval) <= Len(approval')
    BY <2>1
  <2> QED
    BY <1>1, <1>3, <2>1, <2>2, CancellingBuysNothing
<1> QED
  BY <1>4, <1>5, <1>6, <1>7, <1>8 DEF Accounted

LEMMA RevokeStays ==
    ASSUME Accounted, NEW a \in Account, Revoke(a)
    PROVE  Accounted'
<1>1. /\ account[a].state = "active"
      /\ credential' = [credential EXCEPT ![a] = Retired(a, "revoked")]
      /\ approval' = Cancelled(Pending(a)) /\ story' = Told(Pending(a), "cancelled")
      /\ UNCHANGED <<clock, skew, data, tenant, proof, nonce>>
  BY DEF Revoke
<1>2. PICK ns \in SUBSET Approvals : ns = Pending(a)
  BY DEF Pending
<1>3. \A n \in ns : approval[n].state = "approved"
  BY <1>2 DEF Pending
<1>4. Decides(ns, "cancelled", approval', story')
  BY <1>1, <1>2, <1>3, Cancelling
<1>5. DataTyped' /\ Authorised' /\ nonce' \subseteq Proofs'
  BY <1>1, AuthorityRests
<1>6. PICK o : o = account[a]
  OBVIOUS
<1>7. o \in AccountRow /\ o.rev \in 1 .. MaxRevision
  BY <1>1, <1>6, ApprovalRows DEF Accounted, Ladders, Ladder
<1>8. PICK k : k = o.rev + 1
  OBVIOUS
<1>9. k \in 0 .. MaxRevision + 1
  BY <1>7, <1>8, Bounds
<1>10. PICK row : row = [o EXCEPT !.state = "revoked", !.rev = k]
  OBVIOUS
<1>11. row \in AccountRow /\ row.state = "revoked"
  BY <1>7, <1>9, <1>10 DEF AccountRow
<1>12. account' = [account EXCEPT ![a] = row]
  BY <1>6, <1>8, <1>10 DEF Revoke
<1>13. PICK s : s = Retired(a, "revoked")
  OBVIOUS
<1>14. /\ s \in Seq(CredentialRow) /\ Len(s) = Len(credential[a])
       /\ \A i \in 1 .. Len(s) : /\ s[i].by = credential[a][i].by
                                 /\ s[i].version = credential[a][i].version
                                 /\ s[i].state # "active"
  BY <1>13, RetiredRows
<1>15. /\ account \in [Account -> AccountRow]
       /\ credential \in [Account -> Seq(CredentialRow)]
  BY DEF Accounted, ControlTyped
<1>16. /\ account' \in [Account -> AccountRow] /\ account'[a] = row
       /\ credential' \in [Account -> Seq(CredentialRow)] /\ credential'[a] = s
       /\ \A b \in Account : b # a =>
             account'[b] = account[b] /\ credential'[b] = credential[b]
  BY <1>1, <1>11, <1>12, <1>13, <1>14, <1>15
<1>17. ControlTyped'
  BY <1>1, <1>4, <1>5, <1>16 DEF Accounted, ControlTyped, Decides
<1>18. Ladder(row, s)
  BY <1>11, <1>14 DEF Ladder
<1>19. Ladders'
  BY <1>16, <1>18 DEF Accounted, Ladders
<1>20. Decisions'
  <2>1. \A b \in Account : account'[b].state = "revoked" =>
           account[b].state = "revoked" \/ Pending(b) \subseteq ns
    BY <1>2, <1>16
  <2> QED
    BY <1>4, <2>1, DecisionsStay
<1>21. Purchases'
  <2>1. /\ Len(approval') = Len(approval) /\ Len(approval) \in Nat
        /\ Approvals' = Approvals
    BY <1>4, ApprovalRows DEF Decides, Approvals
  <2>2. Len(approval') \in Nat /\ Len(approval) <= Len(approval')
    BY <2>1
  <2>3. \A b \in Account : /\ Len(credential'[b]) = Len(credential[b])
                           /\ \A i \in 1 .. Len(credential[b]) :
                                 /\ credential'[b][i].by = credential[b][i].by
                                 /\ credential'[b][i].version = credential[b][i].version
    BY <1>14, <1>16
  <2> QED
    BY <1>4, <2>1, <2>2, <2>3, CancellingBuysNothing
<1> QED
  BY <1>5, <1>17, <1>19, <1>20, <1>21 DEF Accounted

\* The new approval is the only one pending for its account.
LEMMA ApproveStays ==
    ASSUME Accounted, NEW a \in Account, NEW action \in {"issue", "rotate"},
           NEW expects \in 0 .. MaxRevision, NEW ends \in Ends,
           account[a].state # "revoked",
           action = "issue" => expects = 0,
           action = "rotate" => expects < MaxRevision,
           NEW stamp \in Int, Approve(a, action, expects, ends, stamp)
    PROVE  Accounted'
<1>1. PICK ns \in SUBSET Approvals : ns = Overdue(a, stamp)
  BY DEF Overdue, Pending
<1>2. /\ ns = Pending(a)
      /\ \A n \in ns : approval[n].state = "approved" /\ approval[n].account = a
  BY <1>1 DEF Approve, Pending
<1>3. PICK c : c = Cancelled(ns)
  OBVIOUS
<1>4. PICK st : st = Told(ns, "cancelled")
  OBVIOUS
<1>5. Decides(ns, "cancelled", c, st)
  BY <1>2, <1>3, <1>4, Cancelling
<1>6. PICK x : x = [account |-> a, action |-> action, state |-> "approved",
                    expects |-> expects, policy |-> tenant.policy,
                    ends |-> ends, expires |-> stamp + Window, redeemed_at |-> 0]
  OBVIOUS
<1>7. /\ approval' = Append(c, x) /\ story' = Append(st, <<"created">>)
      /\ Len(approval) < MaxApproval
      /\ UNCHANGED <<clock, skew, data, tenant, account, credential, proof, nonce>>
  BY <1>1, <1>3, <1>4, <1>6 DEF Approve
<1>8. stamp + Window \in Int /\ tenant.policy \in 1 .. MaxPolicy
  BY ProofRows, Bounds DEF now, Accounted, ControlTyped
<1>9. x \in ApprovalRow /\ x.account = a /\ x.action = action /\ x.state = "approved"
      /\ x.expects = expects
  BY <1>6, <1>8 DEF ApprovalRow
<1>10. <<"created">> \in Seq(Word)
  BY DEF Word
<1>11. PICK k : k = Len(approval) + 1
  OBVIOUS
<1>12. /\ c \in Seq(ApprovalRow) /\ Len(c) = Len(approval) /\ Len(approval) \in Nat
       /\ st \in Seq(Seq(Word)) /\ Len(st) = Len(approval)
  BY <1>5, ApprovalRows DEF Decides
<1>13. /\ approval' \in Seq(ApprovalRow) /\ Len(approval') = Len(c) + 1
       /\ approval'[Len(c) + 1] = x /\ \A n \in 1 .. Len(c) : approval'[n] = c[n]
  BY <1>7, <1>9, <1>12, Appended
<1>14. /\ story' \in Seq(Seq(Word)) /\ Len(story') = Len(st) + 1
       /\ story'[Len(st) + 1] = <<"created">> /\ \A n \in 1 .. Len(st) : story'[n] = st[n]
  BY <1>7, <1>10, <1>12, Appended
<1>15. /\ Approvals' = Approvals \cup {k} /\ k \notin Approvals
       /\ approval'[k] = x /\ story'[k] = <<"created">>
       /\ \A n \in Approvals : approval'[n] = c[n] /\ story'[n] = st[n]
  <2>1. Approvals = 1 .. Len(c) /\ Approvals = 1 .. Len(st) /\ k = Len(c) + 1 /\ k = Len(st) + 1
    BY <1>11, <1>12 DEF Approvals
  <2>2. Approvals' = 1 .. Len(c) + 1 /\ Len(c) \in Nat
    BY <1>12, <1>13 DEF Approvals
  <2>3. Approvals' = Approvals \cup {k} /\ k \notin Approvals
    BY <2>1, <2>2
  <2>4. approval'[k] = x /\ story'[k] = <<"created">>
    BY <1>13, <1>14, <2>1
  <2>5. \A n \in Approvals : approval'[n] = c[n]
    BY <1>13, <2>1
  <2>6. \A n \in Approvals : story'[n] = st[n]
    BY <1>14, <2>1
  <2> QED
    BY <2>3, <2>4, <2>5, <2>6
<1>16. DataTyped' /\ Authorised' /\ nonce' \subseteq Proofs'
  BY <1>7, AuthorityRests
<1>17. ControlTyped'
  BY <1>7, <1>12, <1>13, <1>14, <1>16, Bounds DEF Accounted, ControlTyped
<1>18. Ladders'
  BY <1>7 DEF Accounted, Ladders
<1>19. Purchases'
  <2>1. Len(approval') \in Nat /\ Len(approval) <= Len(approval')
    BY <1>12, <1>13
  <2>2. \A n \in Approvals' \ Approvals :
           approval'[n].state = "approved" /\ approval'[n].account \in Account
    BY <1>9, <1>15
  <2> QED
    BY <1>5, <1>7, <1>15, <2>1, <2>2, CancellingBuysNothing
<1>20. \A n \in Approvals :
          /\ story'[n] = IF approval'[n].state = "approved" THEN <<"created">>
                         ELSE <<"created", approval'[n].state>>
          /\ approval'[n].action = "issue" => approval'[n].expects = 0
          /\ approval'[n].action = "rotate" => approval'[n].expects < MaxRevision
  <2>1. \A n \in Approvals :
          /\ st[n] = IF c[n].state = "approved" THEN <<"created">>
                     ELSE <<"created", c[n].state>>
          /\ c[n].action = "issue" => c[n].expects = 0
          /\ c[n].action = "rotate" => c[n].expects < MaxRevision
    BY <1>5 DEF Accounted, Decisions, Decides
  <2> QED
    BY <1>15, <2>1
<1>21. \A n \in Approvals' :
          /\ story'[n] = IF approval'[n].state = "approved" THEN <<"created">>
                         ELSE <<"created", approval'[n].state>>
          /\ approval'[n].action = "issue" => approval'[n].expects = 0
          /\ approval'[n].action = "rotate" => approval'[n].expects < MaxRevision
  BY <1>9, <1>15, <1>20
<1>22. \A n \in Approvals : approval'[n].state = "approved" =>
          /\ n \notin ns /\ approval[n].state = "approved"
          /\ approval'[n].account = approval[n].account
  BY <1>5, <1>15 DEF Decides
<1>23. \A b \in Account : Pending(b)' \subseteq IF b = a THEN {k} ELSE Pending(b)
  <2> SUFFICES ASSUME NEW b \in Account, NEW n \in Pending(b)'
               PROVE  n \in IF b = a THEN {k} ELSE Pending(b)
    OBVIOUS
  <2>1. n \in Approvals' /\ approval'[n].state = "approved" /\ approval'[n].account = b
    BY DEF Pending
  <2>2. CASE n = k
    BY <1>9, <1>15, <2>1, <2>2
  <2>3. CASE n \in Approvals
    BY <1>2, <1>22, <2>1, <2>3 DEF Pending
  <2> QED
    BY <1>15, <2>1, <2>2, <2>3
<1>24. \A b \in Account : /\ \A n, m \in Pending(b)' : n = m
                          /\ account'[b].state = "revoked" => Pending(b)' = {}
  BY <1>7, <1>23 DEF Accounted, Decisions
<1>25. Decisions'
  BY <1>21, <1>24 DEF Decisions
<1> QED
  BY <1>16, <1>17, <1>18, <1>19, <1>25 DEF Accounted

\* The operator's own credentials.
LEMMA OperatorStays ==
    ASSUME Accounted, NEW a \in Account, Issue(a) \/ Rotate(a)
    PROVE  Accounted'
<1>1. UNCHANGED <<clock, skew, data, tenant, approval, story, proof, nonce>>
  BY DEF Issue, Rotate
<1>2. account[a].state # "revoked" /\ \E version : CredentialAdded(a, 0, version)
  <2>1. 0 \in 0 .. MaxApproval
    BY Bounds
  <2>2. CASE Issue(a)
    <3>1. PICK ends \in Ends : account[a].state = "none" /\ IssueRows(a, ends, 0)
      BY <2>2 DEF Issue
    <3> QED
      BY <2>1, <3>1, Issuing
  <2>3. CASE Rotate(a)
    <3>1. PICK ends \in Ends : /\ account[a].state = "active"
                               /\ account[a].rev < MaxRevision
                               /\ RotateRows(a, ends, 0)
      BY <2>3 DEF Rotate
    <3> QED
      BY <2>1, <3>1, Rotating
  <2> QED
    BY <2>2, <2>3
<1>3. PICK version : CredentialAdded(a, 0, version)
  BY <1>2
<1>4. DataTyped' /\ Authorised' /\ nonce' \subseteq Proofs'
  BY <1>1, AuthorityRests
<1>5. ControlTyped' /\ Ladders'
  BY <1>1, <1>3, <1>4 DEF Accounted, ControlTyped, CredentialAdded
<1>6. Purchases'
  BY <1>1, <1>3, OperatorBuysNothing
<1>7. \A b \in Account : account'[b].state = "revoked" => account[b].state = "revoked"
  BY <1>3 DEF CredentialAdded
<1>8. Decisions'
  BY <1>1, <1>7 DEF Accounted, Decisions, Pending, Approvals
<1> QED
  BY <1>4, <1>5, <1>6, <1>8 DEF Accounted

\* A redemption consumes its assertion and buys what its approval was for.
LEMMA RedeemStays ==
    ASSUME Accounted, NEW n \in Approvals, NEW p \in Proofs,
           RedeemIssue(n, p) \/ RedeemRotation(n, p)
    PROVE  Accounted'
<1>1. PICK stamp \in Calls(p) :
         /\ Consume(p, stamp) /\ Redeemable(n, stamp) /\ Redeemed(n, stamp)
         /\ UNCHANGED <<clock, skew, data, tenant>>
  BY DEF RedeemIssue, RedeemRotation
<1>0. stamp \in Int /\ stamp <= now
  BY ProofRows, StampsHavePassed DEF Calls
<1>2. approval[n].state = "approved"
  BY <1>1 DEF Redeemable
<1>3. PICK a \in Account : a = approval[n].account
  BY ApprovalRows
<1>4. PICK ends \in Ends : ends = approval[n].ends
  BY ApprovalRows
<1>5. n \in 0 .. MaxApproval
  BY Bounds, ApprovalRows DEF Approvals, Accounted, ControlTyped
<1>6. /\ CredentialAdded(a, n, approval[n].expects + 1)
  <2>1. CASE RedeemIssue(n, p)
    <3>1. approval[n].action = "issue" /\ IssueRows(a, ends, n)
      BY <1>3, <1>4, <2>1 DEF RedeemIssue
    <3>2. account[a].state = "none" /\ approval[n].expects = 0
      BY <1>1, <1>3, <3>1 DEF Redeemable, Accounted, Decisions
    <3>3. CredentialAdded(a, n, 1) /\ approval[n].expects + 1 = 1
      BY <1>5, <3>1, <3>2, Issuing
    <3> QED
      BY <3>3
  <2>2. CASE RedeemRotation(n, p)
    <3>1. approval[n].action = "rotate" /\ RotateRows(a, ends, n)
      BY <1>3, <1>4, <2>2 DEF RedeemRotation
    <3>2. /\ account[a].state = "active" /\ account[a].rev = approval[n].expects
          /\ approval[n].expects < MaxRevision
      BY <1>1, <1>3, <3>1 DEF Redeemable, Accounted, Decisions
    <3>3. CredentialAdded(a, n, account[a].rev + 1)
      BY <1>5, <3>1, <3>2, Rotating
    <3> QED
      BY <3>2, <3>3
  <2> QED
    BY <2>1, <2>2
<1>7. Decides({n}, "redeemed", approval', story')
  BY <1>0, <1>1, <1>2, Redeeming
<1>8. DataTyped' /\ nonce' \subseteq Proofs' /\ Authorised'
  BY <1>0, <1>1, ConsumingUsesOnce
<1>9. ControlTyped' /\ Ladders'
  BY <1>1, <1>6, <1>7, <1>8 DEF Accounted, ControlTyped, CredentialAdded, Decides
<1>10. Purchases'
  BY <1>2, <1>3, <1>6, <1>7, RedemptionBuysOne
<1>11. \A b \in Account : account'[b].state = "revoked" => account[b].state = "revoked"
  BY <1>6 DEF CredentialAdded
<1>12. Decisions'
  BY <1>7, <1>11, DecisionsStay
<1> QED
  BY <1>8, <1>9, <1>10, <1>12 DEF Accounted

LEMMA ReadingStays ==
    ASSUME Accounted, NEW p \in Proofs, ReadApprovals(p)
    PROVE  Accounted'
<1>1. PICK stamp \in Calls(p) :
         /\ Consume(p, stamp)
         /\ UNCHANGED <<clock, skew, data, tenant, account, credential, approval, story>>
  BY DEF ReadApprovals
<1>2. DataTyped' /\ nonce' \subseteq Proofs' /\ Authorised'
  BY <1>1, ProofRows, StampsHavePassed, ConsumingUsesOnce DEF Calls
<1>3. ControlTyped'
  BY <1>1, <1>2 DEF Accounted, ControlTyped
<1>4. Ladders' /\ Purchases'
  BY <1>1 DEF Accounted, Ladders, Purchases, Approvals
<1>5. Decisions'
  BY <1>1 DEF Accounted, Decisions, Pending, Approvals
<1> QED
  BY <1>2, <1>3, <1>4, <1>5 DEF Accounted

LEMMA TenantStays ==
    ASSUME Accounted, ChangeTenant
    PROVE  Accounted'
<1>1. UNCHANGED <<clock, skew, data, account, credential, approval, story, proof, nonce>>
  BY DEF ChangeTenant
<1>2. DataTyped' /\ Authorised' /\ nonce' \subseteq Proofs'
  BY <1>1, AuthorityRests
<1>3. tenant' \in [open : BOOLEAN, policy : 1 .. MaxPolicy]
  <2>1. PICK o : o = tenant
    OBVIOUS
  <2>2. o \in [open : BOOLEAN, policy : 1 .. MaxPolicy]
    BY <2>1 DEF Accounted, ControlTyped
  <2>3. CASE tenant.policy < MaxPolicy /\ tenant' = [tenant EXCEPT !.policy = @ + 1]
    <3>1. PICK k : k = o.policy + 1
      OBVIOUS
    <3>2. k \in 1 .. MaxPolicy
      BY <2>1, <2>2, <2>3, <3>1, Bounds
    <3>3. tenant' = [o EXCEPT !.policy = k]
      BY <2>1, <2>3, <3>1
    <3> QED
      BY <2>2, <3>2, <3>3
  <2>4. CASE tenant' = [tenant EXCEPT !.open = ~@]
    <3>1. PICK b \in BOOLEAN : b = ~o.open
      BY <2>2
    <3>2. tenant' = [o EXCEPT !.open = b]
      BY <2>1, <2>4, <3>1
    <3> QED
      BY <2>2, <3>1, <3>2
  <2> QED
    BY <2>3, <2>4 DEF ChangeTenant
<1>4. ControlTyped'
  BY <1>1, <1>2, <1>3 DEF Accounted, ControlTyped
<1>5. Ladders' /\ Purchases'
  BY <1>1 DEF Accounted, Ladders, Purchases, Approvals
<1>6. Decisions'
  BY <1>1 DEF Accounted, Decisions, Pending, Approvals
<1> QED
  BY <1>2, <1>4, <1>5, <1>6 DEF Accounted
LEMMA AccountedAtFirst == Init => Accounted
<1> SUFFICES ASSUME Init PROVE Accounted
  OBVIOUS
<1>1. DataTyped
  BY ConstantsAssumption DEF Init, DataTyped, Standing
<1>2. [state |-> "none", rev |-> 0, ends |-> 0] \in AccountRow
  BY Bounds DEF AccountRow
<1>3. [open |-> TRUE, policy |-> 1] \in [open : BOOLEAN, policy : 1 .. MaxPolicy]
  BY Bounds
<1>4. /\ account \in [Account -> AccountRow]
      /\ \A a \in Account : account[a].state = "none" /\ account[a].rev = 0
  BY <1>2 DEF Init
<1>5. credential \in [Account -> Seq(CredentialRow)]
      /\ \A a \in Account : credential[a] = <<>> /\ Len(credential[a]) = 0
  BY DEF Init
<1>6. /\ approval \in Seq(ApprovalRow) /\ story \in Seq(Seq(Word)) /\ nonce \subseteq Proofs
      /\ Len(approval) = 0 /\ Len(story) = 0
  BY DEF Init, Proofs
<1>7. Approvals = {} /\ Proofs = {}
  BY DEF Init, Approvals, Proofs
<1>8. ControlTyped
  BY <1>3, <1>4, <1>5, <1>6, Bounds DEF Init, ControlTyped
<1>9. Ladders
  BY <1>4, <1>5 DEF Ladders, Ladder
<1>10. Purchases
  BY <1>5, <1>7 DEF Purchases
<1>11. Decisions
  BY <1>7 DEF Decisions, Pending
<1>12. Authorised
  BY <1>7 DEF Authorised
<1> QED
  BY <1>1, <1>8, <1>9, <1>10, <1>11, <1>12 DEF Accounted

LEMMA AccountsRest ==
    ASSUME Accounted, UNCHANGED vars
    PROVE  Accounted'
<1>1. UNCHANGED <<clock, skew, data, control, proof>>
  BY DEF vars
<1>2. ControlTyped' /\ Ladders' /\ Purchases' /\ Decisions'
  BY <1>1, ControlRests
<1>3. DataTyped' /\ Authorised'
  BY <1>1, AuthorityRests DEF control
<1> QED
  BY <1>2, <1>3 DEF Accounted

LEMMA AccountedStays ==
    ASSUME Accounted, [Next]_vars
    PROVE  Accounted'
<1>1. ASSUME NEW m \in Member, UpdateMember(m) PROVE Accounted'
  <2>1. PICK s \in Standing : Reorganise([member EXCEPT ![m] = s])
    BY <1>1 DEF UpdateMember
  <2>2. [member EXCEPT ![m] = s] \in [Member -> Standing]
    BY DEF Accounted, DataTyped
  <2> QED
    BY <2>1, <2>2, ReorganisingStays
<1>2. ASSUME ReplaceTopology PROVE Accounted'
  BY <1>2, ReorganisingStays DEF ReplaceTopology
<1>3. ASSUME NEW m \in Member, MintAny(m) PROVE Accounted'
  BY <1>3, MintingStays
<1>4. ASSUME NEW a \in Account, ApproveIssue(a) PROVE Accounted'
  <2>1. PICK ends \in Ends, stamp \in Stamps :
           account[a].state = "none" /\ Approve(a, "issue", 0, ends, stamp)
    BY <1>4 DEF ApproveIssue
  <2>2. 0 \in 0 .. MaxRevision /\ stamp \in Int
    BY Bounds, StampsHavePassed DEF Stamps
  <2> QED
    BY <2>1, <2>2, ApproveStays
<1>5. ASSUME NEW a \in Account, ApproveRotation(a) PROVE Accounted'
  <2>1. PICK ends \in Ends, stamp \in Stamps :
           /\ account[a].state = "active" /\ account[a].rev < MaxRevision
           /\ Approve(a, "rotate", account[a].rev, ends, stamp)
    BY <1>5 DEF ApproveRotation
  <2>2. account[a].rev \in 0 .. MaxRevision /\ stamp \in Int
    BY <2>1, Bounds, ApprovalRows, StampsHavePassed DEF Stamps
  <2> QED
    BY <2>1, <2>2, ApproveStays
<1>6. ASSUME NEW a \in Account, Issue(a) \/ Rotate(a) PROVE Accounted'
  BY <1>6, OperatorStays
<1>7. ASSUME NEW a \in Account, Revoke(a) PROVE Accounted'
  BY <1>7, RevokeStays
<1>8. ASSUME NEW n \in Approvals, CancelApproval(n) PROVE Accounted'
  BY <1>8, CancelStays
<1>9. ASSUME NEW p \in Proofs, ReadApprovals(p) PROVE Accounted'
  BY <1>9, ReadingStays
<1>10. ASSUME NEW n \in Approvals, NEW p \in Proofs, RedeemIssue(n, p) \/ RedeemRotation(n, p)
       PROVE  Accounted'
  BY <1>10, RedeemStays
<1> QED
  BY <1>1, <1>2, <1>3, <1>4, <1>5, <1>6, <1>7, <1>8, <1>9, <1>10,
     TenantStays, TickingStays, AccountsRest DEF Next

\* In every state the active credential of an account is its last, approvals
\* have bought what they say, and assertions have their authority.
THEOREM AccountedAlways == Spec => []Accounted
<1>1. Accounted /\ [Next]_vars => Accounted'
  BY AccountedStays
<1> QED
  BY <1>1, AccountedAtFirst, PTL DEF Spec

-----------------------------------------------------------------------------
(* What the invariant says of accounts.                                    *)

LEMMA AccountsAreTyped == Accounted => TypeOK
<1> SUFFICES ASSUME Accounted PROVE TypeOK
  OBVIOUS
<1>1. /\ clock \in 0 .. MaxTime /\ skew \in Skews
      /\ member \in [Member -> Standing] /\ epoch \in 1 .. MaxEpoch
      /\ lapse \in [Member -> -1 .. MaxTime]
      /\ Len(proof) <= MaxProof
  BY DEF Accounted, DataTyped
<1>2. \A p \in Proofs : proof[p] \in ProofRow
  BY ProofRows
<1>3. /\ tenant \in [open : BOOLEAN, policy : 1 .. MaxPolicy]
      /\ account \in [Account -> AccountRow]
      /\ Len(approval) <= MaxApproval /\ nonce \subseteq Proofs
  BY DEF Accounted, ControlTyped
<1>4. \A a \in Account : \A i \in DOMAIN credential[a] : credential[a][i] \in CredentialRow
  BY ApprovalRows
<1>5. \A n \in Approvals : approval[n] \in ApprovalRow
  BY ApprovalRows
<1>6. DOMAIN story = Approvals
  BY DEF Accounted, ControlTyped, Approvals
<1> QED
  BY <1>1, <1>2, <1>3, <1>4, <1>5, <1>6
  DEF TypeOK, AccountRow, CredentialRow, ApprovalRow, ProofRow

LEMMA OneIsLive == Accounted => OneLiveCredential
<1> SUFFICES ASSUME Accounted, NEW a \in Account
             PROVE  LET live == {i \in DOMAIN credential[a] :
                                   credential[a][i].state = "active"} IN
                    /\ (live # {}) <=> (account[a].state = "active")
                    /\ \A i \in live : credential[a][i].version = account[a].rev
                                         /\ Cardinality(live) = 1
                    /\ \A i \in DOMAIN credential[a] : Admits(a, i) => i \in live
  BY DEF OneLiveCredential
<1> DEFINE live == {i \in DOMAIN credential[a] : credential[a][i].state = "active"}
<1>1. credential[a] \in Seq(CredentialRow) /\ account[a].state \in {"none", "active", "revoked"}
  BY ApprovalRows
<1>2. PICK k : k = Len(credential[a])
  OBVIOUS
<1>3. DOMAIN credential[a] = 1 .. k /\ k \in Nat
  BY <1>1, <1>2
<1>4. Ladder(account[a], credential[a])
  BY DEF Accounted, Ladders
<1>5. CASE account[a].state = "active"
  <2>1. live = {k} /\ credential[a][k].version = account[a].rev
    BY <1>2, <1>3, <1>4, <1>5 DEF Ladder
  <2>2. Cardinality(live) = 1
    BY <2>1, FS_Singleton
  <2> QED
    BY <1>5, <2>1, <2>2 DEF Admits
<1>6. CASE account[a].state # "active"
  <2>1. \A i \in DOMAIN credential[a] : credential[a][i].state # "active"
    BY <1>1, <1>2, <1>3, <1>4, <1>6 DEF Ladder
  <2>2. live = {}
    BY <2>1
  <2> QED
    BY <1>6, <2>2 DEF Admits
<1> QED
  BY <1>5, <1>6

LEMMA OneIsBought == Accounted => ApprovalBuysOneCredential
<1> SUFFICES ASSUME Accounted, NEW n \in Approvals
             PROVE  LET x == approval[n]
                        bought == {i \in DOMAIN credential[x.account] :
                                     credential[x.account][i].by = n} IN
                    /\ Cardinality(bought) = IF x.state = "redeemed" THEN 1 ELSE 0
                    /\ \A i \in bought : credential[x.account][i].version = x.expects + 1
  BY DEF ApprovalBuysOneCredential
<1>1. PICK x : x = approval[n]
  OBVIOUS
<1>2. PICK s : s = credential[x.account]
  OBVIOUS
<1>3. s \in Seq(CredentialRow) /\ Purchase(n, x, s)
  BY <1>1, <1>2, ApprovalRows DEF Accounted, Purchases
<1>4. PICK bought : bought = {i \in 1 .. Len(s) : s[i].by = n}
  OBVIOUS
<1>5. Cardinality(bought) = IF x.state = "redeemed" THEN 1 ELSE 0
  <2>1. CASE x.state = "redeemed"
    <3>1. PICK i \in 1 .. Len(s) : s[i].by = n
      BY <1>3, <2>1 DEF Purchase
    <3>2. bought = {i}
      BY <1>3, <1>4, <3>1 DEF Purchase
    <3> QED
      BY <2>1, <3>2, FS_Singleton
  <2>2. CASE x.state # "redeemed"
    <3>1. bought = {}
      BY <1>3, <1>4, <2>2 DEF Purchase
    <3> QED
      BY <2>2, <3>1, FS_EmptySet
  <2> QED
    BY <2>1, <2>2
<1>6. \A i \in bought : s[i].version = x.expects + 1
  BY <1>3, <1>4 DEF Purchase
<1>7. DOMAIN s = 1 .. Len(s)
  BY <1>3
<1> QED
  BY <1>1, <1>2, <1>4, <1>5, <1>6, <1>7

LEMMA IsDecidedOnce == Accounted => DecidedOnce
<1> SUFFICES ASSUME Accounted PROVE DecidedOnce
  OBVIOUS
<1>1. \A a \in Account :
         Cardinality(Pending(a)) <= IF account[a].state = "revoked" THEN 0 ELSE 1
  <2> SUFFICES ASSUME NEW a \in Account
               PROVE  Cardinality(Pending(a)) <= IF account[a].state = "revoked" THEN 0 ELSE 1
    OBVIOUS
  <2>1. CASE Pending(a) = {}
    BY <2>1, FS_EmptySet
  <2>2. CASE Pending(a) # {}
    <3>1. PICK n \in Pending(a) : TRUE
      BY <2>2
    <3>2. Pending(a) = {n} /\ account[a].state # "revoked"
      BY <2>2, <3>1 DEF Accounted, Decisions
    <3>3. Cardinality(Pending(a)) = 1
      BY <3>2, FS_Singleton
    <3> QED
      BY <3>2, <3>3
  <2> QED
    BY <2>1, <2>2
<1> QED
  BY <1>1 DEF Accounted, Decisions, DecidedOnce

LEMMA OfferIsRedeemable == Accounted => OfferedIsRedeemable
<1> SUFFICES ASSUME Accounted, NEW n \in Approvals, NEW stamp \in Stamps,
                    approval[n].ends > stamp
             PROVE  Offered(n, stamp) <=> Redeemable(n, stamp)
  BY DEF OfferedIsRedeemable
<1>1. PICK x : x = approval[n]
  OBVIOUS
<1>2. PICK b \in Account : b = x.account
  BY <1>1, ApprovalRows
<1>3. PICK a : a = account[b]
  OBVIOUS
<1>4. /\ x.ends \in Int /\ x.expires \in Int /\ a.ends \in Int /\ stamp \in Int
      /\ x.action \in {"issue", "rotate"}
  BY <1>1, <1>2, <1>3, ApprovalRows, StampsHavePassed DEF Stamps
<1>5. a.state = "active" => HasActive(b)
  <2> SUFFICES ASSUME a.state = "active" PROVE HasActive(b)
    OBVIOUS
  <2>1. credential[b] \in Seq(CredentialRow)
    BY ApprovalRows
  <2>2. PICK k : k = Len(credential[b])
    OBVIOUS
  <2>3. k \in 1 .. Len(credential[b]) /\ credential[b][k].state = "active"
    BY <1>3, <2>1, <2>2 DEF Accounted, Ladders, Ladder
  <2>4. k \in DOMAIN credential[b]
    BY <2>1, <2>3
  <2> QED
    BY <2>3, <2>4 DEF HasActive
<1>6. Offered(n, stamp) <=> /\ x.state = "approved"
                            /\ stamp < x.expires
                            /\ tenant.open /\ x.policy = tenant.policy
                            /\ \/ x.action = "issue" /\ a.state = "none"
                               \/ /\ x.action = "rotate" /\ a.state = "active"
                                  /\ a.rev = x.expects
                                  /\ stamp < a.ends /\ x.ends <= a.ends
  BY <1>1, <1>2, <1>3 DEF Offered
<1>7. Redeemable(n, stamp) <=> /\ x.state = "approved"
                               /\ x.expires > stamp
                               /\ tenant.open /\ x.policy = tenant.policy
                               /\ x.ends > stamp
                               /\ x.action = "issue" => a.state = "none"
                               /\ x.action = "rotate" =>
                                     /\ a.state = "active" /\ a.rev = x.expects
                                     /\ a.ends > stamp /\ a.ends >= x.ends
                                     /\ HasActive(b)
  BY <1>1, <1>2, <1>3 DEF Redeemable
<1>8. x.ends > stamp
  BY <1>1
<1> QED
  BY <1>4, <1>5, <1>6, <1>7, <1>8

\* control/schema.sql, the functions on accounts and approvals: in whatever order
\* issue, rotation, redemption, expiry and revocation meet, and however long each
\* waited since it took its stamp, an account has one live credential, an approval
\* buys one, a valid assertion works once, and what a tenant is shown is what he
\* can redeem.
THEOREM AccountsAlwaysAgree == Spec => []AccountsAgree
<1>1. Accounted => ProofUsedOnce
  <2> SUFFICES ASSUME Accounted, NEW p \in Proofs, now < Expires(p)
               PROVE  proof[p].used <= 1
    BY DEF ProofUsedOnce
  <2>1. proof[p].used \in Nat /\ now \in Int /\ Expires(p) \in Int
    BY ProofRows DEF now, Expires
  <2>2. proof[p].used > 1 => Expires(p) <= now
    BY DEF Accounted, Authorised
  <2> QED
    BY <2>1, <2>2
<1>2. Accounted => AccountsAgree
  BY <1>1, AccountsAreTyped, OneIsLive, OneIsBought, IsDecidedOnce, OfferIsRedeemable
  DEF AccountsAgree
<1> QED
  BY <1>2, AccountedAlways, PTL

\* What redeems an approval and uses an assertion finds that fresh by the stamp
\* that it leaves with the approval.
LEMMA RedeemedWhileFresh ==
    ASSUME Accounted, Next, NEW n \in Approvals, NEW p \in Proofs,
           approval'[n].state = "redeemed", approval[n].state # "redeemed",
           proof[p].used # proof'[p].used
    PROVE  approval'[n].redeemed_at \in Int /\ Fresh(p, approval'[n].redeemed_at)
<1> DEFINE Goal == approval'[n].redeemed_at \in Int /\ Fresh(p, approval'[n].redeemed_at)
<1>1. proof \in Seq(ProofRow) /\ approval \in Seq(ApprovalRow)
  BY DEF Accounted, DataTyped, ControlTyped
<1>2. ASSUME NEW m \in Approvals, NEW q \in Proofs, RedeemIssue(m, q) \/ RedeemRotation(m, q)
      PROVE  Goal
  <2>1. PICK stamp \in Calls(q) : Consume(q, stamp) /\ Redeemed(m, stamp)
    BY <1>2 DEF RedeemIssue, RedeemRotation
  <2>2. stamp \in Int
    BY <2>1, ProofRows, StampsHavePassed DEF Calls
  <2>3. p = q
    <3>1. proof' = [proof EXCEPT ![q].used = @ + 1]
      BY <2>1 DEF Consume
    <3>2. q # p => proof'[p] = proof[p]
      BY <1>1, <3>1 DEF Proofs
    <3> QED
      BY <3>2
  <2>4. n = m /\ approval'[n].redeemed_at = stamp
    <3>1. PICK o : o = approval[m]
      OBVIOUS
    <3>2. PICK x : x = [o EXCEPT !.state = "redeemed", !.redeemed_at = stamp]
      OBVIOUS
    <3>3. o \in ApprovalRow
      BY <3>1, ApprovalRows
    <3>4. x.redeemed_at = stamp
      BY <3>2, <3>3 DEF ApprovalRow
    <3>5. approval' = [approval EXCEPT ![m] = x]
      BY <2>1, <3>1, <3>2 DEF Redeemed
    <3>6. /\ approval'[m] = x
          /\ n # m => approval'[n] = approval[n]
      BY <1>1, <3>5 DEF Approvals
    <3> QED
      BY <3>4, <3>6
  <2> QED
    BY <2>1, <2>2, <2>3, <2>4 DEF Consume
<1>3. ASSUME NEW m \in Member, NEW purpose, NEW k, Mint(m, purpose, k) PROVE FALSE
  <2>1. PICK x : proof' = Append(proof, x)
    BY <1>3 DEF Mint
  <2>2. p \in 1 .. Len(proof) /\ Len(proof) \in Nat
    BY <1>1 DEF Proofs
  <2>3. proof'[p] = proof[p]
    BY <1>1, <2>1, <2>2
  <2> QED
    BY <2>3
<1>4. ASSUME UNCHANGED proof \/ UNCHANGED approval PROVE FALSE
  BY <1>4
<1>5. ASSUME NEW m \in Member, UpdateMember(m) \/ MintAny(m) PROVE Goal
  BY <1>3, <1>4, <1>5 DEF UpdateMember, Reorganise, MintAny
<1>6. ASSUME NEW a \in Account,
             \/ ApproveIssue(a) \/ ApproveRotation(a) \/ Issue(a) \/ Rotate(a) \/ Revoke(a)
      PROVE  Goal
  BY <1>4, <1>6 DEF ApproveIssue, ApproveRotation, Approve, Issue, Rotate, Revoke
<1>7. ASSUME NEW m \in Approvals, CancelApproval(m) PROVE Goal
  BY <1>4, <1>7 DEF CancelApproval
<1>8. ASSUME NEW q \in Proofs, ReadApprovals(q) PROVE Goal
  BY <1>4, <1>8 DEF ReadApprovals
<1>9. ASSUME ReplaceTopology \/ ChangeTenant \/ Tick PROVE Goal
  BY <1>4, <1>9 DEF ReplaceTopology, Reorganise, ChangeTenant, Tick
<1> QED
  BY <1>2, <1>5, <1>6, <1>7, <1>8, <1>9 DEF Next

\* control_redeem_*: an approval redeemed by a member who is no administrator any
\* more says that it was redeemed less than an assertion's life and the tolerance
\* after his loss, however long the redemption waited before it committed.
THEOREM AuthorityStaysRecent == Spec => AuthorityIsRecent
<1>1. Accounted /\ [Next]_vars =>
        [\A n \in Approvals, p \in Proofs :
          (approval'[n].state = "redeemed" /\ approval[n].state # "redeemed"
             /\ Fits(p, n) /\ proof[p].used # proof'[p].used
             /\ ~HasAuthority(proof[p].by))
          => approval'[n].redeemed_at - skew - lapse[proof[p].by]
                < Life + Tolerance]_vars
  <2> SUFFICES ASSUME Accounted, Next, NEW n \in Approvals, NEW p \in Proofs,
                      approval'[n].state = "redeemed", approval[n].state # "redeemed",
                      proof[p].used # proof'[p].used, ~HasAuthority(proof[p].by)
               PROVE  approval'[n].redeemed_at - skew - lapse[proof[p].by]
                        < Life + Tolerance
    OBVIOUS
  <2>1. PICK stamp \in Int : stamp = approval'[n].redeemed_at /\ Fresh(p, stamp)
    BY RedeemedWhileFresh
  <2>2. PICK issued \in Int : issued = proof[p].issued
    BY ProofRows
  <2>3. PICK lost : lost = lapse[proof[p].by]
    OBVIOUS
  <2>4. lost \in Int
    <3>1. proof[p].by \in Member
      BY ProofRows
    <3> QED
      BY <2>3, <3>1 DEF Accounted, DataTyped
  <2>5. issued <= lost
    BY <2>2, <2>3 DEF Accounted, Authorised
  <2>6. stamp < issued + Life
    BY <2>1, <2>2 DEF Fresh, Expires
  <2>7. /\ skew \in Int /\ Life \in Int /\ Tolerance \in Int
        /\ -Tolerance <= skew
    BY ProofRows, ClocksAgree, ConstantsAssumption DEF Accounted, DataTyped
  <2>8. stamp - skew - lost < Life + Tolerance
    BY <2>4, <2>5, <2>6, <2>7
  <2> QED
    BY <2>1, <2>3, <2>8
<1> QED
  BY <1>1, AccountedAlways, PTL DEF Spec, AuthorityIsRecent
=============================================================================
