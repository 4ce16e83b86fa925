---------------------------- MODULE TenantContext ----------------------------
(***************************************************************************)
(* How a request comes to a tenant, and how its rows stay that tenant's on *)
(* a connection that many requests borrow.  Settings live with a session   *)
(* but take part in its transactions: a rollback restores what was last    *)
(* committed.  A context stands for a limited time after it was issued.    *)
(***************************************************************************)
EXTENDS Naturals

CONSTANTS Tenant, Subject, Conn, Request, None,
          MaxSkew,     \* rag_context_valid: 120 seconds
          MaxClock, MaxMove

ASSUME TenancyAssumption ==
    /\ None \notin Tenant \cup Subject \cup Conn
    /\ MaxSkew \in Nat /\ MaxMove \in Nat /\ MaxClock \in Nat \ {0}

VARIABLES time, moves,
          route,       \* control plane: the tenant a subject is routed to
          membership,      \* data plane: the tenant of a subject's membership
          conn,        \* pooled connections
          req          \* requests

tenancy == <<time, moves, route, membership, conn, req>>

Unbound == [tenant |-> None, at |-> 0]
Idle == 0                                \* no transaction is open
Clean == [kept |-> Unbound, now |-> Unbound, tx |-> Idle]

Context == [tenant : Tenant \cup {None}, at : 0 .. MaxClock]
Session == [kept : Context, now : Context, tx : 0 .. MaxClock]

NoRequest == [pc |-> "away", subject |-> None, source |-> "oidc", routed |-> None,
              offered |-> {}, tenant |-> None, conn |-> None, saw |-> {}]

RequestState ==
    [pc : {"away", "routed", "bound", "borrowed", "body", "leave", "cleared",
           "refused", "done"},
     subject : Subject \cup {None}, source : {"oidc", "openwebui"},
     routed : Tenant \cup {None}, offered : SUBSET (Tenant \cup {None}),
     tenant : Tenant \cup {None}, conn : Conn \cup {None},
     saw : SUBSET Tenant]

TenancyInit ==
    /\ time = 1 /\ moves = 0
    /\ route \in [Subject -> Tenant \cup {None}]
    /\ membership \in [Subject -> Tenant \cup {None}]
    /\ conn = [c \in Conn |-> Clean]
    /\ req = [r \in Request |-> NoRequest]

-----------------------------------------------------------------------------
(* A session of PostgreSQL.                                                   *)

Begun(s) == IF s.tx = Idle THEN [s EXCEPT !.tx = time] ELSE s
Committed(s) == [s EXCEPT !.kept = s.now, !.tx = Idle]
RolledBack(s) == [s EXCEPT !.now = s.kept, !.tx = Idle]

\* set_tenant_context, clear_tenant_context before its commit.
Bound(s, t) == [Begun(s) EXCEPT !.now = [tenant |-> t, at |-> time]]
Reset(s) == [Begun(s) EXCEPT !.now = Unbound]

\* rag_context_valid compares the start of the transaction with the issue.
ContextValid(s) ==
    /\ s.now.tenant # None
    /\ s.tx <= s.now.at + MaxSkew /\ s.now.at <= s.tx + MaxSkew

\* rag_effective_tenant: whose rows a statement may see.
EffectiveTenant(s) == IF ContextValid(Begun(s)) THEN s.now.tenant ELSE None

-----------------------------------------------------------------------------
(* Who a request is.                                                          *)

\* The offers a running request may have been routed by.
Noticed(s, t) ==
    [r \in Request |-> IF req[r].subject = s THEN [req[r] EXCEPT !.offered = @ \cup {t}]
                       ELSE req[r]]

RouteMoves(s) ==
    /\ moves < MaxMove
    /\ \E t \in Tenant \cup {None} :
          /\ route' = [route EXCEPT ![s] = t]
          /\ req' = Noticed(s, t)
    /\ moves' = moves + 1
    /\ UNCHANGED <<time, membership, conn>>

MemberMoves(s) ==
    /\ moves < MaxMove
    /\ \E t \in Tenant \cup {None} : membership' = [membership EXCEPT ![s] = t]
    /\ moves' = moves + 1
    /\ UNCHANGED <<time, route, conn, req>>

\* _resolve_oidc_principal asks the control plane first; an identity that
\* OpenWebUI forwards has no route.
ResolveRoute(r) ==
    /\ req[r].pc = "away"
    /\ \E s \in Subject, source \in {"oidc", "openwebui"} :
          req' = [req EXCEPT ![r] =
                    [@ EXCEPT !.subject = s, !.source = source,
                       !.routed = IF source = "oidc" THEN route[s] ELSE None,
                       !.offered = {route[s]},
                       !.pc = IF source = "oidc" /\ route[s] = None
                              THEN "refused" ELSE "routed"]]
    /\ UNCHANGED <<time, moves, route, membership, conn>>

\* resolve_org_identity, and the comparison with the route.
ResolveMember(r) ==
    /\ req[r].pc = "routed"
    /\ LET t == membership[req[r].subject]
           refused == t = None \/ (req[r].source = "oidc" /\ t # req[r].routed)
       IN req' = [req EXCEPT ![r].tenant = IF refused THEN None ELSE t,
                             ![r].pc = IF refused THEN "refused" ELSE "bound"]
    /\ UNCHANGED <<time, moves, route, membership, conn>>

-----------------------------------------------------------------------------
(* _principal_db_conn: borrow, bind, work, unbind.                            *)

Free(c) == \A r \in Request : req[r].conn # c

Borrow(r) ==
    /\ req[r].pc = "bound"
    /\ \E c \in Conn : Free(c) /\ req' = [req EXCEPT ![r].conn = c,
                                                      ![r].pc = "borrowed"]
    /\ UNCHANGED <<time, moves, route, membership, conn>>

SetTenantContext(r) ==
    /\ req[r].pc = "borrowed"
    /\ conn' = [conn EXCEPT ![req[r].conn] = Bound(@, req[r].tenant)]
    /\ req' = [req EXCEPT ![r].pc = "body"]
    /\ UNCHANGED <<time, moves, route, membership>>

\* A statement of the handler.
Statement(r) ==
    /\ req[r].pc = "body"
    /\ LET c == req[r].conn IN
         /\ conn' = [conn EXCEPT ![c] = Begun(@)]
         /\ req' = [req EXCEPT ![r].saw =
                      @ \cup ({EffectiveTenant(conn[c])} \ {None})]
    /\ UNCHANGED <<time, moves, route, membership>>

\* The repositories commit and roll back on the connection they are given;
\* begin_retrieval_snapshot commits the context before its transaction.
TransactionEnds(r) ==
    /\ req[r].pc = "body"
    /\ \E s \in {Committed(conn[req[r].conn]), RolledBack(conn[req[r].conn])} :
          conn' = [conn EXCEPT ![req[r].conn] = s]
    /\ UNCHANGED <<time, moves, route, membership, req>>

LeaveBody(r) ==
    /\ req[r].pc = "body"
    /\ conn' = [conn EXCEPT ![req[r].conn] = RolledBack(@)]
    /\ req' = [req EXCEPT ![r].pc = "leave"]
    /\ UNCHANGED <<time, moves, route, membership>>

ResetSettings(r) ==
    /\ req[r].pc = "leave"
    /\ conn' = [conn EXCEPT ![req[r].conn] = Reset(@)]
    /\ req' = [req EXCEPT ![r].pc = "cleared"]
    /\ UNCHANGED <<time, moves, route, membership>>

\* Mutant: the pool, which rolls back, is left to end the transaction.
GiveBackOpen(r) ==
    /\ req[r].pc = "cleared"
    /\ conn' = [conn EXCEPT ![req[r].conn] = RolledBack(@)]
    /\ req' = [req EXCEPT ![r].pc = "done", ![r].conn = None]
    /\ UNCHANGED <<time, moves, route, membership>>

GiveBack(r) ==
    /\ req[r].pc = "cleared"
    /\ conn' = [conn EXCEPT ![req[r].conn] = Committed(@)]
    /\ req' = [req EXCEPT ![r].pc = "done", ![r].conn = None]
    /\ UNCHANGED <<time, moves, route, membership>>

\* The session dies under the request; the pool opens another.
ConnectionLost(r) ==
    /\ req[r].conn # None
    /\ conn' = [conn EXCEPT ![req[r].conn] = Clean]
    /\ req' = [req EXCEPT ![r].pc = "done", ![r].conn = None]
    /\ UNCHANGED <<time, moves, route, membership>>

-----------------------------------------------------------------------------
TimePasses ==
    /\ time < MaxClock
    /\ time' = time + 1
    /\ UNCHANGED <<moves, route, membership, conn, req>>

TenancyNext ==
    \/ \E s \in Subject : RouteMoves(s) \/ MemberMoves(s)
    \/ \E r \in Request :
          \/ ResolveRoute(r) \/ ResolveMember(r) \/ Borrow(r)
          \/ SetTenantContext(r) \/ Statement(r) \/ TransactionEnds(r)
          \/ LeaveBody(r) \/ ResetSettings(r) \/ GiveBack(r) \/ ConnectionLost(r)
    \/ TimePasses

TenancySpec == TenancyInit /\ [][TenancyNext]_tenancy

-----------------------------------------------------------------------------
TenancyType ==
    /\ time \in 1 .. MaxClock /\ moves \in 0 .. MaxMove
    /\ route \in [Subject -> Tenant \cup {None}]
    /\ membership \in [Subject -> Tenant \cup {None}]
    /\ conn \in [Conn -> Session]
    /\ req \in [Request -> RequestState]

\* db.py:171, app.py:486: whatever its handler commits or rolls back, and whoever
\* had the connection before, a request sees rows of its tenant or none; a
\* connection that nobody has carries no context.
RowsOfOneTenant ==
    /\ \A r \in Request : req[r].saw \subseteq {req[r].tenant}
    /\ \A r, s \in Request : req[r].conn = req[s].conn /\ r # s => req[r].conn = None
    /\ \A c \in Conn : Free(c) => conn[c] = Clean

\* _resolve_oidc_principal: a browser works in a tenant only when the control
\* plane routed its subject there in the course of the request.
RoutedToItsTenant ==
    \A r \in Request :
        req[r].source = "oidc" /\ req[r].tenant # None =>
            req[r].tenant \in req[r].offered

RequestsStayInTheirTenant == TenancyType /\ RowsOfOneTenant /\ RoutedToItsTenant
=============================================================================
