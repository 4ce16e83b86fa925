--------------------------- MODULE ServiceAccounts ---------------------------
(***************************************************************************)
(* Machine credentials of one tenant, and who may obtain them.             *)
(*                                                                         *)
(* A platform operator either writes a credential himself or approves one; *)
(* an administrator of the tenant redeems the approval.  His authority     *)
(* lives in another database than the approval: he has it proved there by  *)
(* an assertion that is valid for a few seconds, and the control plane     *)
(* consumes the assertion.  The two databases have clocks of their own.    *)
(*                                                                         *)
(* Each SQL function of the two schemas is one statement and one           *)
(* transaction.  It compares every date with statement_timestamp(), the    *)
(* instant at which the statement began, and may then wait for the locks   *)
(* of its tenant, account and approval as long as others hold them.  It is *)
(* one action here, taken when it commits, with a stamp of any earlier     *)
(* instant: the rows it decides on are read behind locks that it keeps,    *)
(* and a nonce that is inserted or deleted counts when that is committed,  *)
(* for until then an equal one waits.  A refused call changes nothing.     *)
(***************************************************************************)
EXTENDS Integers, Sequences, FiniteSets

CONSTANTS Member,      \* the identities of the tenant, all of them architects
          Account,     \* service account ids
          Life,        \* validity of an assertion
          Window,      \* validity of an approval
          Tolerance,   \* how far in the future an assertion may be issued
          Skews,       \* differences between the control and the data clock
          Ends,        \* instants at which a credential may be asked to end
          MaxTime, MaxEpoch, MaxPolicy, MaxRevision, MaxApproval, MaxProof,
          MaxUse        \* how often an assertion is presented with success

ASSUME ConstantsAssumption ==
    /\ {Life, Window, MaxTime, MaxEpoch, MaxPolicy,
        MaxRevision, MaxApproval, MaxProof, MaxUse} \subseteq Nat \ {0}
    /\ Tolerance \in Nat
    /\ Skews \subseteq -Tolerance .. Tolerance
    /\ Ends \subseteq Nat

VARIABLES clock, skew,  \* the data plane's time, and what the other adds to it
          member,       \* org_memberships
          epoch,        \* org_tenants.policy_epoch
          lapse,        \* when each member last lost his authority
          tenant,       \* control_tenants
          account,      \* control_service_accounts
          credential,   \* control_service_account_credentials, per account
          approval,     \* control_service_account_approvals
          story,        \* the event rows of each approval
          proof,        \* assertions that were minted
          nonce         \* control_service_account_assertion_nonces

data == <<member, epoch, lapse>>
control == <<tenant, account, credential, approval, story, nonce>>
vars == <<clock, skew, data, control, proof>>

\* What a membership is worth to minting: an active administrator's, or any
\* other state and role.
Standing == {"admin", "other"}

\* An assertion serves one purpose.  The list and the single read are one.
Purpose == {"read", "issue", "rotate"}

Approvals == 1 .. Len(approval)
Proofs == 1 .. Len(proof)

\* The time of the control plane.
now == clock + skew

\* The stamps of its statements that began no earlier than the data plane's
\* instant t.
StampsSince(t) == {began + skew : began \in t .. clock}
Stamps == StampsSince(0)

TypeOK ==
    /\ clock \in 0 .. MaxTime
    /\ skew \in Skews
    /\ member \in [Member -> Standing]
    /\ epoch \in 1 .. MaxEpoch
    /\ lapse \in [Member -> -1 .. MaxTime]
    /\ tenant \in [open : BOOLEAN, policy : 1 .. MaxPolicy]
    /\ account \in [Account -> [state : {"none", "active", "revoked"},
                                rev : 0 .. MaxRevision + 1,
                                ends : Ends \cup {0}]]
    /\ \A a \in Account : \A i \in DOMAIN credential[a] :
          credential[a][i] \in
             [version : 1 .. MaxRevision, ends : Ends,
              state : {"active", "retired", "revoked"},
              by : 0 .. MaxApproval]
    /\ Len(approval) <= MaxApproval
    /\ \A n \in Approvals :
          approval[n] \in
             [account : Account, action : {"issue", "rotate"},
              state : {"approved", "redeemed", "cancelled"},
              expects : 0 .. MaxRevision, policy : 1 .. MaxPolicy,
              ends : Ends, expires : Int, redeemed_at : Int]
    /\ DOMAIN story = Approvals
    /\ Len(proof) <= MaxProof
    /\ \A p \in Proofs :
          proof[p] \in [purpose : Purpose, by : Member,
                        approval : 0 .. MaxApproval,
                        issued : 0 .. MaxTime, minted : 0 .. MaxTime,
                        used : 0 .. MaxUse]
    /\ nonce \subseteq Proofs

Init ==
    /\ clock = 0 /\ skew \in Skews
    /\ member = [m \in Member |-> "admin"]
    /\ epoch = 1
    /\ lapse = [m \in Member |-> -1]
    /\ tenant = [open |-> TRUE, policy |-> 1]
    /\ account = [a \in Account |->
                    [state |-> "none", rev |-> 0, ends |-> 0]]
    /\ credential = [a \in Account |-> <<>>]
    /\ approval = <<>> /\ story = <<>>
    /\ proof = <<>> /\ nonce = {}

-----------------------------------------------------------------------------
(* The tenant's data plane: memberships and assertions.                    *)

\* The rows that minting joins; the architect rows are never deactivated.
HasAuthority(m) == member[m] = "admin"

\* Memberships are replaced under the next epoch.
Reorganise(new) ==
    /\ epoch < MaxEpoch
    /\ member' = new /\ epoch' = epoch + 1
    /\ lapse' = [m \in Member |-> IF HasAuthority(m) /\ ~HasAuthority(m)'
                                     THEN clock ELSE lapse[m]]
    /\ UNCHANGED <<clock, skew, control, proof>>

\* An architect changes one membership; a change without effect is refused.
UpdateMember(m) == \E s \in Standing :
    /\ s = "admin" => ~HasAuthority(m)
    /\ Reorganise([member EXCEPT ![m] = s])

\* An architect replaces all of them.
ReplaceTopology == \E new \in [Member -> Standing] : Reorganise(new)

Assertion(m, purpose, n, issued) ==
    [purpose |-> purpose, by |-> m, approval |-> n, issued |-> issued,
     minted |-> clock, used |-> 0]

\* Mutant: the membership is not among the rows that are joined.
MintForAnyone(m, purpose, n) == \E issued \in 0 .. clock :
    /\ Len(proof) < MaxProof
    /\ proof' = Append(proof, Assertion(m, purpose, n, issued))
    /\ UNCHANGED <<clock, skew, data, control>>

\* An assertion for the present epoch, signed while the rows of the member
\* are locked.  It was issued when the statement began, before it waited for
\* them.
Mint(m, purpose, n) == \E issued \in 0 .. clock :
    /\ Len(proof) < MaxProof
    /\ HasAuthority(m)
    /\ proof' = Append(proof, Assertion(m, purpose, n, issued))
    /\ UNCHANGED <<clock, skew, data, control>>

\* To read approvals, or to redeem the one that was read.
MintAny(m) == \/ Mint(m, "read", 0)
              \/ \E n \in Approvals : Mint(m, approval[n].action, n)

-----------------------------------------------------------------------------
(* Approvals.                                                              *)

Pending(a) == {n \in Approvals : approval[n].account = a
                                   /\ approval[n].state = "approved"}

\* Approvals that are decided without being redeemed.
Cancelled(ns) ==
    [n \in Approvals |-> IF n \in ns
        THEN [approval[n] EXCEPT !.state = "cancelled"] ELSE approval[n]]

Told(ns, what) ==
    [n \in Approvals |-> IF n \in ns THEN Append(story[n], what)
                                     ELSE story[n]]

\* Approving first cancels what has expired for the same account.
Overdue(a, stamp) == {n \in Pending(a) : approval[n].expires <= stamp}

Approve(a, action, expects, ends, stamp) ==
    /\ Len(approval) < MaxApproval
    /\ tenant.open
    /\ ends > stamp
    /\ Pending(a) = Overdue(a, stamp)   \* control_one_pending_account_approval
    /\ approval' =
         Append(Cancelled(Overdue(a, stamp)),
                [account |-> a, action |-> action, state |-> "approved",
                 expects |-> expects, policy |-> tenant.policy,
                 ends |-> ends, expires |-> stamp + Window, redeemed_at |-> 0])
    /\ story' = Append(Told(Overdue(a, stamp), "cancelled"), <<"created">>)
    /\ UNCHANGED <<clock, skew, data, tenant, account, credential, proof,
                   nonce>>

ApproveIssue(a) == \E ends \in Ends, stamp \in Stamps :
    /\ account[a].state = "none"
    /\ Approve(a, "issue", 0, ends, stamp)

ApproveRotation(a) == \E ends \in Ends, stamp \in Stamps :
    /\ account[a].state = "active"
    /\ ends <= account[a].ends
    /\ account[a].rev < MaxRevision
    /\ Approve(a, "rotate", account[a].rev, ends, stamp)

CancelApproval(n) ==
    /\ approval[n].state = "approved"
    /\ approval' = Cancelled({n})
    /\ story' = Told({n}, "cancelled")
    /\ UNCHANGED <<clock, skew, data, tenant, account, credential, proof,
                   nonce>>

\* What the list and the single read offer to the tenant.
Offered(n, stamp) ==
    LET x == approval[n]  a == account[x.account] IN
    /\ x.state = "approved"
    /\ stamp < x.expires
    /\ tenant.open /\ x.policy = tenant.policy
    /\ \/ x.action = "issue" /\ a.state = "none"
       \/ /\ x.action = "rotate" /\ a.state = "active"
          /\ a.rev = x.expects
          /\ stamp < a.ends /\ x.ends <= a.ends

-----------------------------------------------------------------------------
(* Consuming an assertion.                                                 *)

Expires(p) == proof[p].issued + Life

\* Accepted by its dates.
Fresh(p, stamp) == proof[p].issued <= stamp + Tolerance /\ stamp < Expires(p)

\* Mutant: the clocks' tolerance is taken off the life of a nonce.
PrunableWithLeeway(stamp) == {q \in nonce : Expires(q) <= stamp + Tolerance}

\* Nonces that have expired are removed; a locked row is skipped and the
\* number is limited, so any part of them goes.
Prunable(stamp) == {q \in nonce : Expires(q) <= stamp}

Consume(p, stamp) ==
    /\ proof[p].used < MaxUse
    /\ Fresh(p, stamp)
    /\ \E gone \in SUBSET Prunable(stamp) :
          /\ p \notin nonce \ gone
          /\ nonce' = (nonce \ gone) \cup {p}
    /\ proof' = [proof EXCEPT ![p].used = @ + 1]

\* The statements that can carry the assertion p.
Calls(p) == StampsSince(proof[p].minted)

\* Both reads consume their assertion and change nothing else.
ReadApprovals(p) == \E stamp \in Calls(p) :
    /\ proof[p].purpose = "read"
    /\ Consume(p, stamp)
    /\ UNCHANGED <<clock, skew, data, tenant, account, credential, approval,
                   story>>

-----------------------------------------------------------------------------
(* Credentials.                                                            *)

Retired(a, how) ==
    [i \in DOMAIN credential[a] |->
        IF credential[a][i].state = "active"
        THEN [credential[a][i] EXCEPT !.state = how] ELSE credential[a][i]]

HasActive(a) == \E i \in DOMAIN credential[a] :
                   credential[a][i].state = "active"

New(version, ends, by) == [version |-> version, ends |-> ends,
                           state |-> "active", by |-> by]

\* The rows that a first credential adds.
IssueRows(a, ends, by) ==
    /\ account' = [account EXCEPT ![a] = [state |-> "active", rev |-> 1,
                                          ends |-> ends]]
    /\ credential' = [credential EXCEPT ![a] = Append(@, New(1, ends, by))]

\* The rows that the next one adds, beside the old one that it retires.
RotateRows(a, ends, by) ==
    /\ HasActive(a)
    /\ account' = [account EXCEPT ![a].rev = @ + 1]
    /\ credential' = [credential EXCEPT
                        ![a] = Append(Retired(a, "retired"),
                                      New(account[a].rev + 1, ends, by))]

Redeemed(n, stamp) ==
    /\ approval' = [approval EXCEPT ![n].state = "redeemed",
                                    ![n].redeemed_at = stamp]
    /\ story' = Told({n}, "redeemed")

\* The conditions under which either redemption accepts an approval.  That a
\* credential ends after it begins is a check of its table.
Redeemable(n, stamp) ==
    LET x == approval[n]  a == account[x.account] IN
    /\ x.state = "approved"
    /\ x.expires > stamp
    /\ tenant.open /\ x.policy = tenant.policy
    /\ x.ends > stamp
    /\ x.action = "issue" => a.state = "none"
    /\ x.action = "rotate" =>
          /\ a.state = "active" /\ a.rev = x.expects
          /\ a.ends > stamp /\ a.ends >= x.ends
          /\ HasActive(x.account)

\* The proof must name the approval and what is to be done with it.
Fits(p, n) == proof[p].approval = n /\ proof[p].purpose = approval[n].action

RedeemIssue(n, p) == \E stamp \in Calls(p) :
    /\ Fits(p, n) /\ approval[n].action = "issue"
    /\ Consume(p, stamp)
    /\ Redeemable(n, stamp)
    /\ IssueRows(approval[n].account, approval[n].ends, n)
    /\ Redeemed(n, stamp)
    /\ UNCHANGED <<clock, skew, data, tenant>>

RedeemRotation(n, p) == \E stamp \in Calls(p) :
    /\ Fits(p, n) /\ approval[n].action = "rotate"
    /\ Consume(p, stamp)
    /\ Redeemable(n, stamp)
    /\ RotateRows(approval[n].account, approval[n].ends, n)
    /\ Redeemed(n, stamp)
    /\ UNCHANGED <<clock, skew, data, tenant>>

\* The operator acts himself.  A pending approval stays as it is.
Issue(a) == \E ends \in Ends, stamp \in Stamps :
    /\ tenant.open
    /\ account[a].state = "none"
    /\ ends > stamp
    /\ IssueRows(a, ends, 0)
    /\ UNCHANGED <<clock, skew, data, tenant, approval, story, proof, nonce>>

Rotate(a) == \E ends \in Ends, stamp \in Stamps :
    /\ account[a].state = "active"
    /\ account[a].rev < MaxRevision
    /\ stamp < ends /\ ends <= account[a].ends
    /\ RotateRows(a, ends, 0)
    /\ UNCHANGED <<clock, skew, data, tenant, approval, story, proof, nonce>>

Revoke(a) ==
    /\ account[a].state = "active"
    /\ HasActive(a)
    /\ account' = [account EXCEPT ![a].state = "revoked", ![a].rev = @ + 1]
    /\ credential' = [credential EXCEPT ![a] = Retired(a, "revoked")]
    /\ approval' = Cancelled(Pending(a))
    /\ story' = Told(Pending(a), "cancelled")
    /\ UNCHANGED <<clock, skew, data, tenant, proof, nonce>>

\* A machine presents its credential.
Admits(a, i) ==
    /\ account[a].state = "active" /\ credential[a][i].state = "active"
    /\ now < credential[a][i].ends /\ now < account[a].ends
    /\ tenant.open

-----------------------------------------------------------------------------
\* Nothing in the repository writes control_tenants.
ChangeTenant ==
    /\ \/ /\ tenant.policy < MaxPolicy
          /\ tenant' = [tenant EXCEPT !.policy = @ + 1]
       \/ tenant' = [tenant EXCEPT !.open = ~@]
    /\ UNCHANGED <<clock, skew, data, account, credential, approval, story,
                   proof, nonce>>

Tick ==
    /\ clock < MaxTime /\ clock' = clock + 1
    /\ UNCHANGED <<skew, data, control, proof>>

Next ==
    \/ \E m \in Member : UpdateMember(m) \/ MintAny(m)
    \/ \E a \in Account : \/ ApproveIssue(a) \/ ApproveRotation(a)
                          \/ Issue(a) \/ Rotate(a) \/ Revoke(a)
    \/ \E n \in Approvals : CancelApproval(n)
    \/ \E p \in Proofs : ReadApprovals(p)
    \/ \E n \in Approvals, p \in Proofs : RedeemIssue(n, p)
    \/ \E n \in Approvals, p \in Proofs : RedeemRotation(n, p)
    \/ ReplaceTopology \/ ChangeTenant \/ Tick

Spec == Init /\ [][Next]_vars

-----------------------------------------------------------------------------
(* Properties.                                                             *)

\* enterprise_identity.md:52: a revoked or superseded credential fails.  Of an
\* account's credentials the one of its present revision alone can be admitted,
\* and there is one while the account is active, whoever wrote or redeemed it.
OneLiveCredential == \A a \in Account :
    LET live == {i \in DOMAIN credential[a] :
                   credential[a][i].state = "active"} IN
    /\ (live # {}) <=> (account[a].state = "active")
    /\ \A i \in live : credential[a][i].version = account[a].rev
                         /\ Cardinality(live) = 1
    /\ \A i \in DOMAIN credential[a] : Admits(a, i) => i \in live

\* A redeemed approval has bought one credential and any other none, and a
\* rotation bought the successor of the revision its operator had looked at:
\* no other change of the account came between.
ApprovalBuysOneCredential == \A n \in Approvals :
    LET x == approval[n]
        bought == {i \in DOMAIN credential[x.account] :
                     credential[x.account][i].by = n} IN
    /\ Cardinality(bought) = IF x.state = "redeemed" THEN 1 ELSE 0
    /\ \A i \in bought : credential[x.account][i].version = x.expects + 1

\* Redemption, cancellation, expiry and revocation may meet: an approval is
\* decided once, its events say how, and none is pending beside another or
\* after its account was revoked.
DecidedOnce ==
    /\ \A n \in Approvals :
          story[n] = IF approval[n].state = "approved" THEN <<"created">>
                     ELSE <<"created", approval[n].state>>
    /\ \A a \in Account :
          Cardinality(Pending(a)) <= IF account[a].state = "revoked"
                                     THEN 0 ELSE 1

\* While an assertion is valid it works once, although nonces are forgotten,
\* the clocks differ and nothing but its nonce orders two statements that carry
\* it.  (A statement that began in time and comes to the nonce table after a
\* later one has pruned it is answered again; by then the assertion has
\* expired, and what it redeems is bought.)
ProofUsedOnce == \A p \in Proofs : now < Expires(p) => proof[p].used <= 1

\* Reading and redeeming repeat each other's conditions in separate functions:
\* what a tenant is shown is what a statement of the same instant can redeem,
\* until the credential itself would end.
OfferedIsRedeemable == \A n \in Approvals, stamp \in Stamps :
    approval[n].ends > stamp => (Offered(n, stamp) <=> Redeemable(n, stamp))

\* The redemption recorded for a member who has lost his authority, however
\* late it commits, dates from less than an assertion's life and the clocks'
\* tolerance after the loss.
AuthorityIsRecent ==
    [][\A n \in Approvals, p \in Proofs :
          (approval'[n].state = "redeemed" /\ approval[n].state # "redeemed"
             /\ Fits(p, n) /\ proof[p].used # proof'[p].used
             /\ ~HasAuthority(proof[p].by))
          => approval'[n].redeemed_at - skew - lapse[proof[p].by]
                < Life + Tolerance]_vars

\* Accounts, credentials, approvals and assertions agree, in whatever order issue,
\* rotation, redemption, expiry and revocation meet.
AccountsAgree ==
    /\ TypeOK /\ OneLiveCredential /\ ApprovalBuysOneCredential
    /\ DecidedOnce /\ ProofUsedOnce /\ OfferedIsRedeemable
=============================================================================
