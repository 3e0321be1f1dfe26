---------------------------- MODULE AuditorAccess ----------------------------
(***************************************************************************)
(* Access of an outside auditor: a grant with a secret link and an audit     *)
(* period, a login at the identity provider, a session, and what the session *)
(* reads of the workspace.                                                  *)
(*                                                                         *)
(* A login is a transaction row that the callback claims before it asks the  *)
(* identity provider.  Creating a login or a session shares the grant's row  *)
(* (FOR KEY SHARE) until it commits, and a revocation waits for that.  A     *)
(* session lives on its own clock; whether it is worth anything is asked     *)
(* again of session and grant together at every request.                    *)
(***************************************************************************)
EXTENDS UploadSessions

CONSTANTS Grants, Logins, Sessions,
          Covered,           \* the windows that meet the audit period
          GrantLifetimes,    \* how long a new grant may be asked to last
          TransactionTtl,    \* TRANSACTION_TTL_MINUTES
          AuditorSessionTtl  \* SESSION_TTL_DAYS

ASSUME AuditorAssumption == /\ Covered \subseteq Windows /\ GrantLifetimes \subseteq Nat
                            /\ TransactionTtl \in Nat \ {0} /\ AuditorSessionTtl \in Nat \ {0}

VARIABLES grant,    \* auditor_access_grants
          login,    \* auditor_auth_transactions
          session   \* auditor_sessions

auditorVars == <<grant, login, session>>

-----------------------------------------------------------------------------
(* The rows and the requests.                                               *)

Time == Nat \cup {None}

AuditorAccessGrant == [created : Nat, expires : Nat, revoked : Time]

AuditorAuthTransaction == [grant : Grants, created : Nat, expires : Nat, consumed : Time]

\* What rehydration demands of a login.
LoginConsistent(v) ==
    /\ v.expires > v.created
    /\ v.consumed # None => v.created <= v.consumed /\ v.consumed < v.expires

\* The login a session came from is kept for the properties.
AuditorSession == [grant : Grants, created : Nat, expires : Nat, revoked : Time, login : Logins]

ASSUME NoneIsNoAuditorRow ==
          None \notin AuditorAccessGrant \cup AuditorAuthTransaction \cup AuditorSession

AuditOps == {"revoke_grant", "login", "callback", "logout", "visit"}

AuditorInit == /\ grant = [g \in Grants |-> None]
               /\ login = [t \in Logins |-> None]
               /\ session = [v \in Sessions |-> None]

\* A request of an auditor or of the agent that manages the grants.
AuditRequest(op, phase, rows, g, x, what) ==
    [op |-> op, phase |-> phase, rows |-> rows, todo |-> rows, grant |-> g, key |-> x,
     what |-> what, now |-> clock, seen |-> None]

AuditorStands == UNCHANGED auditorVars

BeginAudit(s, r) == /\ Begin(s, r, "audits") /\ AuditorStands
                    /\ UNCHANGED <<clock, control, evidence, policy, doc>>

-----------------------------------------------------------------------------
(* What the domain decides.                                                 *)

IssueGrant(lifetime) == [created |-> clock, expires |-> clock + lifetime, revoked |-> None]

MayIssue(lifetime) == lifetime > 0

StartTransaction(g, t) ==
    [grant |-> g, created |-> t, expires |-> t + TransactionTtl, consumed |-> None]

MayClaim(v, t) == v.consumed = None /\ v.created <= t /\ t < v.expires
Claim(v, t)    == [v EXCEPT !.consumed = t]

CreateSession(g, t, from) ==
    [grant |-> g, created |-> t, expires |-> t + AuditorSessionTtl, revoked |-> None,
     login |-> from]

Revoke(v, t) == IF v.revoked = None THEN [v EXCEPT !.revoked = t] ELSE v

-----------------------------------------------------------------------------
(* Reads and locks.                                                        *)

GrantActive(g, t) == grant[g] # None /\ grant[g].revoked = None /\ grant[g].expires > t

\* Mutant: the grant is not joined.
SessionActiveAlone(v) ==
    session[v] # None /\ session[v].revoked = None /\ session[v].expires > clock

\* The session and its grant, in one statement.
SessionActive(v) ==
    /\ session[v] # None /\ session[v].revoked = None /\ session[v].expires > clock
    /\ GrantActive(session[v].grant, clock)

SharesGrant(t, g) == req[t].phase = "shared" /\ req[t].grant = g

\* Mutant: a reader of the grant takes no share of it.
GrantFreeOfWriters(s, g) == \A t \in Slots \ {s} : g \notin Held(t)

GrantFree(s, g) == \A t \in Slots \ {s} : g \notin Held(t) /\ ~SharesGrant(t, g)

LoginFree(s, t) == \A u \in Slots \ {s} : t \notin Held(u)
SessionFree(s, v) == \A u \in Slots \ {s} : v \notin Held(u)

\* An evidence document of a submission that meets the period.
WithinPeriod(d) == doc[d].owner \in Evidence => doc[d].window \in Covered

-----------------------------------------------------------------------------
(* Granting access and taking it back.                                      *)

CreateAuditorAccessGrant(g, lifetime) ==
    /\ Has("manage_auditor_access") /\ MayIssue(lifetime) /\ grant[g] = None
    /\ budget.audits > 0 /\ budget' = [budget EXCEPT !.audits = @ - 1]
    /\ grant' = [grant EXCEPT ![g] = IssueGrant(lifetime)]
    /\ UNCHANGED <<clock, control, evidence, policy, doc, req, login, session>>

RevokeAuditorAccessGrant(s, g) ==
    /\ Has("manage_auditor_access") /\ grant[g] # None
    /\ BeginAudit(s, AuditRequest("revoke_grant", "lock", {g}, g, None, None))

LockGrant(s) ==
    LET r == req[s] IN
    /\ r.phase = "lock" /\ r.op = "revoke_grant" /\ GrantFree(s, r.grant)
    /\ Move(s, [r EXCEPT !.phase = "locked", !.todo = {}, !.seen = grant[r.grant]])
    /\ RowsStand /\ AuditorStands

RevokeGrant(s) ==
    LET r == req[s] IN
    /\ r.phase = "locked" /\ r.op = "revoke_grant"
    /\ grant' = [grant EXCEPT ![r.grant] = Revoke(r.seen, clock)]
    /\ Answer(s) /\ RowsStand /\ UNCHANGED <<login, session>>

-----------------------------------------------------------------------------
(* Starting a login: the link is resolved, then the grant shared as of now.  *)

StartLogin(s, g) ==
    /\ GrantActive(g, clock)
    /\ BeginAudit(s, AuditRequest("login", "asked", {}, g, None, None))

\* get_active: the grant as of the time the request asked, share-locked.
ShareGrant(s) ==
    LET r == req[s] IN
    /\ r.phase = "asked" /\ \A t \in Slots \ {s} : r.grant \notin Held(t)
    /\ IF GrantActive(r.grant, r.now) THEN Move(s, [r EXCEPT !.phase = "shared"]) ELSE Answer(s)
    /\ RowsStand /\ AuditorStands

StartAuditorAuthTransaction(s, t) ==
    LET r == req[s] IN
    /\ r.phase = "shared" /\ r.op = "login" /\ login[t] = None
    /\ login' = [login EXCEPT ![t] = StartTransaction(r.grant, r.now)]
    /\ Answer(s) /\ RowsStand /\ UNCHANGED <<grant, session>>

-----------------------------------------------------------------------------
(* The callback.  An answer with an error claims the login and ends there.   *)

Auth0Callback(s, t, outcome) ==
    /\ login[t] # None
    /\ BeginAudit(s, AuditRequest("callback", "lock", {t}, login[t].grant, t, outcome))

LockLogin(s) ==
    LET r == req[s] IN
    /\ r.phase = "lock" /\ r.op = "callback" /\ LoginFree(s, r.key)
    /\ Move(s, [r EXCEPT !.phase = "locked", !.todo = {}, !.seen = login[r.key]])
    /\ RowsStand /\ AuditorStands

ClaimAuditorAuthTransaction(s) ==
    LET r == req[s] IN
    /\ r.phase = "locked" /\ r.op = "callback"
    /\ IF MayClaim(r.seen, clock)
       THEN /\ login' = [login EXCEPT ![r.key] = Claim(r.seen, clock)]
            /\ IF r.what = "error" THEN Answer(s)
               ELSE Move(s, [r EXCEPT !.phase = "claimed", !.rows = {}])
       ELSE Answer(s) /\ UNCHANGED login
    /\ RowsStand /\ UNCHANGED <<grant, session>>

\* The identity provider refuses, is unavailable, or names someone.
ExchangeAndVerify(s, who) ==
    LET r == req[s] IN
    /\ r.phase = "claimed"
    /\ IF who = None THEN Answer(s)
       ELSE Move(s, [r EXCEPT !.phase = "identified", !.what = who])
    /\ RowsStand /\ AuditorStands

\* The grant is looked up again, without a lock, for the email to compare.
ResolveActiveGrant(s) ==
    LET r == req[s] IN
    /\ r.phase = "identified"
    /\ IF GrantActive(r.grant, clock) /\ r.what = "auditor"
       THEN Move(s, [r EXCEPT !.phase = "asked", !.now = clock]) ELSE Answer(s)
    /\ RowsStand /\ AuditorStands

CreateAuthenticatedAuditorSession(s, v) ==
    LET r == req[s] IN
    /\ r.phase = "shared" /\ r.op = "callback" /\ session[v] = None
    /\ session' = [session EXCEPT ![v] = CreateSession(r.grant, r.now, r.key)]
    /\ Answer(s) /\ RowsStand /\ UNCHANGED <<grant, login>>

-----------------------------------------------------------------------------
(* Logging out.                                                             *)

Logout(s, v) ==
    /\ session[v] # None
    /\ BeginAudit(s, AuditRequest("logout", "lock", {v}, session[v].grant, v, None))

LockSession(s) ==
    LET r == req[s] IN
    /\ r.phase = "lock" /\ r.op = "logout" /\ SessionFree(s, r.key)
    /\ Move(s, [r EXCEPT !.phase = "locked", !.todo = {}, !.seen = session[r.key]])
    /\ RowsStand /\ AuditorStands

RevokeAuditorSession(s) ==
    LET r == req[s] IN
    /\ r.phase = "locked" /\ r.op = "logout"
    /\ session' = [session EXCEPT ![r.key] = Revoke(r.seen, clock)]
    /\ Answer(s) /\ RowsStand /\ UNCHANGED <<grant, login>>

-----------------------------------------------------------------------------
(* What a session reads: a document, or the pages of the portal, which are   *)
(* built from four statements that nothing holds together.                  *)

PortalSubmissions == {d \in Documents : /\ doc[d] # None /\ ~doc[d].archived
                                        /\ doc[d].owner \in Evidence /\ WithinPeriod(d)}
PortalMappings == {x \in Controls \X Evidence : evidence[x[2]] # None /\ x[1] \in evidence[x[2]].mapped}
PortalPolicies == {p \in Policies : PolicyActive(p)}

\* The model a page shows: what is attached to a control that is not in the
\* list read first is left out.
Page(r) == [controls |-> r.seen.controls, policies |-> r.seen.policies,
            submissions |-> r.seen.submissions,
            mapped |-> {x \in r.seen.mappings : x[1] \in r.seen.controls}]

\* The page of one policy or one control exists when the model has it, the
\* first page always.
PolicyPage(page, x)  == x \in page.policies
ControlPage(page, x) == x \in page.controls
PageFound(page, x)   == x = None \/ PolicyPage(page, x) \/ ControlPage(page, x)

DownloadDocument(s, v, d) ==
    /\ SessionActive(v)
    /\ BeginAudit(s, AuditRequest("visit", "download", {}, session[v].grant, v, d))

StreamToAuditor(s) ==
    LET r == req[s] IN
    /\ r.phase = "download"
    /\ IF DownloadCandidate(r.what) /\ WithinPeriod(r.what)
       THEN Move(s, [r EXCEPT !.phase = "streamed"]) ELSE Answer(s)
    /\ RowsStand /\ AuditorStands

\* x is the policy or the control whose page is asked for, or None.
OpenPage(s, v, x) ==
    /\ SessionActive(v)
    /\ BeginAudit(s, AuditRequest("visit", "page", {}, session[v].grant, v, x))

ReadPortal(s) ==
    LET r == req[s]
        Read(phase, field, value) == /\ r.phase = phase
                                     /\ Move(s, [r EXCEPT !.phase = field,
                                                          !.seen = [@ EXCEPT ![field] = value]]) IN
    /\ \/ /\ r.phase = "page"
          /\ Move(s, [r EXCEPT !.phase = "controls",
                               !.seen = [controls |-> ExistingIds(Controls), submissions |-> {},
                                         mappings |-> {}, policies |-> {}]])
       \/ Read("controls", "submissions", PortalSubmissions)
       \/ Read("submissions", "mappings", PortalMappings)
       \/ Read("mappings", "policies", PortalPolicies)
    /\ RowsStand /\ AuditorStands

ShowPage(s) ==
    LET r == req[s] IN
    /\ r.phase = "policies"
    /\ IF PageFound(Page(r), r.what) THEN Move(s, [r EXCEPT !.phase = "shown"]) ELSE Answer(s)
    /\ RowsStand /\ AuditorStands

AuditorStep ==
    \/ \E g \in Grants, n \in GrantLifetimes : CreateAuditorAccessGrant(g, n)
    \/ \E s \in Slots :
          \/ \E g \in Grants : RevokeAuditorAccessGrant(s, g) \/ StartLogin(s, g)
          \/ LockGrant(s) \/ RevokeGrant(s) \/ ShareGrant(s)
          \/ \E t \in Logins : \/ StartAuditorAuthTransaction(s, t)
                               \/ \E outcome \in {"code", "error"} : Auth0Callback(s, t, outcome)
          \/ LockLogin(s) \/ ClaimAuditorAuthTransaction(s)
          \/ \E who \in {None, "auditor", "someone"} : ExchangeAndVerify(s, who)
          \/ ResolveActiveGrant(s)
          \/ \E v \in Sessions :
                \/ CreateAuthenticatedAuditorSession(s, v) \/ Logout(s, v)
                \/ \E d \in Documents : DownloadDocument(s, v, d)
                \/ \E x \in Policies \cup Controls \cup {None} : OpenPage(s, v, x)
          \/ LockSession(s) \/ RevokeAuditorSession(s)
          \/ StreamToAuditor(s) \/ ReadPortal(s) \/ ShowPage(s)

-----------------------------------------------------------------------------
(* Properties.                                                             *)

\* The auditors' rows have their types and can be read again.
AuditorTypeOK ==
    /\ grant \in [Grants -> AuditorAccessGrant \cup {None}]
    /\ \A t \in Logins : login[t] # None => /\ login[t] \in AuditorAuthTransaction
                                            /\ LoginConsistent(login[t])
    /\ session \in [Sessions -> AuditorSession \cup {None}]

\* Once a revocation has committed, no login and no session is made under the
\* grant, not even by a request that had found it active before.
NothingAfterRevocation ==
    [][/\ \A t \in Logins : login[t] = None /\ login'[t] # None =>
             grant[login'[t].grant].revoked = None
       /\ \A v \in Sessions : session[v] = None /\ session'[v] # None =>
             grant[session'[v].grant].revoked = None]_auditorVars

\* A login yields one session, however often the provider's answer is sent.
OneSessionPerLogin ==
    \A v, w \in Sessions : session[v] # None /\ session[w] # None /\ v # w =>
        session[v].login # session[w].login

\* After a grant is revoked or expired, or its session logged out, the session
\* is admitted to nothing; what it is shown lies in the audit period.
AuditorsStayInBounds ==
    [][\A s \in Slots :
          /\ req[s] = Idle /\ req'[s] # Idle /\ req'[s].op = "visit" =>
                LET v == session[req'[s].key] IN
                /\ v.revoked = None /\ clock < v.expires
                /\ grant[v.grant].revoked = None /\ clock < grant[v.grant].expires
          /\ req'[s].phase = "streamed" => WithinPeriod(req'[s].what)
          /\ req'[s].phase = "shown" =>
                \A d \in req'[s].seen.submissions : doc[d].window \in Covered]_<<req, session, grant>>

=============================================================================
