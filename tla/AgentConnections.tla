-------------------------- MODULE AgentConnections --------------------------
(***************************************************************************)
(* How an agent gets, uses and loses access to a workspace.                *)
(*                                                                         *)
(* A client starts an authorization flow, the user logs in and either has a *)
(* connection that can be reused or is asked for consent, the client        *)
(* exchanges the code for a token, and every call with the token is admitted *)
(* by the connection it names.                                              *)
(*                                                                         *)
(* A request runs as several transactions, and it may stop between any two  *)
(* of them: what it read before, it uses after.  The row of a connection is *)
(* locked from its read to the commit.  The row of a flow is locked too, but *)
(* not the code that is joined to it: PostgreSQL waits for the flow's lock   *)
(* and then returns the code as it was when the statement began.            *)
(***************************************************************************)
EXTENDS Naturals, FiniteSets

CONSTANTS Users, Workspaces,
          Flows,        \* authorization requests that may be made
          Connections,  \* connections that may be made: bounds how often a user consents
          Slots,        \* requests that run at once
          ClientOf,     \* the client that starts each flow
          ScopesOf,     \* the scopes it asks for
          Home,         \* the workspace each user is a member of at the start, or None
          RequestTtl,   \* AUTHORIZATION_REQUEST_TTL
          CodeTtl,      \* AUTHORIZATION_CODE_TTL
          TokenTtl,     \* ACCESS_TOKEN_TTL
          MaxTime,      \* bound on the clock
          None

ASSUME ConnectionsAssumption ==
          /\ Home \in [Users -> Workspaces \cup {None}]
          /\ DOMAIN ClientOf = Flows /\ DOMAIN ScopesOf = Flows
          /\ RequestTtl \in Nat \ {0} /\ CodeTtl \in Nat \ {0} /\ TokenTtl \in Nat \ {0}
          /\ MaxTime \in Nat
          /\ None \notin Users \cup Workspaces \cup Flows \cup Connections \cup Nat

VARIABLES clock,
          member,   \* the workspace of each user: a user is a member of at most one
          flow,     \* the authorization flows and their codes
          shown,    \* the flows whose consent page was shown
          conn,     \* the connection rows
          slot,     \* the requests in flight
          tokens,   \* the access tokens issued
          spent     \* how many tokens each flow's code was exchanged for

connectionVars == <<clock, member, flow, shown, conn, slot, tokens, spent>>

-----------------------------------------------------------------------------
(* The rows.                                                               *)

Clients == {ClientOf[f] : f \in Flows}
Scopes  == {ScopesOf[f] : f \in Flows}
Time    == Nat \cup {None}

Code == [conn : Connections, ws : Workspaces, created : Nat, expires : Nat, consumed : Time]
Flow == [user : Users \cup {None}, created : Nat, expires : Nat, consumed : Time,
         code : Code \cup {None}]

Statuses == {"pending", "authorized", "active", "revoked"}
Live     == {"pending", "authorized", "active"}
Connection == [user : Users, ws : Workspaces, client : Clients, scopes : Scopes,
               status : Statuses, created : Nat, pendingExpires : Nat,
               continued : Time, activated : Time, revoked : Time]

Token == [flow : Flows, user : Users, conn : Connections, ws : Workspaces, expires : Nat]

Ops    == {"login", "approve", "token", "call"}
Phases == {"start", "attached", "consented", "requested", "issue", "authorize", "locked",
           "admitted"}
Request == [op : Ops, phase : Phases, flow : Flows, user : Users \cup {None},
            ws : Workspaces \cup {None}, conn : Connections \cup {None},
            seen : Code \cup Connection \cup {None}]
Idle == [phase |-> "idle"]

\* None stands for NULL, which is no row.
ASSUME NoneIsNoRow == None \notin Code \cup Flow \cup Connection

\* What rehydration demands of a code, a flow and a connection.
CodeConsistent(c) ==
    /\ c.expires > c.created
    /\ c.consumed # None => c.created <= c.consumed /\ c.consumed < c.expires

FlowConsistent(v) ==
    /\ v.expires > v.created
    /\ v.consumed # None => v.created <= v.consumed /\ v.consumed < v.expires
    /\ v.code # None => v.consumed # None /\ CodeConsistent(v.code)

ConnectionConsistent(k) ==
    /\ k.pendingExpires > k.created
    /\ CASE k.status = "pending"    -> k.activated = None /\ k.revoked = None /\ k.continued = None
         [] k.status = "authorized" -> k.activated = None /\ k.revoked = None /\ k.continued # None
         [] k.status = "active"     -> k.activated # None /\ k.revoked = None /\ k.continued # None
         [] OTHER                   -> k.revoked # None

Init ==
    /\ clock = 0 /\ member = Home
    /\ flow = [f \in Flows |-> None] /\ shown = {}
    /\ conn = [k \in Connections |-> None]
    /\ slot = [s \in Slots |-> Idle]
    /\ tokens = {} /\ spent = [f \in Flows |-> 0]

-----------------------------------------------------------------------------
(* What the domain decides about one flow.                                  *)

RequestFlow(t) == [user |-> None, created |-> t, expires |-> t + RequestTtl,
                   consumed |-> None, code |-> None]

\* Mutant: a decided flow stays available.
AvailableUnlessExpired(v, t) == t >= v.created /\ t < v.expires

AvailableAt(v, t) == v.consumed = None /\ t >= v.created /\ t < v.expires

MayAttach(v, t)  == AvailableAt(v, t) /\ v.user = None
MayDecide(v, t)  == AvailableAt(v, t) /\ v.user # None

AttachSubject(v, u) == [v EXCEPT !.user = u]
CancelFlow(v, t)    == [v EXCEPT !.consumed = t]
ApproveAndIssueCode(v, k, w, t) ==
    [v EXCEPT !.consumed = t,
              !.code = [conn |-> k, ws |-> w, created |-> t, expires |-> t + CodeTtl,
                        consumed |-> None]]

\* Mutant: the code does not expire.
MayConsumeCodeLate(c, t) == c.consumed = None

\* The client id and the redirect are the flow's own.
MayConsumeCode(c, t) == c.consumed = None /\ t >= c.created /\ t < c.expires
ConsumeCodeOf(v, c, t) == [v EXCEPT !.code = [c EXCEPT !.consumed = t]]

(* What it decides about one connection.                                    *)

RequestConnectionRow(u, w, f, exp, t) ==
    [user |-> u, ws |-> w, client |-> ClientOf[f], scopes |-> ScopesOf[f], status |-> "pending",
     created |-> t, pendingExpires |-> exp, continued |-> None, activated |-> None,
     revoked |-> None]

MayContinue(k, t) == k.status = "pending" /\ t < k.pendingExpires
Continue(k, t)    == [k EXCEPT !.status = "authorized", !.continued = t]

MayActivate(k, t) == k.status = "active" \/ (k.status = "authorized" /\ t < k.pendingExpires)
ActivateAndUse(k, t) == IF k.status = "active" THEN k
                        ELSE [k EXCEPT !.status = "active", !.activated = t]

MayRevoke(k, u) == k.user = u /\ k.status \in {"authorized", "active"}
RevokeRow(k, t) == [k EXCEPT !.status = "revoked", !.revoked = t]

\* agent_connections_live_tuple_key: one live connection of a user with a client.
LiveTuple(u, c) == \E k \in Connections :
    conn[k] # None /\ conn[k].user = u /\ conn[k].client = c /\ conn[k].status \in Live

-----------------------------------------------------------------------------
(* Locks and reads.                                                        *)

\* Mutant: connections are read without FOR UPDATE.
ConnectionNeverLocked(k) == TRUE

\* A connection's row is locked from its read to the commit.
ConnectionFree(k) == \A s \in Slots : slot[s].phase = "locked" => slot[s].conn # k

\* Mutant: membership is not asked for.
EligibleWhoever(u, w) == TRUE

\* The membership row is read under a lock, so it stands until the commit.
Eligible(u, w) == member[u] = w

\* The connections a login may reuse: authorized ones count past their expiry.
Reusable(u, f) == {k \in Connections :
    /\ conn[k] # None /\ conn[k].user = u /\ conn[k].client = ClientOf[f]
    /\ conn[k].status \in {"authorized", "active"}
    /\ member[u] = conn[k].ws
    /\ conn[k].scopes = ScopesOf[f]}

\* The consent context is read without a lock.
ConsentContext(f, t) == /\ flow[f] # None /\ flow[f].consumed = None
                        /\ flow[f].expires > t /\ flow[f].user # None
                        /\ member[flow[f].user] # None

\* What the user is shown to revoke.
Listed(u) == {k \in Connections : conn[k] # None /\ MayRevoke(conn[k], u)}

Move(s, r) == slot' = [slot EXCEPT ![s] = r]
Answer(s)  == slot' = [slot EXCEPT ![s] = Idle]

-----------------------------------------------------------------------------
(* Starting a flow, logging in.                                             *)

Authorize(f) ==
    /\ flow[f] = None
    /\ flow' = [flow EXCEPT ![f] = RequestFlow(clock)]
    /\ UNCHANGED <<clock, member, shown, conn, slot, tokens, spent>>

\* The identity provider sends the user back with the flow's state.
Auth0Callback(s, f, u) ==
    /\ slot[s] = Idle /\ flow[f] # None
    /\ Move(s, [op |-> "login", phase |-> "start", flow |-> f, user |-> u, ws |-> None,
                conn |-> None, seen |-> None])
    /\ UNCHANGED <<clock, member, flow, shown, conn, tokens, spent>>

AttachAuthorizationSubject(s) ==
    LET r == slot[s] IN
    /\ r.phase = "start" /\ r.op = "login"
    /\ \/ /\ MayAttach(flow[r.flow], clock)
          /\ flow' = [flow EXCEPT ![r.flow] = AttachSubject(@, r.user)]
          /\ Move(s, [r EXCEPT !.phase = "attached"])
       \/ /\ ~MayAttach(flow[r.flow], clock)
          /\ Answer(s) /\ UNCHANGED flow
    /\ UNCHANGED <<clock, member, shown, conn, tokens, spent>>

\* A connection that can be reused leads straight to a code, otherwise the
\* consent page is shown if its context can be read.
FindReusableConnection(s) ==
    LET r == slot[s] IN
    /\ r.phase = "attached"
    /\ \/ \E k \in Reusable(r.user, r.flow) :
            /\ Move(s, [r EXCEPT !.phase = "issue", !.conn = k, !.ws = conn[k].ws])
            /\ UNCHANGED shown
       \/ /\ Reusable(r.user, r.flow) = {}
          /\ shown' = IF ConsentContext(r.flow, clock) THEN shown \cup {r.flow} ELSE shown
          /\ Answer(s)
    /\ UNCHANGED <<clock, member, flow, conn, tokens, spent>>

-----------------------------------------------------------------------------
(* Consent: three transactions after an unlocked read.                      *)

ApproveConsent(s, f) ==
    /\ slot[s] = Idle /\ f \in shown /\ ConsentContext(f, clock)
    /\ Move(s, [op |-> "approve", phase |-> "consented", flow |-> f, user |-> flow[f].user,
                ws |-> member[flow[f].user], conn |-> None, seen |-> None])
    /\ UNCHANGED <<clock, member, flow, shown, conn, tokens, spent>>

RequestAgentConnection(s) ==
    LET r == slot[s]
        refused == \/ flow[r.flow].expires <= clock
                   \/ ~Eligible(r.user, r.ws)
                   \/ LiveTuple(r.user, ClientOf[r.flow]) IN
    /\ r.phase = "consented"
    /\ \/ /\ ~refused
          /\ \E k \in Connections :
                /\ conn[k] = None
                /\ conn' = [conn EXCEPT ![k] =
                      RequestConnectionRow(r.user, r.ws, r.flow, flow[r.flow].expires, clock)]
                /\ Move(s, [r EXCEPT !.phase = "requested", !.conn = k])
       \/ refused /\ Answer(s) /\ UNCHANGED conn
    /\ UNCHANGED <<clock, member, flow, shown, tokens, spent>>

ConsumeContinuation(s) ==
    LET r == slot[s]
        k == conn[r.conn]
        approved == Eligible(k.user, k.ws) /\ MayContinue(k, clock) IN
    /\ r.phase = "requested" /\ ConnectionFree(r.conn)
    /\ \/ /\ approved
          /\ conn' = [conn EXCEPT ![r.conn] = Continue(@, clock)]
          /\ Move(s, [r EXCEPT !.phase = "issue"])
       \/ ~approved /\ Answer(s) /\ UNCHANGED conn
    /\ UNCHANGED <<clock, member, flow, shown, tokens, spent>>

\* The flow is loaded again, under its lock.
ApproveAuthorization(s) ==
    LET r == slot[s] IN
    /\ r.phase = "issue"
    /\ flow' = IF MayDecide(flow[r.flow], clock)
               THEN [flow EXCEPT ![r.flow] = ApproveAndIssueCode(@, r.conn, r.ws, clock)]
               ELSE flow
    /\ Answer(s)
    /\ UNCHANGED <<clock, member, shown, conn, tokens, spent>>

CancelConsent(f) ==
    /\ f \in shown /\ MayDecide(flow[f], clock)
    /\ flow' = [flow EXCEPT ![f] = CancelFlow(@, clock)]
    /\ UNCHANGED <<clock, member, shown, conn, slot, tokens, spent>>

-----------------------------------------------------------------------------
(* The token and its use.                                                   *)

\* The statement that loads the flow begins: the code it returns is this one.
ExchangeCode(s, f) ==
    /\ slot[s] = Idle /\ flow[f] # None /\ flow[f].code # None
    /\ Move(s, [op |-> "token", phase |-> "start", flow |-> f, user |-> flow[f].user,
                ws |-> flow[f].code.ws, conn |-> flow[f].code.conn, seen |-> flow[f].code])
    /\ UNCHANGED <<clock, member, flow, shown, conn, tokens, spent>>

\* The code is spent before the verifier is compared with its challenge.
ConsumeAuthorizationCode(s, verified) ==
    LET r == slot[s]
        may == MayConsumeCode(r.seen, clock) IN
    /\ r.phase = "start" /\ r.op = "token"
    /\ flow' = IF may THEN [flow EXCEPT ![r.flow] = ConsumeCodeOf(@, r.seen, clock)] ELSE flow
    /\ IF may /\ verified THEN Move(s, [r EXCEPT !.phase = "authorize", !.seen = None])
                          ELSE Answer(s)
    /\ UNCHANGED <<clock, member, shown, conn, tokens, spent>>

\* A call brings a token that has not expired.
AuthenticateRequest(s, tk) ==
    /\ slot[s] = Idle /\ tk \in tokens /\ clock < tk.expires
    /\ Move(s, [op |-> "call", phase |-> "authorize", flow |-> tk.flow, user |-> tk.user,
                ws |-> tk.ws, conn |-> tk.conn, seen |-> None])
    /\ UNCHANGED <<clock, member, flow, shown, conn, tokens, spent>>

\* The connection is loaded and compared with what the code or the token says.
LockConnection(s) ==
    LET r == slot[s]
        k == conn[r.conn]
        matches == /\ k.ws = r.ws /\ k.user = r.user /\ k.client = ClientOf[r.flow]
                   /\ k.scopes = ScopesOf[r.flow] IN
    /\ r.phase = "authorize" /\ ConnectionFree(r.conn)
    /\ IF matches THEN Move(s, [r EXCEPT !.phase = "locked", !.seen = k]) ELSE Answer(s)
    /\ UNCHANGED <<clock, member, flow, shown, conn, tokens, spent>>

\* The whole connection is saved as it was loaded, activated and used.
CommitAuthorization(s) ==
    LET r == slot[s]
        k == r.seen
        granted == Eligible(k.user, k.ws) /\ MayActivate(k, clock) IN
    /\ r.phase = "locked"
    /\ conn' = IF granted THEN [conn EXCEPT ![r.conn] = ActivateAndUse(k, clock)] ELSE conn
    /\ \/ granted /\ r.op = "call"
          /\ Move(s, [r EXCEPT !.phase = "admitted", !.seen = None])
          /\ UNCHANGED <<tokens, spent>>
       \/ granted /\ r.op = "token"
          /\ tokens' = tokens \cup {[flow |-> r.flow, user |-> k.user, conn |-> r.conn,
                                     ws |-> k.ws, expires |-> clock + TokenTtl]}
          /\ spent' = [spent EXCEPT ![r.flow] = @ + 1]
          /\ Answer(s)
       \/ ~granted /\ Answer(s) /\ UNCHANGED <<tokens, spent>>
    /\ UNCHANGED <<clock, member, flow, shown>>

RevokeConnection(u, k) ==
    /\ k \in Listed(u) /\ ConnectionFree(k)
    /\ conn' = [conn EXCEPT ![k] = RevokeRow(@, clock)]
    /\ UNCHANGED <<clock, member, flow, shown, slot, tokens, spent>>

\* The tool the call names is another module's action; here the call ends.
FinishCall(s) ==
    /\ slot[s].phase = "admitted" /\ Answer(s)
    /\ UNCHANGED <<clock, member, flow, shown, conn, tokens, spent>>

\* The process stops or the client goes away: an open transaction is rolled
\* back, those that have committed stay.
Abandon(s) ==
    /\ slot[s] # Idle /\ Answer(s)
    /\ UNCHANGED <<clock, member, flow, shown, conn, tokens, spent>>

\* Membership changes as WorkspaceInvitations has it.
LeaveWorkspace(u) ==
    /\ member[u] # None /\ member' = [member EXCEPT ![u] = None]
    /\ UNCHANGED <<clock, flow, shown, conn, slot, tokens, spent>>

JoinWorkspace(u, w) ==
    /\ member[u] = None /\ member' = [member EXCEPT ![u] = w]
    /\ UNCHANGED <<clock, flow, shown, conn, slot, tokens, spent>>

Tick == /\ clock < MaxTime /\ clock' = clock + 1
        /\ UNCHANGED <<member, flow, shown, conn, slot, tokens, spent>>

ConnectionStep ==
    \/ \E f \in Flows : Authorize(f) \/ CancelConsent(f)
    \/ \E s \in Slots, f \in Flows, u \in Users : Auth0Callback(s, f, u)
    \/ \E s \in Slots, f \in Flows : ApproveConsent(s, f) \/ ExchangeCode(s, f)
    \/ \E s \in Slots :
          \/ AttachAuthorizationSubject(s) \/ FindReusableConnection(s)
          \/ RequestAgentConnection(s) \/ ConsumeContinuation(s) \/ ApproveAuthorization(s)
          \/ \E verified \in BOOLEAN : ConsumeAuthorizationCode(s, verified)
          \/ LockConnection(s) \/ CommitAuthorization(s) \/ Abandon(s)
    \/ \E s \in Slots, tk \in tokens : AuthenticateRequest(s, tk)
    \/ \E u \in Users, k \in Connections : RevokeConnection(u, k)
    \/ \E u \in Users : LeaveWorkspace(u)
    \/ \E u \in Users, w \in Workspaces : JoinWorkspace(u, w)
    \/ Tick

Next == ConnectionStep \/ \E s \in Slots : FinishCall(s)

Spec == Init /\ [][Next]_connectionVars

-----------------------------------------------------------------------------
(* Properties.                                                             *)

\* Every row has its type and satisfies what its rehydration demands, so no
\* flow or connection can become unreadable.
ConnectionTypeOK ==
    /\ clock \in 0 .. MaxTime
    /\ member \in [Users -> Workspaces \cup {None}]
    /\ \A f \in Flows : flow[f] # None => flow[f] \in Flow /\ FlowConsistent(flow[f])
    /\ shown \subseteq Flows
    /\ \A k \in Connections :
          conn[k] # None => conn[k] \in Connection /\ ConnectionConsistent(conn[k])
    /\ \A s \in Slots : slot[s] # Idle => slot[s] \in Request
    /\ tokens \subseteq Token
    /\ spent \in [Flows -> Nat]

\* A revoked connection stays as it is: an authorization that was under way
\* when the user revoked it does not save it as active again.
RevokedIsFinal ==
    [][\A k \in Connections : conn[k] # None /\ conn[k].status = "revoked" => conn'[k] = conn[k]]_connectionVars

\* A flow is decided once: a consent that was being approved when the user
\* cancelled gets no code, and a flow with a code keeps it.
DecidedOnce ==
    [][\A f \in Flows : flow[f] # None /\ flow[f].consumed # None =>
          /\ flow'[f].consumed = flow[f].consumed
          /\ flow'[f].code = None <=> flow[f].code = None]_connectionVars

\* A call is admitted only while its connection stands and its user is a
\* member of the workspace the token names.
AdmittedWhileLive ==
    [][\A s \in Slots : slot'[s].phase = "admitted" /\ slot[s].phase # "admitted" =>
          /\ conn[slot[s].conn].status \in {"authorized", "active"}
          /\ member[slot[s].user] = slot[s].ws]_connectionVars

\* A code is exchanged for a token once.  The comment of the repository's
\* get says that locking the request serializes code consumption; the join
\* returns the code as it was before the wait for that lock.
CodeSpentOnce == \A f \in Flows : spent[f] <= 1

=============================================================================
