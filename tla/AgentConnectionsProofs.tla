----------------------- MODULE AgentConnectionsProofs -----------------------
(***************************************************************************)
(* Proofs about AgentConnections for any users, workspaces, flows,          *)
(* connections, concurrent requests and lifetimes: AccessInv is inductive;  *)
(* rows stay readable, a revoked connection stays revoked, a flow is        *)
(* decided once, and a call is admitted only while its connection stands.   *)
(*                                                                         *)
(* The row of a locked connection is still the row that was read, and of    *)
(* what else a request remembers the argument only needs that it exists:    *)
(* rows and codes are never removed.  That a code read before the wait for  *)
(* its flow may be spent twice (CodeSpentOnce) does no harm to any of this. *)
(***************************************************************************)
EXTENDS AgentConnections, TLAPS

\* The types of the tables and of the requests in flight.
AccessTyped ==
    /\ clock \in 0 .. MaxTime
    /\ member \in [Users -> Workspaces \cup {None}]
    /\ flow \in [Flows -> Flow \cup {None}]
    /\ shown \subseteq Flows
    /\ conn \in [Connections -> Connection \cup {None}]
    /\ slot \in [Slots -> Request \cup {Idle}]
    /\ tokens \subseteq Token
    /\ spent \in [Flows -> Nat]

\* A flow can be read back, and its code names a connection that exists.
FlowSound(v, cn) == /\ FlowConsistent(v)
                    /\ v.code # None => cn[v.code.conn] # None

\* What the steps before have established for a request: the rows it names
\* exist, and the connection it holds locked is the one it read.
Backed(r, fl, cn) ==
    /\ fl[r.flow] # None
    /\ r.phase = "start" /\ r.op = "login" => r.user \in Users
    /\ r.phase \in {"attached", "consented", "requested"} => r.user \in Users
    /\ r.phase \in {"consented", "requested", "issue"} => r.ws \in Workspaces
    /\ r.phase \in {"requested", "issue", "authorize", "locked"} \/ (r.phase = "start" /\ r.op = "token")
          => r.conn \in Connections /\ cn[r.conn] # None
    /\ r.phase = "start" /\ r.op = "token" =>
          r.seen \in Code /\ CodeConsistent(r.seen) /\ r.seen.conn = r.conn /\ fl[r.flow].code # None
    /\ r.phase = "locked" => /\ r.seen = cn[r.conn]
                             /\ r.seen.ws = r.ws /\ r.seen.user = r.user

FlowsSound == \A f \in Flows : flow[f] # None => FlowSound(flow[f], conn)
ConnectionsSound == \A k \in Connections : conn[k] # None => ConnectionConsistent(conn[k])
RequestsBacked == \A s \in Slots : slot[s] # Idle => Backed(slot[s], flow, conn)
TokensBacked == \A tk \in tokens : flow[tk.flow] # None /\ conn[tk.conn] # None
PagesBacked == \A f \in shown : flow[f] # None

\* The row of a connection is locked by one request.
LocksExclusive ==
    \A s, t \in Slots :
        slot[s].phase = "locked" /\ slot[t].phase = "locked" /\ slot[s].conn = slot[t].conn => s = t

AccessInv == /\ AccessTyped /\ FlowsSound /\ ConnectionsSound /\ RequestsBacked
             /\ TokensBacked /\ PagesBacked /\ LocksExclusive

-----------------------------------------------------------------------------
(* What the domain makes of a flow, a connection and a request.             *)

\* A new flow is readable.
LEMMA RequestFlowSound ==
    ASSUME NEW t \in Nat, NEW cn
    PROVE  RequestFlow(t) \in Flow /\ FlowSound(RequestFlow(t), cn) /\ RequestFlow(t).code = None
BY ConnectionsAssumption DEF RequestFlow, Flow, Time, FlowSound, FlowConsistent

\* Attaching the subject changes nothing else.
LEMMA AttachSound ==
    ASSUME NEW v \in Flow, NEW u \in Users, NEW cn, FlowSound(v, cn)
    PROVE  LET new == AttachSubject(v, u)
           IN  new \in Flow /\ FlowSound(new, cn) /\ new.code = v.code /\ new.consumed = v.consumed
<1> DEFINE new == AttachSubject(v, u)
<1>1. new \in Flow
  BY DEF AttachSubject, Flow
<1>2. /\ new.created = v.created /\ new.expires = v.expires
      /\ new.consumed = v.consumed /\ new.code = v.code
  BY DEF AttachSubject, Flow
<1> HIDE DEF new
<1>3. FlowSound(new, cn)
  BY <1>2 DEF FlowSound, FlowConsistent
<1> QED BY <1>1, <1>2, <1>3 DEF new

\* Cancelling an available flow.
LEMMA CancelSound ==
    ASSUME NEW v \in Flow, NEW t \in Nat, NEW cn, FlowSound(v, cn), AvailableAt(v, t)
    PROVE  LET new == CancelFlow(v, t)
           IN  new \in Flow /\ FlowSound(new, cn) /\ new.code = v.code
<1> DEFINE new == CancelFlow(v, t)
<1>1. new \in Flow
  BY DEF CancelFlow, Flow, Time
<1>2. /\ new.created = v.created /\ new.expires = v.expires
      /\ new.consumed = t /\ new.code = v.code
  BY DEF CancelFlow, Flow
<1> HIDE DEF new
<1>3. t # None
  BY ConnectionsAssumption
<1>4. FlowSound(new, cn)
  BY <1>2, <1>3 DEF FlowSound, FlowConsistent, AvailableAt
<1> QED BY <1>1, <1>2, <1>4 DEF new

\* Approving an available flow gives it a code for an existing connection.
LEMMA ApproveSound ==
    ASSUME NEW v \in Flow, NEW k \in Connections, NEW w \in Workspaces, NEW t \in Nat, NEW cn,
           FlowSound(v, cn), AvailableAt(v, t), cn[k] # None
    PROVE  LET new == ApproveAndIssueCode(v, k, w, t)
           IN  new \in Flow /\ FlowSound(new, cn) /\ new.code # None
<1> DEFINE code == [conn |-> k, ws |-> w, created |-> t, expires |-> t + CodeTtl, consumed |-> None]
           new == [v EXCEPT !.consumed = t, !.code = code]
<1>1. code \in Code /\ CodeConsistent(code) /\ code.conn = k
  BY ConnectionsAssumption DEF Code, Time, CodeConsistent
<1>2. code # None /\ t # None
  BY <1>1, NoneIsNoRow, ConnectionsAssumption
<1> HIDE DEF code
<1>3. new \in Flow
  BY <1>1 DEF Flow, Time
<1>4. /\ new.created = v.created /\ new.expires = v.expires
      /\ new.consumed = t /\ new.code = code
  BY DEF Flow
<1> HIDE DEF new
<1>5. FlowSound(new, cn)
  BY <1>1, <1>2, <1>4 DEF FlowSound, FlowConsistent, AvailableAt
<1>6. ApproveAndIssueCode(v, k, w, t) = new
  BY DEF ApproveAndIssueCode, new, code
<1> QED BY <1>2, <1>3, <1>4, <1>5, <1>6

\* Spending the code as it was read keeps the flow readable.
LEMMA ConsumeSound ==
    ASSUME NEW v \in Flow, NEW c \in Code, NEW t \in Nat, NEW cn,
           FlowSound(v, cn), v.code # None, CodeConsistent(c), cn[c.conn] # None,
           MayConsumeCode(c, t)
    PROVE  LET new == ConsumeCodeOf(v, c, t)
           IN  new \in Flow /\ FlowSound(new, cn) /\ new.code # None /\ new.consumed = v.consumed
<1> DEFINE code == [c EXCEPT !.consumed = t]
           new == [v EXCEPT !.code = code]
<1>1. code \in Code
  BY DEF Code, Time
<1>2. code.created = c.created /\ code.expires = c.expires /\ code.consumed = t /\ code.conn = c.conn
  BY DEF Code
<1>3. code # None /\ t # None
  BY <1>1, NoneIsNoRow, ConnectionsAssumption
<1> HIDE DEF code
<1>4. new \in Flow
  BY <1>1 DEF Flow
<1>5. /\ new.created = v.created /\ new.expires = v.expires
      /\ new.consumed = v.consumed /\ new.code = code
  BY DEF Flow
<1> HIDE DEF new
<1>6. CodeConsistent(code)
  BY <1>2, <1>3 DEF CodeConsistent, MayConsumeCode
<1>7. FlowSound(new, cn)
  BY <1>2, <1>3, <1>5, <1>6 DEF FlowSound, FlowConsistent
<1>8. ConsumeCodeOf(v, c, t) = new
  BY DEF ConsumeCodeOf, new, code
<1> QED BY <1>3, <1>4, <1>5, <1>7, <1>8

\* A requested connection is readable until it expires with its flow.
LEMMA RequestedSound ==
    ASSUME NEW u \in Users, NEW w \in Workspaces, NEW f \in Flows, NEW e \in Nat, NEW t \in Nat, t < e
    PROVE  LET new == RequestConnectionRow(u, w, f, e, t)
           IN  new \in Connection /\ ConnectionConsistent(new)
BY DEF RequestConnectionRow, Connection, ConnectionConsistent, Time, Statuses, Clients, Scopes

\* Continuing, activating and revoking keep a connection readable.
LEMMA ContinueSound ==
    ASSUME NEW k \in Connection, NEW t \in Nat, ConnectionConsistent(k), MayContinue(k, t)
    PROVE  Continue(k, t) \in Connection /\ ConnectionConsistent(Continue(k, t))
<1> DEFINE new == Continue(k, t)
<1>1. new \in Connection
  BY DEF Continue, Connection, Time, Statuses
<1>2. /\ new.pendingExpires = k.pendingExpires /\ new.created = k.created /\ new.status = "authorized"
      /\ new.continued = t /\ new.activated = k.activated /\ new.revoked = k.revoked
  BY DEF Continue, Connection
<1>3. t # None
  BY ConnectionsAssumption
<1> HIDE DEF new
<1>4. ConnectionConsistent(new)
  BY <1>2, <1>3 DEF ConnectionConsistent, MayContinue
<1> QED BY <1>1, <1>4 DEF new

\* A pending or active connection that is activated and used can be loaded again.
LEMMA ActivateSound ==
    ASSUME NEW k \in Connection, NEW t \in Nat, ConnectionConsistent(k), MayActivate(k, t)
    PROVE  ActivateAndUse(k, t) \in Connection /\ ConnectionConsistent(ActivateAndUse(k, t))
<1>1. CASE k.status = "active"
  BY <1>1 DEF ActivateAndUse
<1>2. CASE k.status # "active"
  <2> DEFINE new == [k EXCEPT !.status = "active", !.activated = t]
  <2>1. new \in Connection
    BY DEF Connection, Time, Statuses
  <2>2. /\ new.pendingExpires = k.pendingExpires /\ new.created = k.created /\ new.status = "active"
        /\ new.continued = k.continued /\ new.activated = t /\ new.revoked = k.revoked
    BY DEF Connection
  <2>3. t # None
    BY ConnectionsAssumption
  <2> HIDE DEF new
  <2>4. ConnectionConsistent(new)
    BY <1>2, <2>2, <2>3 DEF ConnectionConsistent, MayActivate
  <2>5. ActivateAndUse(k, t) = new
    BY <1>2 DEF ActivateAndUse, new
  <2> QED BY <2>1, <2>4, <2>5
<1> QED BY <1>1, <1>2

\* A revoked connection can be loaded again.
LEMMA RevokeSound ==
    ASSUME NEW k \in Connection, NEW t \in Nat, ConnectionConsistent(k)
    PROVE  RevokeRow(k, t) \in Connection /\ ConnectionConsistent(RevokeRow(k, t))
<1> DEFINE new == RevokeRow(k, t)
<1>1. new \in Connection
  BY DEF RevokeRow, Connection, Time, Statuses
<1>2. /\ new.pendingExpires = k.pendingExpires /\ new.created = k.created /\ new.status = "revoked"
      /\ new.revoked = t
  BY DEF RevokeRow, Connection
<1>3. t # None
  BY ConnectionsAssumption
<1> HIDE DEF new
<1>4. ConnectionConsistent(new)
  BY <1>2, <1>3 DEF ConnectionConsistent
<1> QED BY <1>1, <1>4 DEF new

\* A request with another phase, or another phase and one more field.
LEMMA RephasedRequest ==
    ASSUME NEW r \in Request, NEW p \in Phases
    PROVE  LET new == [r EXCEPT !.phase = p]
           IN  /\ new \in Request /\ new.phase = p /\ new.op = r.op /\ new.flow = r.flow
               /\ new.user = r.user /\ new.ws = r.ws /\ new.conn = r.conn /\ new.seen = r.seen
BY DEF Request

\* A request that goes on with what it has read keeps whom and what it is for.
LEMMA RephasedSeen ==
    ASSUME NEW r \in Request, NEW p \in Phases, NEW x \in Code \cup Connection \cup {None}
    PROVE  LET new == [r EXCEPT !.phase = p, !.seen = x]
           IN  /\ new \in Request /\ new.phase = p /\ new.op = r.op /\ new.flow = r.flow
               /\ new.user = r.user /\ new.ws = r.ws /\ new.conn = r.conn /\ new.seen = x
<1>1. [r EXCEPT !.phase = p, !.seen = x] \in Request
  BY DEF Request
<1> QED BY <1>1 DEF Request

\* A request is not idle, and an idle slot has no phase of a request.
LEMMA IdleIsNoRequest ==
    ASSUME NEW r \in Request
    PROVE  r # Idle /\ r.phase \in Phases /\ r.phase # "idle"
BY DEF Request, Phases, Idle

-----------------------------------------------------------------------------
(* What a step has to show.                                                 *)

\* Rows and codes are never removed.
Grows ==
    /\ \A f \in Flows : flow[f] # None => /\ flow'[f] # None
                                          /\ flow[f].code # None => flow'[f].code # None
    /\ \A k \in Connections : conn[k] # None => conn'[k] # None

\* A request stays backed while tables grow and the row it holds stands.
LEMMA StaysBacked ==
    ASSUME NEW r \in Request, Backed(r, flow, conn), Grows,
           r.phase = "locked" => conn'[r.conn] = conn[r.conn]
    PROVE  Backed(r, flow', conn')
BY DEF Backed, Grows, Request

\* A step that writes sound rows and leaves backed requests keeps the invariant.
LEMMA StepKeepsInv ==
    ASSUME AccessInv, AccessTyped', Grows,
           \A f \in Flows : flow'[f] # None /\ flow'[f] # flow[f] => FlowSound(flow'[f], conn'),
           \A k \in Connections : conn'[k] # None /\ conn'[k] # conn[k] => ConnectionConsistent(conn'[k]),
           \A s \in Slots : slot'[s] # Idle /\ slot'[s] # slot[s] => Backed(slot'[s], flow', conn'),
           \A s \in Slots : slot'[s] = slot[s] /\ slot[s].phase = "locked" =>
              conn'[slot[s].conn] = conn[slot[s].conn],
           \A tk \in tokens' \ tokens : flow'[tk.flow] # None /\ conn'[tk.conn] # None,
           \A f \in shown' \ shown : flow[f] # None, LocksExclusive'
    PROVE  AccessInv'
<1> USE DEF AccessInv
<1>1. FlowsSound'
  <2> SUFFICES ASSUME NEW f \in Flows, flow'[f] # None PROVE FlowSound(flow'[f], conn')
    BY DEF FlowsSound
  <2>1. CASE flow'[f] = flow[f]
    <3>1. FlowSound(flow[f], conn) /\ flow[f] \in Flow
      BY <2>1 DEF FlowsSound, AccessTyped
    <3>2. flow[f].code # None => flow[f].code.conn \in Connections
      BY <3>1 DEF Flow, Code
    <3> QED BY <2>1, <3>1, <3>2 DEF FlowSound, Grows
  <2> QED BY <2>1
<1>2. ConnectionsSound'
  BY DEF ConnectionsSound
<1>3. RequestsBacked'
  <2> SUFFICES ASSUME NEW s \in Slots, slot'[s] # Idle, slot'[s] = slot[s]
               PROVE  Backed(slot'[s], flow', conn')
    BY DEF RequestsBacked
  <2>1. slot[s] \in Request /\ Backed(slot[s], flow, conn)
    BY DEF RequestsBacked, AccessTyped
  <2> QED BY <2>1, StaysBacked
<1>4. TokensBacked'
  BY DEF TokensBacked, AccessTyped, Token, Grows
<1>5. PagesBacked'
  BY DEF PagesBacked, AccessTyped, Grows
<1> QED BY <1>1, <1>2, <1>3, <1>4, <1>5

\* The slot of a request changes.
Becomes(s, r) == /\ slot' \in [Slots -> Request \cup {Idle}]
                 /\ slot'[s] = r
                 /\ \A t \in Slots : t # s => slot'[t] = slot[t]

\* Move puts the request into its slot and leaves the other slots alone.
LEMMA MoveEffect ==
    ASSUME AccessTyped, NEW s \in Slots, NEW r \in Request \cup {Idle}, Move(s, r)
    PROVE  Becomes(s, r)
BY DEF AccessTyped, Move, Becomes

\* Answer empties the slot and leaves the others alone.
LEMMA AnswerEffect ==
    ASSUME AccessTyped, NEW s \in Slots, Answer(s)
    PROVE  Becomes(s, Idle)
BY DEF AccessTyped, Answer, Becomes

\* A request in flight.
LEMMA InFlight ==
    ASSUME AccessInv, NEW s \in Slots, slot[s].phase \in Phases
    PROVE  /\ slot[s] \in Request /\ slot[s] # Idle /\ Backed(slot[s], flow, conn)
           /\ slot[s].flow \in Flows /\ flow[slot[s].flow] \in Flow
           /\ FlowSound(flow[slot[s].flow], conn)
<1>1. slot[s] # Idle
  BY DEF Phases, Idle
<1>2. slot[s] \in Request /\ Backed(slot[s], flow, conn)
  BY <1>1 DEF AccessInv, AccessTyped, RequestsBacked
<1>3. slot[s].flow \in Flows
  BY <1>2 DEF Request
<1> QED BY <1>1, <1>2, <1>3 DEF AccessInv, AccessTyped, Backed, FlowsSound

\* A request that takes no lock leaves those of the others alone.
LEMMA NoNewLock ==
    ASSUME AccessInv, NEW s \in Slots, NEW r, Becomes(s, r), r.phase # "locked"
    PROVE  LocksExclusive'
BY DEF AccessInv, LocksExclusive, Becomes

\* A step of a request that writes no row.
LEMMA SlotStepKeepsInv ==
    ASSUME AccessInv, NEW s \in Slots, NEW r \in Request \cup {Idle}, Becomes(s, r),
           r # Idle => Backed(r, flow, conn), LocksExclusive',
           shown' \subseteq Flows, \A f \in shown' \ shown : flow[f] # None,
           UNCHANGED <<clock, member, flow, conn, tokens, spent>>
    PROVE  AccessInv'
<1>1. AccessTyped'
  BY DEF AccessInv, AccessTyped, Becomes
<1>2. Grows
  BY DEF Grows
<1> QED BY <1>1, <1>2, StepKeepsInv DEF Becomes

\* A step that writes one flow.
LEMMA FlowStepKeepsInv ==
    ASSUME AccessInv, NEW f \in Flows, NEW v \in Flow, flow' = [flow EXCEPT ![f] = v],
           FlowSound(v, conn), flow[f] # None /\ flow[f].code # None => v.code # None,
           \/ UNCHANGED slot
           \/ \E s \in Slots : \E r \in Request \cup {Idle} :
                 Becomes(s, r) /\ r.phase # "locked" /\ (r # Idle => Backed(r, flow', conn)),
           UNCHANGED <<clock, member, shown, conn, tokens, spent>>
    PROVE  AccessInv'
<1>1. /\ flow' \in [Flows -> Flow \cup {None}] /\ flow'[f] = v
      /\ \A g \in Flows : g # f => flow'[g] = flow[g]
  BY DEF AccessInv, AccessTyped
<1>2. slot' \in [Slots -> Request \cup {Idle}]
  BY DEF AccessInv, AccessTyped, Becomes
<1>3. AccessTyped'
  BY <1>1, <1>2 DEF AccessInv, AccessTyped
<1>4. v # None
  BY NoneIsNoRow
<1>5. Grows
  BY <1>1, <1>4 DEF Grows
<1>6. LocksExclusive'
  BY NoNewLock DEF AccessInv, LocksExclusive
<1>7. \A s \in Slots : slot'[s] # Idle /\ slot'[s] # slot[s] => Backed(slot'[s], flow', conn')
  BY DEF Becomes
<1> QED BY <1>1, <1>3, <1>5, <1>6, <1>7, StepKeepsInv

\* A step that writes one connection no other request holds.
LEMMA ConnectionStepKeepsInv ==
    ASSUME AccessInv, NEW k \in Connections, NEW c \in Connection, conn' = [conn EXCEPT ![k] = c],
           ConnectionConsistent(c),
           \/ UNCHANGED slot /\ \A t \in Slots : slot[t].phase = "locked" => slot[t].conn # k
           \/ \E s \in Slots : \E r \in Request \cup {Idle} :
                 /\ Becomes(s, r) /\ r.phase # "locked" /\ (r # Idle => Backed(r, flow, conn'))
                 /\ r # slot[s]
                 /\ \A t \in Slots \ {s} : slot[t].phase = "locked" => slot[t].conn # k,
           tokens' \subseteq Token, spent' \in [Flows -> Nat],
           \A tk \in tokens' \ tokens : flow[tk.flow] # None /\ tk.conn = k,
           UNCHANGED <<clock, member, flow, shown>>
    PROVE  AccessInv'
<1>1. /\ conn' \in [Connections -> Connection \cup {None}] /\ conn'[k] = c
      /\ \A j \in Connections : j # k => conn'[j] = conn[j]
  BY DEF AccessInv, AccessTyped
<1>2. slot' \in [Slots -> Request \cup {Idle}]
  BY DEF AccessInv, AccessTyped, Becomes
<1>3. AccessTyped'
  BY <1>1, <1>2 DEF AccessInv, AccessTyped
<1>4. c # None
  BY NoneIsNoRow
<1>5. Grows
  BY <1>1, <1>4 DEF Grows
<1>6. LocksExclusive'
  BY NoNewLock DEF AccessInv, LocksExclusive
<1>7. \A s \in Slots : slot'[s] # Idle /\ slot'[s] # slot[s] => Backed(slot'[s], flow', conn')
  BY DEF Becomes
<1>8. \A s \in Slots : slot'[s] = slot[s] /\ slot[s].phase = "locked" =>
         conn'[slot[s].conn] = conn[slot[s].conn]
  <2> SUFFICES ASSUME NEW s \in Slots, slot'[s] = slot[s], slot[s].phase = "locked"
               PROVE  conn'[slot[s].conn] = conn[slot[s].conn]
    OBVIOUS
  <2>1. slot[s].conn # k
    BY DEF Becomes
  <2>2. slot[s].conn \in Connections
    BY InFlight DEF Phases, Backed
  <2> QED BY <1>1, <2>1, <2>2
<1>9. \A tk \in tokens' \ tokens : flow'[tk.flow] # None /\ conn'[tk.conn] # None
  BY <1>1, <1>4
<1> QED BY <1>1, <1>3, <1>5, <1>6, <1>7, <1>8, <1>9, StepKeepsInv

-----------------------------------------------------------------------------
(* The invariant, action by action.                                        *)

\* At first there are no rows and no requests.
LEMMA InitAccessInv == Init => AccessInv
<1> SUFFICES ASSUME Init PROVE AccessInv
  OBVIOUS
<1>1. AccessTyped
  BY ConnectionsAssumption DEF Init, AccessTyped
<1>2. \A s \in Slots : slot[s] = Idle /\ slot[s].phase # "locked"
  BY DEF Init, Idle
<1> QED BY <1>1, <1>2 DEF Init, AccessInv, FlowsSound, ConnectionsSound, RequestsBacked,
                          TokensBacked, PagesBacked, LocksExclusive

\* A new request with no lock is backed if the rows it names exist.
LEMMA StartingSteps ==
    ASSUME AccessInv, NEW s \in Slots,
           \/ \E f \in Flows, u \in Users : Auth0Callback(s, f, u)
           \/ \E f \in Flows : ApproveConsent(s, f) \/ ExchangeCode(s, f)
           \/ \E tk \in tokens : AuthenticateRequest(s, tk)
    PROVE  AccessInv'
<1> USE DEF AccessInv
<1>1. ASSUME NEW r \in Request, Move(s, r), r.phase \in {"start", "consented", "authorize"},
             Backed(r, flow, conn), UNCHANGED <<clock, member, flow, shown, conn, tokens, spent>>
      PROVE  AccessInv'
  <2>1. Becomes(s, r)
    BY <1>1, MoveEffect
  <2>2. LocksExclusive' /\ r.phase # "locked"
    BY <1>1, <2>1, NoNewLock
  <2> QED BY <1>1, <2>1, <2>2, SlotStepKeepsInv DEF AccessTyped
<1>2. ASSUME NEW f \in Flows, NEW u \in Users, Auth0Callback(s, f, u) PROVE AccessInv'
  <2> DEFINE r == [op |-> "login", phase |-> "start", flow |-> f, user |-> u, ws |-> None,
                   conn |-> None, seen |-> None]
  <2>1. r \in Request
    BY DEF Request, Ops, Phases
  <2>2. Backed(r, flow, conn) /\ r.phase = "start"
    BY <1>2 DEF Auth0Callback, Backed
  <2> QED BY <1>1, <1>2, <2>1, <2>2 DEF Auth0Callback
<1>3. ASSUME NEW f \in Flows, ApproveConsent(s, f) PROVE AccessInv'
  <2> DEFINE w == member[flow[f].user]
             r == [op |-> "approve", phase |-> "consented", flow |-> f, user |-> flow[f].user,
                   ws |-> w, conn |-> None, seen |-> None]
  <2>1. flow[f] # None /\ flow[f].user # None /\ w # None
    BY <1>3 DEF ApproveConsent, ConsentContext
  <2>2. flow[f].user \in Users /\ w \in Workspaces
    BY <2>1 DEF AccessTyped, Flow
  <2>3. r \in Request
    BY <2>2 DEF Request, Ops, Phases
  <2>4. Backed(r, flow, conn) /\ r.phase = "consented"
    BY <2>1, <2>2 DEF Backed
  <2> QED BY <1>1, <1>3, <2>3, <2>4 DEF ApproveConsent
<1>4. ASSUME NEW f \in Flows, ExchangeCode(s, f) PROVE AccessInv'
  <2> DEFINE c == flow[f].code
             r == [op |-> "token", phase |-> "start", flow |-> f, user |-> flow[f].user,
                   ws |-> c.ws, conn |-> c.conn, seen |-> c]
  <2>1. flow[f] # None /\ c # None
    BY <1>4 DEF ExchangeCode
  <2>2. flow[f] \in Flow /\ FlowSound(flow[f], conn)
    BY <2>1 DEF AccessTyped, FlowsSound
  <2>3. flow[f].user \in Users \cup {None} /\ c \in Code
    BY <2>1, <2>2 DEF Flow
  <2>4. CodeConsistent(c) /\ conn[c.conn] # None
    BY <2>1, <2>2 DEF FlowSound, FlowConsistent
  <2>5. c.ws \in Workspaces /\ c.conn \in Connections
    BY <2>3 DEF Code
  <2>6. r \in Request
    BY <2>3, <2>5 DEF Request, Ops, Phases
  <2>7. Backed(r, flow, conn) /\ r.phase = "start"
    BY <2>1, <2>3, <2>4, <2>5 DEF Backed
  <2> QED BY <1>1, <1>4, <2>6, <2>7 DEF ExchangeCode
<1>5. ASSUME NEW tk \in tokens, AuthenticateRequest(s, tk) PROVE AccessInv'
  <2> DEFINE r == [op |-> "call", phase |-> "authorize", flow |-> tk.flow, user |-> tk.user,
                   ws |-> tk.ws, conn |-> tk.conn, seen |-> None]
  <2>1. /\ tk.flow \in Flows /\ tk.user \in Users /\ tk.ws \in Workspaces /\ tk.conn \in Connections
        /\ flow[tk.flow] # None /\ conn[tk.conn] # None
    BY DEF AccessTyped, Token, TokensBacked
  <2>2. r \in Request
    BY <2>1 DEF Request, Ops, Phases
  <2>3. Backed(r, flow, conn) /\ r.phase = "authorize"
    BY <2>1 DEF Backed
  <2> QED BY <1>1, <1>5, <2>2, <2>3 DEF AuthenticateRequest
<1> QED BY <1>2, <1>3, <1>4, <1>5

\* A request that is answered or given up.
LEMMA AnsweringKeepsInv ==
    ASSUME AccessInv, NEW s \in Slots, Answer(s), shown' \subseteq Flows,
           \A f \in shown' \ shown : flow[f] # None,
           UNCHANGED <<clock, member, flow, conn, tokens, spent>>
    PROVE  AccessInv'
<1>1. Becomes(s, Idle) /\ Idle.phase # "locked"
  BY AnswerEffect DEF AccessInv, Idle
<1>2. LocksExclusive'
  BY <1>1, NoNewLock
<1> QED BY <1>1, <1>2, SlotStepKeepsInv

\* The steps of a login.
LEMMA LoginSteps ==
    ASSUME AccessInv, NEW s \in Slots, AttachAuthorizationSubject(s) \/ FindReusableConnection(s)
    PROVE  AccessInv'
<1> USE DEF AccessInv
<1> DEFINE r == slot[s]
<1>1. CASE AttachAuthorizationSubject(s)
  <2>1. r.phase = "start" /\ r.op = "login"
    BY <1>1 DEF AttachAuthorizationSubject
  <2>2. /\ r \in Request /\ Backed(r, flow, conn) /\ r.flow \in Flows
        /\ flow[r.flow] \in Flow /\ FlowSound(flow[r.flow], conn) /\ r.user \in Users
    BY <2>1, InFlight DEF Phases, Backed
  <2>3. CASE MayAttach(flow[r.flow], clock)
    <3> DEFINE v == AttachSubject(flow[r.flow], r.user)
               q == [r EXCEPT !.phase = "attached"]
    <3>1. flow' = [flow EXCEPT ![r.flow] = v] /\ Move(s, q)
      BY <1>1, <2>3 DEF AttachAuthorizationSubject
    <3>2. v \in Flow /\ FlowSound(v, conn) /\ v.code = flow[r.flow].code
      BY <2>2, AttachSound
    <3>3. q \in Request /\ q.phase = "attached" /\ q.flow = r.flow /\ q.user = r.user
      BY <2>2, RephasedRequest DEF Phases
    <3> HIDE DEF v, q
    <3>4. flow'[r.flow] # None
      BY <2>2, <3>1, <3>2, NoneIsNoRow DEF AccessTyped
    <3>5. Backed(q, flow', conn)
      BY <2>2, <3>3, <3>4 DEF Backed
    <3>6. Becomes(s, q)
      BY <3>1, <3>3, MoveEffect
    <3> QED BY <1>1, <2>2, <3>1, <3>2, <3>3, <3>5, <3>6, FlowStepKeepsInv DEF AttachAuthorizationSubject
  <2>4. CASE ~MayAttach(flow[r.flow], clock)
    BY <1>1, <2>4, AnsweringKeepsInv DEF AttachAuthorizationSubject, AccessTyped
  <2> QED BY <2>3, <2>4
<1>2. CASE FindReusableConnection(s)
  <2>1. r.phase = "attached"
    BY <1>2 DEF FindReusableConnection
  <2>2. /\ r \in Request /\ Backed(r, flow, conn)
        /\ r.flow \in Flows /\ flow[r.flow] # None /\ r.user \in Users
    BY <2>1, InFlight DEF Phases, Backed
  <2>3. ASSUME NEW k \in Reusable(r.user, r.flow),
               Move(s, [r EXCEPT !.phase = "issue", !.conn = k, !.ws = conn[k].ws]),
               UNCHANGED shown
        PROVE  AccessInv'
    <3> DEFINE w == conn[k].ws
               q == [r EXCEPT !.phase = "issue", !.conn = k, !.ws = w]
    <3>1. k \in Connections /\ conn[k] # None /\ w \in Workspaces
      BY DEF Reusable, AccessTyped, Connection
    <3> HIDE DEF w
    <3>2. q \in Request
      BY <2>2, <3>1 DEF Request, Phases
    <3>3. q.phase = "issue" /\ q.flow = r.flow /\ q.user = r.user /\ q.conn = k /\ q.ws = w
      BY <2>2, <3>1 DEF Request
    <3>4. Move(s, q)
      BY <2>3 DEF w
    <3> HIDE DEF q
    <3>5. Backed(q, flow, conn)
      BY <2>2, <3>1, <3>3 DEF Backed
    <3>6. Becomes(s, q)
      BY <3>2, <3>4, MoveEffect
    <3>7. LocksExclusive'
      BY <3>3, <3>6, NoNewLock
    <3> QED BY <1>2, <2>3, <3>2, <3>5, <3>6, <3>7, SlotStepKeepsInv DEF FindReusableConnection, AccessTyped
  <2>4. CASE /\ shown' = IF ConsentContext(r.flow, clock) THEN shown \cup {r.flow} ELSE shown
             /\ Answer(s)
    BY <1>2, <2>2, <2>4, AnsweringKeepsInv DEF FindReusableConnection, AccessTyped
  <2> QED BY <1>2, <2>3, <2>4 DEF FindReusableConnection
<1> QED BY <1>1, <1>2

\* The three transactions of a consent, and the flow's own decisions.
LEMMA ConsentSteps ==
    ASSUME AccessInv, NEW s \in Slots,
           RequestAgentConnection(s) \/ ConsumeContinuation(s) \/ ApproveAuthorization(s)
    PROVE  AccessInv'
<1> USE DEF AccessInv
<1> DEFINE r == slot[s]
<1>0. clock \in Nat
  BY ConnectionsAssumption DEF AccessTyped
<1>1. CASE RequestAgentConnection(s)
  <2>1. r.phase = "consented"
    BY <1>1 DEF RequestAgentConnection
  <2>2. /\ r \in Request /\ Backed(r, flow, conn) /\ r.flow \in Flows
        /\ flow[r.flow] \in Flow /\ r.user \in Users /\ r.ws \in Workspaces
    BY <2>1, InFlight DEF Phases, Backed
  <2> DEFINE e == flow[r.flow].expires
  <2>3. e \in Nat
    BY <2>2 DEF Flow
  <2>4. ASSUME NEW k \in Connections, conn[k] = None, ~(e <= clock),
               conn' = [conn EXCEPT ![k] = RequestConnectionRow(r.user, r.ws, r.flow, e, clock)],
               Move(s, [r EXCEPT !.phase = "requested", !.conn = k])
        PROVE  AccessInv'
    <3> DEFINE c == RequestConnectionRow(r.user, r.ws, r.flow, e, clock)
               q == [r EXCEPT !.phase = "requested", !.conn = k]
    <3>1. c \in Connection /\ ConnectionConsistent(c)
      BY <1>0, <2>2, <2>3, <2>4, RequestedSound
    <3>2. q \in Request
      BY <2>2 DEF Request, Phases
    <3>3. q.phase = "requested" /\ q.flow = r.flow /\ q.user = r.user /\ q.ws = r.ws /\ q.conn = k
      BY <2>2 DEF Request
    <3> HIDE DEF c, q
    <3>4. conn' = [conn EXCEPT ![k] = c] /\ Move(s, q)
      BY <2>4 DEF c, q
    <3>5. conn'[k] # None
      BY <3>1, <3>4, NoneIsNoRow DEF AccessTyped
    <3>6. Backed(q, flow, conn')
      BY <2>2, <3>3, <3>5 DEF Backed
    <3>7. Becomes(s, q)
      BY <3>2, <3>4, MoveEffect
    <3>8. \A t \in Slots : slot[t].phase = "locked" => slot[t].conn # k
      BY <2>4, InFlight DEF Backed, Phases
    <3> QED BY <1>1, <2>1, <3>1, <3>2, <3>3, <3>4, <3>6, <3>7, <3>8, ConnectionStepKeepsInv
            DEF RequestAgentConnection, AccessTyped
  <2>5. CASE Answer(s) /\ UNCHANGED conn
    BY <1>1, <2>5, AnsweringKeepsInv DEF RequestAgentConnection, AccessTyped
  <2> QED BY <1>1, <2>4, <2>5 DEF RequestAgentConnection
<1>2. CASE ConsumeContinuation(s)
  <2> DEFINE k == r.conn
  <2>1. r.phase = "requested" /\ ConnectionFree(k)
    BY <1>2 DEF ConsumeContinuation
  <2>2. /\ r \in Request /\ Backed(r, flow, conn) /\ r.flow \in Flows
        /\ r.user \in Users /\ r.ws \in Workspaces /\ k \in Connections /\ conn[k] # None
    BY <2>1, InFlight DEF Phases, Backed
  <2>3. conn[k] \in Connection /\ ConnectionConsistent(conn[k])
    BY <2>2 DEF AccessTyped, ConnectionsSound
  <2>4. CASE /\ MayContinue(conn[k], clock)
             /\ conn' = [conn EXCEPT ![k] = Continue(@, clock)]
             /\ Move(s, [r EXCEPT !.phase = "issue"])
    <3> DEFINE c == Continue(conn[k], clock)
               q == [r EXCEPT !.phase = "issue"]
    <3>1. c \in Connection /\ ConnectionConsistent(c)
      BY <1>0, <2>3, <2>4, ContinueSound
    <3>2. /\ q \in Request /\ q.phase = "issue" /\ q.flow = r.flow /\ q.user = r.user
          /\ q.ws = r.ws /\ q.conn = k
      BY <2>2, RephasedRequest DEF Phases
    <3>3. conn' = [conn EXCEPT ![k] = c] /\ Move(s, q)
      BY <2>4
    <3> HIDE DEF c, q
    <3>4. conn'[k] # None
      BY <2>2, <3>1, <3>3, NoneIsNoRow DEF AccessTyped
    <3>5. Backed(q, flow, conn')
      BY <2>2, <3>2, <3>4 DEF Backed
    <3>6. Becomes(s, q)
      BY <3>2, <3>3, MoveEffect
    <3>7. \A t \in Slots : slot[t].phase = "locked" => slot[t].conn # k
      BY <2>1 DEF ConnectionFree
    <3> QED BY <1>2, <2>1, <2>2, <3>1, <3>2, <3>3, <3>5, <3>6, <3>7, ConnectionStepKeepsInv
            DEF ConsumeContinuation, AccessTyped
  <2>5. CASE Answer(s) /\ UNCHANGED conn
    BY <1>2, <2>5, AnsweringKeepsInv DEF ConsumeContinuation, AccessTyped
  <2> QED BY <1>2, <2>4, <2>5 DEF ConsumeContinuation
<1>3. CASE ApproveAuthorization(s)
  <2>1. r.phase = "issue"
    BY <1>3 DEF ApproveAuthorization
  <2>2. /\ r \in Request /\ Backed(r, flow, conn) /\ r.flow \in Flows
        /\ flow[r.flow] \in Flow /\ FlowSound(flow[r.flow], conn)
        /\ r.ws \in Workspaces /\ r.conn \in Connections /\ conn[r.conn] # None
    BY <2>1, InFlight DEF Phases, Backed
  <2>3. CASE MayDecide(flow[r.flow], clock)
    <3> DEFINE v == ApproveAndIssueCode(flow[r.flow], r.conn, r.ws, clock)
    <3>1. v \in Flow /\ FlowSound(v, conn) /\ v.code # None
      BY <1>0, <2>2, <2>3, ApproveSound DEF MayDecide
    <3>2. flow' = [flow EXCEPT ![r.flow] = v]
      BY <1>3, <2>3 DEF ApproveAuthorization
    <3> HIDE DEF v
    <3>3. Becomes(s, Idle) /\ Idle.phase # "locked"
      BY <1>3, AnswerEffect DEF ApproveAuthorization, Idle
    <3> QED BY <1>3, <2>2, <3>1, <3>2, <3>3, FlowStepKeepsInv DEF ApproveAuthorization
  <2>4. CASE ~MayDecide(flow[r.flow], clock)
    BY <1>3, <2>4, AnsweringKeepsInv DEF ApproveAuthorization, AccessTyped
  <2> QED BY <2>3, <2>4
<1> QED BY <1>1, <1>2, <1>3

\* Starting and cancelling a flow.
LEMMA FlowSteps ==
    ASSUME AccessInv, NEW f \in Flows, Authorize(f) \/ CancelConsent(f)
    PROVE  AccessInv'
<1> USE DEF AccessInv
<1>0. clock \in Nat
  BY ConnectionsAssumption DEF AccessTyped
<1>1. CASE Authorize(f)
  <2>1. /\ flow' = [flow EXCEPT ![f] = RequestFlow(clock)] /\ flow[f] = None
        /\ RequestFlow(clock) \in Flow /\ FlowSound(RequestFlow(clock), conn)
    BY <1>0, <1>1, RequestFlowSound DEF Authorize
  <2> QED BY <1>1, <2>1, FlowStepKeepsInv DEF Authorize
<1>2. CASE CancelConsent(f)
  <2>1. MayDecide(flow[f], clock)
    BY <1>2 DEF CancelConsent
  <2>2. flow[f] # None
    BY <1>2 DEF CancelConsent, PagesBacked
  <2>3. flow[f] \in Flow /\ FlowSound(flow[f], conn)
    BY <2>2 DEF AccessTyped, FlowsSound
  <2> DEFINE v == CancelFlow(flow[f], clock)
  <2>4. v \in Flow /\ FlowSound(v, conn) /\ v.code = flow[f].code
    BY <1>0, <2>1, <2>3, CancelSound DEF MayDecide
  <2>5. flow' = [flow EXCEPT ![f] = v]
    BY <1>2 DEF CancelConsent
  <2> HIDE DEF v
  <2> QED BY <1>2, <2>4, <2>5, FlowStepKeepsInv DEF CancelConsent
<1> QED BY <1>1, <1>2

\* Exchanging a code and calling with a token: the connection's row is locked
\* when it is compared, and saved as it was read.
LEMMA ConsumeCodeStep ==
    ASSUME AccessInv, NEW s \in Slots, NEW verified \in BOOLEAN, ConsumeAuthorizationCode(s, verified)
    PROVE  AccessInv'
<1> USE DEF AccessInv
<1> DEFINE r == slot[s]
           q == [r EXCEPT !.phase = "authorize", !.seen = None]
<1>0. clock \in Nat
  BY ConnectionsAssumption DEF AccessTyped
<1>1. r.phase = "start" /\ r.op = "token"
  BY DEF ConsumeAuthorizationCode
<1>2. /\ r \in Request /\ Backed(r, flow, conn) /\ r.flow \in Flows
      /\ flow[r.flow] \in Flow /\ FlowSound(flow[r.flow], conn) /\ flow[r.flow].code # None
      /\ r.seen \in Code /\ CodeConsistent(r.seen) /\ r.seen.conn = r.conn
      /\ r.conn \in Connections /\ conn[r.conn] # None
  BY <1>1, InFlight DEF Phases, Backed
<1>3. q \in Request /\ q.phase = "authorize" /\ q.flow = r.flow /\ q.conn = r.conn
  BY <1>2, RephasedSeen DEF Phases
<1>4. CASE MayConsumeCode(r.seen, clock)
  <2> DEFINE v == ConsumeCodeOf(flow[r.flow], r.seen, clock)
  <2>1. v \in Flow /\ FlowSound(v, conn) /\ v.code # None
    BY <1>0, <1>2, <1>4, ConsumeSound
  <2>2. flow' = [flow EXCEPT ![r.flow] = v] /\ (Move(s, q) \/ Answer(s))
    BY <1>4 DEF ConsumeAuthorizationCode
  <2> HIDE DEF v, q
  <2>3. flow'[r.flow] # None
    BY <1>2, <2>1, <2>2, NoneIsNoRow DEF AccessTyped
  <2>4. Backed(q, flow', conn)
    BY <1>2, <1>3, <2>3 DEF Backed
  <2>5. Becomes(s, q) \/ Becomes(s, Idle)
    BY <1>3, <2>2, MoveEffect, AnswerEffect
  <2>6. Idle.phase # "locked"
    BY DEF Idle
  <2> QED BY <1>2, <1>3, <2>1, <2>2, <2>4, <2>5, <2>6, FlowStepKeepsInv DEF ConsumeAuthorizationCode
<1>5. CASE ~MayConsumeCode(r.seen, clock)
  BY <1>5, AnsweringKeepsInv DEF ConsumeAuthorizationCode, AccessTyped
<1> QED BY <1>4, <1>5

\* LockConnection keeps the invariant: the row is free and is read as it stands.
LEMMA LockStep ==
    ASSUME AccessInv, NEW s \in Slots, LockConnection(s)
    PROVE  AccessInv'
<1> USE DEF AccessInv
<1> DEFINE r == slot[s]
           k == conn[r.conn]
           q == [r EXCEPT !.phase = "locked", !.seen = k]
<1>1. r.phase = "authorize" /\ ConnectionFree(r.conn)
  BY DEF LockConnection
<1>2. /\ r \in Request /\ Backed(r, flow, conn) /\ r.flow \in Flows
      /\ r.conn \in Connections /\ k # None
  BY <1>1, InFlight DEF Phases, Backed
<1>3. k \in Connection
  BY <1>2 DEF AccessTyped
<1>4. CASE k.ws = r.ws /\ k.user = r.user /\ Move(s, q)
  <2>1. /\ q \in Request /\ q.phase = "locked" /\ q.seen = k
        /\ q.flow = r.flow /\ q.user = r.user /\ q.ws = r.ws /\ q.conn = r.conn
    <3> HIDE DEF k, r
    <3>1. q \in Request
      BY <1>2, <1>3 DEF Request, Phases
    <3> QED BY <1>2, <1>3, <3>1 DEF Request
  <2>2. Move(s, q)
    BY <1>4
  <2> HIDE DEF q
  <2>3. Backed(q, flow, conn)
    BY <1>2, <1>4, <2>1 DEF Backed
  <2>4. Becomes(s, q)
    BY <2>1, <2>2, MoveEffect
  <2>5. LocksExclusive'
    BY <1>1, <2>1, <2>4 DEF LocksExclusive, ConnectionFree, Becomes
  <2> QED BY <2>1, <2>3, <2>4, <2>5, SlotStepKeepsInv DEF LockConnection, AccessTyped
<1>5. CASE Answer(s)
  BY <1>5, AnsweringKeepsInv DEF LockConnection, AccessTyped
<1> QED BY <1>4, <1>5 DEF LockConnection

\* CommitAuthorization keeps the invariant: the row it activates is the row it has
\* locked, and the code or token it issues is backed by it.
LEMMA CommitStep ==
    ASSUME AccessInv, NEW s \in Slots, CommitAuthorization(s)
    PROVE  AccessInv'
<1> USE DEF AccessInv
<1> DEFINE r == slot[s]
           k == r.seen
           c == ActivateAndUse(k, clock)
           q == [r EXCEPT !.phase = "admitted", !.seen = None]
           granted == Eligible(k.user, k.ws) /\ MayActivate(k, clock)
<1>0. clock \in Nat
  BY ConnectionsAssumption DEF AccessTyped
<1>1. r.phase = "locked"
  BY DEF CommitAuthorization
<1>2. /\ r \in Request /\ Backed(r, flow, conn) /\ r.flow \in Flows /\ flow[r.flow] # None
      /\ r.conn \in Connections /\ conn[r.conn] # None /\ k = conn[r.conn]
  BY <1>1, InFlight DEF Phases, Backed
<1>3. k \in Connection /\ ConnectionConsistent(k)
  BY <1>2 DEF AccessTyped, ConnectionsSound
<1>4. CASE granted
  <2>1. c \in Connection /\ ConnectionConsistent(c)
    BY <1>0, <1>3, <1>4, ActivateSound
  <2>2. q \in Request /\ q.phase = "admitted" /\ q.flow = r.flow
    BY <1>2, RephasedSeen DEF Phases
  <2>3. /\ conn' = [conn EXCEPT ![r.conn] = c] /\ UNCHANGED <<clock, member, flow, shown>>
        /\ \/ Move(s, q) /\ UNCHANGED <<tokens, spent>>
           \/ /\ tokens' = tokens \cup {[flow |-> r.flow, user |-> k.user, conn |-> r.conn,
                                         ws |-> k.ws, expires |-> clock + TokenTtl]}
              /\ spent' = [spent EXCEPT ![r.flow] = @ + 1]
              /\ Answer(s)
    BY <1>4 DEF CommitAuthorization
  <2>4. \A t \in Slots \ {s} : slot[t].phase = "locked" => slot[t].conn # r.conn
    BY <1>1 DEF LocksExclusive
  <2>5. Backed(q, flow, conn')
    BY <1>2, <2>2 DEF Backed
  <2> HIDE DEF c, q
  <2>6. Idle.phase # "locked" /\ Idle # r /\ q # r
    BY <1>1, <2>2 DEF Idle
  <2>7. CASE Move(s, q) /\ UNCHANGED <<tokens, spent>>
    <3>1. Becomes(s, q)
      BY <2>2, <2>7, MoveEffect
    <3>2. tokens' \subseteq Token /\ spent' \in [Flows -> Nat] /\ tokens' \ tokens = {}
      BY <2>7 DEF AccessTyped
    <3> QED BY <1>2, <2>1, <2>2, <2>3, <2>4, <2>5, <2>6, <3>1, <3>2, ConnectionStepKeepsInv
  <2>8. CASE /\ tokens' = tokens \cup {[flow |-> r.flow, user |-> k.user, conn |-> r.conn,
                                        ws |-> k.ws, expires |-> clock + TokenTtl]}
             /\ spent' = [spent EXCEPT ![r.flow] = @ + 1]
             /\ Answer(s)
    <3>1. Becomes(s, Idle)
      BY <2>8, AnswerEffect
    <3>2. k.user \in Users /\ k.ws \in Workspaces /\ clock + TokenTtl \in Nat
      BY <1>0, <1>3, ConnectionsAssumption DEF Connection
    <3> DEFINE tk == [flow |-> r.flow, user |-> k.user, conn |-> r.conn,
                      ws |-> k.ws, expires |-> clock + TokenTtl]
    <3>3. tk \in Token /\ tk.flow = r.flow /\ tk.conn = r.conn
      BY <1>2, <3>2 DEF Token
    <3>4. tokens' = tokens \cup {tk}
      BY <2>8
    <3> HIDE DEF tk
    <3>5. tokens' \subseteq Token /\ spent' \in [Flows -> Nat]
      BY <1>2, <2>8, <3>3, <3>4 DEF AccessTyped
    <3>6. \A t \in tokens' \ tokens : flow[t.flow] # None /\ t.conn = r.conn
      BY <1>2, <3>3, <3>4
    <3> QED BY <1>2, <2>1, <2>3, <2>4, <2>6, <3>1, <3>5, <3>6, ConnectionStepKeepsInv
  <2> QED BY <2>3, <2>7, <2>8
<1>5. CASE ~granted
  BY <1>5, AnsweringKeepsInv DEF CommitAuthorization, AccessTyped
<1> QED BY <1>4, <1>5

\* RevokeConnection keeps the invariant: it waits for the row, and every token of a
\* revoked connection was issued before.
LEMMA RevokeStep ==
    ASSUME AccessInv, NEW u \in Users, NEW k \in Connections, RevokeConnection(u, k)
    PROVE  AccessInv'
<1> USE DEF AccessInv
<1>1. clock \in Nat /\ conn[k] # None /\ ConnectionFree(k)
  BY ConnectionsAssumption DEF AccessTyped, RevokeConnection, Listed
<1>2. conn[k] \in Connection /\ ConnectionConsistent(conn[k])
  BY <1>1 DEF AccessTyped, ConnectionsSound
<1> DEFINE c == RevokeRow(conn[k], clock)
<1>3. c \in Connection /\ ConnectionConsistent(c)
  BY <1>1, <1>2, RevokeSound
<1>4. conn' = [conn EXCEPT ![k] = c]
  BY DEF RevokeConnection
<1> HIDE DEF c
<1> QED BY <1>1, <1>3, <1>4, ConnectionStepKeepsInv DEF RevokeConnection, ConnectionFree, AccessTyped

\* Every step keeps the invariant.
LEMMA NextAccessInv ==
    ASSUME AccessInv, [Next]_connectionVars
    PROVE  AccessInv'
<1>1. ASSUME NEW s \in Slots, FinishCall(s) \/ Abandon(s) PROVE AccessInv'
  BY <1>1, AnsweringKeepsInv DEF FinishCall, Abandon, AccessInv, AccessTyped
<1>2. ASSUME UNCHANGED <<flow, shown, conn, slot, tokens, spent>>,
             clock' \in 0 .. MaxTime, member' \in [Users -> Workspaces \cup {None}]
      PROVE  AccessInv'
  BY <1>2 DEF AccessInv, AccessTyped, FlowsSound, ConnectionsSound, RequestsBacked, TokensBacked,
              PagesBacked, LocksExclusive
<1>3. ASSUME NEW u \in Users, LeaveWorkspace(u) PROVE AccessInv'
  BY <1>2, <1>3 DEF LeaveWorkspace, AccessInv, AccessTyped
<1>4. ASSUME NEW u \in Users, NEW w \in Workspaces, JoinWorkspace(u, w) PROVE AccessInv'
  BY <1>2, <1>4 DEF JoinWorkspace, AccessInv, AccessTyped
<1>5. CASE Tick
  BY <1>2, <1>5, ConnectionsAssumption DEF Tick, AccessInv, AccessTyped
<1>6. CASE UNCHANGED connectionVars
  BY <1>2, <1>6 DEF connectionVars, AccessInv, AccessTyped
<1>7. CASE ConnectionStep
  BY <1>1, <1>3, <1>4, <1>5, <1>7, StartingSteps, LoginSteps, ConsentSteps, FlowSteps,
     ConsumeCodeStep, LockStep, CommitStep, RevokeStep DEF ConnectionStep
<1> QED BY <1>1, <1>6, <1>7 DEF Next

-----------------------------------------------------------------------------
(* The theorems.                                                           *)

\* AccessInv holds in every state.
THEOREM AccessCorrect == Spec => []AccessInv
<1>1. Init => AccessInv
  BY InitAccessInv
<1>2. AccessInv /\ [Next]_connectionVars => AccessInv'
  BY NextAccessInv
<1> QED BY <1>1, <1>2, PTL DEF Spec

\* No interleaving of logins, consents, exchanges, calls and revocations makes
\* a flow or a connection unreadable.
THEOREM RowsReadable == Spec => []ConnectionTypeOK
<1>1. AccessInv => ConnectionTypeOK
  BY DEF AccessInv, AccessTyped, FlowsSound, FlowSound, ConnectionsSound, ConnectionTypeOK
<1> QED BY <1>1, AccessCorrect, PTL

\* The writes of a connection: the row is new, or stood as it was read.
LEMMA ConnectionWrites ==
    ASSUME AccessInv, [Next]_connectionVars, NEW k \in Connections, conn'[k] # conn[k]
    PROVE  conn[k] = None \/ conn[k].status # "revoked"
<1> USE DEF AccessInv
<1>1. ASSUME NEW s \in Slots, RequestAgentConnection(s) PROVE conn[k] = None
  BY <1>1 DEF RequestAgentConnection, AccessTyped
<1>2. ASSUME NEW s \in Slots, ConsumeContinuation(s) PROVE conn[k].status # "revoked"
  BY <1>2 DEF ConsumeContinuation, MayContinue, AccessTyped
<1>3. ASSUME NEW s \in Slots, CommitAuthorization(s) PROVE conn[k].status # "revoked"
  <2> DEFINE r == slot[s]
  <2>1. r.phase = "locked" /\ r.seen = conn[r.conn]
    BY <1>3, InFlight DEF CommitAuthorization, Phases, Backed
  <2>2. MayActivate(r.seen, clock) /\ k = r.conn
    BY <1>3 DEF CommitAuthorization, AccessTyped
  <2> QED BY <2>1, <2>2 DEF MayActivate
<1>4. ASSUME NEW u \in Users, NEW j \in Connections, RevokeConnection(u, j)
      PROVE  conn[k].status # "revoked"
  BY <1>4 DEF RevokeConnection, Listed, MayRevoke, AccessTyped
<1> QED
  BY <1>1, <1>2, <1>3, <1>4
     DEF Next, ConnectionStep, connectionVars, Authorize, CancelConsent, Auth0Callback, ApproveConsent,
         ExchangeCode, AttachAuthorizationSubject, FindReusableConnection, ApproveAuthorization,
         ConsumeAuthorizationCode, LockConnection, Abandon, AuthenticateRequest, LeaveWorkspace,
         JoinWorkspace, Tick, FinishCall

\* A revoked connection stays as it is, whatever authorization was under way.
THEOREM RevocationIsFinal == Spec => RevokedIsFinal
<1>1. AccessInv /\ [Next]_connectionVars =>
         [\A k \in Connections : conn[k] # None /\ conn[k].status = "revoked" => conn'[k] = conn[k]]_connectionVars
  BY ConnectionWrites
<1> QED BY <1>1, AccessCorrect, PTL DEF Spec, RevokedIsFinal

\* The writes of a decided flow: only its code is spent.
LEMMA FlowWrites ==
    ASSUME AccessInv, [Next]_connectionVars, NEW f \in Flows, flow[f] # None, flow[f].consumed # None
    PROVE  flow'[f].consumed = flow[f].consumed /\ (flow'[f].code = None <=> flow[f].code = None)
<1> USE DEF AccessInv
<1>1. ASSUME NEW s \in Slots, AttachAuthorizationSubject(s) PROVE flow'[f] = flow[f]
  BY <1>1 DEF AttachAuthorizationSubject, MayAttach, AvailableAt, AccessTyped
<1>2. ASSUME NEW s \in Slots, ApproveAuthorization(s) PROVE flow'[f] = flow[f]
  BY <1>2 DEF ApproveAuthorization, MayDecide, AvailableAt, AccessTyped
<1>3. ASSUME NEW s \in Slots, NEW verified \in BOOLEAN, ConsumeAuthorizationCode(s, verified)
      PROVE  flow'[f].consumed = flow[f].consumed /\ (flow'[f].code = None <=> flow[f].code = None)
  <2> DEFINE r == slot[s]
             v == ConsumeCodeOf(flow[r.flow], r.seen, clock)
  <2>1. r.phase = "start" /\ r.op = "token" /\ clock \in Nat
    BY <1>3, ConnectionsAssumption DEF ConsumeAuthorizationCode, AccessTyped
  <2>2. /\ r \in Request /\ r.flow \in Flows /\ flow[r.flow] \in Flow /\ FlowSound(flow[r.flow], conn)
        /\ flow[r.flow].code # None /\ r.seen \in Code /\ CodeConsistent(r.seen)
        /\ conn[r.seen.conn] # None
    BY <2>1, InFlight DEF Phases, Backed
  <2>3. CASE MayConsumeCode(r.seen, clock) /\ r.flow = f
    <3>1. v.code # None /\ v.consumed = flow[f].consumed
      BY <2>1, <2>2, <2>3, ConsumeSound
    <3>2. flow'[f] = v
      BY <1>3, <2>3 DEF ConsumeAuthorizationCode, AccessTyped
    <3> QED BY <2>2, <2>3, <3>1, <3>2
  <2>4. CASE ~(MayConsumeCode(r.seen, clock) /\ r.flow = f)
    BY <1>3, <2>2, <2>4 DEF ConsumeAuthorizationCode, AccessTyped
  <2> QED BY <2>3, <2>4
<1>4. ASSUME NEW g \in Flows, Authorize(g) \/ CancelConsent(g) PROVE flow'[f] = flow[f]
  BY <1>4 DEF Authorize, CancelConsent, MayDecide, AvailableAt, AccessTyped
<1> QED
  BY <1>1, <1>2, <1>3, <1>4
     DEF Next, ConnectionStep, connectionVars, Auth0Callback, ApproveConsent,
         ExchangeCode, FindReusableConnection, RequestAgentConnection, ConsumeContinuation,
         LockConnection, CommitAuthorization, RevokeConnection, Abandon, AuthenticateRequest,
         LeaveWorkspace, JoinWorkspace, Tick, FinishCall

\* A flow is approved or cancelled once, and keeps the code it got.
THEOREM FlowsDecidedOnce == Spec => DecidedOnce
<1>1. AccessInv /\ [Next]_connectionVars =>
         [\A f \in Flows : flow[f] # None /\ flow[f].consumed # None =>
             /\ flow'[f].consumed = flow[f].consumed
             /\ flow'[f].code = None <=> flow[f].code = None]_connectionVars
  BY FlowWrites
<1> QED BY <1>1, AccessCorrect, PTL DEF Spec, DecidedOnce

\* A call is admitted only by the commit of its authorization.
LEMMA Admission ==
    ASSUME AccessInv, [Next]_connectionVars, NEW s \in Slots,
           slot'[s].phase = "admitted", slot[s].phase # "admitted"
    PROVE  /\ conn[slot[s].conn].status \in {"authorized", "active"}
           /\ member[slot[s].user] = slot[s].ws
<1> USE DEF AccessInv
<1>2. ASSUME NEW t \in Slots, NEW r, slot' = [slot EXCEPT ![t] = r], r.phase # "admitted"
      PROVE  FALSE
  BY <1>2 DEF AccessTyped
<1>3. ASSUME NEW t \in Slots, slot[t].phase \in Phases, NEW p \in Phases, p # "admitted"
      PROVE  \A k, w, x : /\ [slot[t] EXCEPT !.phase = p].phase # "admitted"
                          /\ [slot[t] EXCEPT !.phase = p, !.seen = x].phase # "admitted"
                          /\ [slot[t] EXCEPT !.phase = p, !.conn = k].phase # "admitted"
                          /\ [slot[t] EXCEPT !.phase = p, !.conn = k, !.ws = w].phase # "admitted"
  <2>1. slot[t] \in Request
    BY <1>3, InFlight
  <2> QED BY <1>3, <2>1 DEF Request
<1>4. ASSUME NEW t \in Slots, Answer(t) PROVE FALSE
  BY <1>2, <1>4 DEF Answer, Idle
<1>5. ASSUME NEW t \in Slots, CommitAuthorization(t)
      PROVE  /\ conn[slot[s].conn].status \in {"authorized", "active"}
             /\ member[slot[s].user] = slot[s].ws
  <2> DEFINE r == slot[t]
             k == r.seen
  <2>1. r.phase = "locked" /\ k = conn[r.conn] /\ k.ws = r.ws /\ k.user = r.user
    BY <1>5, InFlight DEF CommitAuthorization, Phases, Backed
  <2>2. Eligible(k.user, k.ws) /\ MayActivate(k, clock)
    BY <1>4, <1>5 DEF CommitAuthorization
  <2>3. t = s
    BY <1>4, <1>5 DEF CommitAuthorization, Move, AccessTyped
  <2> QED BY <2>1, <2>2, <2>3 DEF Eligible, MayActivate
<1>6. ASSUME NEW t \in Slots, AttachAuthorizationSubject(t) PROVE FALSE
  BY <1>2, <1>3, <1>4, <1>6 DEF AttachAuthorizationSubject, Move, Phases
<1>7. ASSUME NEW t \in Slots, FindReusableConnection(t) PROVE FALSE
  <2>1. slot[t].phase \in Phases /\ "issue" \in Phases
    BY <1>7 DEF FindReusableConnection, Phases
  <2>2. \A k, w : [slot[t] EXCEPT !.phase = "issue", !.conn = k, !.ws = w].phase # "admitted"
    BY <1>3, <2>1
  <2>3. ASSUME NEW k, Move(t, [slot[t] EXCEPT !.phase = "issue", !.conn = k, !.ws = conn[k].ws])
        PROVE  FALSE
    <3> DEFINE q == [slot[t] EXCEPT !.phase = "issue", !.conn = k, !.ws = conn[k].ws]
    <3>1. q.phase # "admitted"
      BY <2>2
    <3>2. slot' = [slot EXCEPT ![t] = q]
      BY <2>3 DEF Move
    <3> HIDE DEF q
    <3> QED BY <1>2, <3>1, <3>2
  <2> QED BY <1>4, <1>7, <2>3 DEF FindReusableConnection
<1>8. ASSUME NEW t \in Slots, RequestAgentConnection(t) PROVE FALSE
  BY <1>2, <1>3, <1>4, <1>8 DEF RequestAgentConnection, Move, Phases
<1>9. ASSUME NEW t \in Slots, ConsumeContinuation(t) PROVE FALSE
  BY <1>2, <1>3, <1>4, <1>9 DEF ConsumeContinuation, Move, Phases
<1>10. ASSUME NEW t \in Slots, NEW verified \in BOOLEAN, ConsumeAuthorizationCode(t, verified) PROVE FALSE
  <2>1. slot[t].phase \in Phases /\ "authorize" \in Phases
    BY <1>10 DEF ConsumeAuthorizationCode, Phases
  <2>2. [slot[t] EXCEPT !.phase = "authorize", !.seen = None].phase # "admitted"
    BY <1>3, <2>1
  <2> QED BY <1>2, <1>4, <1>10, <2>2 DEF ConsumeAuthorizationCode, Move
<1>11. ASSUME NEW t \in Slots, LockConnection(t) PROVE FALSE
  <2>1. slot[t].phase \in Phases /\ "locked" \in Phases
    BY <1>11 DEF LockConnection, Phases
  <2>2. \A x : [slot[t] EXCEPT !.phase = "locked", !.seen = x].phase # "admitted"
    BY <1>3, <2>1
  <2> QED BY <1>2, <1>4, <1>11, <2>2 DEF LockConnection, Move
<1>12. ASSUME NEW t \in Slots, NEW f \in Flows, NEW u \in Users, Auth0Callback(t, f, u) PROVE FALSE
  BY <1>2, <1>12 DEF Auth0Callback, Move
<1>13. ASSUME NEW t \in Slots, NEW f \in Flows, ApproveConsent(t, f) \/ ExchangeCode(t, f) PROVE FALSE
  BY <1>2, <1>13 DEF ApproveConsent, ExchangeCode, Move
<1>14. ASSUME NEW t \in Slots, NEW tk \in tokens, AuthenticateRequest(t, tk) PROVE FALSE
  BY <1>2, <1>14 DEF AuthenticateRequest, Move
<1> QED
  BY <1>4, <1>5, <1>6, <1>7, <1>8, <1>9, <1>10, <1>11, <1>12, <1>13, <1>14
     DEF Next, ConnectionStep, connectionVars, Authorize, CancelConsent, ApproveAuthorization,
         RevokeConnection, Abandon, LeaveWorkspace, JoinWorkspace, Tick, FinishCall

\* A call is admitted only while its connection stands and its user is a
\* member of the workspace its token names, however long it waited for the lock.
THEOREM AdmissionIsCurrent == Spec => AdmittedWhileLive
<1>1. AccessInv /\ [Next]_connectionVars =>
         [\A s \in Slots : slot'[s].phase = "admitted" /\ slot[s].phase # "admitted" =>
             /\ conn[slot[s].conn].status \in {"authorized", "active"}
             /\ member[slot[s].user] = slot[s].ws]_connectionVars
  BY Admission
<1> QED BY <1>1, AccessCorrect, PTL DEF Spec, AdmittedWhileLive

=============================================================================
