------------------------ MODULE WorkspaceInvitations ------------------------
(***************************************************************************)
(* Workspaces, their members and the invitations that add them.            *)
(*                                                                         *)
(* Every request is a transaction that takes its locks one after another:   *)
(* the advisory lock of a user, the lock of a workspace with its            *)
(* memberships, the row of an invitation.  What a request reads, it reads   *)
(* when it gets the lock before it, and it commits with its last step.      *)
(* PostgreSQL aborts one of two requests that wait for each other.          *)
(*                                                                         *)
(* The clock has a finer grain than a second, because a link carries its    *)
(* expiry in whole seconds while the row keeps what it was given.           *)
(*                                                                         *)
(* A worker mails the link of each generation.  Its messages may be         *)
(* delivered more than once, and it may stop at any point.                  *)
(***************************************************************************)
EXTENDS Naturals, FiniteSets

CONSTANTS Users, Workspaces, Invitations,
          Invitees,       \* the users that may be invited; each has one mailbox
          Owner,          \* who owns which workspace at the start, or None
          Slots,          \* requests that run at once
          Commands,       \* which user may ask for which operation
          MaxWork,        \* bound on the requests made and messages delivered
          Second,         \* ticks of the clock in a second
          Lifetime,       \* INVITATION_LIFETIME
          MaxTime,        \* bound on the clock
          MaxGeneration,  \* bound on how often an invitation is sent again
          MaxAttempts,    \* max_delivery_attempts
          None

ASSUME InvitationsAssumption ==
          /\ Invitees \subseteq Users
          /\ Owner \in [Workspaces -> Users \cup {None}]
          /\ None \notin Users \cup Workspaces \cup Invitations
          /\ Second \in Nat \ {0} /\ MaxTime \in Nat /\ MaxGeneration \in Nat \ {0}
          /\ Lifetime \in Nat \ {0} /\ Lifetime % Second = 0
          /\ MaxAttempts \in Nat \ {0} /\ MaxWork \in Nat
          /\ Commands \subseteq Users \X STRING

VARIABLES clock,
          account,     \* how many rows of users each identity has
          member,      \* the membership of each user
          invitation,  \* the invitation rows
          slot,        \* the requests in flight
          work,        \* how many requests were made and messages delivered
          links,       \* the links issued so far
          queue,       \* delivery messages the worker has yet to acknowledge
          dead,        \* the messages given up after their last attempt
          worker,      \* what the delivery handler is doing
          mailed,      \* the mails handed to the provider, by idempotency key
          joined,      \* how many memberships each invitation has added
          failed       \* the internal errors answered so far

vars == <<clock, account, member, invitation, slot, work, links, queue, dead, worker,
          mailed, joined, failed>>

-----------------------------------------------------------------------------
(* The rows.                                                               *)

Roles == {"owner", "admin"}
Membership == [ws : Workspaces, role : Roles]
NoMembership == [ws |-> None, role |-> "none"]

Failures == {"none", "retryable", "permanent", "exhausted"}
Invitation == [ws : Workspaces, email : Invitees, generation : 1 .. MaxGeneration, created : Nat,
               expires : Nat, acceptedBy : Users \cup {None}, revoked : BOOLEAN,
               queued : Nat, delivered : Nat, failure : Failures]

Link == [inv : Invitations, generation : Nat, expires : Nat]
Message == [inv : Invitations, generation : Nat, attempt : Nat]

Ops == {"signIn", "createOwned", "remove", "create", "resend", "revoke", "accept"}
Phases == {"start", "provision", "resolved", "locked", "replay", "join"}
Request == [op : Ops, user : Users, target : Users \cup {None},
            inv : Invitations \cup {None}, generation : Nat, expires : Nat,
            at : Nat, ws : Workspaces \cup {None}, phase : Phases]
Idle == [op |-> "none"]

ASSUME NoneIsNoInvitation == None \notin Invitation

DeliveryPhases == {"idle", "sending", "sent", "rejected", "unreachable"}

Init ==
    /\ clock = 0
    /\ account = [u \in Users |-> IF \E w \in Workspaces : Owner[w] = u THEN 1 ELSE 0]
    /\ member = [u \in Users |->
          IF \E w \in Workspaces : Owner[w] = u
          THEN [ws |-> CHOOSE w \in Workspaces : Owner[w] = u, role |-> "owner"]
          ELSE NoMembership]
    /\ invitation = [i \in Invitations |-> None]
    /\ slot = [s \in Slots |-> Idle]
    /\ work = 0 /\ links = {} /\ queue = {} /\ dead = {} /\ mailed = {} /\ failed = {}
    /\ joined = [i \in Invitations |-> 0]
    /\ worker = [phase |-> "idle"]

-----------------------------------------------------------------------------
(* The locks: who holds which, and what each request waits for.             *)

UserLock(u) == <<"user", u>>
WorkspaceLock(w) == <<"workspace", w>>
InvitationLock(i) == <<"invitation", i>>
SubjectLock(u) == <<"subject", u>>

Lock(needed, lock) == IF needed THEN {lock} ELSE {}

HasSubject(r)    == r.phase = "provision"
HasUser(r)       == IF r.op = "accept" THEN r.phase = "join" ELSE r.phase \in {"resolved", "locked"}
HasWorkspace(r)  == r.op # "accept" /\ r.phase = "locked"
HasInvitation(r) == r.op = "accept" /\ r.phase \in {"locked", "replay", "join"}

Has(r) == Lock(HasSubject(r), SubjectLock(r.user)) \cup Lock(HasUser(r), UserLock(r.user))
          \cup Lock(HasWorkspace(r), WorkspaceLock(r.ws)) \cup Lock(HasInvitation(r), InvitationLock(r.inv))
Holds(s) == IF slot[s] = Idle THEN {} ELSE Has(slot[s])

WorkerHoldsNothing == {}

WorkerHolds == IF worker.phase = "idle" THEN {} ELSE {InvitationLock(worker.msg.inv)}

NeedsSubject(r)    == r.op = "signIn" /\ r.phase = "start"
NeedsUser(r)       == \/ r.op \notin {"signIn", "accept"} /\ r.phase = "start"
                      \/ r.op = "accept" /\ r.phase \in {"locked", "replay"}
NeedsWorkspace(r)  == \/ r.op \in {"create", "remove"} /\ r.phase = "resolved"
                      \/ r.op = "accept" /\ r.phase = "join"
NeedsInvitation(r) == \/ r.op \in {"resend", "revoke"} /\ r.phase = "resolved"
                      \/ r.op = "accept" /\ r.phase = "start"

Needs(r) == Lock(NeedsSubject(r), SubjectLock(r.user)) \cup Lock(NeedsUser(r), UserLock(r.user))
            \cup Lock(NeedsWorkspace(r), WorkspaceLock(r.ws))
            \cup Lock(NeedsInvitation(r), InvitationLock(r.inv))

WantsPendingRow(s) ==
    LET r == slot[s] IN
    IF r = Idle THEN {} ELSE
    Needs(r) \cup Lock(r.op = "create" /\ r.phase = "locked",
        InvitationLock(CHOOSE i \in Invitations : invitation[i] # None => invitation[i].email = r.target))

\* The lock the next step of a request needs, if it needs one.
Wants(s) == IF slot[s] = Idle THEN {} ELSE Needs(slot[s])

Free(s) == /\ Wants(s) \cap WorkerHolds = {}
           /\ \A t \in Slots \ {s} : Wants(s) \cap Holds(t) = {}
WaitsFor(s, t) == s # t /\ Wants(s) \cap Holds(t) # {}

-----------------------------------------------------------------------------
(* What the domain decides about one invitation or one workspace.           *)

TruncateToSecond(t) == t - (t % Second)

CreateInvitation(w, e, at) ==
    [ws |-> w, email |-> e, generation |-> 1, created |-> TruncateToSecond(at),
     expires |-> TruncateToSecond(at + Lifetime), acceptedBy |-> None, revoked |-> FALSE,
     queued |-> 0, delivered |-> 0, failure |-> "none"]

\* rehydrate: a row that breaks this cannot be loaded again.
Consistent(v) ==
    /\ v.generation > 0
    /\ v.expires > v.created
    /\ ~(v.acceptedBy # None /\ v.revoked)
    /\ v.queued <= v.generation /\ v.delivered <= v.generation

StatusAt(v, t) == IF v.acceptedBy # None THEN "accepted"
                  ELSE IF v.revoked THEN "revoked"
                  ELSE IF t >= v.expires THEN "expired" ELSE "pending"

EnsureCurrent(v, g, exp, t) ==
    v.generation = g /\ v.expires = exp /\ StatusAt(v, t) = "pending"

QueueDelivery(v) == [v EXCEPT !.queued = v.generation, !.failure = "none"]
MayResend(v, g, t) == v.generation = g /\ StatusAt(v, t) = "pending"
Resend(v, t) == [v EXCEPT !.generation = @ + 1, !.expires = t + Lifetime,
                          !.queued = v.generation + 1, !.failure = "none"]
MayRevoke(v, g, t) == v.generation = g /\ StatusAt(v, t) = "pending"
Revoke(v) == [v EXCEPT !.revoked = TRUE]
AcceptUnrecorded(v, u) == v

Accept(v, u) == [v EXCEPT !.acceptedBy = u]

\* A delivery result counts only for the current generation of a pending row.
RecordDelivery(v, g, t, w) ==
    IF v.generation # g \/ StatusAt(v, t) # "pending" THEN v ELSE w
DeliverySuccess(v, g, t) ==
    RecordDelivery(v, g, t, [v EXCEPT !.delivered = g, !.failure = "none"])
DeliveryFailure(v, g, t, f) == RecordDelivery(v, g, t, [v EXCEPT !.failure = f])

DeliveryState(v) == IF v.failure # "none" THEN "failed"
                    ELSE IF v.delivered = v.generation THEN "delivered"
                    ELSE IF v.queued = v.generation THEN "queued" ELSE "not_queued"

Members(w) == {u \in Users : member[u].ws = w}
Owners(w) == {u \in Members(w) : member[u].role = "owner"}
RoleFor(w, u) == IF u \in Members(w) THEN member[u].role ELSE "none"
MayManage(w, u) == RoleFor(w, u) \in Roles

RemoveOutcome(w, actor, target) ==
    IF ~MayManage(w, actor) THEN "unavailable"
    ELSE IF target \notin Members(w) THEN "notFound"
    ELSE IF Owners(w) = {target} THEN "lastOwner"
    ELSE IF actor = target THEN "selfRemoval" ELSE "removed"

-----------------------------------------------------------------------------
(* What the database answers and refuses.                                   *)

Rows == {i \in Invitations : invitation[i] # None}
Open(v) == v.acceptedBy = None /\ ~v.revoked
Overlap(v, w) == v.created < w.expires /\ w.created < v.expires

WindowUnchecked(i, v) == TRUE

\* workspace_invitations_pending_window_excl
WindowFree(i, v) ==
    Open(v) => \A j \in Rows \ {i} :
        LET w == invitation[j] IN
        Open(w) /\ w.ws = v.ws /\ w.email = v.email => ~Overlap(v, w)

\* member_id_by_email and lock_pending_for_email
EmailIsMember(w, e) == account[e] > 0 /\ e \in Members(w)
PendingForEmail(w, e, t) ==
    \E j \in Rows : LET v == invitation[j] IN
        v.ws = w /\ v.email = e /\ Open(v) /\ v.expires > t

\* The links the authority issues and what it makes of one that comes back.
IssueLink(i, v) == {l \in {[inv |-> i, generation |-> v.generation,
                            expires |-> TruncateToSecond(v.expires)]} : clock < v.expires}
VerifyLink(l) == l.expires > clock

-----------------------------------------------------------------------------
(* What the queries answer.                                                 *)

People(w, t) == {j \in Rows : invitation[j].ws = w /\ Open(invitation[j])
                                /\ invitation[j].expires > t}
CurrentLink(u, i) ==
    IF i \in Rows /\ MayManage(invitation[i].ws, u) /\ i \in People(invitation[i].ws, clock)
    THEN IssueLink(i, invitation[i])
    ELSE {}
PreviewStatus(v) == IF v.acceptedBy # None THEN "accepted"
                    ELSE IF v.revoked THEN "revoked"
                    ELSE IF clock >= v.expires THEN "expired" ELSE "pending"
Previews(l) ==
    /\ VerifyLink(l)
    /\ l.inv \in Rows
    /\ LET v == invitation[l.inv] IN
       v.generation = l.generation /\ v.expires = l.expires /\ PreviewStatus(v) = "pending"

-----------------------------------------------------------------------------
(* Requests: each arrives with the time its route read, and gives up its     *)
(* locks with the step that answers it.                                     *)

Ask(s, op, u, target, i, g, exp) ==
    /\ slot[s] = Idle
    /\ <<u, op>> \in Commands
    /\ work < MaxWork /\ work' = work + 1
    /\ slot' = [slot EXCEPT ![s] =
          [op |-> op, user |-> u, target |-> target, inv |-> i, generation |-> g,
           expires |-> exp, at |-> clock, ws |-> None, phase |-> "start"]]
    /\ UNCHANGED <<clock, account, member, invitation, links, queue, dead, worker,
                   mailed, joined, failed>>

AskSignIn(s) == \E u \in Users : account[u] = 0 /\ Ask(s, "signIn", u, None, None, 0, 0)
AskCreateOwned(s) ==
    \E u \in Users : account[u] > 0 /\ Ask(s, "createOwned", u, None, None, 0, 0)
AskRemove(s) ==
    \E u, t \in Users : account[u] > 0 /\ Ask(s, "remove", u, t, None, 0, 0)
AskCreate(s) ==
    \E u \in Users, e \in Invitees : account[u] > 0 /\ Ask(s, "create", u, e, None, 0, 0)
AskResend(s) ==
    \E u \in Users, i \in Rows, g \in 1 .. (MaxGeneration - 1) :
        account[u] > 0 /\ Ask(s, "resend", u, None, i, g, 0)
AskRevoke(s) ==
    \E u \in Users, i \in Rows, g \in 1 .. MaxGeneration :
        account[u] > 0 /\ Ask(s, "revoke", u, None, i, g, 0)
\* Only an identity whose mailbox Auth0 verified may accept, and only with a
\* link the authority verifies.
AskAccept(s) ==
    \E u \in Invitees, l \in links :
        /\ account[u] > 0 /\ VerifyLink(l)
        /\ Ask(s, "accept", u, u, l.inv, l.generation, l.expires)

At(s, op, phase) == slot[s] # Idle /\ slot[s].op = op /\ slot[s].phase = phase
Proceed(s, phase, w) == slot' = [slot EXCEPT ![s] = [@ EXCEPT !.phase = phase, !.ws = w]]
Finish(s) == slot' = [slot EXCEPT ![s] = Idle]
NoWrite == UNCHANGED <<work, clock, account, member, invitation, links, queue, dead, worker,
                       mailed, joined, failed>>
Reject(s) == Finish(s) /\ NoWrite
Fail(s, kind) ==
    /\ Finish(s)
    /\ failed' = failed \cup {kind}
    /\ UNCHANGED <<work, clock, account, member, invitation, links, queue, dead, worker, mailed, joined>>

ResolveSubjectUnlocked(s) ==
    /\ At(s, "signIn", "start")
    /\ IF account[slot[s].user] > 0 THEN Reject(s) ELSE Proceed(s, "provision", None) /\ NoWrite

\* The first thing a request does: look its subject up under the subject's
\* lock, and insert the user that is not there yet.
ResolveSubject(s) ==
    /\ At(s, "signIn", "start") /\ Free(s)
    /\ IF account[slot[s].user] > 0 THEN Reject(s) ELSE Proceed(s, "provision", None) /\ NoWrite
ProvisionUser(s) ==
    /\ At(s, "signIn", "provision")
    /\ account' = [account EXCEPT ![slot[s].user] = @ + 1]
    /\ Finish(s)
    /\ UNCHANGED <<work, clock, member, invitation, links, queue, dead, worker, mailed, joined, failed>>

\* resolve_id_for_member: the actor's workspace, under the actor's lock.
ResolveMember(s) ==
    LET u == slot[s].user  w == member[u].ws IN
    /\ slot[s] # Idle /\ slot[s].op \in {"remove", "create"} /\ slot[s].phase = "start"
    /\ Free(s)
    /\ IF w = None THEN Reject(s) ELSE Proceed(s, "resolved", w) /\ NoWrite
ResolveManager(s) ==
    LET u == slot[s].user  w == member[u].ws IN
    /\ slot[s] # Idle /\ slot[s].op \in {"resend", "revoke"} /\ slot[s].phase = "start"
    /\ Free(s)
    /\ IF w = None \/ ~MayManage(w, u) THEN Reject(s) ELSE Proceed(s, "resolved", w) /\ NoWrite

ResolveFounder(s) ==
    /\ At(s, "createOwned", "start") /\ Free(s)
    /\ IF member[slot[s].user].ws # None
       THEN Reject(s)
       ELSE \E w \in Workspaces : Members(w) = {} /\ Proceed(s, "resolved", w) /\ NoWrite

\* The primary key of workspace_memberships refuses a second membership.
SaveMember(s, u, w, role, writes) ==
    IF member[u].ws \notin {None, w}
    THEN Fail(s, "membership")
    ELSE member' = [member EXCEPT ![u] = [ws |-> w, role |-> role]] /\ writes

CreateOwnedWorkspace(s) ==
    /\ At(s, "createOwned", "resolved")
    /\ SaveMember(s, slot[s].user, slot[s].ws, "owner",
          Finish(s) /\ UNCHANGED <<work, clock, account, invitation, links, queue, dead, worker,
                                   mailed, joined, failed>>)

RemoveWorkspaceMember(s) ==
    LET r == slot[s] IN
    /\ At(s, "remove", "resolved") /\ Free(s)
    /\ IF Owners(r.ws) = {} THEN Fail(s, "snapshot")
       ELSE IF RemoveOutcome(r.ws, r.user, r.target) # "removed" THEN Reject(s)
       ELSE /\ member' = [member EXCEPT ![r.target] = NoMembership]
            /\ Finish(s)
            /\ UNCHANGED <<work, clock, account, invitation, links, queue, dead, worker, mailed,
                           joined, failed>>

CheckInviteeOnly(s) ==
    LET r == slot[s] IN
    /\ At(s, "create", "resolved") /\ Free(s)
    /\ IF Owners(r.ws) = {} THEN Fail(s, "snapshot")
       ELSE IF EmailIsMember(r.ws, r.target) THEN Reject(s)
       ELSE Proceed(s, "locked", r.ws) /\ NoWrite

\* Create, under the workspace's lock: the actor still manages the workspace
\* and the mailbox does not belong to a member.
CheckInvitee(s) ==
    LET r == slot[s] IN
    /\ At(s, "create", "resolved") /\ Free(s)
    /\ IF Owners(r.ws) = {} THEN Fail(s, "snapshot")
       ELSE IF ~MayManage(r.ws, r.user) \/ EmailIsMember(r.ws, r.target) THEN Reject(s)
       ELSE Proceed(s, "locked", r.ws) /\ NoWrite

\* A save that breaks the exclusion constraint rolls the request back; one
\* that keeps it commits with the message, and the link is issued after it.
SaveInvitation(s, i, v) ==
    IF ~WindowFree(i, v)
    THEN Fail(s, "window")
    ELSE /\ invitation' = [invitation EXCEPT ![i] = v]
         /\ queue' = queue \cup {[inv |-> i, generation |-> v.generation, attempt |-> 1]}
         /\ links' = links \cup IssueLink(i, v)
         /\ Finish(s)
         /\ UNCHANGED <<work, clock, account, member, dead, worker, mailed, joined, failed>>

CreateWorkspaceInvitation(s) ==
    LET r == slot[s] IN
    /\ At(s, "create", "locked")
    /\ IF PendingForEmail(r.ws, r.target, r.at)
       THEN Reject(s)
       ELSE \E i \in Invitations \ Rows :
               SaveInvitation(s, i, QueueDelivery(CreateInvitation(r.ws, r.target, r.at)))

\* get_for_workspace: the row under its lock, or nothing.
Row(s) == LET r == slot[s] IN
    IF r.inv \in Rows /\ invitation[r.inv].ws = r.ws THEN {invitation[r.inv]} ELSE {}

ResendWorkspaceInvitation(s) ==
    LET r == slot[s] IN
    /\ At(s, "resend", "resolved") /\ Free(s)
    /\ \/ \E v \in Row(s) : /\ MayResend(v, r.generation, r.at)
                            /\ SaveInvitation(s, r.inv, Resend(v, r.at))
       \/ (\A v \in Row(s) : ~MayResend(v, r.generation, r.at)) /\ Reject(s)

RevokeWorkspaceInvitation(s) ==
    LET r == slot[s] IN
    /\ At(s, "revoke", "resolved") /\ Free(s)
    /\ \/ \E v \in Row(s) :
            /\ MayRevoke(v, r.generation, r.at)
            /\ invitation' = [invitation EXCEPT ![r.inv] = Revoke(v)]
            /\ Finish(s)
            /\ UNCHANGED <<work, clock, account, member, links, queue, dead, worker, mailed, joined, failed>>
       \/ (\A v \in Row(s) : ~MayRevoke(v, r.generation, r.at)) /\ Reject(s)

\* Accept locks the invitation first.  Whoever accepted it already is only
\* told so; everyone else needs the current link of a pending invitation
\* to their own mailbox.
LockInvitation(s) ==
    LET r == slot[s]  v == invitation[r.inv] IN
    /\ At(s, "accept", "start") /\ Free(s)
    /\ IF v.generation # r.generation \/ v.expires # r.expires THEN Reject(s)
       ELSE IF v.acceptedBy = r.user THEN Proceed(s, "replay", v.ws) /\ NoWrite
       ELSE IF EnsureCurrent(v, r.generation, r.expires, r.at) /\ v.email = r.user
            THEN Proceed(s, "locked", v.ws) /\ NoWrite
       ELSE Reject(s)

\* A replay answers where the user is a member and writes nothing.
AnswerReplay(s) == At(s, "accept", "replay") /\ Free(s) /\ Reject(s)

ResolveInviteeUnlocked(s) ==
    LET r == slot[s] IN
    /\ At(s, "accept", "locked")
    /\ IF member[r.user].ws \notin {None, r.ws} THEN Reject(s)
       ELSE Proceed(s, "join", r.ws) /\ NoWrite

ResolveInvitee(s) ==
    LET r == slot[s] IN
    /\ At(s, "accept", "locked") /\ Free(s)
    /\ IF member[r.user].ws \notin {None, r.ws} THEN Reject(s)
       ELSE Proceed(s, "join", r.ws) /\ NoWrite

AcceptWorkspaceInvitation(s) ==
    LET r == slot[s]  v == invitation[r.inv]  joins == r.user \notin Members(r.ws)
        write == /\ invitation' = [invitation EXCEPT ![r.inv] = Accept(v, r.user)]
                 /\ joined' = [joined EXCEPT ![r.inv] = IF joins THEN @ + 1 ELSE @]
                 /\ Finish(s)
                 /\ UNCHANGED <<work, clock, account, links, queue, dead, worker, mailed, failed>>
    IN
    /\ At(s, "accept", "join") /\ Free(s)
    /\ IF Owners(r.ws) = {} THEN Fail(s, "snapshot")
       ELSE IF StatusAt(v, r.at) # "pending" THEN Reject(s)
       ELSE IF joins THEN SaveMember(s, r.user, r.ws, "admin", write)
       ELSE write /\ UNCHANGED member

\* PostgreSQL ends a wait that goes round by aborting one of those in it.
AbortDeadlocked(s) ==
    /\ \E t \in Slots : WaitsFor(s, t) /\ WaitsFor(t, s)
    /\ Fail(s, "deadlock")

-----------------------------------------------------------------------------
(* Delivery.                                                                *)

\* An acknowledgement may be lost; a message that is not acknowledged comes
\* again until the subscription gives it up.
Redelivered(m) == {n \in {[m EXCEPT !.attempt = @ + 1]} : n.attempt <= MaxAttempts}
FinalDelivery(m) == m.attempt >= MaxAttempts
Retry(m) == /\ queue' = (queue \ {m}) \cup Redelivered(m)
            /\ dead' = IF FinalDelivery(m) THEN dead \cup {m} ELSE dead
Acknowledge(m) == (queue' = queue \ {m} /\ UNCHANGED dead) \/ Retry(m)

BeginDelivery ==
    \E m \in queue :
        LET v == invitation[m.inv] IN
        /\ worker.phase = "idle"
        /\ \A s \in Slots : InvitationLock(m.inv) \notin Holds(s)
        /\ work < MaxWork /\ work' = work + 1
        /\ IF v.generation = m.generation /\ StatusAt(v, clock) = "pending"
                 /\ v.delivered # m.generation
           THEN worker' = [phase |-> "sending", msg |-> m] /\ UNCHANGED <<queue, dead>>
           ELSE Acknowledge(m) /\ UNCHANGED worker
        /\ UNCHANGED <<clock, account, member, invitation, slot, links, mailed, joined, failed>>

\* The provider takes the mail, refuses it for good, or cannot be reached,
\* in which case it may have taken it all the same.
SendMail ==
    LET m == worker.msg  v == invitation[m.inv]  key == <<m.inv, m.generation>> IN
    /\ worker.phase = "sending" /\ IssueLink(m.inv, v) # {}
    /\ \/ worker' = [worker EXCEPT !.phase = "sent"] /\ mailed' = mailed \cup {key}
       \/ worker' = [worker EXCEPT !.phase = "rejected"] /\ UNCHANGED mailed
       \/ worker' = [worker EXCEPT !.phase = "unreachable"] /\ mailed' \in {mailed, mailed \cup {key}}
    /\ links' = IF key \in mailed' THEN links \cup IssueLink(m.inv, v) ELSE links
    /\ UNCHANGED <<work, clock, account, member, invitation, slot, queue, dead, joined, failed>>

FailureClass(m) == IF FinalDelivery(m) THEN "exhausted"
                   ELSE IF worker.phase = "rejected" THEN "permanent" ELSE "retryable"
DeliveredUnlessRejected(m) ==
    IF worker.phase # "rejected" THEN DeliverySuccess(invitation[m.inv], m.generation, clock)
    ELSE DeliveryFailure(invitation[m.inv], m.generation, clock, FailureClass(m))

Delivered(m) == IF worker.phase = "sent" THEN DeliverySuccess(invitation[m.inv], m.generation, clock)
                ELSE DeliveryFailure(invitation[m.inv], m.generation, clock, FailureClass(m))

RecordResultAcknowledged ==
    LET m == worker.msg  w == Delivered(m) IN
    /\ worker.phase \in {"sent", "rejected", "unreachable"}
    /\ invitation' = [invitation EXCEPT ![m.inv] = w]
    /\ Acknowledge(m)
    /\ worker' = [phase |-> "idle"]
    /\ UNCHANGED <<work, clock, account, member, slot, links, mailed, joined, failed>>

RecordResult ==
    LET m == worker.msg  w == Delivered(m) IN
    /\ worker.phase \in {"sent", "rejected", "unreachable"}
    /\ invitation' = [invitation EXCEPT ![m.inv] = w]
    /\ IF worker.phase = "unreachable" /\ ~FinalDelivery(m) /\ StatusAt(w, clock) = "pending"
       THEN Retry(m)
       ELSE Acknowledge(m)
    /\ worker' = [phase |-> "idle"]
    /\ UNCHANGED <<work, clock, account, member, slot, links, mailed, joined, failed>>

\* The link can no longer be issued, or the worker stops: nothing is recorded.
StopDelivery ==
    /\ worker.phase # "idle"
    /\ Retry(worker.msg)
    /\ worker' = [phase |-> "idle"]
    /\ UNCHANGED <<work, clock, account, member, invitation, slot, links, mailed, joined, failed>>

Tick ==
    /\ clock < MaxTime
    /\ clock' = clock + 1
    /\ UNCHANGED <<work, account, member, invitation, slot, links, queue, dead, worker, mailed, joined, failed>>

-----------------------------------------------------------------------------
Arrive(s) == \/ AskSignIn(s) \/ AskCreateOwned(s) \/ AskRemove(s) \/ AskCreate(s)
             \/ AskResend(s) \/ AskRevoke(s) \/ AskAccept(s)
Step(s) == \/ ResolveSubject(s) \/ ProvisionUser(s) \/ ResolveMember(s) \/ ResolveManager(s)
           \/ ResolveFounder(s) \/ CreateOwnedWorkspace(s) \/ RemoveWorkspaceMember(s)
           \/ CheckInvitee(s) \/ CreateWorkspaceInvitation(s) \/ ResendWorkspaceInvitation(s)
           \/ RevokeWorkspaceInvitation(s) \/ LockInvitation(s) \/ AnswerReplay(s)
           \/ ResolveInvitee(s) \/ AcceptWorkspaceInvitation(s) \/ AbortDeadlocked(s)
Deliver == BeginDelivery \/ SendMail \/ RecordResult

Next == \/ \E s \in Slots : Arrive(s) \/ Step(s)
        \/ Deliver \/ StopDelivery \/ Tick

Spec == Init /\ [][Next]_vars

-----------------------------------------------------------------------------
(* What must hold.                                                          *)

\* Types, and what loading a row demands, however requests interleave on clocks
\* read before their locks: a user provisioned twice at once has one row
\* (ProvisionUserHandler), a workspace keeps an owner whatever removals,
\* acceptances and foundings do (Workspace::rehydrate), and every invitation
\* can be loaded again (WorkspaceInvitation::rehydrate).
TypeOK ==
    /\ clock \in 0 .. MaxTime
    /\ account \in [Users -> 0 .. 1]
    /\ member \in [Users -> Membership \cup {NoMembership}]
    /\ \A w \in Workspaces : Members(w) # {} => Owners(w) # {}
    /\ \A i \in Rows : invitation[i] \in Invitation /\ Consistent(invitation[i])
    /\ \A s \in Slots : slot[s] = Idle \/ slot[s] \in Request
    /\ work \in 0 .. MaxWork
    /\ links \subseteq Link
    /\ queue \subseteq Message /\ dead \subseteq Message
    /\ worker.phase \in DeliveryPhases
    /\ mailed \subseteq Invitations \X (1 .. MaxGeneration)
    /\ joined \in [Invitations -> Nat]
    /\ failed \subseteq {"window", "membership", "snapshot", "deadlock"}

\* A mailbox never has two invitations to one workspace pending at once, even
\* when an old one is sent again by a request that waited past its expiry
\* (CreateWorkspaceInvitationHandler, workspace_invitations_pending_window_excl).
OnePendingPerMailbox ==
    \A i, j \in Rows :
        LET v == invitation[i]  w == invitation[j] IN
        /\ StatusAt(v, clock) = "pending" /\ StatusAt(w, clock) = "pending"
        /\ v.ws = w.ws /\ v.email = w.email
        => i = j

\* An invitation adds at most one membership: a member who was removed does
\* not come back with the old link (AcceptWorkspaceInvitationHandler).
InvitationSpentOnce ==
    \A i \in Invitations : /\ joined[i] <= 1
                           /\ joined[i] = 1 => invitation[i].acceptedBy # None

\* What accept read under the user's lock, that the user is in no other
\* workspace, still holds when it inserts the membership; and no workspace is
\* ever found in a state that cannot be loaded.  Only an overlapping window
\* and a wait that went round are answered as internal errors.
OnlyExpectedFailures == failed \subseteq {"window", "deadlock"}

\* The locks are taken in one order but for one case: a user accepts an
\* invitation while the same user sends it again or revokes it
\* (accept: invitation, user; resend and revoke: user, invitation).
WaitCyclesAreOwn ==
    \A s, t \in Slots :
        WaitsFor(s, t) /\ WaitsFor(t, s) =>
            /\ slot[s].user = slot[t].user /\ slot[s].inv = slot[t].inv
            /\ {"accept"} = {slot[s].op, slot[t].op} \ {"resend", "revoke"}

\* A mail goes out only for the current generation of an invitation nobody
\* has accepted or revoked at that moment, because the handler keeps the row
\* locked while the provider answers (WorkspaceInvitationDeliveryHandler).
MailedWhileCurrent ==
    [][\A k \in mailed' \ mailed :
          LET v == invitation[k[1]] IN v.generation = k[2] /\ Open(v)]_vars

\* What the people list shows as delivered was handed to the provider, in the
\* generation it shows (WorkspaceInvitationDeliveryState::from_snapshot).
DeliveredWasMailed ==
    \A i \in Rows : LET v == invitation[i] IN
        DeliveryState(v) = "delivered" => <<i, v.generation>> \in mailed

\* A pending invitation whose mail is neither delivered nor failed for good
\* still has a message, unless the subscription gave the message up.
NoDeliveryForgotten ==
    \A i \in Rows :
        LET v == invitation[i]
            has(S) == \E m \in S : m.inv = i /\ m.generation = v.generation
        IN StatusAt(v, clock) = "pending" =>
              has(queue) \/ has(dead) \/ v.delivered = v.generation
                 \/ v.failure \in {"permanent", "exhausted"}

\* Who creates an invitation manages the workspace when it commits: a removal
\* that got in between is seen under the workspace's lock.
CreatorStillManages ==
    [][\A i \in Invitations : i \notin Rows /\ invitation'[i] # None =>
          \E s \in Slots : slot'[s] = Idle /\ At(s, "create", "locked")
                             /\ MayManage(invitation'[i].ws, slot[s].user)]_vars

\* "The manager can use the current copyable link meanwhile"
\* (docs/workspace-invitation-production-runbook.md): whoever manages the
\* workspace copies a link, and it opens.
CurrentLinkOpens ==
    \A u \in Users, i \in Rows : \A l \in CurrentLink(u, i) : Previews(l)
=============================================================================
