---------------------- MODULE WorkspaceInvitationsProofs ----------------------
(***************************************************************************)
(* Proofs about memberships and invitations: that an invitation adds one     *)
(* membership, that a workspace keeps an owner, that a mailbox has one       *)
(* pending invitation, that what is mailed is current and what is not yet    *)
(* delivered is not forgotten, and which requests may wait for each other.   *)
(*                                                                         *)
(* The argument rests on the locks.  What a request has found out about the  *)
(* user, the workspace or the invitation it has locked stays so until it     *)
(* answers; an invitation is never deleted and keeps its workspace, its      *)
(* mailbox and the time it was made, and a workspace that has an owner keeps *)
(* one.                                                                    *)
(***************************************************************************)
EXTENDS WorkspaceInvitations, TLAPS

-----------------------------------------------------------------------------
(* The invariant.                                                           *)

Worker == [phase : {"idle"}] \cup [phase : DeliveryPhases \ {"idle"}, msg : Message]

\* Types.  No workspace is ever found in a state that cannot be loaded, and no
\* insert of a membership is refused.
Typed ==
    /\ clock \in 0 .. MaxTime
    /\ account \in [Users -> 0 .. 1]
    /\ member \in [Users -> Membership \cup {NoMembership}]
    /\ invitation \in [Invitations -> Invitation \cup {None}]
    /\ slot \in [Slots -> Request \cup {Idle}]
    /\ work \in 0 .. MaxWork
    /\ links \subseteq Link
    /\ queue \subseteq Message /\ dead \subseteq Message
    /\ worker \in Worker
    /\ mailed \subseteq Invitations \X (1 .. MaxGeneration)
    /\ joined \in [Invitations -> Nat]
    /\ failed \subseteq {"window", "deadlock"}

\* Nobody has a lock that another request or the worker has.
LocksExclusive ==
    /\ \A s, t \in Slots : s # t => Holds(s) \cap Holds(t) = {}
    /\ \A s \in Slots : Holds(s) \cap WorkerHolds = {}

\* How far a request of each kind gets.
InPhase(r) ==
    /\ r.op = "signIn" => r.phase \in {"start", "provision"}
    /\ r.op \in {"createOwned", "remove", "resend", "revoke"} => r.phase \in {"start", "resolved"}
    /\ r.op = "create" => r.phase \in {"start", "resolved", "locked"}
    /\ r.op = "accept" => r.phase \in {"start", "locked", "replay", "join"}

\* What a request has found out and still holds.
Knows(s) ==
    LET r == slot[s] IN
    /\ InPhase(r) /\ r.at <= clock
    /\ r.op = "create" => r.target \in Invitees
    /\ r.op \in {"resend", "revoke", "accept"} => r.inv \in Rows
    /\ r.op = "resend" => r.generation < MaxGeneration /\ invitation[r.inv].created <= r.at
    /\ r.phase = "provision" => account[r.user] = 0
    /\ r.op = "createOwned" /\ r.phase = "resolved" => r.ws \in Workspaces /\ member[r.user].ws = None
    /\ r.op \in {"remove", "create", "resend", "revoke"} /\ r.phase # "start" =>
          r.ws \in Workspaces /\ Owners(r.ws) # {}
    /\ HasWorkspace(r) => MayManage(r.ws, r.user)
    /\ r.op = "accept" /\ r.phase # "start" => r.ws = invitation[r.inv].ws
    /\ r.op = "accept" /\ r.phase = "join" => member[r.user].ws \in {None, r.ws}

RequestsSound == \A s \in Slots : slot[s] # Idle => Knows(s)

\* A workspace with members has an owner; so has one that invites.
WorkspacesOwned ==
    /\ \A w \in Workspaces : Members(w) # {} => Owners(w) # {}
    /\ \A i \in Rows : Owners(invitation[i].ws) # {}

\* Every invitation can be loaded, was made in the past, has added a
\* membership only if it is accepted, and is delivered only if it was mailed.
RowsSound ==
    \A i \in Rows : LET v == invitation[i] IN
        /\ Consistent(v) /\ v.created <= clock
        /\ v.delivered = v.generation => <<i, v.generation>> \in mailed

Spent == \A i \in Invitations : /\ joined[i] <= 1
                                /\ joined[i] # 0 => i \in Rows /\ invitation[i].acceptedBy # None

\* Open invitations of a mailbox to a workspace have windows apart.
WindowsApart ==
    \A i, j \in Rows :
        LET v == invitation[i]  w == invitation[j] IN
        i # j /\ Open(v) /\ Open(w) /\ v.ws = w.ws /\ v.email = w.email => ~Overlap(v, w)

\* Links and messages are about invitations there are.
AboutRows == /\ \A l \in links : l.inv \in Rows
             /\ \A m \in queue \cup dead : m.inv \in Rows

\* What the worker delivers is current and still in the queue.
WorkerSound ==
    worker.phase # "idle" =>
        LET m == worker.msg  v == invitation[m.inv] IN
        /\ m \in queue /\ v.generation = m.generation /\ Open(v)
        /\ worker.phase = "sent" => <<m.inv, m.generation>> \in mailed

InvitationsInv ==
    /\ Typed /\ LocksExclusive /\ RequestsSound /\ WorkspacesOwned /\ RowsSound /\ Spent
    /\ WindowsApart /\ AboutRows /\ WorkerSound /\ NoDeliveryForgotten

-----------------------------------------------------------------------------
(* Facts about rows, members and locks.                                     *)

tableVars == <<clock, account, member, invitation, links, queue, dead, worker, mailed, joined>>

\* What every step does to the rows and to the owners.
RowsKept == \A i \in Rows : /\ invitation'[i] # None
                            /\ invitation'[i].ws = invitation[i].ws
                            /\ invitation'[i].created = invitation[i].created
OwnersKept == \A w \in Workspaces : Owners(w) # {} => Owners(w)' # {}

\* A time cut to the second is at most one second earlier, and an invitation
\* lives a second or more.
LEMMA Truncation ==
    /\ Lifetime >= Second
    /\ \A t \in Nat : TruncateToSecond(t) \in Nat /\ TruncateToSecond(t) <= t /\ t - Second < TruncateToSecond(t)
  <1>1. \A t \in Nat : t % Second \in Nat /\ t % Second < Second
    BY InvitationsAssumption
  <1>2. \A t \in Nat : t % Second <= t
    BY InvitationsAssumption
  <1>3. Lifetime >= Second
    BY InvitationsAssumption
  <1> QED
    BY <1>1, <1>2, <1>3, InvitationsAssumption DEF TruncateToSecond

\* A step of a request changes its own slot only.
LEMMA SlotEffect ==
    ASSUME Typed, NEW s \in Slots, NEW r, slot' = [slot EXCEPT ![s] = r]
    PROVE  /\ slot'[s] = r /\ Holds(s)' = IF r = Idle THEN {} ELSE Has(r)
           /\ \A t \in Slots \ {s} : slot'[t] = slot[t] /\ Holds(t)' = Holds(t)
  <1>1. slot'[s] = r /\ \A t \in Slots \ {s} : slot'[t] = slot[t]
    BY DEF Typed
  <1> QED
    BY <1>1 DEF Holds

\* A request is never mistaken for an empty slot.
LEMMA Busy ==
    ASSUME NEW r \in Request
    PROVE  r # Idle
  <1>1. r.op \in Ops /\ Idle.op = "none"
    BY DEF Request, Idle
  <1> QED
    BY <1>1 DEF Ops

\* The invitations there are have their type.
LEMMA RowTyped ==
    ASSUME Typed, NEW i \in Rows
    PROVE  i \in Invitations /\ invitation[i] \in Invitation /\ invitation[i] # None
  BY DEF Typed, Rows

\* Rows and owners are kept when the tables are.
LEMMA Unchanged ==
    ASSUME UNCHANGED <<member, invitation>>
    PROVE  RowsKept /\ OwnersKept
  <1>1. \A w \in Workspaces : Owners(w)' = Owners(w)
    BY DEF Owners, Members
  <1> QED
    BY <1>1 DEF RowsKept, OwnersKept, Rows

\* What a request knows stays so while others write, as long as nobody touches
\* the account or the membership it holds; a user it holds may be removed from
\* a workspace it does not hold.
LEMMA KnowsKept ==
    ASSUME NEW t \in Slots, slot[t] \in Request, slot'[t] = slot[t], Knows(t),
           clock \in Nat, clock' \in Nat, clock <= clock', RowsKept, OwnersKept,
           slot[t].phase = "provision" => account'[slot[t].user] = account[slot[t].user],
           HasUser(slot[t]) => \/ member'[slot[t].user] = member[slot[t].user]
                               \/ member'[slot[t].user] = NoMembership /\ ~HasWorkspace(slot[t])
    PROVE  Knows(t)'
  <1> DEFINE r == slot[t]
  <1>1. slot'[t] = r /\ r \in Request
    OBVIOUS
  <1>2. InPhase(r) /\ r.at <= clock /\ r.at \in Nat /\ r.user \in Users
    BY <1>1 DEF Knows, Request
  <1>3. r.at <= clock'
    BY <1>2
  <1>4. r.op = "create" => r.target \in Invitees
    BY DEF Knows
  <1>5. r.op \in {"resend", "revoke", "accept"} => r.inv \in Rows /\ invitation'[r.inv] # None
    BY DEF Knows, RowsKept
  <1>6. r.op = "resend" => r.generation < MaxGeneration /\ invitation'[r.inv].created <= r.at
    BY <1>5 DEF Knows, RowsKept
  <1>7. r.phase = "provision" => account'[r.user] = 0
    BY DEF Knows
  <1>8. r.op = "createOwned" /\ r.phase = "resolved" => r.ws \in Workspaces /\ member'[r.user].ws = None
    BY DEF Knows, HasUser, NoMembership
  <1>9. r.op \in {"remove", "create", "resend", "revoke"} /\ r.phase # "start" =>
           r.ws \in Workspaces /\ Owners(r.ws)' # {}
    BY DEF Knows, OwnersKept
  <1>10. HasWorkspace(r) => member'[r.user] = member[r.user] /\ MayManage(r.ws, r.user)
    BY DEF Knows, HasWorkspace, HasUser
  <1>11. HasWorkspace(r) => r.user \in Members(r.ws)'
    BY <1>2, <1>10 DEF MayManage, RoleFor, Members, Roles
  <1>12. r.op = "accept" /\ r.phase # "start" => r.ws = invitation'[r.inv].ws
    BY <1>5 DEF Knows, RowsKept
  <1>13. r.op = "accept" /\ r.phase = "join" => member'[r.user].ws \in {None, r.ws}
    BY DEF Knows, HasUser, NoMembership
  <1> QED
    BY <1>1, <1>2, <1>3, <1>4, <1>5, <1>6, <1>7, <1>8, <1>9, <1>10, <1>11, <1>12, <1>13
       DEF Knows, Rows, MayManage, RoleFor, Members

-----------------------------------------------------------------------------
(* Steps of a request that write no table.                                  *)

\* Other requests know what they knew.
LEMMA OthersKnow ==
    ASSUME InvitationsInv, NEW s \in Slots, \A t \in Slots \ {s} : slot'[t] = slot[t],
           UNCHANGED <<clock, account, member, invitation>>
    PROVE  \A t \in Slots \ {s} : slot'[t] # Idle => Knows(t)'
  <1> SUFFICES ASSUME NEW t \in Slots \ {s}, slot'[t] # Idle
               PROVE  Knows(t)'
    OBVIOUS
  <1>1. slot'[t] = slot[t] /\ slot[t] \in Request /\ Knows(t) /\ clock \in Nat /\ clock' = clock
    BY InvitationsAssumption DEF InvitationsInv, Typed, RequestsSound
  <1> QED
    BY <1>1, Unchanged, KnowsKept

\* A step that moves one request keeps the invariant when the request knows
\* what it should and has a lock nobody else has.
LEMMA RequestStep ==
    ASSUME InvitationsInv, UNCHANGED tableVars, NEW s \in Slots, NEW r \in Request \cup {Idle},
           slot' = [slot EXCEPT ![s] = r],
           work' \in 0 .. MaxWork, failed' \subseteq {"window", "deadlock"}, r # Idle => Knows(s)',
           \A t \in Slots \ {s} : Holds(s)' \cap Holds(t) = {}, Holds(s)' \cap WorkerHolds = {}
    PROVE  InvitationsInv'
  <1>1. /\ slot'[s] = r
        /\ \A t \in Slots \ {s} : slot'[t] = slot[t] /\ Holds(t)' = Holds(t)
    BY SlotEffect DEF InvitationsInv
  <1>2. Typed'
    BY DEF InvitationsInv, Typed, tableVars
  <1>3. WorkerHolds' = WorkerHolds
    BY DEF WorkerHolds, tableVars
  <1>4. LocksExclusive'
    BY <1>1, <1>3 DEF InvitationsInv, LocksExclusive
  <1>5. RequestsSound'
    BY <1>1, OthersKnow DEF RequestsSound, tableVars
  <1>6. WorkspacesOwned'
    BY DEF InvitationsInv, WorkspacesOwned, Rows, Owners, Members, tableVars
  <1>7. RowsSound' /\ Spent' /\ WindowsApart'
    BY DEF InvitationsInv, RowsSound, Spent, WindowsApart, Rows, tableVars
  <1>8. AboutRows' /\ WorkerSound'
    BY DEF InvitationsInv, AboutRows, WorkerSound, Rows, tableVars
  <1>9. NoDeliveryForgotten'
    BY DEF InvitationsInv, NoDeliveryForgotten, Rows, tableVars
  <1> QED
    BY <1>2, <1>4, <1>5, <1>6, <1>7, <1>8, <1>9 DEF InvitationsInv

\* Answering without a write keeps the invariant.
LEMMA AnswerStep ==
    ASSUME InvitationsInv, NEW s \in Slots, Finish(s), UNCHANGED tableVars, UNCHANGED work,
           failed' \subseteq {"window", "deadlock"}
    PROVE  InvitationsInv'
  <1>1. slot' = [slot EXCEPT ![s] = Idle] /\ Holds(s)' = {}
    BY SlotEffect DEF Finish, InvitationsInv
  <1>2. work' \in 0 .. MaxWork
    BY DEF InvitationsInv, Typed
  <1> QED
    BY <1>1, <1>2, RequestStep

\* So does a rejection.
LEMMA RejectStep ==
    ASSUME InvitationsInv, NEW s \in Slots, Reject(s)
    PROVE  InvitationsInv'
  <1>1. Finish(s) /\ UNCHANGED tableVars /\ UNCHANGED work /\ failed' = failed
    BY DEF Reject, NoWrite, tableVars
  <1> QED
    BY <1>1, AnswerStep DEF InvitationsInv, Typed

\* So does a failure that is expected.
LEMMA FailStep ==
    ASSUME InvitationsInv, NEW s \in Slots, NEW kind \in {"window", "deadlock"}, Fail(s, kind)
    PROVE  InvitationsInv'
  <1>1. Finish(s) /\ UNCHANGED tableVars /\ UNCHANGED work /\ failed' = failed \cup {kind}
    BY DEF Fail, tableVars
  <1> QED
    BY <1>1, AnswerStep DEF InvitationsInv, Typed

\* A request that goes on has the fields it had but for how far it is and the
\* workspace it has found.
LEMMA ProceedEffect ==
    ASSUME Typed, NEW s \in Slots, slot[s] # Idle, NEW phase \in Phases, NEW w \in Workspaces \cup {None},
           Proceed(s, phase, w)
    PROVE  /\ slot'[s] \in Request /\ slot'[s].phase = phase /\ slot'[s].ws = w
           /\ slot'[s].op = slot[s].op /\ slot'[s].user = slot[s].user /\ slot'[s].target = slot[s].target
           /\ slot'[s].inv = slot[s].inv /\ slot'[s].generation = slot[s].generation
           /\ slot'[s].expires = slot[s].expires /\ slot'[s].at = slot[s].at
           /\ slot' = [slot EXCEPT ![s] = slot'[s]]
  <1>1. slot[s] \in Request
    BY DEF Typed
  <1>2. slot'[s] = [slot[s] EXCEPT !.phase = phase, !.ws = w] /\ slot' = [slot EXCEPT ![s] = slot'[s]]
    BY DEF Proceed, Typed
  <1> QED
    BY <1>1, <1>2 DEF Request

\* Going on keeps the invariant when the request takes the lock it waited for.
LEMMA ProceedStep ==
    ASSUME InvitationsInv, NEW s \in Slots, slot[s] # Idle, NEW phase \in Phases,
           NEW w \in Workspaces \cup {None}, Proceed(s, phase, w), NoWrite, Free(s),
           Holds(s)' \subseteq Holds(s) \cup Wants(s), Knows(s)'
    PROVE  InvitationsInv'
  <1>1. slot'[s] \in Request /\ slot' = [slot EXCEPT ![s] = slot'[s]]
    BY ProceedEffect DEF InvitationsInv
  <1>2. \A t \in Slots \ {s} : Holds(s)' \cap Holds(t) = {}
    BY DEF InvitationsInv, LocksExclusive, Free
  <1>3. Holds(s)' \cap WorkerHolds = {}
    BY DEF InvitationsInv, LocksExclusive, Free
  <1>4. UNCHANGED tableVars /\ work' \in 0 .. MaxWork /\ failed' \subseteq {"window", "deadlock"}
    BY DEF NoWrite, tableVars, InvitationsInv, Typed
  <1> QED
    BY <1>1, <1>2, <1>3, <1>4, RequestStep

\* A request arrives knowing nothing but its own arguments.
LEMMA AskStep ==
    ASSUME InvitationsInv, NEW s \in Slots, NEW op \in Ops, NEW u \in Users, NEW target \in Users \cup {None},
           NEW i \in Invitations \cup {None}, NEW g \in Nat, NEW exp \in Nat, Ask(s, op, u, target, i, g, exp),
           op = "create" => target \in Invitees,
           op \in {"resend", "revoke", "accept"} => i \in Rows,
           op = "resend" => g < MaxGeneration
    PROVE  InvitationsInv'
  <1> DEFINE new == [op |-> op, user |-> u, target |-> target, inv |-> i, generation |-> g,
                     expires |-> exp, at |-> clock, ws |-> None, phase |-> "start"]
  <1>1. clock \in Nat /\ UNCHANGED tableVars /\ slot' = [slot EXCEPT ![s] = new] /\ failed' = failed
    BY InvitationsAssumption DEF Ask, tableVars, InvitationsInv, Typed
  <1>2. new \in Request
    BY <1>1 DEF Request, Phases
  <1>3. /\ new.op = op /\ new.target = target /\ new.inv = i /\ new.generation = g /\ new.at = clock
        /\ new.phase = "start"
    OBVIOUS
  <1> HIDE DEF new
  <1>4. slot'[s] = new /\ Holds(s)' = Has(new)
    BY <1>1, <1>2, SlotEffect, Busy DEF InvitationsInv
  <1>5. Has(new) = {} /\ ~HasWorkspace(new) /\ InPhase(new)
    BY <1>3 DEF Has, Lock, HasSubject, HasUser, HasWorkspace, HasInvitation, InPhase
  <1>6. op = "resend" => invitation[i].created <= clock
    BY DEF InvitationsInv, RowsSound
  <1>7. Rows' = Rows /\ clock' = clock /\ invitation' = invitation
    BY <1>1 DEF Rows, tableVars
  <1>8. Knows(s)'
    BY <1>1, <1>3, <1>4, <1>5, <1>6, <1>7 DEF Knows
  <1>9. work' \in 0 .. MaxWork
    BY InvitationsAssumption DEF Ask, InvitationsInv, Typed
  <1>10. failed' \subseteq {"window", "deadlock"}
    BY <1>1 DEF InvitationsInv, Typed
  <1> QED
    BY <1>1, <1>2, <1>4, <1>5, <1>8, <1>9, <1>10, RequestStep

\* Every request arrives sound.
LEMMA ArriveStep ==
    ASSUME InvitationsInv, NEW s \in Slots, Arrive(s)
    PROVE  InvitationsInv'
  <1> USE DEF Ops
  <1>1. CASE AskSignIn(s)
    BY <1>1, AskStep DEF AskSignIn
  <1>2. CASE AskCreateOwned(s)
    BY <1>2, AskStep DEF AskCreateOwned
  <1>3. CASE AskRemove(s)
    BY <1>3, AskStep DEF AskRemove
  <1>4. CASE AskCreate(s)
    <2>1. PICK u \in Users, e \in Invitees : Ask(s, "create", u, e, None, 0, 0)
      BY <1>4 DEF AskCreate
    <2> QED
      BY <2>1, AskStep, InvitationsAssumption
  <1>5. CASE AskResend(s)
    <2>1. PICK u \in Users, i \in Rows, g \in 1 .. (MaxGeneration - 1) : Ask(s, "resend", u, None, i, g, 0)
      BY <1>5 DEF AskResend
    <2>2. i \in Invitations /\ g \in Nat /\ g < MaxGeneration
      BY <2>1, InvitationsAssumption DEF Rows
    <2> QED
      BY <2>1, <2>2, AskStep
  <1>6. CASE AskRevoke(s)
    <2>1. PICK u \in Users, i \in Rows, g \in 1 .. MaxGeneration : Ask(s, "revoke", u, None, i, g, 0)
      BY <1>6 DEF AskRevoke
    <2>2. i \in Invitations /\ g \in Nat
      BY <2>1, InvitationsAssumption DEF Rows
    <2> QED
      BY <2>1, <2>2, AskStep
  <1>7. CASE AskAccept(s)
    <2>1. PICK u \in Invitees, l \in links : Ask(s, "accept", u, u, l.inv, l.generation, l.expires)
      BY <1>7 DEF AskAccept
    <2>2. u \in Users /\ l.inv \in Rows /\ l.inv \in Invitations /\ l.generation \in Nat /\ l.expires \in Nat
      BY <2>1, InvitationsAssumption DEF InvitationsInv, AboutRows, Typed, Link
    <2> QED
      BY <2>1, <2>2, AskStep
  <1> QED
    BY <1>1, <1>2, <1>3, <1>4, <1>5, <1>6, <1>7 DEF Arrive

\* What a request in flight is.
LEMMA InFlight ==
    ASSUME InvitationsInv, NEW s \in Slots, slot[s] # Idle
    PROVE  /\ slot[s] \in Request /\ Knows(s) /\ Holds(s) = Has(slot[s]) /\ Wants(s) = Needs(slot[s])
           /\ slot[s].user \in Users /\ slot[s].inv \in Invitations \cup {None} /\ slot[s].at \in Nat
           /\ slot[s].ws \in Workspaces \cup {None} /\ slot[s].op \in Ops /\ slot[s].phase \in Phases
  <1>1. slot[s] \in Request
    BY DEF InvitationsInv, Typed
  <1> QED
    BY <1>1 DEF InvitationsInv, RequestsSound, Holds, Wants, Request

\* The member rows.
LEMMA MemberTyped ==
    ASSUME Typed, NEW u \in Users
    PROVE  /\ member[u] \in Membership \cup {NoMembership} /\ member[u].ws \in Workspaces \cup {None}
           /\ member[u].ws = None => member[u] = NoMembership
           /\ member[u].ws # None => member[u].role \in Roles
  BY InvitationsAssumption DEF Typed, Membership, NoMembership

\* A user found to be a member belongs to a workspace that has an owner.
LEMMA MemberOwned ==
    ASSUME InvitationsInv, NEW u \in Users, member[u].ws # None
    PROVE  member[u].ws \in Workspaces /\ Owners(member[u].ws) # {}
  <1>1. member[u].ws \in Workspaces
    BY MemberTyped DEF InvitationsInv
  <1>2. u \in Members(member[u].ws)
    BY DEF Members
  <1> QED
    BY <1>1, <1>2 DEF InvitationsInv, WorkspacesOwned

\* What a request that goes on holds.
LEMMA ProceedHolds ==
    ASSUME InvitationsInv, NEW s \in Slots, slot[s] # Idle, NEW phase \in Phases,
           NEW w \in Workspaces \cup {None}, Proceed(s, phase, w)
    PROVE  Holds(s)' = Has(slot'[s])
  <1>1. slot'[s] \in Request /\ slot' = [slot EXCEPT ![s] = slot'[s]]
    BY ProceedEffect DEF InvitationsInv
  <1> QED
    BY <1>1, SlotEffect, Busy DEF InvitationsInv

\* ResolveSubject: the account is not there, under the subject's lock.
LEMMA ResolveSubjectStep ==
    ASSUME InvitationsInv, NEW s \in Slots, ResolveSubject(s)
    PROVE  InvitationsInv'
  <1>1. /\ slot[s] # Idle /\ slot[s].op = "signIn" /\ slot[s].phase = "start" /\ Free(s)
        /\ \/ Reject(s)
           \/ ~(account[slot[s].user] > 0) /\ Proceed(s, "provision", None) /\ NoWrite
    BY DEF ResolveSubject, At
  <1>2. CASE Reject(s)
    BY <1>2, RejectStep
  <1>3. CASE ~(account[slot[s].user] > 0) /\ Proceed(s, "provision", None) /\ NoWrite
    <2>1. "provision" \in Phases
      BY DEF Phases
    <2>2. /\ slot'[s].phase = "provision" /\ slot'[s].op = "signIn" /\ slot'[s].user = slot[s].user
          /\ slot'[s].at = slot[s].at
      BY <1>1, <1>3, <2>1, ProceedEffect DEF InvitationsInv
    <2>3. Holds(s)' \subseteq Holds(s) \cup Wants(s)
      BY <1>1, <1>3, <2>1, <2>2, ProceedHolds, InFlight
         DEF Has, Needs, Lock, HasSubject, HasUser, HasWorkspace, HasInvitation, NeedsSubject
    <2>4. account'[slot[s].user] = 0 /\ clock' = clock
      BY <1>1, <1>3, InFlight DEF InvitationsInv, Typed, NoWrite
    <2>5. Knows(s)'
      BY <1>1, <2>2, <2>4, InFlight DEF Knows, InPhase, HasWorkspace
    <2> QED
      BY <1>1, <1>3, <2>1, <2>3, <2>5, ProceedStep
  <1> QED
    BY <1>1, <1>2, <1>3

\* ResolveMember and ResolveManager: the actor's workspace, under the actor's
\* lock.
LEMMA ResolveActorStep ==
    ASSUME InvitationsInv, NEW s \in Slots, ResolveMember(s) \/ ResolveManager(s)
    PROVE  InvitationsInv'
  <1>0. PICK w : w = member[slot[s].user].ws
    OBVIOUS
  <1>1. /\ slot[s] # Idle /\ slot[s].op \in {"remove", "create", "resend", "revoke"} /\ slot[s].phase = "start"
        /\ Free(s)
        /\ \/ Reject(s)
           \/ w # None /\ Proceed(s, "resolved", w) /\ NoWrite
    BY <1>0 DEF ResolveMember, ResolveManager
  <1>2. CASE Reject(s)
    BY <1>2, RejectStep
  <1>3. CASE w # None /\ Proceed(s, "resolved", w) /\ NoWrite
    <2>1. "resolved" \in Phases
      BY DEF Phases
    <2>2. w \in Workspaces /\ Owners(w) # {}
      BY <1>0, <1>1, <1>3, InFlight, MemberOwned
    <2>3. /\ slot'[s].phase = "resolved" /\ slot'[s].op = slot[s].op /\ slot'[s].user = slot[s].user
          /\ slot'[s].at = slot[s].at /\ slot'[s].target = slot[s].target /\ slot'[s].inv = slot[s].inv
          /\ slot'[s].generation = slot[s].generation /\ slot'[s].ws = w
      BY <1>1, <1>3, <2>1, <2>2, ProceedEffect DEF InvitationsInv
    <2>4. Holds(s)' \subseteq Holds(s) \cup Wants(s)
      BY <1>1, <1>3, <2>1, <2>2, <2>3, ProceedHolds, InFlight
         DEF Has, Needs, Lock, HasSubject, HasUser, HasWorkspace, HasInvitation, NeedsUser
    <2>5. /\ clock' = clock /\ Rows' = Rows /\ invitation' = invitation /\ Owners(slot[s].ws)' # {}
      BY <1>3, <2>2, <2>3 DEF NoWrite, Rows, Owners, Members
    <2>6. Knows(s)
      BY <1>1, InFlight
    <2>7. Knows(s)'
      BY <1>1, <2>2, <2>3, <2>5, <2>6 DEF Knows, InPhase, HasWorkspace
    <2> QED
      BY <1>1, <1>3, <2>1, <2>2, <2>4, <2>7, ProceedStep
  <1> QED
    BY <1>1, <1>2, <1>3

\* ResolveFounder: the founder is in no workspace, under the founder's lock.
LEMMA ResolveFounderStep ==
    ASSUME InvitationsInv, NEW s \in Slots, ResolveFounder(s)
    PROVE  InvitationsInv'
  <1>1. /\ slot[s] # Idle /\ slot[s].op = "createOwned" /\ slot[s].phase = "start" /\ Free(s)
        /\ \/ Reject(s)
           \/ member[slot[s].user].ws = None /\ \E w \in Workspaces : Proceed(s, "resolved", w) /\ NoWrite
    BY DEF ResolveFounder, At
  <1>2. CASE Reject(s)
    BY <1>2, RejectStep
  <1>3. ASSUME NEW w \in Workspaces, member[slot[s].user].ws = None, Proceed(s, "resolved", w), NoWrite
        PROVE  InvitationsInv'
    <2>1. "resolved" \in Phases
      BY DEF Phases
    <2>2. /\ slot'[s].phase = "resolved" /\ slot'[s].op = "createOwned" /\ slot'[s].user = slot[s].user
          /\ slot'[s].at = slot[s].at /\ slot'[s].ws = w
      BY <1>1, <1>3, <2>1, ProceedEffect DEF InvitationsInv
    <2>3. Holds(s)' \subseteq Holds(s) \cup Wants(s)
      BY <1>1, <1>3, <2>1, <2>2, ProceedHolds, InFlight
         DEF Has, Needs, Lock, HasSubject, HasUser, HasWorkspace, HasInvitation, NeedsUser
    <2>4. member'[slot[s].user].ws = None /\ clock' = clock
      BY <1>3 DEF NoWrite
    <2>5. Knows(s)'
      BY <1>1, <1>3, <2>2, <2>4, InFlight DEF Knows, InPhase, HasWorkspace
    <2> QED
      BY <1>1, <1>3, <2>1, <2>3, <2>5, ProceedStep
  <1> QED
    BY <1>1, <1>2, <1>3

\* CheckInvitee: the actor manages the workspace, under the workspace's lock.
LEMMA CheckInviteeStep ==
    ASSUME InvitationsInv, NEW s \in Slots, CheckInvitee(s)
    PROVE  InvitationsInv'
  <1> PICK w : w = slot[s].ws
    OBVIOUS
  <1>0. slot[s] # Idle /\ slot[s].op = "create" /\ slot[s].phase = "resolved" /\ Free(s)
    BY DEF CheckInvitee, At
  <1>1. Knows(s) /\ w \in Workspaces /\ Owners(w) # {}
    BY <1>0, InFlight DEF Knows
  <1>2. \/ Reject(s)
        \/ MayManage(w, slot[s].user) /\ Proceed(s, "locked", w) /\ NoWrite
    BY <1>1 DEF CheckInvitee
  <1>3. CASE Reject(s)
    BY <1>3, RejectStep
  <1>4. CASE MayManage(w, slot[s].user) /\ Proceed(s, "locked", w) /\ NoWrite
    <2>1. "locked" \in Phases
      BY DEF Phases
    <2>2. /\ slot'[s].phase = "locked" /\ slot'[s].op = "create" /\ slot'[s].user = slot[s].user
          /\ slot'[s].at = slot[s].at /\ slot'[s].target = slot[s].target /\ slot'[s].ws = w
      BY <1>0, <1>1, <1>4, <2>1, ProceedEffect DEF InvitationsInv
    <2>3. Holds(s)' \subseteq Holds(s) \cup Wants(s)
      BY <1>0, <1>1, <1>4, <2>1, <2>2, ProceedHolds, InFlight
         DEF Has, Needs, Lock, HasSubject, HasUser, HasWorkspace, HasInvitation, NeedsWorkspace
    <2>4. clock' = clock /\ Owners(slot[s].ws)' # {} /\ MayManage(slot[s].ws, slot[s].user)'
      BY <1>1, <1>4, <2>2 DEF NoWrite, Owners, Members, MayManage, RoleFor
    <2>5. Knows(s)'
      BY <1>0, <1>1, <2>2, <2>4 DEF Knows, InPhase
    <2> QED
      BY <1>0, <1>1, <1>4, <2>1, <2>3, <2>5, ProceedStep
  <1> QED
    BY <1>2, <1>3, <1>4

\* LockInvitation: the workspace that invites, under the invitation's lock.
LEMMA LockInvitationStep ==
    ASSUME InvitationsInv, NEW s \in Slots, LockInvitation(s)
    PROVE  InvitationsInv'
  <1> PICK w : w = invitation[slot[s].inv].ws
    OBVIOUS
  <1>1. slot[s] # Idle /\ slot[s].op = "accept" /\ slot[s].phase = "start" /\ Free(s)
    BY DEF LockInvitation, At
  <1>2. \/ Reject(s)
        \/ \E phase \in {"replay", "locked"} : Proceed(s, phase, w) /\ NoWrite
    BY DEF LockInvitation
  <1>3. Knows(s) /\ slot[s].inv \in Rows
    BY <1>1, InFlight DEF Knows
  <1>4. w \in Workspaces
    BY <1>3, RowTyped DEF InvitationsInv, Invitation
  <1>5. CASE Reject(s)
    BY <1>5, RejectStep
  <1>6. ASSUME NEW phase \in {"replay", "locked"}, Proceed(s, phase, w), NoWrite
        PROVE  InvitationsInv'
    <2>1. phase \in Phases
      BY DEF Phases
    <2>2. /\ slot'[s].phase = phase /\ slot'[s].op = "accept" /\ slot'[s].user = slot[s].user
          /\ slot'[s].at = slot[s].at /\ slot'[s].inv = slot[s].inv /\ slot'[s].ws = w
      BY <1>1, <1>4, <1>6, <2>1, ProceedEffect DEF InvitationsInv
    <2>3. Holds(s)' \subseteq Holds(s) \cup Wants(s)
      BY <1>1, <1>4, <1>6, <2>1, <2>2, ProceedHolds, InFlight
         DEF Has, Needs, Lock, HasSubject, HasUser, HasWorkspace, HasInvitation, NeedsInvitation
    <2>4. clock' = clock /\ Rows' = Rows /\ invitation' = invitation
      BY <1>6 DEF NoWrite, Rows
    <2>5. Knows(s)'
      BY <1>1, <1>3, <2>2, <2>4 DEF Knows, InPhase, HasWorkspace
    <2> QED
      BY <1>1, <1>4, <1>6, <2>1, <2>3, <2>5, ProceedStep
  <1> QED
    BY <1>2, <1>5, <1>6

\* ResolveInvitee: the invitee is in no other workspace, under the invitee's
\* lock.
LEMMA ResolveInviteeStep ==
    ASSUME InvitationsInv, NEW s \in Slots, ResolveInvitee(s)
    PROVE  InvitationsInv'
  <1> PICK w : w = slot[s].ws
    OBVIOUS
  <1>1. slot[s] # Idle /\ slot[s].op = "accept" /\ slot[s].phase = "locked" /\ Free(s)
    BY DEF ResolveInvitee, At
  <1>2. \/ Reject(s)
        \/ member[slot[s].user].ws \in {None, w} /\ Proceed(s, "join", w) /\ NoWrite
    BY DEF ResolveInvitee
  <1>3. Knows(s) /\ w \in Workspaces \cup {None}
    BY <1>1, InFlight
  <1>4. CASE Reject(s)
    BY <1>4, RejectStep
  <1>5. CASE member[slot[s].user].ws \in {None, w} /\ Proceed(s, "join", w) /\ NoWrite
    <2>1. "join" \in Phases
      BY DEF Phases
    <2>2. /\ slot'[s].phase = "join" /\ slot'[s].op = "accept" /\ slot'[s].user = slot[s].user
          /\ slot'[s].at = slot[s].at /\ slot'[s].inv = slot[s].inv /\ slot'[s].ws = w
      BY <1>1, <1>3, <1>5, <2>1, ProceedEffect DEF InvitationsInv
    <2>3. Holds(s)' \subseteq Holds(s) \cup Wants(s)
      BY <1>1, <1>3, <1>5, <2>1, <2>2, ProceedHolds, InFlight
         DEF Has, Needs, Lock, HasSubject, HasUser, HasWorkspace, HasInvitation, NeedsUser
    <2>4. clock' = clock /\ Rows' = Rows /\ invitation' = invitation /\ member' = member
      BY <1>5 DEF NoWrite, Rows
    <2>5. Knows(s)'
      BY <1>1, <1>3, <1>5, <2>2, <2>4 DEF Knows, InPhase, HasWorkspace
    <2> QED
      BY <1>1, <1>3, <1>5, <2>1, <2>3, <2>5, ProceedStep
  <1> QED
    BY <1>2, <1>4, <1>5

-----------------------------------------------------------------------------
(* Steps that write memberships and accounts.                               *)

\* A request that answers with a write keeps the locks and what others know.
LEMMA WriterStep ==
    ASSUME InvitationsInv, NEW s \in Slots, Finish(s), UNCHANGED <<clock, worker>>, RowsKept, OwnersKept,
           \A t \in Slots \ {s} : slot[t] # Idle =>
              /\ slot[t].phase = "provision" => account'[slot[t].user] = account[slot[t].user]
              /\ HasUser(slot[t]) => \/ member'[slot[t].user] = member[slot[t].user]
                                     \/ member'[slot[t].user] = NoMembership /\ ~HasWorkspace(slot[t])
    PROVE  /\ LocksExclusive' /\ RequestsSound'
           /\ slot' \in [Slots -> Request \cup {Idle}]
  <1>1. slot' = [slot EXCEPT ![s] = Idle] /\ slot' \in [Slots -> Request \cup {Idle}]
    BY DEF Finish, InvitationsInv, Typed
  <1>2. /\ slot'[s] = Idle /\ Holds(s)' = {}
        /\ \A t \in Slots \ {s} : slot'[t] = slot[t] /\ Holds(t)' = Holds(t)
    BY <1>1, SlotEffect DEF InvitationsInv
  <1>3. WorkerHolds' = WorkerHolds
    BY DEF WorkerHolds
  <1>4. LocksExclusive'
    BY <1>2, <1>3 DEF InvitationsInv, LocksExclusive
  <1>5. ASSUME NEW t \in Slots, slot'[t] # Idle
        PROVE  Knows(t)'
    <2>1. t # s /\ slot'[t] = slot[t] /\ slot[t] \in Request /\ Knows(t) /\ clock \in Nat /\ clock' = clock
      BY <1>2, <1>5, InvitationsAssumption DEF InvitationsInv, Typed, RequestsSound
    <2> QED
      BY <1>5, <2>1, KnowsKept
  <1>6. RequestsSound'
    BY <1>5 DEF RequestsSound
  <1> QED
    BY <1>1, <1>4, <1>6

\* Two requests do not have the same user's lock, nor the same subject's.
LEMMA OwnUser ==
    ASSUME InvitationsInv, NEW s \in Slots, NEW t \in Slots, s # t, slot[s] # Idle, slot[t] # Idle
    PROVE  /\ HasUser(slot[s]) /\ HasUser(slot[t]) => slot[s].user # slot[t].user
           /\ HasSubject(slot[s]) /\ HasSubject(slot[t]) => slot[s].user # slot[t].user
           /\ HasInvitation(slot[s]) /\ HasInvitation(slot[t]) => slot[s].inv # slot[t].inv
  <1>1. Holds(s) = Has(slot[s]) /\ Holds(t) = Has(slot[t]) /\ Holds(s) \cap Holds(t) = {}
    BY InFlight DEF InvitationsInv, LocksExclusive
  <1> QED
    BY <1>1 DEF Has, Lock

\* ProvisionUser: nobody else makes the account, which the subject's lock keeps.
LEMMA ProvisionUserStep ==
    ASSUME InvitationsInv, NEW s \in Slots, ProvisionUser(s)
    PROVE  InvitationsInv'
  <1>1. /\ slot[s] # Idle /\ slot[s].phase = "provision" /\ Finish(s)
        /\ account' = [account EXCEPT ![slot[s].user] = @ + 1]
        /\ UNCHANGED <<work, clock, member, invitation, links, queue, dead, worker, mailed, joined, failed>>
    BY DEF ProvisionUser, At
  <1>2. account[slot[s].user] = 0 /\ slot[s].user \in Users
    BY <1>1, InFlight DEF Knows
  <1>3. account' \in [Users -> 0 .. 1]
    BY <1>1, <1>2 DEF InvitationsInv, Typed
  <1>4. ASSUME NEW t \in Slots \ {s}, slot[t] # Idle, slot[t].phase = "provision"
        PROVE  account'[slot[t].user] = account[slot[t].user]
    <2>1. slot[t].user # slot[s].user /\ slot[t].user \in Users
      BY <1>1, <1>4, OwnUser, InFlight DEF HasSubject
    <2> QED
      BY <1>1, <2>1 DEF InvitationsInv, Typed
  <1>5. LocksExclusive' /\ RequestsSound' /\ slot' \in [Slots -> Request \cup {Idle}]
    BY <1>1, <1>4, Unchanged, WriterStep
  <1>6. Typed'
    BY <1>1, <1>3, <1>5 DEF InvitationsInv, Typed
  <1>7. WorkspacesOwned'
    BY <1>1 DEF InvitationsInv, WorkspacesOwned, Rows, Owners, Members
  <1>8. RowsSound' /\ Spent' /\ WindowsApart'
    BY <1>1 DEF InvitationsInv, RowsSound, Spent, WindowsApart, Rows
  <1>9. AboutRows' /\ WorkerSound' /\ NoDeliveryForgotten'
    BY <1>1 DEF InvitationsInv, AboutRows, WorkerSound, NoDeliveryForgotten, Rows
  <1> QED
    BY <1>5, <1>6, <1>7, <1>8, <1>9 DEF InvitationsInv

\* A user who was in no workspace joins one that has an owner, or founds it:
\* workspaces keep their owners.
LEMMA JoinEffect ==
    ASSUME InvitationsInv, NEW u \in Users, member[u].ws = None, NEW w \in Workspaces, NEW role \in Roles,
           role = "owner" \/ Owners(w) # {},
           member' = [member EXCEPT ![u] = [ws |-> w, role |-> role]]
    PROVE  /\ member' \in [Users -> Membership \cup {NoMembership}] /\ OwnersKept
           /\ \A x \in Workspaces : Members(x)' # {} => Owners(x)' # {}
           /\ \A v \in Users \ {u} : member'[v] = member[v]
  <1>1. /\ member'[u] = [ws |-> w, role |-> role] /\ \A v \in Users \ {u} : member'[v] = member[v]
        /\ member' \in [Users -> Membership \cup {NoMembership}]
    BY DEF InvitationsInv, Typed, Membership
  <1>2. ASSUME NEW x \in Workspaces, Owners(x) # {}
        PROVE  Owners(x)' # {}
    <2>1. PICK o \in Owners(x) : TRUE
      BY <1>2
    <2>2. o \in Users /\ member[o].ws = x /\ member[o].role = "owner" /\ o # u
      BY <2>1, InvitationsAssumption DEF Owners, Members
    <2>3. o \in Owners(x)'
      BY <1>1, <2>2 DEF Owners, Members
    <2> QED
      BY <2>3
  <1>3. ASSUME NEW x \in Workspaces, Members(x)' # {}
        PROVE  Owners(x)' # {}
    <2>1. PICK m \in Members(x)' : TRUE
      BY <1>3
    <2>2. m \in Users /\ member'[m].ws = x
      BY <2>1 DEF Members
    <2>3. CASE m = u
      <3>1. x = w
        BY <1>1, <2>2, <2>3
      <3>2. CASE role = "owner"
        <4>1. u \in Owners(x)'
          BY <1>1, <2>2, <2>3, <3>2 DEF Owners, Members
        <4> QED
          BY <4>1
      <3> QED
        BY <1>2, <3>1, <3>2
    <2>4. CASE m # u
      <3>1. m \in Members(x)
        BY <1>1, <2>2, <2>4 DEF Members
      <3> QED
        BY <1>2, <3>1 DEF InvitationsInv, WorkspacesOwned
    <2> QED
      BY <2>3, <2>4
  <1> QED
    BY <1>1, <1>2, <1>3 DEF OwnersKept

\* Invitations stay with workspaces that have owners.
LEMMA OwnedRows ==
    ASSUME InvitationsInv, UNCHANGED invitation, OwnersKept
    PROVE  RowsKept /\ \A i \in Rows' : Owners(invitation[i].ws)' # {}
  <1>1. Rows' = Rows
    BY DEF Rows
  <1>2. \A i \in Rows : invitation[i].ws \in Workspaces /\ Owners(invitation[i].ws) # {}
    BY RowTyped DEF InvitationsInv, WorkspacesOwned, Invitation
  <1>3. ASSUME NEW i \in Rows
        PROVE  Owners(invitation[i].ws)' # {}
    <2>1. PICK w \in Workspaces : w = invitation[i].ws
      BY <1>2
    <2>2. Owners(w)' # {}
      BY <1>2, <2>1 DEF OwnersKept
    <2> QED
      BY <2>1, <2>2 DEF Owners, Members
  <1> QED
    BY <1>1, <1>3 DEF RowsKept, Rows

\* A step that writes only memberships.
LEMMA MemberStep ==
    ASSUME InvitationsInv, NEW s \in Slots, Finish(s), OwnersKept,
           UNCHANGED <<work, clock, account, invitation, links, queue, dead, worker, mailed, joined, failed>>,
           member' \in [Users -> Membership \cup {NoMembership}],
           \A x \in Workspaces : Members(x)' # {} => Owners(x)' # {},
           \A t \in Slots \ {s} : slot[t] # Idle /\ HasUser(slot[t]) =>
              \/ member'[slot[t].user] = member[slot[t].user]
              \/ member'[slot[t].user] = NoMembership /\ ~HasWorkspace(slot[t])
    PROVE  InvitationsInv'
  <1>1. RowsKept /\ \A i \in Rows' : Owners(invitation[i].ws)' # {}
    BY OwnedRows
  <1>2. LocksExclusive' /\ RequestsSound' /\ slot' \in [Slots -> Request \cup {Idle}]
    BY <1>1, WriterStep
  <1>3. Typed'
    BY <1>2 DEF InvitationsInv, Typed
  <1>4. WorkspacesOwned'
    BY <1>1 DEF WorkspacesOwned
  <1>5. RowsSound' /\ Spent' /\ WindowsApart'
    BY DEF InvitationsInv, RowsSound, Spent, WindowsApart, Rows
  <1>6. AboutRows' /\ WorkerSound' /\ NoDeliveryForgotten'
    BY DEF InvitationsInv, AboutRows, WorkerSound, NoDeliveryForgotten, Rows
  <1> QED
    BY <1>2, <1>3, <1>4, <1>5, <1>6 DEF InvitationsInv

\* CreateOwnedWorkspace: the founder, still in no workspace, becomes its owner.
LEMMA CreateOwnedStep ==
    ASSUME InvitationsInv, NEW s \in Slots, CreateOwnedWorkspace(s)
    PROVE  InvitationsInv'
  <1>1. slot[s] # Idle /\ slot[s].op = "createOwned" /\ slot[s].phase = "resolved"
    BY DEF CreateOwnedWorkspace, At
  <1>2. PICK u \in Users, w \in Workspaces : u = slot[s].user /\ w = slot[s].ws /\ member[u].ws = None
    BY <1>1, InFlight DEF Knows
  <1>3. /\ member' = [member EXCEPT ![u] = [ws |-> w, role |-> "owner"]] /\ Finish(s)
        /\ UNCHANGED <<work, clock, account, invitation, links, queue, dead, worker, mailed, joined, failed>>
    BY <1>2 DEF CreateOwnedWorkspace, SaveMember
  <1>4. "owner" \in Roles
    BY DEF Roles
  <1>5. /\ member' \in [Users -> Membership \cup {NoMembership}] /\ OwnersKept
        /\ \A x \in Workspaces : Members(x)' # {} => Owners(x)' # {}
        /\ \A v \in Users \ {u} : member'[v] = member[v]
    BY <1>2, <1>3, <1>4, JoinEffect
  <1>6. ASSUME NEW t \in Slots \ {s}, slot[t] # Idle, HasUser(slot[t])
        PROVE  member'[slot[t].user] = member[slot[t].user]
    <2>1. slot[t].user # u /\ slot[t].user \in Users
      BY <1>1, <1>2, <1>6, OwnUser, InFlight DEF HasUser
    <2> QED
      BY <1>5, <2>1
  <1> QED
    BY <1>3, <1>5, <1>6, MemberStep

\* RemoveWorkspaceMember: never the last owner, and never a user whose
\* invitation is about to be created, because that holds the workspace.
LEMMA RemoveStep ==
    ASSUME InvitationsInv, NEW s \in Slots, RemoveWorkspaceMember(s)
    PROVE  InvitationsInv'
  <1>1. slot[s] # Idle /\ slot[s].op = "remove" /\ slot[s].phase = "resolved" /\ Free(s)
    BY DEF RemoveWorkspaceMember, At
  <1> PICK target : target = slot[s].target
    OBVIOUS
  <1>2. PICK w \in Workspaces : w = slot[s].ws /\ Owners(w) # {}
    BY <1>1, InFlight DEF Knows
  <1>3. \/ Reject(s)
        \/ /\ RemoveOutcome(w, slot[s].user, target) = "removed"
           /\ member' = [member EXCEPT ![target] = NoMembership] /\ Finish(s)
           /\ UNCHANGED <<work, clock, account, invitation, links, queue, dead, worker, mailed, joined, failed>>
    BY <1>2 DEF RemoveWorkspaceMember
  <1>4. CASE Reject(s)
    BY <1>4, RejectStep
  <1>5. CASE /\ RemoveOutcome(w, slot[s].user, target) = "removed"
             /\ member' = [member EXCEPT ![target] = NoMembership] /\ Finish(s)
             /\ UNCHANGED <<work, clock, account, invitation, links, queue, dead, worker, mailed, joined, failed>>
    <2>1. target \in Members(w) /\ Owners(w) # {target}
      BY <1>5 DEF RemoveOutcome
    <2>2. target \in Users /\ member[target].ws = w
      BY <2>1 DEF Members
    <2>3. /\ member'[target] = NoMembership /\ \A v \in Users \ {target} : member'[v] = member[v]
          /\ member' \in [Users -> Membership \cup {NoMembership}]
      BY <1>5, <2>2 DEF InvitationsInv, Typed
    <2>4. ASSUME NEW x \in Workspaces, Owners(x) # {}
          PROVE  Owners(x)' # {}
      <3>1. PICK o \in Owners(x) : o # target
        <4>1. CASE x = w
          BY <1>2, <2>1, <4>1
        <4>2. CASE x # w
          BY <2>2, <2>4, <4>2 DEF Owners, Members
        <4> QED
          BY <4>1, <4>2
      <3>2. o \in Owners(x)'
        BY <2>3, <3>1 DEF Owners, Members
      <3> QED
        BY <3>2
    <2>5. ASSUME NEW x \in Workspaces, Members(x)' # {}
          PROVE  Owners(x)' # {}
      <3>1. PICK m \in Members(x)' : TRUE
        BY <2>5
      <3>2. m \in Members(x)
        BY <2>3, <3>1, InvitationsAssumption DEF Members, NoMembership
      <3> QED
        BY <2>4, <3>2 DEF InvitationsInv, WorkspacesOwned
    <2>6. ASSUME NEW t \in Slots \ {s}, slot[t] # Idle, HasUser(slot[t])
          PROVE  \/ member'[slot[t].user] = member[slot[t].user]
                 \/ member'[slot[t].user] = NoMembership /\ ~HasWorkspace(slot[t])
      <3>1. CASE slot[t].user # target
        BY <2>3, <2>6, <3>1, InFlight
      <3>2. CASE slot[t].user = target /\ HasWorkspace(slot[t])
        <4>1. MayManage(slot[t].ws, target)
          BY <2>6, <3>2, InFlight DEF Knows
        <4>2. slot[t].ws = w
          BY <2>2, <4>1 DEF MayManage, RoleFor, Members, Roles
        <4>3. WorkspaceLock(w) \in Wants(s) /\ WorkspaceLock(w) \in Holds(t)
          BY <1>1, <1>2, <2>6, <3>2, <4>2, InFlight DEF Needs, Has, Lock, NeedsWorkspace
        <4> QED
          BY <1>1, <4>3 DEF Free
      <3> QED
        BY <2>3, <3>1, <3>2
    <2> QED
      BY <1>5, <2>3, <2>4, <2>5, <2>6, MemberStep DEF OwnersKept
  <1> QED
    BY <1>3, <1>4, <1>5

-----------------------------------------------------------------------------
(* Steps that write an invitation.                                          *)

\* A write that leaves the window of an invitation as it was breaks no
\* exclusion constraint.
LEMMA WindowKept ==
    ASSUME InvitationsInv, NEW i \in Rows, NEW v,
           v.ws = invitation[i].ws, v.email = invitation[i].email, v.created = invitation[i].created,
           v.expires = invitation[i].expires, Open(v) => Open(invitation[i])
    PROVE  WindowFree(i, v)
  BY DEF InvitationsInv, WindowsApart, WindowFree, Overlap

\* One invitation is written, the others stay as they were.
LEMMA RowEffect ==
    ASSUME Typed, NEW i \in Invitations, NEW v \in Invitation, invitation' = [invitation EXCEPT ![i] = v],
           i \in Rows => v.ws = invitation[i].ws /\ v.created = invitation[i].created
    PROVE  /\ invitation' \in [Invitations -> Invitation \cup {None}]
           /\ invitation'[i] = v /\ \A j \in Invitations \ {i} : invitation'[j] = invitation[j]
           /\ Rows' = Rows \cup {i} /\ RowsKept
  <1>1. /\ invitation' \in [Invitations -> Invitation \cup {None}]
        /\ invitation'[i] = v /\ \A j \in Invitations \ {i} : invitation'[j] = invitation[j]
    BY DEF Typed
  <1>2. v # None
    BY NoneIsNoInvitation
  <1>3. Rows' = Rows \cup {i}
    BY <1>1, <1>2 DEF Rows
  <1>4. RowsKept
    BY <1>1, <1>2 DEF RowsKept, Rows
  <1> QED
    BY <1>1, <1>3, <1>4

\* What the tables need of a row that is written, and of the messages left.
LEMMA RowStep ==
    ASSUME InvitationsInv, NEW i \in Invitations, NEW v \in Invitation,
           invitation' = [invitation EXCEPT ![i] = v], UNCHANGED <<clock, mailed>>,
           i \in Rows => v.ws = invitation[i].ws /\ v.created = invitation[i].created,
           Consistent(v), v.created <= clock, WindowFree(i, v),
           v.delivered = v.generation => <<i, v.generation>> \in mailed,
           \A l \in links' : l.inv \in Rows \cup {i},
           \A n \in queue' \cup dead' : n.inv \in Rows \cup {i},
           \A n \in queue : n.inv # i => n \in queue', dead \subseteq dead',
           StatusAt(v, clock) = "pending" =>
              \/ \E n \in queue' \cup dead' : n.inv = i /\ n.generation = v.generation
              \/ v.delivered = v.generation
              \/ v.failure \in {"permanent", "exhausted"}
    PROVE  RowsSound' /\ WindowsApart' /\ AboutRows' /\ NoDeliveryForgotten'
  <1>1. /\ invitation'[i] = v /\ \A j \in Invitations \ {i} : invitation'[j] = invitation[j]
        /\ Rows' = Rows \cup {i}
    BY RowEffect DEF InvitationsInv
  <1>2. Rows \subseteq Invitations
    BY DEF Rows
  <1>3. ASSUME NEW j \in Rows'
        PROVE  /\ Consistent(invitation'[j]) /\ invitation'[j].created <= clock'
               /\ invitation'[j].delivered = invitation'[j].generation => <<j, invitation'[j].generation>> \in mailed'
    <2>1. CASE j = i
      BY <1>1, <2>1
    <2>2. CASE j # i
      BY <1>1, <1>2, <2>2 DEF InvitationsInv, RowsSound
    <2> QED
      BY <2>1, <2>2
  <1>4. RowsSound'
    BY <1>3 DEF RowsSound, Consistent
  <1>5. \A j \in Rows \ {i} : LET w == invitation[j] IN
            Open(v) /\ Open(w) /\ w.ws = v.ws /\ w.email = v.email => ~Overlap(v, w) /\ ~Overlap(w, v)
    BY DEF WindowFree, Overlap
  <1>6. ASSUME NEW j \in Rows', NEW k \in Rows', j # k, Open(invitation'[j]), Open(invitation'[k]),
               invitation'[j].ws = invitation'[k].ws, invitation'[j].email = invitation'[k].email
        PROVE  ~Overlap(invitation'[j], invitation'[k])
    <2>1. CASE j = i
      <3>1. k \in Rows \ {i} /\ invitation'[k] = invitation[k] /\ invitation'[j] = v
        BY <1>1, <1>2, <1>6, <2>1
      <3> QED
        BY <1>5, <1>6, <3>1
    <2>2. CASE k = i
      <3>1. j \in Rows \ {i} /\ invitation'[j] = invitation[j] /\ invitation'[k] = v
        BY <1>1, <1>2, <1>6, <2>2
      <3> QED
        BY <1>5, <1>6, <3>1
    <2>3. CASE j # i /\ k # i
      <3>1. j \in Rows /\ k \in Rows /\ invitation'[j] = invitation[j] /\ invitation'[k] = invitation[k]
        BY <1>1, <1>2, <2>3
      <3> QED
        BY <1>6, <3>1 DEF InvitationsInv, WindowsApart
    <2> QED
      BY <2>1, <2>2, <2>3
  <1>7. WindowsApart'
    BY <1>6 DEF WindowsApart, Open, Overlap
  <1>8. AboutRows'
    BY <1>1 DEF AboutRows
  <1>9. ASSUME NEW j \in Rows', StatusAt(invitation'[j], clock') = "pending"
        PROVE  \/ \E n \in queue' : n.inv = j /\ n.generation = invitation'[j].generation
               \/ \E n \in dead' : n.inv = j /\ n.generation = invitation'[j].generation
               \/ invitation'[j].delivered = invitation'[j].generation
               \/ invitation'[j].failure \in {"permanent", "exhausted"}
    <2>1. CASE j = i
      BY <1>1, <1>9, <2>1
    <2>2. CASE j # i
      <3>1. j \in Rows /\ invitation'[j] = invitation[j]
        BY <1>1, <1>2, <2>2
      <3>2. StatusAt(invitation[j], clock) = "pending"
        BY <1>9, <3>1
      <3>3. \/ \E n \in queue : n.inv = j /\ n.generation = invitation[j].generation
            \/ \E n \in dead : n.inv = j /\ n.generation = invitation[j].generation
            \/ invitation[j].delivered = invitation[j].generation
            \/ invitation[j].failure \in {"permanent", "exhausted"}
        BY <3>1, <3>2 DEF InvitationsInv, NoDeliveryForgotten
      <3> QED
        BY <2>2, <3>1, <3>3
    <2> QED
      BY <2>1, <2>2
  <1>10. NoDeliveryForgotten'
    BY <1>9 DEF NoDeliveryForgotten, StatusAt
  <1> QED
    BY <1>4, <1>7, <1>8, <1>10

\* An invitation is written by somebody else than the worker that has it.
LEMMA WorkerElsewhere ==
    ASSUME InvitationsInv, UNCHANGED <<worker, mailed>>, queue \subseteq queue', NEW i \in Invitations,
           worker.phase # "idle" => worker.msg.inv # i,
           \A j \in Invitations \ {i} : invitation'[j] = invitation[j]
    PROVE  WorkerSound'
  <1>1. worker.phase # "idle" => worker.msg \in queue /\ worker.msg.inv \in Invitations
    BY DEF InvitationsInv, WorkerSound, Typed, Message
  <1> QED
    BY <1>1 DEF InvitationsInv, WorkerSound

\* Whoever may take the lock of an invitation, or has it, does not share it
\* with the worker.
LEMMA RowFree ==
    ASSUME InvitationsInv, NEW s \in Slots, NEW i,
           InvitationLock(i) \in Holds(s) \/ (Free(s) /\ InvitationLock(i) \in Wants(s))
    PROVE  /\ worker.phase # "idle" => worker.msg.inv # i
  BY DEF InvitationsInv, LocksExclusive, Free, WorkerHolds

\* SaveInvitation: a row that can be loaded, has not been spent and overlaps no
\* other is written with its message.
LEMMA SaveStep ==
    ASSUME InvitationsInv, NEW s \in Slots, NEW i \in Invitations, NEW v \in Invitation, SaveInvitation(s, i, v),
           i \in Rows => v.ws = invitation[i].ws /\ v.created = invitation[i].created,
           Consistent(v), v.created <= clock, Owners(v.ws) # {}, v.delivered # v.generation, joined[i] = 0,
           worker.phase # "idle" => worker.msg.inv # i
    PROVE  InvitationsInv'
  <1>1. CASE Fail(s, "window")
    BY <1>1, FailStep
  <1>2. CASE /\ WindowFree(i, v) /\ invitation' = [invitation EXCEPT ![i] = v]
             /\ queue' = queue \cup {[inv |-> i, generation |-> v.generation, attempt |-> 1]}
             /\ links' = links \cup IssueLink(i, v) /\ Finish(s)
             /\ UNCHANGED <<work, clock, account, member, dead, worker, mailed, joined, failed>>
    <2>1. PICK n : n = [inv |-> i, generation |-> v.generation, attempt |-> 1]
      OBVIOUS
    <2>2. n \in Message /\ n.inv = i /\ n.generation = v.generation /\ queue' = queue \cup {n}
      BY <1>2, <2>1, InvitationsAssumption DEF Message, Invitation
    <2>3. \A l \in IssueLink(i, v) : l \in Link /\ l.inv = i
      <3>1. v.generation \in Nat /\ TruncateToSecond(v.expires) \in Nat
        BY Truncation, InvitationsAssumption DEF Invitation
      <3> QED
        BY <3>1 DEF IssueLink, Link
    <2>4. /\ invitation' \in [Invitations -> Invitation \cup {None}]
          /\ invitation'[i] = v /\ \A j \in Invitations \ {i} : invitation'[j] = invitation[j]
          /\ Rows' = Rows \cup {i} /\ RowsKept
      BY <1>2, RowEffect DEF InvitationsInv
    <2>5. OwnersKept /\ \A w : Owners(w)' = Owners(w)
      BY <1>2 DEF OwnersKept, Owners, Members
    <2>6. LocksExclusive' /\ RequestsSound' /\ slot' \in [Slots -> Request \cup {Idle}]
      BY <1>2, <2>4, <2>5, WriterStep
    <2>7. links' \subseteq Link /\ queue' \subseteq Message
      BY <1>2, <2>2, <2>3 DEF InvitationsInv, Typed
    <2>8. Typed'
      BY <1>2, <2>4, <2>6, <2>7 DEF InvitationsInv, Typed
    <2>9. /\ \A l \in links' : l.inv \in Rows \cup {i}
          /\ \A k \in queue' \cup dead' : k.inv \in Rows \cup {i}
      BY <1>2, <2>2, <2>3 DEF InvitationsInv, AboutRows
    <2>10. \E k \in queue' \cup dead' : k.inv = i /\ k.generation = v.generation
      BY <2>2
    <2>11. UNCHANGED <<clock, mailed>> /\ dead \subseteq dead' /\ \A k \in queue : k \in queue'
      BY <1>2, <2>2
    <2>12. RowsSound' /\ WindowsApart' /\ AboutRows' /\ NoDeliveryForgotten'
      BY <1>2, <2>9, <2>10, <2>11, RowStep
    <2>13. WorkerSound'
      BY <1>2, <2>2, <2>4, WorkerElsewhere
    <2>14. Spent'
      BY <1>2, <2>4 DEF InvitationsInv, Spent
    <2>15. WorkspacesOwned'
      BY <1>2, <2>4 DEF InvitationsInv, WorkspacesOwned, Owners, Members, Rows
    <2> QED
      BY <2>6, <2>8, <2>12, <2>13, <2>14, <2>15 DEF InvitationsInv
  <1> QED
    BY <1>1, <1>2 DEF SaveInvitation

\* CreateWorkspaceInvitation: a new row, which the workspace's lock lets in.
LEMMA CreateInvitationStep ==
    ASSUME InvitationsInv, NEW s \in Slots, CreateWorkspaceInvitation(s)
    PROVE  InvitationsInv'
  <1>1. slot[s] # Idle /\ slot[s].op = "create" /\ slot[s].phase = "locked"
    BY DEF CreateWorkspaceInvitation, At
  <1>2. PICK w \in Workspaces, e \in Invitees, at \in Nat :
           w = slot[s].ws /\ e = slot[s].target /\ at = slot[s].at /\ at <= clock /\ Owners(w) # {}
    BY <1>1, InFlight DEF Knows
  <1>3. PICK v : v = QueueDelivery(CreateInvitation(w, e, at))
    OBVIOUS
  <1>4. \/ Reject(s)
        \/ \E i \in Invitations \ Rows : SaveInvitation(s, i, v)
    BY <1>2, <1>3 DEF CreateWorkspaceInvitation
  <1>5. v = [ws |-> w, email |-> e, generation |-> 1, created |-> TruncateToSecond(at),
             expires |-> TruncateToSecond(at + Lifetime), acceptedBy |-> None, revoked |-> FALSE,
             queued |-> 1, delivered |-> 0, failure |-> "none"]
    BY <1>3 DEF QueueDelivery, CreateInvitation
  <1>6. /\ TruncateToSecond(at) \in Nat /\ TruncateToSecond(at) <= at
        /\ TruncateToSecond(at + Lifetime) \in Nat /\ TruncateToSecond(at) < TruncateToSecond(at + Lifetime)
    BY Truncation, InvitationsAssumption
  <1>7. v \in Invitation /\ Consistent(v)
    BY <1>5, <1>6, InvitationsAssumption DEF Invitation, Consistent, Failures
  <1>8. v.ws = w /\ v.created <= clock /\ v.delivered # v.generation
    BY <1>2, <1>5, <1>6, InvitationsAssumption DEF InvitationsInv, Typed
  <1>9. CASE Reject(s)
    BY <1>9, RejectStep
  <1>10. ASSUME NEW i \in Invitations \ Rows, SaveInvitation(s, i, v)
         PROVE  InvitationsInv'
    <2>1. joined[i] = 0
      BY DEF InvitationsInv, Spent
    <2>2. worker.phase # "idle" => worker.msg.inv # i
      BY DEF InvitationsInv, WorkerSound, AboutRows
    <2> QED
      BY <1>2, <1>7, <1>8, <1>10, <2>1, <2>2, SaveStep
  <1> QED
    BY <1>4, <1>9, <1>10

\* What a pending row is.
LEMMA Pending ==
    ASSUME NEW v, NEW t, StatusAt(v, t) = "pending"
    PROVE  v.acceptedBy = None /\ ~v.revoked /\ ~(t >= v.expires)
  BY DEF StatusAt

\* The row a request for a workspace finds is there and of that workspace.
LEMMA RowFound ==
    ASSUME InvitationsInv, NEW s \in Slots, slot[s] # Idle, NEW v \in Row(s), v.acceptedBy = None
    PROVE  /\ slot[s].inv \in Rows /\ slot[s].inv \in Invitations /\ v = invitation[slot[s].inv]
           /\ v \in Invitation /\ Consistent(v) /\ v.created <= clock /\ Owners(v.ws) # {}
           /\ v.delivered = v.generation => <<slot[s].inv, v.generation>> \in mailed
           /\ joined[slot[s].inv] = 0
  <1>1. slot[s].inv \in Rows /\ v = invitation[slot[s].inv]
    BY DEF Row
  <1>2. slot[s].inv \in Invitations /\ v \in Invitation
    BY <1>1, RowTyped DEF InvitationsInv
  <1>3. joined[slot[s].inv] = 0
    BY <1>1, <1>2 DEF InvitationsInv, Spent
  <1> QED
    BY <1>1, <1>2, <1>3 DEF InvitationsInv, RowsSound, WorkspacesOwned

\* ResendWorkspaceInvitation: the next generation, under the row's lock.
LEMMA ResendStep ==
    ASSUME InvitationsInv, NEW s \in Slots, ResendWorkspaceInvitation(s)
    PROVE  InvitationsInv'
  <1>1. slot[s] # Idle /\ slot[s].op = "resend" /\ slot[s].phase = "resolved" /\ Free(s)
    BY DEF ResendWorkspaceInvitation, At
  <1>2. PICK i, g, at : i = slot[s].inv /\ g = slot[s].generation /\ at = slot[s].at
    OBVIOUS
  <1>3. CASE Reject(s)
    BY <1>3, RejectStep
  <1>4. ASSUME NEW v \in Row(s), MayResend(v, g, at), SaveInvitation(s, i, Resend(v, at))
        PROVE  InvitationsInv'
    <2>1. v.generation = g /\ v.acceptedBy = None /\ ~v.revoked
      BY <1>4, Pending DEF MayResend
    <2>2. /\ i \in Rows /\ i \in Invitations /\ v = invitation[i] /\ v \in Invitation /\ Consistent(v)
          /\ v.created <= clock /\ Owners(v.ws) # {} /\ joined[i] = 0
      BY <1>1, <1>2, <2>1, RowFound
    <2>3. g < MaxGeneration /\ v.created <= at
      BY <1>1, <1>2, <2>2, InFlight DEF Knows
    <2>4. PICK n : n = Resend(v, at)
      OBVIOUS
    <2>5. /\ n.ws = v.ws /\ n.email = v.email /\ n.generation = v.generation + 1 /\ n.created = v.created
          /\ n.expires = at + Lifetime /\ n.acceptedBy = v.acceptedBy /\ n.revoked = v.revoked
          /\ n.queued = v.generation + 1 /\ n.delivered = v.delivered /\ n.failure = "none"
      BY <2>2, <2>4 DEF Resend, Invitation
    <2>6. /\ v.generation \in 1 .. MaxGeneration /\ v.created \in Nat /\ v.delivered \in Nat
          /\ v.delivered <= v.generation
      BY <2>2 DEF Invitation, Consistent
    <2>7. v.generation + 1 \in 1 .. MaxGeneration /\ at + Lifetime \in Nat /\ at + Lifetime > v.created
      BY <1>1, <1>2, <2>1, <2>3, <2>6, InFlight, InvitationsAssumption
    <2>8. n \in Invitation
      <3>1. n = [ws |-> v.ws, email |-> v.email, generation |-> v.generation + 1, created |-> v.created,
                 expires |-> at + Lifetime, acceptedBy |-> v.acceptedBy, revoked |-> v.revoked,
                 queued |-> v.generation + 1, delivered |-> v.delivered, failure |-> "none"]
        BY <2>2, <2>4 DEF Resend, Invitation
      <3>2. /\ v.ws \in Workspaces /\ v.email \in Invitees /\ v.acceptedBy \in Users \cup {None}
            /\ v.revoked \in BOOLEAN /\ v.created \in Nat /\ v.delivered \in Nat /\ v.generation + 1 \in Nat
        BY <2>2, <2>6, <2>7, InvitationsAssumption DEF Invitation
      <3> QED
        BY <3>1, <3>2, <2>7 DEF Invitation, Failures
    <2>9. Consistent(n) /\ n.delivered # n.generation
      BY <2>1, <2>5, <2>6, <2>7, InvitationsAssumption DEF Consistent
    <2>10. InvitationLock(i) \in Wants(s)
      BY <1>1, <1>2, InFlight DEF Needs, Lock, NeedsInvitation
    <2>11. worker.phase # "idle" => worker.msg.inv # i
      BY <1>1, <2>10, RowFree
    <2> QED
      BY <1>4, <2>2, <2>4, <2>5, <2>8, <2>9, <2>11, SaveStep
  <1>5. Reject(s) \/ \E v \in Row(s) : MayResend(v, g, at) /\ SaveInvitation(s, i, Resend(v, at))
    BY <1>2 DEF ResendWorkspaceInvitation
  <1> QED
    BY <1>3, <1>4, <1>5

\* A row that is closed, by being revoked or accepted: nothing else about it
\* changes.
LEMMA CloseStep ==
    ASSUME InvitationsInv, NEW s \in Slots, NEW i \in Rows, NEW v, v \in Invitation,
           invitation' = [invitation EXCEPT ![i] = v], UNCHANGED <<clock, links, queue, dead, worker, mailed>>,
           v.ws = invitation[i].ws, v.email = invitation[i].email, v.created = invitation[i].created,
           v.expires = invitation[i].expires, v.generation = invitation[i].generation,
           v.delivered = invitation[i].delivered, Consistent(v), ~Open(v),
           worker.phase # "idle" => worker.msg.inv # i
    PROVE  RowsSound' /\ WindowsApart' /\ AboutRows' /\ NoDeliveryForgotten' /\ WorkerSound'
  <1>1. i \in Invitations
    BY DEF Rows
  <1>2. /\ \A j \in Invitations \ {i} : invitation'[j] = invitation[j]
    BY <1>1, RowEffect DEF InvitationsInv
  <1>3. WindowFree(i, v)
    BY WindowKept
  <1>4. StatusAt(v, clock) # "pending"
    BY Pending DEF Open
  <1>5. v.created <= clock /\ (v.delivered = v.generation => <<i, v.generation>> \in mailed)
    BY DEF InvitationsInv, RowsSound
  <1>6. (\A l \in links' : l.inv \in Rows \cup {i}) /\ (\A n \in queue' \cup dead' : n.inv \in Rows \cup {i})
    BY DEF InvitationsInv, AboutRows
  <1>7. RowsSound' /\ WindowsApart' /\ AboutRows' /\ NoDeliveryForgotten'
    BY <1>1, <1>3, <1>4, <1>5, <1>6, RowStep
  <1>8. WorkerSound'
    BY <1>1, <1>2, WorkerElsewhere
  <1> QED
    BY <1>7, <1>8

\* RevokeWorkspaceInvitation: the row is closed, under its lock.
LEMMA RevokeStep ==
    ASSUME InvitationsInv, NEW s \in Slots, RevokeWorkspaceInvitation(s)
    PROVE  InvitationsInv'
  <1>1. slot[s] # Idle /\ slot[s].op = "revoke" /\ slot[s].phase = "resolved" /\ Free(s)
    BY DEF RevokeWorkspaceInvitation, At
  <1>2. PICK i, g, at : i = slot[s].inv /\ g = slot[s].generation /\ at = slot[s].at
    OBVIOUS
  <1>3. CASE Reject(s)
    BY <1>3, RejectStep
  <1>4. ASSUME NEW v \in Row(s), MayRevoke(v, g, at), invitation' = [invitation EXCEPT ![i] = Revoke(v)], Finish(s),
               UNCHANGED <<work, clock, account, member, links, queue, dead, worker, mailed, joined, failed>>
        PROVE  InvitationsInv'
    <2>1. v.acceptedBy = None
      BY <1>4, Pending DEF MayRevoke
    <2>2. /\ i \in Rows /\ i \in Invitations /\ v = invitation[i] /\ v \in Invitation /\ Consistent(v)
          /\ Owners(v.ws) # {} /\ joined[i] = 0
      BY <1>1, <1>2, <2>1, RowFound
    <2>3. PICK n : n = Revoke(v)
      OBVIOUS
    <2>4. /\ n \in Invitation /\ n.ws = v.ws /\ n.email = v.email /\ n.generation = v.generation
          /\ n.created = v.created /\ n.expires = v.expires /\ n.acceptedBy = None /\ n.revoked = TRUE
          /\ n.queued = v.queued /\ n.delivered = v.delivered
      BY <2>1, <2>2, <2>3 DEF Revoke, Invitation
    <2>5. Consistent(n) /\ ~Open(n)
      BY <2>2, <2>4 DEF Consistent, Open
    <2>6. InvitationLock(i) \in Wants(s)
      BY <1>1, <1>2, InFlight DEF Needs, Lock, NeedsInvitation
    <2>7. worker.phase # "idle" => worker.msg.inv # i
      BY <1>1, <2>6, RowFree
    <2>8. RowsSound' /\ WindowsApart' /\ AboutRows' /\ NoDeliveryForgotten' /\ WorkerSound'
      BY <1>4, <2>2, <2>3, <2>4, <2>5, <2>7, CloseStep
    <2>9. /\ invitation' \in [Invitations -> Invitation \cup {None}]
          /\ invitation'[i] = n /\ \A j \in Invitations \ {i} : invitation'[j] = invitation[j]
          /\ Rows' = Rows \cup {i} /\ RowsKept
      BY <1>4, <2>2, <2>3, <2>4, RowEffect DEF InvitationsInv
    <2>10. OwnersKept
      BY <1>4 DEF OwnersKept, Owners, Members
    <2>11. LocksExclusive' /\ RequestsSound' /\ slot' \in [Slots -> Request \cup {Idle}]
      BY <1>4, <2>9, <2>10, WriterStep
    <2>12. Typed'
      BY <1>4, <2>9, <2>11 DEF InvitationsInv, Typed
    <2>13. Spent'
      BY <1>4, <2>2, <2>9 DEF InvitationsInv, Spent
    <2>14. WorkspacesOwned'
      BY <1>4, <2>2, <2>4, <2>9 DEF InvitationsInv, WorkspacesOwned, Owners, Members, Rows
    <2> QED
      BY <2>8, <2>11, <2>12, <2>13, <2>14 DEF InvitationsInv
  <1> QED
    BY <1>2, <1>3, <1>4 DEF RevokeWorkspaceInvitation

\* AcceptWorkspaceInvitation: the invitee, under the invitee's lock, is in no
\* other workspace, and the pending row is spent.
LEMMA AcceptStep ==
    ASSUME InvitationsInv, NEW s \in Slots, AcceptWorkspaceInvitation(s)
    PROVE  InvitationsInv'
  <1>1. slot[s] # Idle /\ slot[s].op = "accept" /\ slot[s].phase = "join" /\ Free(s)
    BY DEF AcceptWorkspaceInvitation, At
  <1>2. PICK i \in Rows, u \in Users : i = slot[s].inv /\ u = slot[s].user
    BY <1>1, InFlight DEF Knows
  <1>3. PICK v \in Invitation : v = invitation[i]
    BY RowTyped DEF InvitationsInv
  <1>4. PICK w \in Workspaces : w = slot[s].ws /\ w = v.ws
    BY <1>1, <1>2, <1>3, InFlight DEF Knows, Invitation
  <1>5. i \in Invitations /\ member[u].ws \in {None, w} /\ Owners(w) # {} /\ Consistent(v)
    BY <1>1, <1>2, <1>3, <1>4, InFlight, RowTyped DEF Knows, InvitationsInv, WorkspacesOwned, RowsSound
  <1>6. PICK n : n = Accept(v, u)
    OBVIOUS
  <1> DEFINE write(k) == /\ invitation' = [invitation EXCEPT ![i] = n]
                         /\ joined' = [joined EXCEPT ![i] = k]
                         /\ Finish(s)
                         /\ UNCHANGED <<work, clock, account, links, queue, dead, worker, mailed, failed>>
             joins == member[u].ws = None /\ member' = [member EXCEPT ![u] = [ws |-> w, role |-> "admin"]]
  <1>7. \/ Reject(s)
        \/ /\ StatusAt(v, slot[s].at) = "pending"
           /\ (joins /\ write(joined[i] + 1)) \/ (UNCHANGED member /\ write(joined[i]))
    <2>1. u \notin Members(w) => member[u].ws = None
      BY <1>5 DEF Members
    <2>2. \A k : [joined EXCEPT ![i] = k] = [joined EXCEPT ![slot[s].inv] = k]
      BY <1>2
    <2> QED
      BY <1>2, <1>3, <1>4, <1>5, <1>6, <2>1, <2>2 DEF AcceptWorkspaceInvitation, SaveMember
  <1>8. CASE Reject(s)
    BY <1>8, RejectStep
  <1>9. ASSUME v.acceptedBy = None, ~v.revoked, NEW k \in {0, 1}, write(k),
               member' \in [Users -> Membership \cup {NoMembership}], OwnersKept,
               \A x \in Workspaces : Members(x)' # {} => Owners(x)' # {},
               \A x \in Users \ {u} : member'[x] = member[x]
        PROVE  InvitationsInv'
    <2>1. /\ n \in Invitation /\ n.ws = v.ws /\ n.email = v.email /\ n.generation = v.generation
          /\ n.created = v.created /\ n.expires = v.expires /\ n.acceptedBy = u /\ n.revoked = v.revoked
          /\ n.queued = v.queued /\ n.delivered = v.delivered
      BY <1>3, <1>6 DEF Accept, Invitation
    <2>2. u # None
      BY InvitationsAssumption
    <2>3. Consistent(n) /\ ~Open(n)
      BY <1>5, <1>9, <2>1, <2>2 DEF Consistent, Open
    <2>4. InvitationLock(i) \in Holds(s)
      BY <1>1, <1>2, InFlight DEF Has, Lock, HasInvitation
    <2>5. worker.phase # "idle" => worker.msg.inv # i
      BY <2>4, RowFree
    <2>6. RowsSound' /\ WindowsApart' /\ AboutRows' /\ NoDeliveryForgotten' /\ WorkerSound'
      BY <1>3, <1>9, <2>1, <2>3, <2>5, CloseStep
    <2>7. /\ invitation' \in [Invitations -> Invitation \cup {None}]
          /\ invitation'[i] = n /\ \A j \in Invitations \ {i} : invitation'[j] = invitation[j]
          /\ Rows' = Rows \cup {i} /\ RowsKept
      BY <1>3, <1>5, <1>9, <2>1, RowEffect DEF InvitationsInv
    <2>8. ASSUME NEW t \in Slots \ {s}, slot[t] # Idle, HasUser(slot[t])
          PROVE  member'[slot[t].user] = member[slot[t].user]
      <3>1. slot[t].user # u /\ slot[t].user \in Users
        BY <1>1, <1>2, <2>8, OwnUser, InFlight DEF HasUser
      <3> QED
        BY <1>9, <3>1
    <2>9. LocksExclusive' /\ RequestsSound' /\ slot' \in [Slots -> Request \cup {Idle}]
      BY <1>9, <2>7, <2>8, WriterStep
    <2>10. joined' \in [Invitations -> Nat]
      BY <1>5, <1>9 DEF InvitationsInv, Typed
    <2>11. Typed'
      BY <1>9, <2>7, <2>9, <2>10 DEF InvitationsInv, Typed
    <2>12. joined'[i] = k /\ \A j \in Invitations \ {i} : joined'[j] = joined[j]
      BY <1>5, <1>9 DEF InvitationsInv, Typed
    <2>13. Spent'
      BY <2>1, <2>2, <2>7, <2>12 DEF InvitationsInv, Spent
    <2>14. ASSUME NEW j \in Rows'
           PROVE  Owners(invitation[j].ws)' # {}
      <3>1. j \in Rows /\ invitation'[j].ws = invitation[j].ws
        BY <2>7, <2>14 DEF RowsKept
      <3>2. PICK x \in Workspaces : x = invitation'[j].ws /\ Owners(x) # {}
        BY <3>1, RowTyped DEF InvitationsInv, WorkspacesOwned, Invitation
      <3>3. Owners(x)' # {}
        BY <1>9, <3>2 DEF OwnersKept
      <3> QED
        BY <3>2, <3>3 DEF Owners, Members
    <2>15. WorkspacesOwned'
      BY <1>9, <2>14 DEF WorkspacesOwned
    <2> QED
      BY <2>6, <2>9, <2>11, <2>13, <2>15 DEF InvitationsInv
  <1>10. CASE StatusAt(v, slot[s].at) = "pending"
    <2>1. v.acceptedBy = None /\ ~v.revoked
      BY <1>10, Pending
    <2>2. joined[i] = 0
      BY <1>3, <1>5, <2>1 DEF InvitationsInv, Spent
    <2>3. CASE joins /\ write(joined[i] + 1)
      <3>1. write(1)
        BY <2>2, <2>3
      <3>2. "admin" \in Roles
        BY DEF Roles
      <3>3. /\ member' \in [Users -> Membership \cup {NoMembership}] /\ OwnersKept
            /\ \A x \in Workspaces : Members(x)' # {} => Owners(x)' # {}
            /\ \A x \in Users \ {u} : member'[x] = member[x]
        BY <1>5, <2>3, <3>2, JoinEffect
      <3> QED
        BY <1>9, <2>1, <3>1, <3>3
    <2>4. CASE UNCHANGED member /\ write(joined[i])
      <3>1. write(0)
        BY <2>2, <2>4
      <3>2. /\ member' \in [Users -> Membership \cup {NoMembership}] /\ OwnersKept
            /\ \A x \in Workspaces : Members(x)' # {} => Owners(x)' # {}
            /\ \A x \in Users \ {u} : member'[x] = member[x]
        BY <2>4 DEF InvitationsInv, Typed, WorkspacesOwned, OwnersKept, Owners, Members
      <3> QED
        BY <1>9, <2>1, <3>1, <3>2
    <2> QED
      BY <1>7, <1>8, <2>3, <2>4
  <1> QED
    BY <1>7, <1>8, <1>10

-----------------------------------------------------------------------------
(* Delivery.                                                                *)

\* A message that is retried is still there, in the queue or given up.
LEMMA RetryEffect ==
    ASSUME InvitationsInv, NEW m \in queue, Retry(m)
    PROVE  /\ queue' \subseteq Message /\ dead' \subseteq Message /\ dead \subseteq dead'
           /\ \A n \in queue' \cup dead' : n.inv \in Rows
           /\ \A n \in queue : n # m => n \in queue'
           /\ \E n \in queue' \cup dead' : n.inv = m.inv /\ n.generation = m.generation
  <1>1. m \in Message /\ m.inv \in Rows /\ m.attempt \in Nat
    BY DEF InvitationsInv, Typed, AboutRows, Message
  <1>2. PICK n : n = [m EXCEPT !.attempt = @ + 1]
    OBVIOUS
  <1>3. n \in Message /\ n.inv = m.inv /\ n.generation = m.generation /\ n.attempt = m.attempt + 1
    BY <1>1, <1>2 DEF Message
  <1>4. Redelivered(m) = {x \in {n} : x.attempt <= MaxAttempts}
    BY <1>2 DEF Redelivered
  <1>5. queue' = (queue \ {m}) \cup Redelivered(m) /\ dead' = IF FinalDelivery(m) THEN dead \cup {m} ELSE dead
    BY DEF Retry
  <1>6. FinalDelivery(m) \/ n \in queue'
    BY <1>1, <1>3, <1>4, <1>5, InvitationsAssumption DEF FinalDelivery
  <1>7. \E x \in queue' \cup dead' : x.inv = m.inv /\ x.generation = m.generation
    BY <1>3, <1>5, <1>6
  <1> QED
    BY <1>1, <1>3, <1>4, <1>5, <1>7 DEF InvitationsInv, Typed, AboutRows

\* An acknowledged message is gone or comes again; the others stay.
LEMMA AcknowledgeEffect ==
    ASSUME InvitationsInv, NEW m \in queue, Acknowledge(m)
    PROVE  /\ queue' \subseteq Message /\ dead' \subseteq Message /\ dead \subseteq dead'
           /\ \A n \in queue' \cup dead' : n.inv \in Rows
           /\ \A n \in queue : n # m => n \in queue'
  <1>1. CASE Retry(m)
    BY <1>1, RetryEffect
  <1>2. CASE queue' = queue \ {m} /\ UNCHANGED dead
    BY <1>2 DEF InvitationsInv, Typed, AboutRows
  <1> QED
    BY <1>1, <1>2 DEF Acknowledge

\* The worker and the clock leave requests, members and the set of rows alone.
LEMMA DeliveryStep ==
    ASSUME InvitationsInv, UNCHANGED <<slot, account, member>>, clock' \in Nat, clock <= clock', RowsKept,
           Rows' = Rows, \A s \in Slots : Holds(s) \cap WorkerHolds' = {}
    PROVE  LocksExclusive' /\ RequestsSound' /\ WorkspacesOwned'
  <1>1. \A s \in Slots : Holds(s)' = Holds(s)
    BY DEF Holds
  <1>2. LocksExclusive'
    BY <1>1 DEF InvitationsInv, LocksExclusive
  <1>3. OwnersKept
    BY DEF OwnersKept, Owners, Members
  <1>4. ASSUME NEW t \in Slots, slot'[t] # Idle
        PROVE  Knows(t)'
    <2>1. slot'[t] = slot[t] /\ slot[t] \in Request /\ Knows(t) /\ clock \in Nat
      BY <1>4, InvitationsAssumption DEF InvitationsInv, Typed, RequestsSound
    <2> QED
      BY <1>3, <2>1, KnowsKept
  <1>5. RequestsSound'
    BY <1>4 DEF RequestsSound
  <1>6. WorkspacesOwned'
    BY DEF InvitationsInv, WorkspacesOwned, RowsKept, Owners, Members
  <1> QED
    BY <1>2, <1>5, <1>6

\* A delivery is not forgotten when one message leaves the queue, as long as
\* another takes its place or it was delivered.
LEMMA StillRemembered ==
    ASSUME InvitationsInv, UNCHANGED invitation, clock \in Nat, clock' \in Nat, clock <= clock',
           dead \subseteq dead', NEW m, \A n \in queue : n # m => n \in queue',
           m \in queue /\ invitation[m.inv].generation = m.generation
              /\ StatusAt(invitation[m.inv], clock) = "pending" =>
                 \/ \E n \in queue' \cup dead' : n.inv = m.inv /\ n.generation = m.generation
                 \/ invitation[m.inv].delivered = m.generation
    PROVE  NoDeliveryForgotten'
  <1>1. Rows' = Rows
    BY DEF Rows
  <1>2. ASSUME NEW i \in Rows, StatusAt(invitation[i], clock') = "pending"
        PROVE  \/ \E n \in queue' : n.inv = i /\ n.generation = invitation[i].generation
               \/ \E n \in dead' : n.inv = i /\ n.generation = invitation[i].generation
               \/ invitation[i].delivered = invitation[i].generation
               \/ invitation[i].failure \in {"permanent", "exhausted"}
    <2>1. invitation[i].expires \in Nat
      BY RowTyped DEF InvitationsInv, Invitation
    <2>2. StatusAt(invitation[i], clock) = "pending"
      BY <1>2, <2>1 DEF StatusAt
    <2>3. \/ \E n \in queue : n.inv = i /\ n.generation = invitation[i].generation
          \/ \E n \in dead : n.inv = i /\ n.generation = invitation[i].generation
          \/ invitation[i].delivered = invitation[i].generation
          \/ invitation[i].failure \in {"permanent", "exhausted"}
      BY <2>2 DEF InvitationsInv, NoDeliveryForgotten
    <2>4. ASSUME NEW n \in queue, n.inv = i, n.generation = invitation[i].generation
          PROVE  \/ \E x \in queue' : x.inv = i /\ x.generation = invitation[i].generation
                 \/ \E x \in dead' : x.inv = i /\ x.generation = invitation[i].generation
                 \/ invitation[i].delivered = invitation[i].generation
      BY <2>2, <2>4
    <2> QED
      BY <2>3, <2>4
  <1> QED
    BY <1>1, <1>2 DEF NoDeliveryForgotten, StatusAt

\* BeginDelivery: the worker takes the row nobody has, if there is still
\* something to deliver.
LEMMA BeginDeliveryStep ==
    ASSUME InvitationsInv, BeginDelivery
    PROVE  InvitationsInv'
  <1>1. PICK m \in queue :
          /\ worker.phase = "idle" /\ \A s \in Slots : InvitationLock(m.inv) \notin Holds(s)
          /\ work < MaxWork /\ work' = work + 1
          /\ \/ /\ invitation[m.inv].generation = m.generation /\ StatusAt(invitation[m.inv], clock) = "pending"
                /\ worker' = [phase |-> "sending", msg |-> m] /\ UNCHANGED <<queue, dead>>
             \/ /\ invitation[m.inv].generation = m.generation /\ StatusAt(invitation[m.inv], clock) = "pending" =>
                      invitation[m.inv].delivered = m.generation
                /\ Acknowledge(m) /\ UNCHANGED worker
          /\ UNCHANGED <<clock, account, member, invitation, slot, links, mailed, joined, failed>>
    BY DEF BeginDelivery
  <1>2. clock \in Nat /\ clock' = clock /\ work' \in 0 .. MaxWork /\ Rows' = Rows /\ RowsKept
    BY <1>1, Unchanged, InvitationsAssumption DEF InvitationsInv, Typed, Rows
  <1>3. RowsSound' /\ Spent' /\ WindowsApart'
    BY <1>1 DEF InvitationsInv, RowsSound, Spent, WindowsApart, Rows
  <1>4. CASE /\ invitation[m.inv].generation = m.generation /\ StatusAt(invitation[m.inv], clock) = "pending"
             /\ worker' = [phase |-> "sending", msg |-> m] /\ UNCHANGED <<queue, dead>>
    <2>1. worker'.phase = "sending" /\ worker'.msg = m
      BY <1>4
    <2>2. worker' \in Worker
      BY <1>1, <1>4 DEF InvitationsInv, Typed, Worker, DeliveryPhases
    <2>3. \A s \in Slots : Holds(s) \cap WorkerHolds' = {}
      BY <1>1, <2>1 DEF WorkerHolds
    <2>4. LocksExclusive' /\ RequestsSound' /\ WorkspacesOwned'
      BY <1>1, <1>2, <2>3, DeliveryStep
    <2>5. Typed'
      BY <1>1, <1>2, <1>4, <2>2 DEF InvitationsInv, Typed
    <2>6. AboutRows' /\ NoDeliveryForgotten'
      BY <1>1, <1>2, <1>4 DEF InvitationsInv, AboutRows, NoDeliveryForgotten
    <2>7. WorkerSound'
      BY <1>1, <1>4, <2>1, Pending DEF WorkerSound, Open
    <2> QED
      BY <1>3, <2>4, <2>5, <2>6, <2>7 DEF InvitationsInv
  <1>5. CASE /\ invitation[m.inv].generation = m.generation /\ StatusAt(invitation[m.inv], clock) = "pending" =>
                   invitation[m.inv].delivered = m.generation
             /\ Acknowledge(m) /\ UNCHANGED worker
    <2>1. /\ queue' \subseteq Message /\ dead' \subseteq Message /\ dead \subseteq dead'
          /\ \A n \in queue' \cup dead' : n.inv \in Rows
          /\ \A n \in queue : n # m => n \in queue'
      BY <1>5, AcknowledgeEffect
    <2>2. \A s \in Slots : Holds(s) \cap WorkerHolds' = {}
      BY <1>1, <1>5 DEF WorkerHolds
    <2>3. LocksExclusive' /\ RequestsSound' /\ WorkspacesOwned'
      BY <1>1, <1>2, <2>2, DeliveryStep
    <2>4. Typed'
      BY <1>1, <1>2, <1>5, <2>1 DEF InvitationsInv, Typed
    <2>5. AboutRows'
      BY <1>1, <1>2, <2>1 DEF InvitationsInv, AboutRows
    <2>6. NoDeliveryForgotten'
      BY <1>1, <1>2, <1>5, <2>1, StillRemembered
    <2>7. WorkerSound'
      BY <1>1, <1>5 DEF WorkerSound
    <2> QED
      BY <1>3, <2>3, <2>4, <2>5, <2>6, <2>7 DEF InvitationsInv
  <1> QED
    BY <1>1, <1>4, <1>5

\* What the worker that is busy works on.
LEMMA AtWork ==
    ASSUME InvitationsInv, worker.phase # "idle"
    PROVE  LET m == worker.msg  v == invitation[m.inv] IN
           /\ worker \in [phase : DeliveryPhases \ {"idle"}, msg : Message]
           /\ m \in queue /\ m \in Message /\ m.inv \in Rows /\ m.inv \in Invitations
           /\ v \in Invitation /\ v.generation = m.generation /\ m.generation \in 1 .. MaxGeneration
           /\ Open(v) /\ Consistent(v) /\ v.created <= clock
           /\ worker.phase = "sent" => <<m.inv, m.generation>> \in mailed
           /\ v.delivered = v.generation => <<m.inv, m.generation>> \in mailed
  <1>1. worker \in [phase : DeliveryPhases \ {"idle"}, msg : Message]
    BY DEF InvitationsInv, Typed, Worker
  <1>2. PICK m : m = worker.msg
    OBVIOUS
  <1>3. m \in queue /\ m \in Message /\ m.inv \in Rows
    BY <1>1, <1>2 DEF InvitationsInv, WorkerSound, AboutRows
  <1>4. m.inv \in Invitations /\ invitation[m.inv] \in Invitation
    BY <1>3, RowTyped DEF InvitationsInv
  <1>5. /\ invitation[m.inv].generation = m.generation /\ Open(invitation[m.inv])
        /\ worker.phase = "sent" => <<m.inv, m.generation>> \in mailed
    BY <1>2 DEF InvitationsInv, WorkerSound
  <1>6. /\ Consistent(invitation[m.inv]) /\ invitation[m.inv].created <= clock
        /\ invitation[m.inv].delivered = m.generation => <<m.inv, m.generation>> \in mailed
    BY <1>3, <1>5 DEF InvitationsInv, RowsSound
  <1>7. m.generation \in 1 .. MaxGeneration
    BY <1>4, <1>5 DEF Invitation
  <1> QED
    BY <1>1, <1>2, <1>3, <1>4, <1>5, <1>6, <1>7

\* SendMail: whatever the provider answers, what it may have taken is current.
LEMMA SendMailStep ==
    ASSUME InvitationsInv, SendMail
    PROVE  InvitationsInv'
  <1>1. PICK m : m = worker.msg
    OBVIOUS
  <1>2. PICK key : key = <<m.inv, m.generation>>
    OBVIOUS
  <1>3. PICK phase \in {"sent", "rejected", "unreachable"} :
          /\ worker' = [worker EXCEPT !.phase = phase]
          /\ mailed' \in {mailed, mailed \cup {key}} /\ (phase = "sent" => key \in mailed')
    BY <1>1, <1>2 DEF SendMail
  <1>4. /\ worker.phase = "sending"
        /\ links' \subseteq links \cup IssueLink(m.inv, invitation[m.inv])
        /\ UNCHANGED <<work, clock, account, member, invitation, slot, queue, dead, joined, failed>>
    BY <1>1, <1>2 DEF SendMail
  <1>5. /\ worker \in [phase : DeliveryPhases \ {"idle"}, msg : Message]
        /\ m \in queue /\ m \in Message /\ m.inv \in Rows /\ m.inv \in Invitations
        /\ invitation[m.inv] \in Invitation /\ invitation[m.inv].generation = m.generation
        /\ m.generation \in 1 .. MaxGeneration /\ Open(invitation[m.inv])
    BY <1>1, <1>4, AtWork
  <1>6. worker' \in Worker /\ worker'.phase = phase /\ worker'.msg = m
    BY <1>1, <1>3, <1>5 DEF Worker, DeliveryPhases
  <1>7. \A l \in IssueLink(m.inv, invitation[m.inv]) : l \in Link /\ l.inv = m.inv
    <2>1. invitation[m.inv].generation \in Nat /\ TruncateToSecond(invitation[m.inv].expires) \in Nat
      BY <1>5, Truncation, InvitationsAssumption DEF Invitation
    <2> QED
      BY <1>5, <2>1 DEF IssueLink, Link
  <1>8. mailed' \subseteq Invitations \X (1 .. MaxGeneration) /\ mailed \subseteq mailed'
    BY <1>2, <1>3, <1>5 DEF InvitationsInv, Typed
  <1>9. Typed'
    BY <1>4, <1>6, <1>7, <1>8 DEF InvitationsInv, Typed
  <1>10. Rows' = Rows /\ RowsKept /\ clock' = clock /\ clock \in Nat
    BY <1>4, Unchanged, InvitationsAssumption DEF Rows, InvitationsInv, Typed
  <1>11. WorkerHolds' = WorkerHolds
    BY <1>1, <1>4, <1>6 DEF WorkerHolds
  <1>12. LocksExclusive' /\ RequestsSound' /\ WorkspacesOwned'
    BY <1>4, <1>10, <1>11, DeliveryStep DEF InvitationsInv, LocksExclusive
  <1>13. RowsSound' /\ Spent' /\ WindowsApart'
    BY <1>4, <1>8, <1>10 DEF InvitationsInv, RowsSound, Spent, WindowsApart
  <1>14. AboutRows' /\ NoDeliveryForgotten'
    BY <1>4, <1>5, <1>7, <1>10 DEF InvitationsInv, AboutRows, NoDeliveryForgotten
  <1>15. WorkerSound'
    BY <1>2, <1>3, <1>4, <1>5, <1>6 DEF WorkerSound
  <1> QED
    BY <1>9, <1>12, <1>13, <1>14, <1>15 DEF InvitationsInv

\* What is recorded of a delivery: the row keeps all but what was delivered
\* and what failed, and a pending row is delivered, has failed for good or can
\* be tried again.
LEMMA DeliveredEffect ==
    ASSUME InvitationsInv, worker.phase \in {"sent", "rejected", "unreachable"},
           NEW m, m = worker.msg, NEW v, v = invitation[m.inv], NEW w, w = Delivered(m)
    PROVE  /\ w \in Invitation /\ w.ws = v.ws /\ w.email = v.email /\ w.generation = v.generation
           /\ w.created = v.created /\ w.expires = v.expires /\ w.acceptedBy = v.acceptedBy
           /\ w.revoked = v.revoked /\ Consistent(w)
           /\ w.delivered = w.generation => <<m.inv, w.generation>> \in mailed
           /\ StatusAt(w, clock) = "pending" =>
                 \/ w.delivered = w.generation
                 \/ w.failure \in {"permanent", "exhausted"}
                 \/ worker.phase = "unreachable" /\ ~FinalDelivery(m)
  <1>1. /\ v \in Invitation /\ v.generation = m.generation /\ Consistent(v)
        /\ worker.phase = "sent" => <<m.inv, m.generation>> \in mailed
        /\ v.delivered = v.generation => <<m.inv, m.generation>> \in mailed
    BY AtWork
  <1>2. CASE worker.phase = "sent"
    <2>1. PICK d : d = [v EXCEPT !.delivered = m.generation, !.failure = "none"]
      OBVIOUS
    <2>2. /\ d \in Invitation /\ d.ws = v.ws /\ d.email = v.email /\ d.generation = v.generation
          /\ d.created = v.created /\ d.expires = v.expires /\ d.acceptedBy = v.acceptedBy
          /\ d.revoked = v.revoked /\ d.queued = v.queued /\ d.delivered = m.generation
      <3>1. m.generation \in Nat /\ "none" \in Failures
        BY <1>1, InvitationsAssumption DEF Invitation, Failures
      <3> QED
        BY <1>1, <2>1, <3>1 DEF Invitation
    <2>3. Consistent(d)
      BY <1>1, <2>2, InvitationsAssumption DEF Consistent, Invitation
    <2>4. w = IF StatusAt(v, clock) # "pending" THEN v ELSE d
      BY <1>1, <1>2, <2>1 DEF Delivered, DeliverySuccess, RecordDelivery
    <2> QED
      BY <1>1, <1>2, <2>2, <2>3, <2>4
  <1>3. CASE worker.phase # "sent"
    <2>1. PICK f : f = FailureClass(m)
      OBVIOUS
    <2>2. /\ f \in Failures
          /\ f \in {"permanent", "exhausted"} \/ (worker.phase = "unreachable" /\ ~FinalDelivery(m))
      BY <1>3, <2>1 DEF FailureClass, Failures
    <2>3. PICK d : d = [v EXCEPT !.failure = f]
      OBVIOUS
    <2>4. /\ d \in Invitation /\ d.ws = v.ws /\ d.email = v.email /\ d.generation = v.generation
          /\ d.created = v.created /\ d.expires = v.expires /\ d.acceptedBy = v.acceptedBy
          /\ d.revoked = v.revoked /\ d.queued = v.queued /\ d.delivered = v.delivered /\ d.failure = f
      BY <1>1, <2>2, <2>3 DEF Invitation
    <2>5. Consistent(d)
      BY <1>1, <2>4 DEF Consistent
    <2>6. w = IF StatusAt(v, clock) # "pending" THEN v ELSE d
      BY <1>1, <1>3, <2>1, <2>3 DEF Delivered, DeliveryFailure, RecordDelivery
    <2> QED
      BY <1>1, <2>2, <2>4, <2>5, <2>6
  <1> QED
    BY <1>2, <1>3

\* RecordResult: the row the worker kept locked gets the result.
LEMMA RecordResultStep ==
    ASSUME InvitationsInv, RecordResult
    PROVE  InvitationsInv'
  <1>1. PICK m : m = worker.msg
    OBVIOUS
  <1>2. PICK v : v = invitation[m.inv]
    OBVIOUS
  <1>3. PICK w : w = Delivered(m)
    OBVIOUS
  <1>4. /\ worker.phase \in {"sent", "rejected", "unreachable"}
        /\ invitation' = [invitation EXCEPT ![m.inv] = w]
        /\ \/ Retry(m)
           \/ Acknowledge(m) /\ ~(worker.phase = "unreachable" /\ ~FinalDelivery(m) /\ StatusAt(w, clock) = "pending")
        /\ worker' = [phase |-> "idle"]
        /\ UNCHANGED <<work, clock, account, member, slot, links, mailed, joined, failed>>
    BY <1>1, <1>3 DEF RecordResult
  <1>5. /\ m \in queue /\ m.inv \in Rows /\ m.inv \in Invitations /\ v \in Invitation
        /\ v.generation = m.generation /\ Open(v) /\ v.created <= clock
    BY <1>1, <1>2, <1>4, AtWork
  <1>6. /\ w \in Invitation /\ w.ws = v.ws /\ w.email = v.email /\ w.generation = v.generation
        /\ w.created = v.created /\ w.expires = v.expires /\ w.acceptedBy = v.acceptedBy
        /\ w.revoked = v.revoked /\ Consistent(w)
        /\ w.delivered = w.generation => <<m.inv, w.generation>> \in mailed
        /\ StatusAt(w, clock) = "pending" =>
              \/ w.delivered = w.generation
              \/ w.failure \in {"permanent", "exhausted"}
              \/ worker.phase = "unreachable" /\ ~FinalDelivery(m)
    BY <1>1, <1>2, <1>3, <1>4, DeliveredEffect
  <1>7. /\ queue' \subseteq Message /\ dead' \subseteq Message /\ dead \subseteq dead'
        /\ \A n \in queue' \cup dead' : n.inv \in Rows
        /\ \A n \in queue : n # m => n \in queue'
        /\ Retry(m) => \E n \in queue' \cup dead' : n.inv = m.inv /\ n.generation = m.generation
    <2>1. CASE Retry(m)
      BY <1>5, <2>1, RetryEffect
    <2>2. CASE ~Retry(m)
      BY <1>4, <1>5, <2>2, AcknowledgeEffect
    <2> QED
      BY <2>1, <2>2
  <1>8. WindowFree(m.inv, w)
    BY <1>2, <1>5, <1>6, WindowKept
  <1>9. StatusAt(w, clock) = "pending" =>
           \/ \E n \in queue' \cup dead' : n.inv = m.inv /\ n.generation = w.generation
           \/ w.delivered = w.generation
           \/ w.failure \in {"permanent", "exhausted"}
    BY <1>4, <1>5, <1>6, <1>7
  <1>10. /\ \A l \in links' : l.inv \in Rows \cup {m.inv}
         /\ \A n \in queue' \cup dead' : n.inv \in Rows \cup {m.inv}
         /\ \A n \in queue : n.inv # m.inv => n \in queue'
    BY <1>4, <1>7 DEF InvitationsInv, AboutRows
  <1>11. RowsSound' /\ WindowsApart' /\ AboutRows' /\ NoDeliveryForgotten'
    BY <1>2, <1>4, <1>5, <1>6, <1>7, <1>8, <1>9, <1>10, RowStep
  <1>12. /\ invitation' \in [Invitations -> Invitation \cup {None}]
         /\ invitation'[m.inv] = w /\ \A j \in Invitations \ {m.inv} : invitation'[j] = invitation[j]
         /\ Rows' = Rows /\ RowsKept
    <2>1. Typed /\ Rows \cup {m.inv} = Rows
      BY <1>5 DEF InvitationsInv
    <2> QED
      BY <1>2, <1>4, <1>5, <1>6, <2>1, RowEffect
  <1>13. worker' \in Worker /\ worker'.phase = "idle"
    BY <1>4 DEF Worker
  <1>14. Typed'
    BY <1>4, <1>7, <1>12, <1>13 DEF InvitationsInv, Typed
  <1>15. clock \in Nat /\ clock' = clock /\ WorkerHolds' = {}
    BY <1>4, <1>13, InvitationsAssumption DEF InvitationsInv, Typed, WorkerHolds
  <1>16. LocksExclusive' /\ RequestsSound' /\ WorkspacesOwned'
    BY <1>4, <1>12, <1>15, DeliveryStep
  <1>17. Spent'
    BY <1>2, <1>4, <1>6, <1>12 DEF InvitationsInv, Spent
  <1>18. WorkerSound'
    BY <1>13 DEF WorkerSound
  <1> QED
    BY <1>11, <1>14, <1>16, <1>17, <1>18 DEF InvitationsInv

\* StopDelivery: nothing is recorded and the message comes again.
LEMMA StopDeliveryStep ==
    ASSUME InvitationsInv, StopDelivery
    PROVE  InvitationsInv'
  <1>1. PICK m : m = worker.msg
    OBVIOUS
  <1>2. /\ worker.phase # "idle" /\ Retry(m) /\ worker' = [phase |-> "idle"]
        /\ UNCHANGED <<work, clock, account, member, invitation, slot, links, mailed, joined, failed>>
    BY <1>1 DEF StopDelivery
  <1>3. m \in queue
    BY <1>1, <1>2, AtWork
  <1>4. /\ queue' \subseteq Message /\ dead' \subseteq Message /\ dead \subseteq dead'
        /\ \A n \in queue' \cup dead' : n.inv \in Rows
        /\ \A n \in queue : n # m => n \in queue'
        /\ \E n \in queue' \cup dead' : n.inv = m.inv /\ n.generation = m.generation
    BY <1>2, <1>3, RetryEffect
  <1>5. worker' \in Worker /\ worker'.phase = "idle"
    BY <1>2 DEF Worker
  <1>6. Rows' = Rows /\ RowsKept /\ clock \in Nat /\ clock' = clock /\ WorkerHolds' = {}
    BY <1>2, <1>5, Unchanged, InvitationsAssumption DEF Rows, InvitationsInv, Typed, WorkerHolds
  <1>7. Typed'
    BY <1>2, <1>4, <1>5 DEF InvitationsInv, Typed
  <1>8. LocksExclusive' /\ RequestsSound' /\ WorkspacesOwned'
    BY <1>2, <1>6, DeliveryStep
  <1>9. RowsSound' /\ Spent' /\ WindowsApart'
    BY <1>2, <1>6 DEF InvitationsInv, RowsSound, Spent, WindowsApart
  <1>10. NoDeliveryForgotten'
    BY <1>2, <1>4, <1>6, StillRemembered
  <1>11. AboutRows' /\ WorkerSound'
    BY <1>2, <1>4, <1>5, <1>6 DEF InvitationsInv, AboutRows, WorkerSound
  <1> QED
    BY <1>7, <1>8, <1>9, <1>10, <1>11 DEF InvitationsInv

\* Tick: time passes, and what is pending later was pending before.
LEMMA TickStep ==
    ASSUME InvitationsInv, Tick
    PROVE  InvitationsInv'
  <1>1. /\ clock' = clock + 1 /\ clock < MaxTime
        /\ UNCHANGED <<work, account, member, invitation, slot, links, queue, dead, worker, mailed, joined, failed>>
    BY DEF Tick
  <1>2. clock \in Nat /\ clock' \in Nat /\ clock <= clock' /\ clock' \in 0 .. MaxTime
    BY <1>1, InvitationsAssumption DEF InvitationsInv, Typed
  <1>3. Rows' = Rows /\ RowsKept /\ WorkerHolds' = WorkerHolds
    BY <1>1, Unchanged DEF Rows, WorkerHolds
  <1>4. Typed'
    BY <1>1, <1>2 DEF InvitationsInv, Typed
  <1>5. LocksExclusive' /\ RequestsSound' /\ WorkspacesOwned'
    BY <1>1, <1>2, <1>3, DeliveryStep DEF InvitationsInv, LocksExclusive
  <1>6. \A i \in Rows : invitation[i].created <= clock'
    <2>1. \A i \in Rows : invitation[i].created \in Nat /\ invitation[i].created <= clock
      BY RowTyped DEF InvitationsInv, RowsSound, Invitation
    <2> QED
      BY <1>2, <2>1
  <1>7. RowsSound' /\ Spent' /\ WindowsApart'
    BY <1>1, <1>3, <1>6 DEF InvitationsInv, RowsSound, Spent, WindowsApart
  <1>8. NoDeliveryForgotten'
    <2>1. PICK m : m = 0
      OBVIOUS
    <2> QED
      BY <1>1, <1>2, <2>1, StillRemembered
  <1>9. AboutRows' /\ WorkerSound'
    BY <1>1, <1>3 DEF InvitationsInv, AboutRows, WorkerSound
  <1> QED
    BY <1>4, <1>5, <1>7, <1>8, <1>9 DEF InvitationsInv

-----------------------------------------------------------------------------
(* The invariant holds.                                                     *)

\* At the start nobody is invited and every workspace that has members has an
\* owner, the only member there is.
LEMMA InitInv == Init => InvitationsInv
  <1> SUFFICES ASSUME Init
               PROVE  InvitationsInv
    OBVIOUS
  <1>1. Rows = {} /\ (\A s \in Slots : slot[s] = Idle /\ Holds(s) = {}) /\ worker.phase = "idle"
    BY DEF Init, Rows, Holds
  <1>2. \A u \in Users : \/ member[u] = NoMembership
                         \/ member[u] \in Membership /\ member[u].role = "owner"
    <2> SUFFICES ASSUME NEW u \in Users
                 PROVE  \/ member[u] = NoMembership
                        \/ member[u] \in Membership /\ member[u].role = "owner"
      OBVIOUS
    <2>1. CASE \E w \in Workspaces : Owner[w] = u
      <3>1. PICK w \in Workspaces : w = CHOOSE x \in Workspaces : Owner[x] = u
        BY <2>1
      <3>2. member[u] = [ws |-> w, role |-> "owner"]
        BY <2>1, <3>1 DEF Init
      <3> QED
        BY <3>2 DEF Membership, Roles
    <2>2. CASE ~\E w \in Workspaces : Owner[w] = u
      BY <2>2 DEF Init
    <2> QED
      BY <2>1, <2>2
  <1>3. member \in [Users -> Membership \cup {NoMembership}]
    <2>1. member = [u \in Users |-> member[u]]
      BY DEF Init
    <2> QED
      BY <1>2, <2>1
  <1>4. account \in [Users -> 0 .. 1]
    BY DEF Init
  <1>5. Typed
    BY <1>3, <1>4, InvitationsAssumption DEF Init, Typed, Worker
  <1>6. ASSUME NEW w \in Workspaces, NEW m \in Members(w)
        PROVE  m \in Owners(w)
    BY <1>2, <1>6, InvitationsAssumption DEF Members, Owners, NoMembership
  <1>7. WorkspacesOwned
    BY <1>1, <1>6 DEF WorkspacesOwned
  <1>8. LocksExclusive /\ RequestsSound /\ WorkerSound
    BY <1>1 DEF LocksExclusive, RequestsSound, WorkerSound
  <1>9. Spent
    BY DEF Init, Spent
  <1>10. RowsSound /\ WindowsApart /\ AboutRows /\ NoDeliveryForgotten
    BY <1>1 DEF Init, RowsSound, WindowsApart, AboutRows, NoDeliveryForgotten
  <1> QED
    BY <1>5, <1>7, <1>8, <1>9, <1>10 DEF InvitationsInv

\* Every step keeps the invariant.
LEMMA NextInv == InvitationsInv /\ [Next]_vars => InvitationsInv'
  <1> SUFFICES ASSUME InvitationsInv, [Next]_vars
               PROVE  InvitationsInv'
    OBVIOUS
  <1>1. ASSUME NEW s \in Slots, Step(s)
        PROVE  InvitationsInv'
    <2>1. CASE ResolveSubject(s)
      BY <2>1, ResolveSubjectStep
    <2>2. CASE ProvisionUser(s)
      BY <2>2, ProvisionUserStep
    <2>3. CASE ResolveMember(s) \/ ResolveManager(s)
      BY <2>3, ResolveActorStep
    <2>4. CASE ResolveFounder(s)
      BY <2>4, ResolveFounderStep
    <2>5. CASE CreateOwnedWorkspace(s)
      BY <2>5, CreateOwnedStep
    <2>6. CASE RemoveWorkspaceMember(s)
      BY <2>6, RemoveStep
    <2>7. CASE CheckInvitee(s)
      BY <2>7, CheckInviteeStep
    <2>8. CASE CreateWorkspaceInvitation(s)
      BY <2>8, CreateInvitationStep
    <2>9. CASE ResendWorkspaceInvitation(s)
      BY <2>9, ResendStep
    <2>10. CASE RevokeWorkspaceInvitation(s)
      BY <2>10, RevokeStep
    <2>11. CASE LockInvitation(s)
      BY <2>11, LockInvitationStep
    <2>12. CASE AnswerReplay(s)
      BY <2>12, RejectStep DEF AnswerReplay
    <2>13. CASE ResolveInvitee(s)
      BY <2>13, ResolveInviteeStep
    <2>14. CASE AcceptWorkspaceInvitation(s)
      BY <2>14, AcceptStep
    <2>15. CASE AbortDeadlocked(s)
      BY <2>15, FailStep DEF AbortDeadlocked
    <2> QED
      BY <1>1, <2>1, <2>2, <2>3, <2>4, <2>5, <2>6, <2>7, <2>8, <2>9, <2>10, <2>11, <2>12, <2>13,
         <2>14, <2>15 DEF Step
  <1>2. CASE Deliver
    BY <1>2, BeginDeliveryStep, SendMailStep, RecordResultStep DEF Deliver
  <1>3. CASE UNCHANGED vars
    <2>1. UNCHANGED <<clock, account, member, invitation, slot, work, links, queue, dead, worker,
                      mailed, joined, failed>>
      BY <1>3 DEF vars
    <2>2. \A s \in Slots : Holds(s)' = Holds(s)
      BY <2>1 DEF Holds
    <2>3. WorkerHolds' = WorkerHolds /\ Rows' = Rows
      BY <2>1 DEF WorkerHolds, Rows
    <2>4. Typed' /\ LocksExclusive'
      BY <2>1, <2>2, <2>3 DEF InvitationsInv, Typed, LocksExclusive
    <2>5. \A s \in Slots : Knows(s)' = Knows(s)
      BY <2>1, <2>3 DEF Knows, Owners, Members, MayManage, RoleFor
    <2>6. RequestsSound' /\ WorkspacesOwned'
      BY <2>1, <2>3, <2>5 DEF InvitationsInv, RequestsSound, WorkspacesOwned, Owners, Members
    <2>7. RowsSound' /\ Spent' /\ WindowsApart' /\ AboutRows' /\ WorkerSound' /\ NoDeliveryForgotten'
      BY <2>1, <2>3 DEF InvitationsInv, RowsSound, Spent, WindowsApart, AboutRows, WorkerSound,
                        NoDeliveryForgotten
    <2> QED
      BY <2>4, <2>6, <2>7 DEF InvitationsInv
  <1> QED
    BY <1>1, <1>2, <1>3, ArriveStep, StopDeliveryStep, TickStep DEF Next

\* Whatever requests, deliveries and clock do in whatever order, the invariant
\* above holds.
THEOREM InvitationsCorrect == Spec => []InvitationsInv
  BY InitInv, NextInv, PTL DEF Spec

\* Types; a subject provisioned twice at once has one row, a workspace keeps
\* an owner, and every invitation can be loaded again.
THEOREM InvitationsTyped == Spec => []TypeOK
  <1>1. ASSUME InvitationsInv
        PROVE  TypeOK
    <2>1. \A i \in Rows : invitation[i] \in Invitation /\ Consistent(invitation[i])
      BY <1>1, RowTyped DEF InvitationsInv, RowsSound
    <2>2. worker.phase \in DeliveryPhases
      BY <1>1 DEF InvitationsInv, Typed, Worker, DeliveryPhases
    <2>3. \A s \in Slots : slot[s] = Idle \/ slot[s] \in Request
      BY <1>1 DEF InvitationsInv, Typed
    <2>4. \A w \in Workspaces : Members(w) # {} => Owners(w) # {}
      BY <1>1 DEF InvitationsInv, WorkspacesOwned
    <2> QED
      BY <1>1, <2>1, <2>2, <2>3, <2>4 DEF InvitationsInv, Typed, TypeOK
  <1> QED
    BY <1>1, InvitationsCorrect, PTL

\* A mailbox never has two invitations to one workspace pending at once: open
\* invitations have windows apart, and both would be open now.
THEOREM OneInvitationPending == Spec => []OnePendingPerMailbox
  <1>1. ASSUME InvitationsInv
        PROVE  OnePendingPerMailbox
    <2> SUFFICES ASSUME NEW i \in Rows, NEW j \in Rows, i # j,
                        StatusAt(invitation[i], clock) = "pending", StatusAt(invitation[j], clock) = "pending",
                        invitation[i].ws = invitation[j].ws, invitation[i].email = invitation[j].email
                 PROVE  FALSE
      BY DEF OnePendingPerMailbox
    <2>1. \A k \in {i, j} : Open(invitation[k]) /\ ~(clock >= invitation[k].expires)
      BY Pending DEF Open
    <2>2. \A k \in {i, j} : /\ invitation[k].created \in Nat /\ invitation[k].expires \in Nat
                            /\ invitation[k].created <= clock
      BY <1>1, RowTyped DEF InvitationsInv, RowsSound, Invitation
    <2>3. clock \in Nat
      BY <1>1, InvitationsAssumption DEF InvitationsInv, Typed
    <2>4. Overlap(invitation[i], invitation[j])
      BY <2>1, <2>2, <2>3 DEF Overlap
    <2> QED
      BY <1>1, <2>1, <2>4 DEF InvitationsInv, WindowsApart
  <1> QED
    BY <1>1, InvitationsCorrect, PTL

\* An invitation adds at most one membership, and then it is accepted.
THEOREM InvitationsSpentOnce == Spec => []InvitationSpentOnce
  <1>1. InvitationsInv => InvitationSpentOnce
    BY DEF InvitationsInv, Spent, InvitationSpentOnce
  <1> QED
    BY <1>1, InvitationsCorrect, PTL

\* No insert of a membership is refused and no workspace is found without an
\* owner: what accept and remove read under their locks still holds when they
\* write.
THEOREM NoUnexpectedFailures == Spec => []OnlyExpectedFailures
  <1>1. InvitationsInv => OnlyExpectedFailures
    BY DEF InvitationsInv, Typed, OnlyExpectedFailures
  <1> QED
    BY <1>1, InvitationsCorrect, PTL

\* What the people list shows as delivered was handed to the provider.
THEOREM ShownDeliveredWasMailed == Spec => []DeliveredWasMailed
  <1>1. InvitationsInv => DeliveredWasMailed
    BY DEF InvitationsInv, RowsSound, DeliveredWasMailed, DeliveryState
  <1> QED
    BY <1>1, InvitationsCorrect, PTL

\* A pending invitation that is neither delivered nor failed for good still
\* has a message, in the queue or given up after its last attempt.
THEOREM DeliveriesRemembered == Spec => []NoDeliveryForgotten
  <1>1. InvitationsInv => NoDeliveryForgotten
    BY DEF InvitationsInv
  <1> QED
    BY <1>1, InvitationsCorrect, PTL

-----------------------------------------------------------------------------
(* Which requests may wait for each other.                                  *)

\* What a request that has a lock and needs another has and needs: nobody who
\* waits has a workspace's lock.
LEMMA WaitShape ==
    ASSUME NEW r, InPhase(r), r.op \in Ops, NEW l \in Needs(r), NEW k \in Has(r)
    PROVE  \/ r.op = "accept" /\ l = UserLock(r.user) /\ k = InvitationLock(r.inv)
           \/ r.op \in {"resend", "revoke"} /\ l = InvitationLock(r.inv) /\ k = UserLock(r.user)
           \/ l = WorkspaceLock(r.ws) /\ k \in {UserLock(r.user), InvitationLock(r.inv)}
  <1>1. \/ NeedsSubject(r) /\ l = SubjectLock(r.user)
        \/ NeedsUser(r) /\ l = UserLock(r.user)
        \/ NeedsWorkspace(r) /\ l = WorkspaceLock(r.ws)
        \/ NeedsInvitation(r) /\ l = InvitationLock(r.inv)
    BY DEF Needs, Lock
  <1>2. \/ HasSubject(r) /\ k = SubjectLock(r.user)
        \/ HasUser(r) /\ k = UserLock(r.user)
        \/ HasWorkspace(r) /\ k = WorkspaceLock(r.ws)
        \/ HasInvitation(r) /\ k = InvitationLock(r.inv)
    BY DEF Has, Lock
  <1>3. ~NeedsSubject(r)
    BY <1>2 DEF NeedsSubject, HasSubject, HasUser, HasWorkspace, HasInvitation
  <1>4. NeedsUser(r) => r.op = "accept" /\ ~HasSubject(r) /\ ~HasUser(r) /\ ~HasWorkspace(r)
    BY <1>2 DEF NeedsUser, HasSubject, HasUser, HasWorkspace, HasInvitation
  <1>5. NeedsWorkspace(r) => ~HasSubject(r) /\ ~HasWorkspace(r)
    BY DEF NeedsWorkspace, HasSubject, HasWorkspace
  <1>6. NeedsInvitation(r) =>
           r.op \in {"resend", "revoke"} /\ ~HasSubject(r) /\ ~HasWorkspace(r) /\ ~HasInvitation(r)
    BY <1>2 DEF NeedsInvitation, HasSubject, HasUser, HasWorkspace, HasInvitation
  <1> QED
    BY <1>1, <1>2, <1>3, <1>4, <1>5, <1>6

\* The locks are taken in one order, but for a user who accepts an invitation
\* that the same user sends again or revokes.
THEOREM OnlyOwnWaitCycles == Spec => []WaitCyclesAreOwn
  <1>1. ASSUME InvitationsInv
        PROVE  WaitCyclesAreOwn
    <2> SUFFICES ASSUME NEW s \in Slots, NEW t \in Slots, WaitsFor(s, t), WaitsFor(t, s)
                 PROVE  /\ slot[s].user = slot[t].user /\ slot[s].inv = slot[t].inv
                        /\ {"accept"} = {slot[s].op, slot[t].op} \ {"resend", "revoke"}
      BY DEF WaitCyclesAreOwn
    <2>1. PICK l, k : l \in Wants(s) /\ l \in Holds(t) /\ k \in Wants(t) /\ k \in Holds(s)
      BY DEF WaitsFor
    <2>2. slot[s] # Idle /\ slot[t] # Idle
      BY <2>1 DEF Wants
    <2>3. PICK r, q : r = slot[s] /\ q = slot[t]
      OBVIOUS
    <2>4. /\ l \in Needs(r) /\ l \in Has(q) /\ k \in Needs(q) /\ k \in Has(r)
          /\ InPhase(r) /\ InPhase(q) /\ r.op \in Ops /\ q.op \in Ops
      BY <1>1, <2>1, <2>2, <2>3, InFlight DEF Knows
    <2>5. /\ \/ r.op = "accept" /\ l = UserLock(r.user) /\ k = InvitationLock(r.inv)
             \/ r.op \in {"resend", "revoke"} /\ l = InvitationLock(r.inv) /\ k = UserLock(r.user)
             \/ l = WorkspaceLock(r.ws) /\ k \in {UserLock(r.user), InvitationLock(r.inv)}
          /\ \/ q.op = "accept" /\ k = UserLock(q.user) /\ l = InvitationLock(q.inv)
             \/ q.op \in {"resend", "revoke"} /\ k = InvitationLock(q.inv) /\ l = UserLock(q.user)
             \/ k = WorkspaceLock(q.ws) /\ l \in {UserLock(q.user), InvitationLock(q.inv)}
      BY <2>4, WaitShape
    <2>6. \A a, b : /\ UserLock(a) # WorkspaceLock(b) /\ UserLock(a) # InvitationLock(b)
                    /\ WorkspaceLock(a) # InvitationLock(b)
                    /\ UserLock(a) = UserLock(b) => a = b
                    /\ InvitationLock(a) = InvitationLock(b) => a = b
      BY DEF UserLock, WorkspaceLock, InvitationLock
    <2>7. /\ r.user = q.user /\ r.inv = q.inv
          /\ \/ r.op = "accept" /\ q.op \in {"resend", "revoke"}
             \/ q.op = "accept" /\ r.op \in {"resend", "revoke"}
      BY <2>5, <2>6
    <2> QED
      BY <2>3, <2>7
  <1> QED
    BY <1>1, InvitationsCorrect, PTL

-----------------------------------------------------------------------------
(* What a step may never do.                                                *)

\* Who hands mail to the provider, and who adds a row.
Quiet == UNCHANGED <<invitation, mailed>>
AddsNoRow == \A i \in Invitations \ Rows : invitation'[i] = invitation[i]

\* Only CreateWorkspaceInvitation adds a row, and only SendMail mails: a step
\* of any other request leaves both alone.
LEMMA RequestsQuiet ==
    ASSUME InvitationsInv, NEW s \in Slots, Arrive(s) \/ Step(s), ~CreateWorkspaceInvitation(s)
    PROVE  UNCHANGED mailed /\ AddsNoRow
  <1>1. Quiet => UNCHANGED mailed /\ AddsNoRow
    BY DEF Quiet, AddsNoRow
  <1>2. ASSUME NEW i \in Rows, NEW v, invitation' = [invitation EXCEPT ![i] = v]
        PROVE  AddsNoRow
    BY <1>2 DEF AddsNoRow, InvitationsInv, Typed
  <1>3. (Reject(s) \/ NoWrite \/ \E kind : Fail(s, kind)) => Quiet
    BY DEF Reject, NoWrite, Fail, Quiet
  <1>4. CASE Arrive(s)
    BY <1>1, <1>4 DEF Arrive, AskSignIn, AskCreateOwned, AskRemove, AskCreate, AskResend, AskRevoke,
                      AskAccept, Ask, Quiet
  <1>5. CASE ResolveSubject(s) \/ ResolveMember(s) \/ ResolveManager(s) \/ ResolveFounder(s) \/ CheckInvitee(s)
    BY <1>1, <1>3, <1>5 DEF ResolveSubject, ResolveMember, ResolveManager, ResolveFounder, CheckInvitee
  <1>6. CASE LockInvitation(s) \/ AnswerReplay(s) \/ ResolveInvitee(s) \/ AbortDeadlocked(s)
    BY <1>1, <1>3, <1>6 DEF LockInvitation, AnswerReplay, ResolveInvitee, AbortDeadlocked
  <1>7. CASE ProvisionUser(s)
    BY <1>1, <1>7 DEF ProvisionUser, Quiet
  <1>8. CASE CreateOwnedWorkspace(s) \/ RemoveWorkspaceMember(s)
    BY <1>1, <1>3, <1>8 DEF CreateOwnedWorkspace, RemoveWorkspaceMember, SaveMember, Quiet
  <1>9. CASE ResendWorkspaceInvitation(s)
    <2>1. CASE Reject(s)
      BY <1>1, <1>3, <2>1
    <2>2. CASE \E v \in Row(s) : SaveInvitation(s, slot[s].inv, Resend(v, slot[s].at))
      <3>1. PICK v \in Row(s) : SaveInvitation(s, slot[s].inv, Resend(v, slot[s].at))
        BY <2>2
      <3>2. PICK i \in Rows : i = slot[s].inv
        BY DEF Row
      <3>3. PICK n : n = Resend(v, slot[s].at)
        OBVIOUS
      <3>4. Quiet \/ (invitation' = [invitation EXCEPT ![i] = n] /\ UNCHANGED mailed)
        BY <1>3, <3>1, <3>2, <3>3 DEF SaveInvitation
      <3> QED
        BY <1>1, <1>2, <3>4
    <2> QED
      BY <1>9, <2>1, <2>2 DEF ResendWorkspaceInvitation
  <1>10. CASE RevokeWorkspaceInvitation(s)
    <2>1. CASE Reject(s)
      BY <1>1, <1>3, <2>1
    <2>2. CASE \E v \in Row(s) : invitation' = [invitation EXCEPT ![slot[s].inv] = Revoke(v)] /\ UNCHANGED mailed
      <3>1. PICK v \in Row(s) : invitation' = [invitation EXCEPT ![slot[s].inv] = Revoke(v)] /\ UNCHANGED mailed
        BY <2>2
      <3>2. PICK i \in Rows : i = slot[s].inv
        BY DEF Row
      <3> QED
        BY <1>2, <3>1, <3>2
    <2> QED
      BY <1>10, <2>1, <2>2 DEF RevokeWorkspaceInvitation
  <1>11. CASE AcceptWorkspaceInvitation(s)
    <2>1. slot[s] # Idle /\ slot[s].op = "accept"
      BY <1>11 DEF AcceptWorkspaceInvitation, At
    <2>2. PICK i \in Rows : i = slot[s].inv
      BY <2>1, InFlight DEF Knows
    <2>3. PICK n : n = Accept(invitation[i], slot[s].user)
      OBVIOUS
    <2>4. Quiet \/ (invitation' = [invitation EXCEPT ![i] = n] /\ UNCHANGED mailed)
      BY <1>3, <1>11, <2>2, <2>3 DEF AcceptWorkspaceInvitation, SaveMember
    <2> QED
      BY <1>1, <1>2, <2>4
  <1> QED
    BY <1>4, <1>5, <1>6, <1>7, <1>8, <1>9, <1>10, <1>11 DEF Step

\* The worker adds no row, and only SendMail mails.
LEMMA DeliveryQuiet ==
    ASSUME InvitationsInv, Deliver \/ StopDelivery \/ Tick
    PROVE  AddsNoRow /\ (SendMail \/ UNCHANGED mailed)
  <1>1. CASE BeginDelivery \/ SendMail \/ StopDelivery \/ Tick
    BY <1>1 DEF BeginDelivery, SendMail, StopDelivery, Tick, AddsNoRow
  <1>2. CASE RecordResult
    <2>1. PICK m, w : m = worker.msg /\ w = Delivered(m)
      OBVIOUS
    <2>2. worker.phase # "idle" /\ invitation' = [invitation EXCEPT ![m.inv] = w] /\ UNCHANGED mailed
      BY <1>2, <2>1 DEF RecordResult
    <2>3. m.inv \in Rows
      BY <2>1, <2>2, AtWork
    <2> QED
      BY <2>2, <2>3 DEF AddsNoRow, InvitationsInv, Typed
  <1> QED
    BY <1>1, <1>2 DEF Deliver

\* The step of MailedWhileCurrent and the step of CreatorStillManages.
MailsWhatIsCurrent ==
    \A k \in mailed' \ mailed : LET v == invitation[k[1]] IN v.generation = k[2] /\ Open(v)
CreatesWhatIsManaged ==
    \A i \in Invitations : i \notin Rows /\ invitation'[i] # None =>
        \E s \in Slots : slot'[s] = Idle /\ At(s, "create", "locked")
                           /\ MayManage(invitation'[i].ws, slot[s].user)

\* A mail goes out only for the generation the row has, while it is open.
LEMMA MailStep ==
    ASSUME InvitationsInv, [Next]_vars
    PROVE  MailsWhatIsCurrent
  <1>1. CASE UNCHANGED mailed
    BY <1>1 DEF MailsWhatIsCurrent
  <1>2. CASE SendMail
    <2>1. PICK m : m = worker.msg
      OBVIOUS
    <2>2. worker.phase # "idle" /\ mailed' \subseteq mailed \cup {<<m.inv, m.generation>>}
      BY <1>2, <2>1 DEF SendMail
    <2>3. invitation[m.inv].generation = m.generation /\ Open(invitation[m.inv])
      BY <2>1, <2>2, AtWork
    <2> QED
      BY <2>2, <2>3 DEF MailsWhatIsCurrent
  <1>3. ASSUME NEW s \in Slots, CreateWorkspaceInvitation(s)
        PROVE  UNCHANGED mailed
    BY <1>3 DEF CreateWorkspaceInvitation, SaveInvitation, Reject, NoWrite, Fail
  <1> QED
    BY <1>1, <1>2, <1>3, RequestsQuiet, DeliveryQuiet DEF Next, vars

\* Who creates an invitation manages the workspace, whose lock it has.
LEMMA CreateStep ==
    ASSUME InvitationsInv, [Next]_vars
    PROVE  CreatesWhatIsManaged
  <1>1. CASE AddsNoRow
    BY <1>1 DEF AddsNoRow, CreatesWhatIsManaged, Rows
  <1>2. ASSUME NEW s \in Slots, CreateWorkspaceInvitation(s)
        PROVE  CreatesWhatIsManaged
    <2>1. /\ slot[s] # Idle /\ slot[s].op = "create" /\ slot[s].phase = "locked" /\ At(s, "create", "locked")
      BY <1>2 DEF CreateWorkspaceInvitation, At
    <2>2. MayManage(slot[s].ws, slot[s].user)
      BY <2>1, InFlight DEF Knows, HasWorkspace
    <2>3. PICK v : v = QueueDelivery(CreateInvitation(slot[s].ws, slot[s].target, slot[s].at))
      OBVIOUS
    <2>4. v.ws = slot[s].ws
      BY <2>3 DEF QueueDelivery, CreateInvitation
    <2>5. \/ UNCHANGED invitation
          \/ Finish(s) /\ \E i \in Invitations : invitation' = [invitation EXCEPT ![i] = v]
      BY <1>2, <2>3 DEF CreateWorkspaceInvitation, SaveInvitation, Reject, NoWrite, Fail
    <2>6. CASE UNCHANGED invitation
      BY <1>1, <2>6 DEF AddsNoRow
    <2>7. ASSUME NEW i \in Invitations, Finish(s), invitation' = [invitation EXCEPT ![i] = v]
          PROVE  CreatesWhatIsManaged
      <3>1. slot'[s] = Idle
        BY <2>7 DEF Finish, InvitationsInv, Typed
      <3>2. invitation'[i] = v /\ \A j \in Invitations \ {i} : invitation'[j] = invitation[j]
        BY <2>7 DEF InvitationsInv, Typed
      <3>3. MayManage(invitation'[i].ws, slot[s].user)
        BY <2>2, <2>4, <3>2
      <3> QED
        BY <2>1, <3>1, <3>2, <3>3 DEF CreatesWhatIsManaged, Rows
    <2> QED
      BY <2>5, <2>6, <2>7
  <1>3. CASE UNCHANGED vars
    BY <1>1, <1>3 DEF AddsNoRow, vars
  <1> QED
    BY <1>1, <1>2, <1>3, RequestsQuiet, DeliveryQuiet DEF Next

\* A mail goes out only for the current generation of an invitation nobody has
\* accepted or revoked at that moment.
THEOREM OnlyCurrentIsMailed == Spec => MailedWhileCurrent
  <1>1. InvitationsInv /\ [Next]_vars => [MailsWhatIsCurrent]_vars
    BY MailStep
  <1> QED
    BY <1>1, InvitationsCorrect, PTL DEF Spec, MailedWhileCurrent, MailsWhatIsCurrent

\* Who creates an invitation manages the workspace when it commits.
THEOREM CreatorsManage == Spec => CreatorStillManages
  <1>1. InvitationsInv /\ [Next]_vars => [CreatesWhatIsManaged]_vars
    BY CreateStep
  <1> QED
    BY <1>1, InvitationsCorrect, PTL DEF Spec, CreatorStillManages, CreatesWhatIsManaged

=============================================================================
