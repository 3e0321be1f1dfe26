------------------------ MODULE WorkspaceAccessProofs ------------------------
(***************************************************************************)
(* Proofs about one workspace: that concurrent changes of its catalogue add  *)
(* up and wait for each other only to exchange names, that links and logins  *)
(* are used once, and that browsers and auditors stay within what they were  *)
(* given.                                                                   *)
(*                                                                         *)
(* The argument rests on the row locks.  What a request has locked no other  *)
(* request holds, so what it read of a locked row is still the row when it   *)
(* writes; every table but the catalogue's only ever gains rows, and a row   *)
(* keeps the fields that name its owner.                                    *)
(***************************************************************************)
EXTENDS WorkspaceAccess, TLAPS, FiniteSetTheorems, WellFoundedInduction

-----------------------------------------------------------------------------
(* The tables and the requests have their types.                            *)

\* The rows that may stand under the id x.
RowsFor(x) == IF x \in Policies THEN PolicyRow \cup {None}
              ELSE IF x \in Evidence THEN EvidenceRow \cup {None} ELSE ControlRow \cup {None}

RowTable == [x \in Ids |-> RowOf(x)]

Link == EvidenceLink \cup PolicyLink

TablesTyped ==
    /\ clock \in 0 .. MaxTime
    /\ control \in [Controls -> ControlRow \cup {None}]
    /\ evidence \in [Evidence -> EvidenceRow \cup {None}]
    /\ policy \in [Policies -> PolicyRow \cup {None}]
    /\ doc \in [Documents -> DocumentRow \cup {None}]
    /\ link \in [Links -> Link \cup {None}]
    /\ opened \in [Links -> Nat]
    /\ tickets \subseteq Ticket
    /\ grant \in [Grants -> AuditorAccessGrant \cup {None}]
    /\ login \in [Logins -> AuditorAuthTransaction \cup {None}]
    /\ session \in [Sessions -> AuditorSession \cup {None}]

Browser == [op : UploadOps, phase : {"lock", "locked", "staged", "decided", "fetch", "served"},
            rows : SUBSET (Links \cup Policies), todo : SUBSET (Links \cup Policies),
            link : Links \cup {None}, doc : Documents \cup {None}, seen : Link \cup PolicyRow \cup {None}]

PageRead == [controls : SUBSET Controls, submissions : SUBSET Documents,
             mappings : SUBSET (Controls \X Evidence), policies : SUBSET Policies]

\* The phases in which a callback has claimed its login.
ClaimedPhases == {"claimed", "identified", "asked", "shared"}
ReadPhases    == {"controls", "submissions", "mappings", "policies", "shown"}
VisitPhases   == {"download", "streamed", "page"} \cup ReadPhases

What == {"code", "error", "auditor", "someone", None} \cup Documents \cup Policies \cup Controls

SeenByAudit == AuditorAccessGrant \cup AuditorAuthTransaction \cup AuditorSession \cup PageRead \cup {None}

Audit == [op : AuditOps, phase : {"lock", "locked"} \cup ClaimedPhases \cup VisitPhases,
          rows : SUBSET (Grants \cup Logins \cup Sessions),
          todo : SUBSET (Grants \cup Logins \cup Sessions), grant : Grants,
          key : Logins \cup Sessions \cup {None},
          what : What, now : Nat, seen : SeenByAudit]

IsEdit(r) == r.rows \in SUBSET Ids /\ r \in Edit(r.rows)

IsRequest(r) == r = Idle \/ r \in Browser \/ r \in Audit \/ IsEdit(r)

RequestsTyped == DOMAIN req = Slots /\ \A s \in Slots : IsRequest(req[s])

LocksExclusive == \A s, t \in Slots : s # t => Held(s) \cap Held(t) = {}

-----------------------------------------------------------------------------
(* What is known of a request, given the tables.                            *)

NamingEdits == {"create_control", "replace_control", "create_policy", "replace_policy"}

\* A change: which rows it edits, how far it is, and that it has passed its
\* handler's conditions once it writes.
EditSound(r) ==
    /\ \A x \in r.rows : r.seen[x] \in RowsFor(x)
    /\ r.phase = "lock" <=> r.todo # {}
    /\ r.op \in ControlEdits => r.rows \subseteq Controls
    /\ r.op \in EvidenceEdits => r.rows \subseteq Evidence
    /\ r.op \in PolicyEdits => r.rows \subseteq Policies
    /\ r.op \in NamingEdits => r.name \in Names
    /\ r.op \in NamingEdits \cup Creations => \A x, y \in r.rows : x = y
    /\ r.op \in Creations => r.phase # "lock" /\ \A x \in r.rows : r.seen[x] = None
    /\ r.phase = "written" => r.op \in NamingEdits
    /\ r.phase \in {"written", "saved"} /\ r.op \notin Creations => Known(r)
    /\ r.phase \in {"written", "saved"} /\ r.op \in PolicyEdits \ Creations => Active(r)
    /\ \A x \in r.rows \ r.todo, y \in r.todo : Rank[x] < Rank[y]

\* What a change has read of the rows it holds is what they are.
EditCurrent(r, rows) == \A x \in r.rows \ r.todo : r.seen[x] = rows[x]

\* A browser's request: it has a link, the locks its operation takes, and a
\* document of its link.
BrowserSound(r, dc, lk) ==
    /\ r.op \in SessionOps \cup {"open"} => r.link \in Links /\ lk[r.link] # None
    /\ r.op = "open" => r.phase \in {"lock", "locked"} /\ r.rows = {r.link}
    /\ r.op = "open" /\ r.phase = "locked" => r.seen = lk[r.link]
    /\ r.op = "upload_policy" => /\ r.phase \in {"lock", "locked"}
                                 /\ lk[r.link].target \in Policies /\ r.rows = {lk[r.link].target}
    /\ r.op = "upload_policy" /\ r.phase = "locked" => r.seen \in PolicyRow \cup {None}
    /\ r.op = "upload" => r.phase = "staged" /\ lk[r.link].target \in Evidence
    /\ r.op = "archive" => /\ r.phase = "decided" /\ r.doc \in Documents /\ dc[r.doc] # None
                           /\ dc[r.doc].owner = lk[r.link].target
                           /\ dc[r.doc].window = lk[r.link].window
    /\ r.op \in {"fetch", "fetch_policy"} => r.phase \in {"fetch", "served"} /\ r.doc \in Documents
    /\ r.todo = IF r.phase = "lock" THEN r.rows ELSE {}

\* An auditor's request, or the agent's that takes a grant back.
AuditSound(r, gr, lg, ss) ==
    /\ r.op = "revoke_grant" => /\ r.phase \in {"lock", "locked"} /\ r.rows = {r.grant}
                                /\ gr[r.grant] # None
                                /\ r.phase = "locked" => r.seen = gr[r.grant]
    /\ r.op = "login" => r.phase \in {"asked", "shared"}
    /\ r.op = "callback" => /\ r.phase \in {"lock", "locked"} \cup ClaimedPhases
                            /\ r.key \in Logins /\ lg[r.key] # None
                            /\ r.phase \in {"lock", "locked"} => r.rows = {r.key}
                            /\ r.phase = "locked" => r.seen = lg[r.key]
    /\ r.op = "logout" => /\ r.phase \in {"lock", "locked"} /\ r.rows = {r.key}
                          /\ r.key \in Sessions /\ ss[r.key] # None
                          /\ r.phase = "locked" => r.seen = ss[r.key]
    /\ r.op = "visit" => /\ r.phase \in VisitPhases
                         /\ r.phase \in {"download", "streamed"} => r.what \in Documents
                         /\ r.phase \in ReadPhases => r.seen \in PageRead
    /\ r.todo = IF r.phase = "lock" THEN r.rows ELSE {}

Sound(r, rows, dc, lk, gr, lg, ss) ==
    /\ IsEdit(r) => EditSound(r) /\ EditCurrent(r, rows)
    /\ r \in Browser => BrowserSound(r, dc, lk)
    /\ r \in Audit => AuditSound(r, gr, lg, ss)

RequestsSound == \A s \in Slots : Sound(req[s], RowTable, doc, link, grant, login, session)

Base == TablesTyped /\ RequestsTyped /\ LocksExclusive /\ RequestsSound

-----------------------------------------------------------------------------
(* What is known of the tables and of requests taken together.              *)

\* No two rows of a kind carry a name, and a name about to be committed is
\* carried by no other row and about to be committed by no other change.
NamesUnique ==
    \A x, y \in Ids : x # y /\ SameKind(x, y) /\ NameOf(x, RowOf(x)) # None =>
        NameOf(x, RowOf(x)) # NameOf(y, RowOf(y))

ClaimFree(s, x, n) ==
    /\ \A y \in Ids \ {x} : SameKind(x, y) => NameOf(y, RowOf(y)) # n
    /\ \A t \in Slots \ {s} : req[t].phase = "saved" =>
          \A y \in req[t].rows : SameKind(x, y) => Claimed(req[t], y) # n

ClaimsFree ==
    \A s \in Slots : req[s].phase = "saved" =>
        \A x \in req[s].rows : Claimed(req[s], x) # None => ClaimFree(s, x, Claimed(req[s], x))

\* A policy has one document that counts, in progress only while the policy
\* is active; an archiving about to commit has found none, and an upload knows
\* the policy it has locked.
Counts(d) == doc[d] # None /\ doc[d].owner \in Policies /\ ~doc[d].archived

DocumentsSound ==
    /\ \A d, e \in Documents : Counts(d) /\ Counts(e) /\ doc[d].owner = doc[e].owner => d = e
    /\ \A d \in Documents : Counts(d) /\ doc[d].status \in InProgress => PolicyActive(doc[d].owner)

ArchivingsSound ==
    \A s \in Slots : req[s].phase = "saved" /\ req[s].op = "archive_policy" =>
        \A d \in Documents : Counts(d) /\ doc[d].owner \in req[s].rows => doc[d].status \notin InProgress

UploadsSound ==
    \A s \in Slots : req[s] # Idle /\ req[s].op = "upload_policy" =>
        LET p == link[req[s].link].target IN
        policy[p] # None /\ (req[s].phase = "locked" => req[s].seen = policy[p])

\* What an auditor is shown lies in the audit period.
VisitsSound ==
    \A s \in Slots :
        /\ req[s].phase = "streamed" => doc[req[s].what] # None /\ WithinPeriod(req[s].what)
        /\ req[s].phase \in ReadPhases =>
              \A d \in req[s].seen.submissions :
                  doc[d] # None /\ doc[d].owner \in Evidence /\ doc[d].window \in Covered

\* A link that is not redeemed has been exchanged for nothing.
LinksSound ==
    \A l \in Links : /\ opened[l] <= 1
                     /\ link[l] = None \/ link[l].redeemed = None => opened[l] = 0
                     /\ link[l] # None => LinkConsistent(link[l])

\* A login that is not claimed has yielded nothing; a claimed one is in the
\* hands of one callback, or of one session, or of none.
Claiming(s, t) == req[s].phase \in ClaimedPhases /\ req[s].op = "callback" /\ req[s].key = t

LoginsSound ==
    /\ \A t \in Logins : login[t] # None => LoginConsistent(login[t])
    /\ \A v \in Sessions : session[v] # None =>
          login[session[v].login] # None /\ login[session[v].login].consumed # None
    /\ OneSessionPerLogin
    /\ \A s \in Slots, t \in Logins : Claiming(s, t) =>
          /\ login[t].consumed # None
          /\ \A u \in Slots \ {s} : ~Claiming(u, t)
          /\ \A v \in Sessions : session[v] # None => session[v].login # t

\* A shared grant is not revoked and nobody is about to revoke it.
SharesSound ==
    \A s \in Slots : req[s].phase = "shared" =>
        /\ grant[req[s].grant] # None /\ grant[req[s].grant].revoked = None
        /\ \A t \in Slots \ {s} : req[t].phase = "locked" /\ req[t].op = "revoke_grant" =>
              req[t].grant # req[s].grant

WorkspaceInv == /\ Base /\ NamesUnique /\ ClaimsFree
                /\ DocumentsSound /\ ArchivingsSound /\ UploadsSound /\ VisitsSound
                /\ LinksSound /\ LoginsSound /\ SharesSound

-----------------------------------------------------------------------------
(* Facts about the requests.                                                *)

\* What a request in a slot holds.
HeldBy(r) == IF r = Idle THEN {} ELSE r.rows \ r.todo

\* The three kinds of requests are told apart by their operation and are not
\* idle.
LEMMA Kinds ==
    ASSUME NEW r
    PROVE  /\ IsEdit(r) => /\ r # Idle /\ r.op \in Edits /\ r.phase \in {"lock", "locked", "written", "saved"}
                           /\ r \notin Browser /\ r \notin Audit
           /\ r \in Browser => /\ r # Idle /\ r.op \in UploadOps /\ r.op \notin Edits \cup AuditOps
                               /\ r.phase \in {"lock", "locked", "staged", "decided", "fetch", "served"}
                               /\ r \notin Audit /\ ~IsEdit(r)
           /\ r \in Audit => /\ r # Idle /\ r.op \in AuditOps /\ r.op \notin Edits \cup UploadOps
                             /\ r.phase \in {"lock", "locked"} \cup ClaimedPhases \cup VisitPhases
                             /\ r \notin Browser /\ ~IsEdit(r)
           /\ r = Idle => r.phase = "idle" /\ ~IsEdit(r) /\ r \notin Browser /\ r \notin Audit
  <1>1. IsEdit(r) => r.op \in Edits /\ r.phase \in {"lock", "locked", "written", "saved"}
    BY DEF IsEdit, Edit
  <1>2. r \in Browser => r.op \in UploadOps /\ r.phase \in {"lock", "locked", "staged", "decided", "fetch", "served"}
    BY DEF Browser
  <1>3. r \in Audit => r.op \in AuditOps /\ r.phase \in {"lock", "locked"} \cup ClaimedPhases \cup VisitPhases
    BY DEF Audit
  <1>4. Edits \cap UploadOps = {} /\ Edits \cap AuditOps = {} /\ UploadOps \cap AuditOps = {}
    BY DEF Edits, ControlEdits, EvidenceEdits, PolicyEdits, UploadOps, SessionOps, AuditOps
  <1>5. Idle.phase = "idle"
    BY DEF Idle
  <1>6. "idle" \notin {"lock", "locked", "written", "saved", "staged", "decided", "fetch", "served"}
                      \cup ClaimedPhases \cup VisitPhases
    BY DEF ClaimedPhases, VisitPhases, ReadPhases
  <1> QED
    BY <1>1, <1>2, <1>3, <1>4, <1>5, <1>6

\* The slot of a step holds the new request, the other slots what they held.
LEMMA SlotEffect ==
    ASSUME RequestsTyped, NEW s \in Slots, NEW r, req' = [req EXCEPT ![s] = r]
    PROVE  /\ req'[s] = r /\ Held(s)' = HeldBy(r) /\ DOMAIN req' = Slots
           /\ \A t \in Slots \ {s} : req'[t] = req[t] /\ Held(t)' = Held(t)
  <1>1. req'[s] = r /\ DOMAIN req' = Slots /\ \A t \in Slots \ {s} : req'[t] = req[t]
    BY DEF RequestsTyped
  <1> QED
    BY <1>1 DEF Held, HeldBy

\* A step of one request keeps the base invariant when the new request is
\* sound, holds nothing another one holds, and leaves the others sound.
LEMMA SlotStep ==
    ASSUME Base, NEW s \in Slots, NEW r, req' = [req EXCEPT ![s] = r], TablesTyped', IsRequest(r),
           \A t \in Slots \ {s} : HeldBy(r) \cap Held(t) = {},
           Sound(r, RowTable', doc', link', grant', login', session'),
           \A t \in Slots \ {s} : Sound(req[t], RowTable', doc', link', grant', login', session')
    PROVE  Base'
  <1>1. /\ req'[s] = r /\ Held(s)' = HeldBy(r) /\ DOMAIN req' = Slots
        /\ \A t \in Slots \ {s} : req'[t] = req[t] /\ Held(t)' = Held(t)
    BY SlotEffect DEF Base
  <1>2. RequestsTyped'
    BY <1>1 DEF Base, RequestsTyped
  <1>3. LocksExclusive'
    BY <1>1 DEF Base, LocksExclusive
  <1>4. RequestsSound'
    BY <1>1 DEF RequestsSound
  <1> QED
    BY <1>2, <1>3, <1>4 DEF Base

\* The tables a request's soundness depends on.
soundVars == <<control, evidence, policy, doc, link, grant, login, session>>

\* The rows stand when the three tables of the catalogue do.
LEMMA SameRows ==
    ASSUME UNCHANGED <<control, evidence, policy>>
    PROVE  RowTable' = RowTable
  BY DEF RowTable, RowOf

\* A step of one request that leaves the tables alone.
LEMMA QuietStep ==
    ASSUME Base, NEW s \in Slots, NEW r, req' = [req EXCEPT ![s] = r], TablesTyped', UNCHANGED soundVars,
           IsRequest(r), \A t \in Slots \ {s} : HeldBy(r) \cap Held(t) = {},
           Sound(r, RowTable, doc, link, grant, login, session)
    PROVE  Base'
  <1>1. RowTable' = RowTable /\ doc' = doc /\ link' = link /\ grant' = grant /\ login' = login /\ session' = session
    BY SameRows DEF soundVars
  <1>2. \A t \in Slots : Sound(req[t], RowTable, doc, link, grant, login, session)
    BY DEF Base, RequestsSound
  <1> QED
    BY <1>1, <1>2, SlotStep

\* An answered request is sound whatever the tables are.
LEMMA IdleSound ==
    ASSUME NEW rows, NEW dc, NEW lk, NEW gr, NEW lg, NEW ss
    PROVE  Sound(Idle, rows, dc, lk, gr, lg, ss) /\ IsRequest(Idle) /\ HeldBy(Idle) = {}
  BY Kinds DEF Sound, IsRequest, HeldBy

\* Answering without touching a table keeps the base invariant.
LEMMA QuietAnswer ==
    ASSUME Base, NEW s \in Slots, Answer(s), TablesTyped', UNCHANGED soundVars
    PROVE  Base'
  <1>1. req' = [req EXCEPT ![s] = Idle]
    BY DEF Answer
  <1>2. /\ Sound(Idle, RowTable, doc, link, grant, login, session) /\ IsRequest(Idle)
        /\ \A t \in Slots \ {s} : HeldBy(Idle) \cap Held(t) = {}
    BY IdleSound
  <1> QED
    BY <1>1, <1>2, QuietStep

\* A step that changes no request.
LEMMA TableStep ==
    ASSUME Base, TablesTyped', UNCHANGED req,
           \A t \in Slots : Sound(req[t], RowTable', doc', link', grant', login', session')
    PROVE  Base'
  <1>1. RequestsTyped' /\ LocksExclusive'
    BY DEF Base, RequestsTyped, LocksExclusive, Held
  <1>2. RequestsSound'
    BY DEF RequestsSound
  <1> QED
    BY <1>1, <1>2 DEF Base

-----------------------------------------------------------------------------
(* The steps of a change keep the base invariant.                           *)

tableVars == <<clock, soundVars, opened, tickets>>

\* Tables nobody writes keep their types.
LEMMA TablesStand ==
    ASSUME TablesTyped, UNCHANGED tableVars
    PROVE  TablesTyped' /\ UNCHANGED soundVars
  BY DEF TablesTyped, tableVars, soundVars

\* The row under an id has the type of its kind.
LEMMA RowTyped ==
    ASSUME TablesTyped, NEW x \in Ids
    PROVE  RowOf(x) \in RowsFor(x) /\ RowTable[x] = RowOf(x) /\ RowOf(x) \in Row
  BY DEF TablesTyped, RowOf, RowsFor, RowTable, Ids, Row

\* A request to change rows begins sound: a creation holds an id nobody has.
LEMMA ChangeKeepsBase ==
    ASSUME Base, NEW s \in Slots, NEW op \in Edits, NEW rows \in SUBSET Ids, NEW cs \in SUBSET Controls,
           NEW name \in Names \cup {None}, rows # {},
           op \in ControlEdits => rows \subseteq Controls,
           op \in EvidenceEdits => rows \subseteq Evidence,
           op \in PolicyEdits => rows \subseteq Policies,
           op \in NamingEdits => name \in Names,
           op \in NamingEdits \cup Creations => \A x, y \in rows : x = y,
           op \in Creations => \A x \in rows : FreshId(x),
           Change(s, op, rows, cs, name), UNCHANGED <<sessionVars, auditorVars>>
    PROVE  Base'
  <1> DEFINE r == [op |-> op, phase |-> IF op \in Creations THEN "locked" ELSE "lock",
                   rows |-> rows, todo |-> IF op \in Creations THEN {} ELSE rows,
                   controls |-> cs, name |-> name, seen |-> [x \in rows |-> None]]
  <1>1. req' = [req EXCEPT ![s] = r]
    BY DEF Change, Begin
  <1>2. TablesTyped' /\ UNCHANGED soundVars
    BY TablesStand DEF Change, sessionVars, auditorVars, tableVars, soundVars, Base
  <1>3. IsEdit(r)
    BY DEF IsEdit, Edit, Row
  <1>4. EditSound(r)
    BY DEF EditSound, RowsFor
  <1>5. \A x \in r.rows \ r.todo : RowOf(x) = None /\ \A t \in Slots : x \notin Held(t)
    BY DEF FreshId, Held
  <1>6. EditCurrent(r, RowTable)
    BY <1>5 DEF EditCurrent, RowTable
  <1>7. HeldBy(r) \subseteq r.rows \ r.todo
    BY DEF HeldBy
  <1> HIDE DEF r
  <1>8. Sound(r, RowTable, doc, link, grant, login, session) /\ IsRequest(r)
    BY <1>3, <1>4, <1>6, Kinds DEF Sound, IsRequest
  <1> QED
    BY <1>1, <1>2, <1>5, <1>7, <1>8, QuietStep

\* Every tool of the catalogue begins a sound request.
LEMMA AskForChangeKeepsBase ==
    ASSUME Base, NEW s \in Slots, AskForChange(s), UNCHANGED <<sessionVars, auditorVars>>
    PROVE  Base'
  <1> USE DEF Edits, ControlEdits, EvidenceEdits, PolicyEdits, NamingEdits, Creations, Ids
  <1>1. ASSUME NEW c \in Controls, NEW n \in Names, CreateControl(s, c, n) \/ ReplaceControl(s, c, n)
        PROVE  Base'
    BY <1>1, ChangeKeepsBase DEF CreateControl, ReplaceControl
  <1>2. ASSUME NEW e \in Evidence, CreateEvidence(s, e)
        PROVE  Base'
    BY <1>2, ChangeKeepsBase DEF CreateEvidence
  <1>3. ASSUME NEW p \in Policies, NEW n \in Names, NEW cs \in SUBSET Controls,
               CreatePolicy(s, p, n, cs) \/ UpdatePolicy(s, p, n) \/ ArchivePolicy(s, p)
        PROVE  Base'
    BY <1>3, ChangeKeepsBase DEF CreatePolicy, UpdatePolicy, ArchivePolicy
  <1>4. ASSUME NEW e \in Evidence, NEW cs \in SUBSET Controls, NEW op \in {"map", "unmap"},
               Change(s, op, {e}, cs, None)
        PROVE  Base'
    BY <1>4, ChangeKeepsBase
  <1>5. ASSUME NEW c \in Controls, NEW es \in SUBSET Evidence, es # {}, NEW op \in {"map", "unmap"},
               Change(s, op, es, {c}, None)
        PROVE  Base'
    BY <1>5, ChangeKeepsBase
  <1>6. ASSUME NEW p \in Policies, NEW cs \in SUBSET Controls, NEW op \in {"attach", "detach"},
               Change(s, op, {p}, cs, None)
        PROVE  Base'
    BY <1>6, ChangeKeepsBase
  <1>7. ASSUME NEW c \in Controls, NEW ps \in SUBSET Policies, ps # {}, NEW op \in {"attach", "detach"},
               Change(s, op, ps, {c}, None)
        PROVE  Base'
    BY <1>7, ChangeKeepsBase
  <1>8. ASSUME NEW e \in Evidence, NEW c \in Controls,
               MapEvidenceToControl(s, e, c) \/ RemoveEvidenceControlMapping(s, e, c)
        PROVE  Base'
    BY <1>8, <1>4 DEF MapEvidenceToControl, RemoveEvidenceControlMapping
  <1>9. ASSUME NEW e \in Evidence, NEW cs \in SUBSET Controls,
               MapEvidenceToControls(s, e, cs) \/ UnmapEvidenceFromControls(s, e, cs)
        PROVE  Base'
    BY <1>9, <1>4 DEF MapEvidenceToControls, UnmapEvidenceFromControls
  <1>10. ASSUME NEW c \in Controls, NEW es \in SUBSET Evidence,
                MapControlToEvidence(s, c, es) \/ UnmapControlFromEvidence(s, c, es)
         PROVE  Base'
    BY <1>10, <1>5 DEF MapControlToEvidence, UnmapControlFromEvidence, ValidBatch
  <1>11. ASSUME NEW p \in Policies, NEW c \in Controls,
                AttachPolicyToControl(s, p, c) \/ DetachPolicyFromControl(s, p, c)
         PROVE  Base'
    BY <1>11, <1>6 DEF AttachPolicyToControl, DetachPolicyFromControl
  <1>12. ASSUME NEW p \in Policies, NEW cs \in SUBSET Controls,
                AttachPolicyToControls(s, p, cs) \/ DetachPolicyFromControls(s, p, cs)
         PROVE  Base'
    BY <1>12, <1>6 DEF AttachPolicyToControls, DetachPolicyFromControls
  <1>13. ASSUME NEW c \in Controls, NEW ps \in SUBSET Policies,
                AttachControlToPolicies(s, c, ps) \/ DetachControlFromPolicies(s, c, ps)
         PROVE  Base'
    BY <1>13, <1>7 DEF AttachControlToPolicies, DetachControlFromPolicies, ValidBatch
  <1>14. ASSUME NEW p \in Policies, NEW n \in Names, UpdatePolicy(s, p, n)
         PROVE  Base'
    BY <1>14, <1>3
  <1>15. ASSUME NEW p \in Policies, ArchivePolicy(s, p)
         PROVE  Base'
    BY <1>15, ChangeKeepsBase DEF ArchivePolicy
  <1> QED
    BY <1>1, <1>2, <1>3, <1>8, <1>9, <1>10, <1>11, <1>12, <1>13, <1>14, <1>15 DEF AskForChange

\* The row locked next is the lowest of those still to be locked.
LEMMA LowestFirst ==
    ASSUME NEW r, r.todo \subseteq Ids, r.todo # {}
    PROVE  NextToLock(r) \in r.todo /\ \A y \in r.todo : Rank[NextToLock(r)] <= Rank[y]
  <1> DEFINE T == {Rank[x] : x \in r.todo}
  <1>1. T \subseteq Nat /\ T # {} /\ \A x \in r.todo : Rank[x] \in Nat
    BY CatalogueAssumption DEF Ids
  <1>2. \E n \in T : \A m \in T : ~(<<m, n>> \in OpToRel(<, Nat))
    BY <1>1, NatLessThanWellFounded, WFMin
  <1>3. \E n \in T : \A m \in T : ~(m < n)
    BY <1>1, <1>2 DEF OpToRel
  <1>4. PICK n \in T : \A m \in T : ~(m < n)
    BY <1>3
  <1>5. PICK x \in r.todo : n = Rank[x]
    OBVIOUS
  <1>6. \A y \in r.todo : Rank[y] \in T /\ Rank[y] \in Nat
    BY <1>1
  <1> HIDE DEF T
  <1>7. \A y \in r.todo : Rank[x] <= Rank[y]
    <2> TAKE y \in r.todo
    <2> DEFINE m == Rank[y]
    <2>1. m \in T /\ m \in Nat /\ n \in Nat
      BY <1>1, <1>5, <1>6
    <2>2. ~(m < n)
      BY <1>4, <2>1
    <2> HIDE DEF m
    <2>3. n <= m
      BY <2>1, <2>2
    <2> QED
      BY <1>5, <2>3 DEF m
  <1> QED
    BY <1>7 DEF NextToLock

\* What the type of a change says of its fields.
LEMMA EditFields ==
    ASSUME NEW r
    PROVE  IsEdit(r) <=> \E xs \in SUBSET Ids : r \in Edit(xs)
  BY DEF IsEdit, Edit

\* A lock adds the lowest row that was still to be locked, as it is now.
LEMMA LockedRow ==
    ASSUME TablesTyped, NEW r, IsEdit(r), EditSound(r), EditCurrent(r, RowTable), r.phase = "lock",
           NEW new, new = [r EXCEPT !.todo = @ \ {NextToLock(r)}, !.seen[NextToLock(r)] = RowOf(NextToLock(r)),
                                    !.phase = IF r.todo = {NextToLock(r)} THEN "locked" ELSE @]
    PROVE  IsEdit(new) /\ EditSound(new) /\ EditCurrent(new, RowTable)
           /\ HeldBy(new) \subseteq HeldBy(r) \cup {NextToLock(r)}
  <1> DEFINE x == NextToLock(r)
  <1>1. /\ r.rows \in SUBSET Ids /\ r \in Edit(r.rows) /\ r.todo \subseteq r.rows
        /\ r.seen \in [r.rows -> Row] /\ r.op \in Edits /\ r # Idle
    BY Kinds DEF IsEdit, Edit
  <1>2. x \in r.todo /\ \A y \in r.todo : Rank[x] <= Rank[y]
    BY <1>1, LowestFirst DEF EditSound
  <1>3. RowOf(x) \in RowsFor(x) /\ RowTable[x] = RowOf(x) /\ RowOf(x) \in Row
    BY <1>1, <1>2, RowTyped
  <1>4. \A y \in Ids : Rank[y] \in Nat /\ (Rank[y] = Rank[x] => y = x)
    BY <1>1, <1>2, CatalogueAssumption DEF Ids
  <1> HIDE DEF x
  <1>5. /\ new.op = r.op /\ new.rows = r.rows /\ new.todo = r.todo \ {x} /\ new.controls = r.controls
        /\ new.name = r.name /\ new.seen = [r.seen EXCEPT ![x] = RowOf(x)]
        /\ new.phase = IF r.todo = {x} THEN "locked" ELSE "lock"
    BY <1>1 DEF Edit, x
  <1>7. new \in Edit(new.rows) /\ IsEdit(new)
    <2>1. new \in Edit(r.rows)
      BY <1>1, <1>3 DEF Edit, x
    <2> QED
      BY <1>1, <1>5, <2>1 DEF IsEdit
  <1>8. \A y \in r.rows : new.seen[y] = IF y = x THEN RowOf(x) ELSE r.seen[y]
    BY <1>1, <1>5
  <1>9. EditSound(new)
    <2>1. \A y \in new.rows : new.seen[y] \in RowsFor(y)
      BY <1>3, <1>5, <1>8 DEF EditSound
    <2>2. new.phase = "lock" <=> new.todo # {}
      BY <1>2, <1>5
    <2>3. r.op \notin Creations
      BY DEF EditSound
    <2>4. \A y \in new.rows \ new.todo, z \in new.todo : Rank[y] < Rank[z]
      <3> TAKE y \in new.rows \ new.todo, z \in new.todo
      <3>1. z \in r.todo /\ z # x /\ z \in Ids /\ y \in Ids /\ x \in Ids
        BY <1>1, <1>2, <1>5
      <3>2. Rank[x] < Rank[z]
        BY <1>2, <1>4, <3>1
      <3>3. y # x => Rank[y] < Rank[z]
        BY <1>5, <3>1 DEF EditSound
      <3> QED
        BY <3>2, <3>3
    <2>5. new.phase \notin {"written", "saved"}
      BY <1>5
    <2> QED
      BY <1>5, <2>1, <2>2, <2>3, <2>4, <2>5 DEF EditSound
  <1>10. EditCurrent(new, RowTable)
    BY <1>3, <1>5, <1>8 DEF EditCurrent
  <1>11. HeldBy(new) \subseteq HeldBy(r) \cup {x}
    BY <1>1, <1>5 DEF HeldBy
  <1> QED
    BY <1>7, <1>9, <1>10, <1>11 DEF x

\* What an edit makes of a row it may change is a row of the same kind.
LEMMA EditedTyped ==
    ASSUME NEW r, IsEdit(r), EditSound(r), r.phase \in {"written", "saved"}, NEW x \in r.rows
    PROVE  Edited(r, r.seen[x]) \in RowsFor(x) \ {None}
  <1> DEFINE row == r.seen[x]
  <1>1. row \in RowsFor(x) /\ r.op \in Edits /\ x \in Ids /\ r.controls \in SUBSET Controls
    BY DEF EditSound, IsEdit, Edit
  <1>2. r.op \notin Creations => row # None
    BY DEF EditSound, Known
  <1>3. r.op \in NamingEdits => r.name \in Names
    BY DEF EditSound
  <1>4. /\ r.op \in ControlEdits => x \in Controls /\ x \notin Policies /\ x \notin Evidence
        /\ r.op \in EvidenceEdits => x \in Evidence /\ x \notin Policies
        /\ r.op \in PolicyEdits => x \in Policies
    BY IdsAreDistinct DEF EditSound
  <1>5. None \notin ControlRow /\ None \notin EvidenceRow /\ None \notin PolicyRow
    BY IdsAreDistinct
  <1> HIDE DEF row
  <1>6. CASE r.op \in ControlEdits
    <2>1. row \in ControlRow \/ r.op = "create_control"
      BY <1>1, <1>2, <1>4, <1>6 DEF RowsFor, Creations, ControlEdits
    <2>2. r.op \in NamingEdits
      BY <1>6 DEF NamingEdits, ControlEdits
    <2>3. Edited(r, row) \in ControlRow
      BY <1>3, <1>6, <2>1, <2>2 DEF Edited, ControlEdits, ControlRow, DefineControl, ReplaceControlRow
    <2> QED
      BY <1>4, <1>5, <1>6, <2>3 DEF RowsFor, row
  <1>7. CASE r.op \in EvidenceEdits
    <2>1. row \in EvidenceRow \/ r.op = "create_evidence"
      BY <1>1, <1>2, <1>4, <1>7 DEF RowsFor, Creations, EvidenceEdits
    <2>2. Edited(r, row) \in EvidenceRow
      BY <1>1, <1>7, <2>1 DEF Edited, EvidenceEdits, EvidenceRow, DefineEvidence, AddMappings, RemoveMappings
    <2> QED
      BY <1>4, <1>5, <1>7, <2>2 DEF RowsFor, row
  <1>8. CASE r.op \in PolicyEdits
    <2>1. row \in PolicyRow \/ r.op = "create_policy"
      BY <1>1, <1>2, <1>4, <1>8 DEF RowsFor, Creations, PolicyEdits
    <2>2. r.op \in {"create_policy", "replace_policy"} => r.name \in Names
      BY <1>3 DEF NamingEdits
    <2>3. Edited(r, row) \in PolicyRow
      BY <1>1, <1>8, <2>1, <2>2 DEF Edited, PolicyEdits, PolicyRow, DefinePolicy, ReplacePolicyRow,
                                    ArchivePolicyRow, AddMappings, RemoveMappings
    <2> QED
      BY <1>4, <1>5, <1>8, <2>3 DEF RowsFor, row
  <1> QED
    BY <1>1, <1>6, <1>7, <1>8 DEF Edits

\* A change of phase keeps a change what it was.
LEMMA Rephased ==
    ASSUME NEW r, IsEdit(r), r.phase # "lock", EditSound(r), NEW phase \in {"written", "saved"},
           phase = "written" => r.op \in NamingEdits, r.op \notin Creations => Known(r),
           r.op \in PolicyEdits \ Creations => Active(r),
           NEW rows, EditCurrent(r, rows),
           NEW new, new = [r EXCEPT !.phase = phase]
    PROVE  /\ IsEdit(new) /\ EditSound(new) /\ EditCurrent(new, rows) /\ HeldBy(new) = HeldBy(r)
           /\ new.op = r.op /\ new.rows = r.rows /\ new.todo = r.todo /\ new.controls = r.controls
           /\ new.name = r.name /\ new.seen = r.seen /\ new.phase = phase
  <1>1. r.rows \in SUBSET Ids /\ r \in Edit(r.rows) /\ r # Idle
    BY Kinds DEF IsEdit
  <1>2. /\ new.op = r.op /\ new.rows = r.rows /\ new.todo = r.todo /\ new.controls = r.controls
        /\ new.name = r.name /\ new.seen = r.seen /\ new.phase = phase
    BY <1>1 DEF Edit
  <1>3. IsEdit(new)
    BY <1>1 DEF IsEdit, Edit
  <1>4. EditSound(new)
    BY <1>2 DEF EditSound, Known, Active
  <1>5. EditCurrent(new, rows) /\ HeldBy(new) = HeldBy(r)
    BY <1>1, <1>2, <1>3, Kinds DEF EditCurrent, HeldBy
  <1> QED
    BY <1>2, <1>3, <1>4, <1>5

\* Only a change that takes a name can have a claim.
LEMMA OnlyNamingClaims ==
    ASSUME NEW r, IsEdit(r), EditSound(r), NEW x \in r.rows, Claimed(r, x) # None,
           r.op \notin Creations => r.seen[x] # None
    PROVE  r.op \in NamingEdits
  <1> DEFINE row == r.seen[x]
  <1>1. row \in RowsFor(x) /\ r.op \in Edits /\ x \in Ids
    BY DEF EditSound, IsEdit, Edit
  <1>2. SUFFICES ASSUME r.op \notin NamingEdits
                 PROVE  NameOf(x, Edited(r, row)) = None \/ NameOf(x, Edited(r, row)) = NameOf(x, row)
    BY DEF Claimed
  <1>3. /\ r.op \in EvidenceEdits => x \in Evidence
        /\ r.op \in PolicyEdits => x \in Policies
    BY IdsAreDistinct DEF EditSound
  <1>4. r.op \notin Creations => row # None
    OBVIOUS
  <1> HIDE DEF row
  <1>5. CASE r.op \in EvidenceEdits
    BY <1>3, <1>5 DEF NameOf
  <1>6. CASE r.op \in PolicyEdits
    <2>1. r.op \in {"archive_policy", "attach", "detach"} /\ x \in Policies /\ x \notin Controls /\ row \in PolicyRow
      BY <1>1, <1>2, <1>3, <1>4, <1>6, IdsAreDistinct DEF PolicyEdits, NamingEdits, Creations, RowsFor
    <2>2. r.op = "archive_policy" => Edited(r, row).archived
      BY <2>1 DEF Edited, ArchivePolicyRow, PolicyRow
    <2>3. r.op # "archive_policy" =>
             /\ Edited(r, row).archived = row.archived /\ Edited(r, row).name = row.name
             /\ Edited(r, row) \in [name : Names, mapped : {Edited(r, row).mapped}, archived : BOOLEAN]
      BY <2>1 DEF Edited, AddMappings, RemoveMappings, PolicyRow
    <2> QED
      BY <2>1, <2>2, <2>3, <1>4 DEF NameOf, Creations
  <1> QED
    BY <1>1, <1>2, <1>5, <1>6 DEF Edits, ControlEdits, NamingEdits

\* A request in a phase of a change is one, and sound.
LEMMA EditAt ==
    ASSUME Base, NEW s \in Slots, req[s].phase \in {"lock", "locked"} => req[s].op \in Edits,
           req[s].phase \in {"lock", "locked", "written", "saved"}
    PROVE  /\ IsEdit(req[s]) /\ EditSound(req[s]) /\ EditCurrent(req[s], RowTable)
           /\ Held(s) = HeldBy(req[s]) /\ HeldBy(req[s]) = req[s].rows \ req[s].todo
  <1>1. IsRequest(req[s]) /\ Sound(req[s], RowTable, doc, link, grant, login, session)
    BY DEF Base, RequestsTyped, RequestsSound
  <1>2. IsEdit(req[s])
    BY <1>1, Kinds DEF IsRequest, ClaimedPhases, VisitPhases, ReadPhases
  <1> QED
    BY <1>1, <1>2, Kinds DEF Sound, Held, HeldBy

\* LockRow takes a row nobody holds, in the order of ids, and reads it as it stands.
LEMMA LockRowKeepsBase ==
    ASSUME Base, NEW s \in Slots, LockRow(s), UNCHANGED <<sessionVars, auditorVars>>
    PROVE  Base'
  <1> DEFINE r == req[s]
             x == NextToLock(r)
             new == [r EXCEPT !.todo = @ \ {x}, !.seen[x] = RowOf(x),
                              !.phase = IF r.todo = {x} THEN "locked" ELSE @]
  <1>1. req' = [req EXCEPT ![s] = new] /\ r.phase = "lock" /\ r.op \in Edits /\ RowFree(s, x)
    BY DEF LockRow, Move
  <1>2. TablesTyped' /\ UNCHANGED soundVars
    BY TablesStand DEF LockRow, RowsStand, sessionVars, auditorVars, tableVars, soundVars, Base
  <1>3. /\ IsEdit(r) /\ EditSound(r) /\ EditCurrent(r, RowTable) /\ Held(s) = HeldBy(r)
    BY <1>1, EditAt
  <1>4. IsEdit(new) /\ EditSound(new) /\ EditCurrent(new, RowTable) /\ HeldBy(new) \subseteq HeldBy(r) \cup {x}
    BY <1>1, <1>3, LockedRow DEF Base
  <1> HIDE DEF new
  <1>5. Sound(new, RowTable, doc, link, grant, login, session) /\ IsRequest(new)
    BY <1>4, Kinds DEF Sound, IsRequest
  <1>6. \A t \in Slots \ {s} : HeldBy(new) \cap Held(t) = {}
    BY <1>1, <1>3, <1>4 DEF RowFree, Base, LocksExclusive
  <1> QED
    BY <1>1, <1>2, <1>5, <1>6, QuietStep

\* What a handler accepts, it knows; and a policy it changes is active.
LEMMA AcceptableKnown ==
    ASSUME NEW r, r.op \in Edits \ Creations, Acceptable(r)
    PROVE  Known(r) /\ (r.op \in PolicyEdits => Active(r))
  <1> USE DEF Acceptable, Creations, Edits, ControlEdits, EvidenceEdits, PolicyEdits
  <1>1. CASE r.op = "replace_control" BY <1>1 DEF MayReplaceControl
  <1>2. CASE r.op = "replace_policy" BY <1>2 DEF MayReplacePolicy
  <1>3. CASE r.op = "archive_policy" BY <1>3 DEF MayArchivePolicy
  <1>4. CASE r.op = "map" BY <1>4 DEF MayMap
  <1>5. CASE r.op = "unmap" BY <1>5 DEF MayUnmap
  <1>6. CASE r.op = "attach" BY <1>6 DEF MayAttach
  <1>7. CASE r.op = "detach" BY <1>7 DEF MayDetach
  <1> QED
    BY <1>1, <1>2, <1>3, <1>4, <1>5, <1>6, <1>7

\* SaveRows lets a change on only when its handler accepts what it has read.
LEMMA SaveRowsKeepsBase ==
    ASSUME Base, NEW s \in Slots, SaveRows(s), UNCHANGED <<sessionVars, auditorVars>>
    PROVE  Base'
  <1> DEFINE r == req[s]
             claims == \E x \in r.rows : Claimed(r, x) # None
             phase == IF claims THEN "written" ELSE "saved"
             new == [r EXCEPT !.phase = phase]
  <1>1. r.phase = "locked" /\ r.op \in Edits
    BY DEF SaveRows
  <1>2. TablesTyped' /\ UNCHANGED soundVars
    BY TablesStand DEF SaveRows, RowsStand, sessionVars, auditorVars, tableVars, soundVars, Base
  <1>3. IsEdit(r) /\ EditSound(r) /\ EditCurrent(r, RowTable) /\ Held(s) = HeldBy(r)
    BY <1>1, EditAt
  <1>4. CASE Answer(s)
    BY <1>2, <1>4, QuietAnswer
  <1>5. CASE Acceptable(r) /\ Move(s, new)
    <2>1. r.op \notin Creations => Known(r)
      BY <1>1, <1>5, AcceptableKnown
    <2>2. r.op \in PolicyEdits \ Creations => Active(r)
      BY <1>1, <1>5, AcceptableKnown
    <2>3. phase \in {"written", "saved"} /\ (phase = "written" => claims)
      OBVIOUS
    <2>4. phase = "written" => r.op \in NamingEdits
      BY <1>3, <2>1, <2>3, OnlyNamingClaims DEF Known
    <2> HIDE DEF phase
    <2>5. IsEdit(new) /\ EditSound(new) /\ EditCurrent(new, RowTable) /\ HeldBy(new) = HeldBy(r)
      BY <1>1, <1>3, <2>1, <2>2, <2>3, <2>4, Rephased
    <2>6. req' = [req EXCEPT ![s] = new]
      BY <1>5 DEF Move
    <2> HIDE DEF new
    <2>7. Sound(new, RowTable, doc, link, grant, login, session) /\ IsRequest(new)
      BY <2>5, Kinds DEF Sound, IsRequest
    <2>8. \A t \in Slots \ {s} : HeldBy(new) \cap Held(t) = {}
      BY <1>3, <2>5 DEF Base, LocksExclusive
    <2> QED
      BY <1>2, <2>6, <2>7, <2>8, QuietStep
  <1> QED
    BY <1>4, <1>5 DEF SaveRows

\* ClaimName moves the change or answers it.
LEMMA ClaimNameKeepsBase ==
    ASSUME Base, NEW s \in Slots, ClaimName(s), UNCHANGED <<sessionVars, auditorVars>>
    PROVE  Base'
  <1> DEFINE r == req[s]
             new == [r EXCEPT !.phase = "saved"]
  <1>1. r.phase = "written" /\ r.op \in Edits
    BY DEF ClaimName
  <1>2. TablesTyped' /\ UNCHANGED soundVars
    BY TablesStand DEF ClaimName, RowsStand, sessionVars, auditorVars, tableVars, soundVars, Base
  <1>3. IsEdit(r) /\ EditSound(r) /\ EditCurrent(r, RowTable) /\ Held(s) = HeldBy(r)
    BY <1>1, EditAt
  <1>4. CASE Answer(s)
    BY <1>2, <1>4, QuietAnswer
  <1>5. CASE Move(s, new)
    <2>1. (r.op \notin Creations => Known(r)) /\ (r.op \in PolicyEdits \ Creations => Active(r))
      BY <1>1, <1>3 DEF EditSound
    <2>2. IsEdit(new) /\ EditSound(new) /\ EditCurrent(new, RowTable) /\ HeldBy(new) = HeldBy(r)
      BY <1>1, <1>3, <2>1, Rephased
    <2>3. req' = [req EXCEPT ![s] = new]
      BY <1>5 DEF Move
    <2> HIDE DEF new
    <2>4. Sound(new, RowTable, doc, link, grant, login, session) /\ IsRequest(new)
      BY <2>2, Kinds DEF Sound, IsRequest
    <2>5. \A t \in Slots \ {s} : HeldBy(new) \cap Held(t) = {}
      BY <1>3, <2>2 DEF Base, LocksExclusive
    <2> QED
      BY <1>2, <2>3, <2>4, <2>5, QuietStep
  <1> QED
    BY <1>4, <1>5 DEF ClaimName

\* A commit writes the rows of its request and no other.
LEMMA CommitEffect ==
    ASSUME Base, NEW s \in Slots, CommitChange(s)
    PROVE  /\ \A x \in Ids : RowOf(x)' = IF x \in req[s].rows THEN Edited(req[s], req[s].seen[x]) ELSE RowOf(x)
           /\ control' \in [Controls -> ControlRow \cup {None}]
           /\ evidence' \in [Evidence -> EvidenceRow \cup {None}]
           /\ policy' \in [Policies -> PolicyRow \cup {None}]
           /\ \A p \in Policies : policy[p] # None => policy'[p] # None
           /\ Held(s) = req[s].rows /\ IsEdit(req[s]) /\ EditSound(req[s])
           /\ \A x \in req[s].rows : req[s].seen[x] = RowOf(x)
  <1> DEFINE r == req[s]
             Saved(rows) == [x \in DOMAIN rows |->
                                IF x \in r.rows THEN Edited(r, r.seen[x]) ELSE rows[x]]
  <1>1. /\ r.phase = "saved" /\ r.op \in Edits
        /\ control' = Saved(control) /\ evidence' = Saved(evidence) /\ policy' = Saved(policy)
    BY DEF CommitChange
  <1>2. IsEdit(r) /\ EditSound(r) /\ EditCurrent(r, RowTable) /\ Held(s) = r.rows \ r.todo
    BY <1>1, EditAt
  <1>3. Held(s) = r.rows /\ r.rows \subseteq Ids
    BY <1>1, <1>2 DEF EditSound, IsEdit
  <1>4. \A x \in r.rows : r.seen[x] = RowOf(x)
    BY <1>2, <1>3 DEF EditCurrent, RowTable
  <1>5. \A x \in r.rows : Edited(r, r.seen[x]) \in RowsFor(x) \ {None}
    BY <1>1, <1>2, EditedTyped
  <1>6. DOMAIN control = Controls /\ DOMAIN evidence = Evidence /\ DOMAIN policy = Policies
    BY DEF Base, TablesTyped
  <1> HIDE DEF r
  <1>7. /\ control' = [x \in Controls |-> IF x \in r.rows THEN Edited(r, r.seen[x]) ELSE control[x]]
        /\ evidence' = [x \in Evidence |-> IF x \in r.rows THEN Edited(r, r.seen[x]) ELSE evidence[x]]
        /\ policy' = [x \in Policies |-> IF x \in r.rows THEN Edited(r, r.seen[x]) ELSE policy[x]]
    BY <1>1, <1>6
  <1>8. \A x \in Ids : RowOf(x)' = IF x \in r.rows THEN Edited(r, r.seen[x]) ELSE RowOf(x)
    BY <1>7 DEF RowOf, Ids
  <1>9. /\ \A x \in Controls : control[x] \in ControlRow \cup {None}
        /\ \A x \in Evidence : evidence[x] \in EvidenceRow \cup {None}
        /\ \A x \in Policies : policy[x] \in PolicyRow \cup {None}
    BY DEF Base, TablesTyped
  <1>10. /\ \A x \in Controls : x \notin Policies /\ x \notin Evidence
         /\ \A x \in Evidence : x \notin Policies
    BY IdsAreDistinct
  <1>11. control' \in [Controls -> ControlRow \cup {None}]
    BY <1>5, <1>7, <1>9, <1>10 DEF RowsFor
  <1>12. evidence' \in [Evidence -> EvidenceRow \cup {None}]
    BY <1>5, <1>7, <1>9, <1>10 DEF RowsFor
  <1>13. policy' \in [Policies -> PolicyRow \cup {None}]
    BY <1>5, <1>7, <1>9 DEF RowsFor
  <1>14. \A p \in Policies : policy[p] # None => policy'[p] # None
    BY <1>5, <1>7
  <1> QED
    BY <1>2, <1>3, <1>4, <1>8, <1>11, <1>12, <1>13, <1>14 DEF r

\* CommitChange writes rows of their kind, and only rows it holds, so what other
\* changes have read under their locks stays current.
LEMMA CommitKeepsBase ==
    ASSUME Base, NEW s \in Slots, CommitChange(s), UNCHANGED <<sessionVars, auditorVars>>
    PROVE  Base'
  <1>1. /\ \A x \in Ids : x \notin req[s].rows => RowOf(x)' = RowOf(x)
        /\ Held(s) = req[s].rows
    BY CommitEffect
  <1>2. TablesTyped'
    BY CommitEffect DEF CommitChange, Base, TablesTyped, sessionVars, auditorVars
  <1>3. UNCHANGED <<doc, link, grant, login, session>>
    BY DEF CommitChange, sessionVars, auditorVars
  <1>4. ASSUME NEW t \in Slots \ {s}
        PROVE  Sound(req[t], RowTable', doc', link', grant', login', session')
    <2>1. Sound(req[t], RowTable, doc, link, grant, login, session) /\ Held(s) \cap Held(t) = {}
      BY DEF Base, RequestsSound, LocksExclusive
    <2>2. ASSUME IsEdit(req[t])
          PROVE  EditCurrent(req[t], RowTable')
      <3>1. Held(t) = req[t].rows \ req[t].todo /\ req[t].rows \subseteq Ids
        BY <2>2, Kinds DEF Held, IsEdit
      <3>2. \A x \in req[t].rows \ req[t].todo : RowTable'[x] = RowTable[x]
        BY <1>1, <2>1, <3>1 DEF RowTable
      <3> QED
        BY <2>1, <2>2, <3>2 DEF Sound, EditCurrent
    <2> QED
      BY <1>3, <2>1, <2>2 DEF Sound
  <1>5. req' = [req EXCEPT ![s] = Idle]
    BY DEF CommitChange, Answer
  <1> QED
    BY <1>2, <1>4, <1>5, IdleSound, SlotStep

\* The steps of changes keep the base invariant.
LEMMA CatalogueKeepsBase ==
    ASSUME Base, CatalogueStep, UNCHANGED <<sessionVars, auditorVars>>
    PROVE  Base'
  <1>1. ASSUME NEW s \in Slots, Abandon(s)
        PROVE  Base'
    BY <1>1, QuietAnswer, TablesStand DEF Abandon, RowsStand, sessionVars, auditorVars, tableVars, soundVars, Base
  <1> QED
    BY <1>1, AskForChangeKeepsBase, LockRowKeepsBase, SaveRowsKeepsBase, ClaimNameKeepsBase, CommitKeepsBase
       DEF CatalogueStep

\* The clock touches no table and no request.
LEMMA TickKeepsBase ==
    ASSUME Base, Tick, UNCHANGED <<sessionVars, auditorVars>>
    PROVE  Base'
  <1>1. TablesTyped'
    BY CatalogueAssumption DEF Base, TablesTyped, Tick, sessionVars, auditorVars
  <1>2. RowTable' = RowTable /\ UNCHANGED <<req, doc, link, grant, login, session>>
    BY SameRows DEF Tick, sessionVars, auditorVars
  <1> QED
    BY <1>1, <1>2, TableStep DEF Base, RequestsSound

-----------------------------------------------------------------------------
(* Tables that only gain rows leave the requests sound.                     *)

DocumentsGrow(dc, dc2) ==
    \A d \in Documents : dc[d] # None =>
        dc2[d] # None /\ dc2[d].owner = dc[d].owner /\ dc2[d].window = dc[d].window

LinksGrow(lk, lk2) ==
    \A l \in Links : lk[l] # None =>
        lk2[l] # None /\ lk2[l].target = lk[l].target /\ lk2[l].window = lk[l].window

\* A request stays sound when documents are added or settled.
LEMMA SoundAsDocumentsGrow ==
    ASSUME NEW r, NEW rows, NEW dc, NEW dc2, NEW lk, NEW gr, NEW lg, NEW ss,
           Sound(r, rows, dc, lk, gr, lg, ss), DocumentsGrow(dc, dc2)
    PROVE  Sound(r, rows, dc2, lk, gr, lg, ss)
  <1>1. BrowserSound(r, dc, lk) => BrowserSound(r, dc2, lk)
    BY DEF BrowserSound, DocumentsGrow
  <1> QED
    BY <1>1 DEF Sound

\* A request stays sound when links are issued or redeemed, unless it has read the
\* link that changes.
LEMMA SoundAsLinksGrow ==
    ASSUME NEW r, NEW rows, NEW dc, NEW lk, NEW lk2, NEW gr, NEW lg, NEW ss,
           Sound(r, rows, dc, lk, gr, lg, ss), LinksGrow(lk, lk2),
           r \in Browser /\ r.op = "open" /\ r.phase = "locked" => lk2[r.link] = lk[r.link]
    PROVE  Sound(r, rows, dc, lk2, gr, lg, ss)
  <1>1. r \in Browser /\ BrowserSound(r, dc, lk) => BrowserSound(r, dc, lk2)
    BY DEF BrowserSound, LinksGrow, SessionOps
  <1> QED
    BY <1>1 DEF Sound

\* A request stays sound when grants are made or revoked, unless it has read the
\* grant that changes.
LEMMA SoundAsGrantsGrow ==
    ASSUME NEW r, NEW rows, NEW dc, NEW lk, NEW gr, NEW gr2, NEW lg, NEW ss,
           Sound(r, rows, dc, lk, gr, lg, ss), \A g \in Grants : gr[g] # None => gr2[g] # None,
           r \in Audit /\ r.op = "revoke_grant" /\ r.phase = "locked" => gr2[r.grant] = gr[r.grant]
    PROVE  Sound(r, rows, dc, lk, gr2, lg, ss)
  <1>1. r \in Audit => r.grant \in Grants
    BY DEF Audit
  <1>2. r \in Audit /\ AuditSound(r, gr, lg, ss) => AuditSound(r, gr2, lg, ss)
    BY <1>1 DEF AuditSound
  <1> QED
    BY <1>2 DEF Sound

\* A request stays sound when logins are begun or claimed, unless it has read the
\* login that changes.
LEMMA SoundAsLoginsGrow ==
    ASSUME NEW r, NEW rows, NEW dc, NEW lk, NEW gr, NEW lg, NEW lg2, NEW ss,
           Sound(r, rows, dc, lk, gr, lg, ss), \A t \in Logins : lg[t] # None => lg2[t] # None,
           r \in Audit /\ r.op = "callback" /\ r.phase = "locked" => lg2[r.key] = lg[r.key]
    PROVE  Sound(r, rows, dc, lk, gr, lg2, ss)
  <1>1. r \in Audit /\ AuditSound(r, gr, lg, ss) => AuditSound(r, gr, lg2, ss)
    BY DEF AuditSound
  <1> QED
    BY <1>1 DEF Sound

\* A request stays sound when sessions are made or revoked, unless it has read the
\* session that changes.
LEMMA SoundAsSessionsGrow ==
    ASSUME NEW r, NEW rows, NEW dc, NEW lk, NEW gr, NEW lg, NEW ss, NEW ss2,
           Sound(r, rows, dc, lk, gr, lg, ss), \A v \in Sessions : ss[v] # None => ss2[v] # None,
           r \in Audit /\ r.op = "logout" /\ r.phase = "locked" => ss2[r.key] = ss[r.key]
    PROVE  Sound(r, rows, dc, lk, gr, lg, ss2)
  <1>1. r \in Audit /\ AuditSound(r, gr, lg, ss) => AuditSound(r, gr, lg, ss2)
    BY DEF AuditSound
  <1> QED
    BY <1>1 DEF Sound

-----------------------------------------------------------------------------
(* The requests of browsers keep the base invariant.                        *)

\* A browser's request begins with nothing locked.
LEMMA BrowserBegins ==
    ASSUME Base, NEW s \in Slots, NEW op \in UploadOps,
           NEW phase \in {"lock", "locked", "staged", "decided", "fetch", "served"},
           NEW rows \in SUBSET (Links \cup Policies), NEW l \in Links \cup {None}, NEW d \in Documents \cup {None},
           BrowserSound(Request(op, phase, rows, l, d), doc, link),
           BeginUpload(s, Request(op, phase, rows, l, d)), UNCHANGED auditorVars
    PROVE  Base'
  <1> DEFINE r == Request(op, phase, rows, l, d)
  <1>1. r \in Browser /\ r.rows = rows /\ r.todo = rows
    BY DEF Request, Browser
  <1>2. req' = [req EXCEPT ![s] = r]
    BY DEF BeginUpload, Begin
  <1>3. TablesTyped' /\ UNCHANGED soundVars
    BY TablesStand DEF BeginUpload, SessionsStand, auditorVars, tableVars, soundVars, Base
  <1> HIDE DEF r
  <1>4. IsRequest(r) /\ Sound(r, RowTable, doc, link, grant, login, session)
    BY <1>1, Kinds DEF IsRequest, Sound, r
  <1>5. HeldBy(r) = {}
    BY <1>1 DEF HeldBy
  <1> QED
    BY <1>2, <1>3, <1>4, <1>5, QuietStep

\* The link or the policy of a browser's request.
LEMMA LinkFields ==
    ASSUME TablesTyped, NEW l \in Links, link[l] # None
    PROVE  /\ link[l] \in Link /\ link[l].target \in Policies \cup Evidence
           /\ link[l].target \in Evidence => link[l] \in EvidenceLink /\ link[l].window \in Windows
           /\ link[l].target \in Policies => link[l] \in PolicyLink /\ link[l].window = None
  <1>1. link[l] \in Link
    BY DEF TablesTyped
  <1>2. link[l] \in EvidenceLink => link[l].target \in Evidence /\ link[l].window \in Windows
    BY DEF EvidenceLink
  <1>3. link[l] \in PolicyLink => link[l].target \in Policies /\ link[l].window = None
    BY DEF PolicyLink
  <1> QED
    BY <1>1, <1>2, <1>3, IdsAreDistinct DEF Link

\* A document of a policy has no window, one of evidence has one.
LEMMA DocumentFields ==
    ASSUME TablesTyped, NEW d \in Documents, doc[d] # None
    PROVE  /\ doc[d] \in DocumentRow /\ doc[d].owner \in Policies \cup Evidence
           /\ doc[d].owner \in Policies => doc[d].window = None /\ doc[d] \in PolicyDocument
           /\ doc[d].owner \in Evidence => doc[d].window \in Windows /\ doc[d] \in EvidenceDocument
           /\ doc[d].archived \in BOOLEAN /\ doc[d].status \in InProgress \cup Terminal
  <1>1. doc[d] \in DocumentRow
    BY DEF TablesTyped
  <1>2. doc[d] \in PolicyDocument => /\ doc[d].owner \in Policies /\ doc[d].window = None
                                     /\ doc[d].archived \in BOOLEAN /\ doc[d].status \in InProgress \cup Terminal
    BY DEF PolicyDocument
  <1>3. doc[d] \in EvidenceDocument => /\ doc[d].owner \in Evidence /\ doc[d].window \in Windows
                                       /\ doc[d].archived \in BOOLEAN /\ doc[d].status \in InProgress \cup Terminal
    BY DEF EvidenceDocument
  <1> QED
    BY <1>1, <1>2, <1>3, IdsAreDistinct DEF DocumentRow

\* Every request of a browser begins sound.
LEMMA AskingBrowserKeepsBase ==
    ASSUME Base, NEW s \in Slots, NEW l \in Links, UNCHANGED auditorVars,
           \/ OpenUploadSession(s, l) \/ OpenPolicyUploadSession(s, l)
           \/ UploadEvidenceFile(s, l) \/ UploadPolicyFile(s, l)
           \/ \E d \in Documents :
                 ArchiveEvidenceFile(s, l, d) \/ ArchivePolicyFile(s, l, d) \/ DownloadPolicyFile(s, l, d)
    PROVE  Base'
  <1>1. TablesTyped
    BY DEF Base
  <1>2. CASE OpenUploadSession(s, l) \/ OpenPolicyUploadSession(s, l)
    <2>1. BeginUpload(s, Request("open", "lock", {l}, l, None)) /\ link[l] # None
      BY <1>2 DEF OpenUploadSession, OpenPolicyUploadSession
    <2>2. BrowserSound(Request("open", "lock", {l}, l, None), doc, link)
      BY <2>1 DEF BrowserSound, Request, SessionOps
    <2> QED
      BY <2>1, <2>2, BrowserBegins DEF UploadOps
  <1>3. CASE UploadEvidenceFile(s, l)
    <2>1. /\ BeginUpload(s, Request("upload", "staged", {}, l, None)) /\ link[l] # None
          /\ link[l].target \in Evidence
      BY <1>3 DEF UploadEvidenceFile
    <2>2. BrowserSound(Request("upload", "staged", {}, l, None), doc, link)
      BY <2>1 DEF BrowserSound, Request, SessionOps
    <2> QED
      BY <2>1, <2>2, BrowserBegins DEF UploadOps, SessionOps
  <1>4. CASE UploadPolicyFile(s, l)
    <2> DEFINE p == link[l].target
    <2>1. /\ BeginUpload(s, Request("upload_policy", "lock", {p}, l, None)) /\ link[l] # None /\ p \in Policies
      BY <1>4 DEF UploadPolicyFile
    <2>2. BrowserSound(Request("upload_policy", "lock", {p}, l, None), doc, link)
      BY <2>1 DEF BrowserSound, Request, SessionOps
    <2> HIDE DEF p
    <2> QED
      BY <2>1, <2>2, BrowserBegins DEF UploadOps, SessionOps
  <1>5. ASSUME NEW d \in Documents, ArchiveEvidenceFile(s, l, d) \/ ArchivePolicyFile(s, l, d)
        PROVE  Base'
    <2>1. /\ BeginUpload(s, Request("archive", "decided", {}, l, d)) /\ link[l] # None /\ doc[d] # None
          /\ doc[d].owner = link[l].target
      BY <1>5 DEF ArchiveEvidenceFile, ArchivePolicyFile, SessionOwnsDocument
    <2>2. doc[d].window = link[l].window
      BY <1>1, <1>5, <2>1, LinkFields, DocumentFields DEF ArchiveEvidenceFile, ArchivePolicyFile, SessionOwnsDocument
    <2>3. BrowserSound(Request("archive", "decided", {}, l, d), doc, link)
      BY <2>1, <2>2 DEF BrowserSound, Request, SessionOps
    <2> QED
      BY <2>1, <2>3, BrowserBegins DEF UploadOps, SessionOps
  <1>6. ASSUME NEW d \in Documents, DownloadPolicyFile(s, l, d)
        PROVE  Base'
    <2>1. /\ BeginUpload(s, Request("fetch_policy", "fetch", {}, l, d)) /\ link[l] # None
      BY <1>6 DEF DownloadPolicyFile
    <2>2. BrowserSound(Request("fetch_policy", "fetch", {}, l, d), doc, link)
      BY <2>1 DEF BrowserSound, Request, SessionOps
    <2> QED
      BY <2>1, <2>2, BrowserBegins DEF UploadOps, SessionOps
  <1> QED
    BY <1>2, <1>3, <1>4, <1>5, <1>6

\* A download link begins a sound request.
LEMMA TicketKeepsBase ==
    ASSUME Base, NEW s \in Slots, NEW k \in tickets, RedeemDownloadGrant(s, k), UNCHANGED auditorVars
    PROVE  Base'
  <1>1. BeginUpload(s, Request("fetch", "fetch", {}, None, k.doc)) /\ k.doc \in Documents
    BY DEF RedeemDownloadGrant, Base, TablesTyped, Ticket
  <1>2. BrowserSound(Request("fetch", "fetch", {}, None, k.doc), doc, link)
    BY <1>1 DEF BrowserSound, Request, SessionOps
  <1> QED
    BY <1>1, <1>2, BrowserBegins DEF UploadOps

\* A browser's request is known by its operation, or by a phase only it has.
LEMMA BrowserAt ==
    ASSUME Base, NEW s \in Slots,
           \/ req[s].phase \in {"lock", "locked"} /\ req[s].op \in UploadOps
           \/ req[s].phase \in {"staged", "decided", "fetch", "served"}
    PROVE  /\ req[s] \in Browser /\ BrowserSound(req[s], doc, link)
           /\ Held(s) = HeldBy(req[s]) /\ HeldBy(req[s]) = req[s].rows \ req[s].todo
  <1>1. IsRequest(req[s]) /\ Sound(req[s], RowTable, doc, link, grant, login, session)
    BY DEF Base, RequestsTyped, RequestsSound
  <1>2. req[s] \in Browser
    BY <1>1, Kinds DEF IsRequest, ClaimedPhases, VisitPhases, ReadPhases, Edits, ControlEdits, EvidenceEdits,
                       PolicyEdits, UploadOps, SessionOps
  <1> QED
    BY <1>1, <1>2, Kinds DEF Sound, Held, HeldBy

\* LockLink takes a link nobody holds and reads it as it stands.
LEMMA LockLinkKeepsBase ==
    ASSUME Base, NEW s \in Slots, LockLink(s), UNCHANGED auditorVars
    PROVE  Base'
  <1> DEFINE r == req[s]
             row == link[r.link]
             new == [r EXCEPT !.phase = "locked", !.todo = {}, !.seen = row]
  <1>1. req' = [req EXCEPT ![s] = new] /\ r.phase = "lock" /\ r.op = "open" /\ LinkFree(s, r.link)
    BY DEF LockLink, Move
  <1>2. TablesTyped' /\ UNCHANGED soundVars
    BY TablesStand DEF LockLink, RowsStand, SessionsStand, auditorVars, tableVars, soundVars, Base
  <1>3. r \in Browser /\ BrowserSound(r, doc, link)
    BY <1>1, BrowserAt DEF UploadOps
  <1>4. r.link \in Links /\ row \in Link \cup PolicyRow \cup {None} /\ row # None /\ r.rows = {r.link}
    BY <1>1, <1>3 DEF BrowserSound, Base, TablesTyped
  <1> HIDE DEF r, row
  <1>5. /\ new \in Browser /\ new.op = r.op /\ new.rows = r.rows /\ new.link = r.link /\ new.doc = r.doc
        /\ new.phase = "locked" /\ new.todo = {} /\ new.seen = row
    BY <1>3, <1>4 DEF Browser
  <1> HIDE DEF new
  <1>6. BrowserSound(new, doc, link)
    BY <1>1, <1>4, <1>5 DEF BrowserSound, SessionOps, row
  <1>7. Sound(new, RowTable, doc, link, grant, login, session) /\ IsRequest(new)
    BY <1>5, <1>6, Kinds DEF Sound, IsRequest
  <1>8. \A t \in Slots \ {s} : HeldBy(new) \cap Held(t) = {}
    BY <1>1, <1>4, <1>5 DEF LinkFree, HeldBy
  <1> QED
    BY <1>1, <1>2, <1>7, <1>8, QuietStep

\* LockPolicyForUpload takes a policy nobody holds and reads it as it stands.
LEMMA LockPolicyForUploadKeepsBase ==
    ASSUME Base, NEW s \in Slots, LockPolicyForUpload(s), UNCHANGED auditorVars
    PROVE  Base'
  <1> DEFINE r == req[s]
             p == link[r.link].target
             row == policy[p]
             new == [r EXCEPT !.phase = "locked", !.todo = {}, !.seen = row]
  <1>1. req' = [req EXCEPT ![s] = new] /\ r.phase = "lock" /\ r.op = "upload_policy" /\ RowFree(s, p)
    BY DEF LockPolicyForUpload, Move
  <1>2. TablesTyped' /\ UNCHANGED soundVars
    BY TablesStand DEF LockPolicyForUpload, RowsStand, SessionsStand, auditorVars, tableVars, soundVars, Base
  <1>3. r \in Browser /\ BrowserSound(r, doc, link)
    BY <1>1, BrowserAt DEF UploadOps, SessionOps
  <1>4. r.link \in Links /\ link[r.link] # None /\ p \in Policies /\ r.rows = {p}
    BY <1>1, <1>3 DEF BrowserSound, SessionOps
  <1>5. row \in PolicyRow \cup {None}
    BY <1>4 DEF Base, TablesTyped
  <1> HIDE DEF r, row
  <1>6. /\ new \in Browser /\ new.op = r.op /\ new.rows = r.rows /\ new.link = r.link /\ new.doc = r.doc
        /\ new.phase = "locked" /\ new.todo = {} /\ new.seen = row
    BY <1>3, <1>5 DEF Browser
  <1> HIDE DEF new
  <1>7. BrowserSound(new, doc, link)
    BY <1>1, <1>4, <1>5, <1>6 DEF BrowserSound, SessionOps
  <1>8. Sound(new, RowTable, doc, link, grant, login, session) /\ IsRequest(new)
    BY <1>6, <1>7, Kinds DEF Sound, IsRequest
  <1>9. \A t \in Slots \ {s} : HeldBy(new) \cap Held(t) = {}
    BY <1>1, <1>4, <1>6 DEF RowFree, HeldBy
  <1> QED
    BY <1>1, <1>2, <1>8, <1>9, QuietStep

\* StreamDocument moves the request or answers it.
LEMMA StreamDocumentKeepsBase ==
    ASSUME Base, NEW s \in Slots, StreamDocument(s), UNCHANGED auditorVars
    PROVE  Base'
  <1> DEFINE r == req[s]
             new == [r EXCEPT !.phase = "served"]
  <1>1. r.phase = "fetch"
    BY DEF StreamDocument
  <1>2. TablesTyped' /\ UNCHANGED soundVars
    BY TablesStand DEF StreamDocument, RowsStand, SessionsStand, auditorVars, tableVars, soundVars, Base
  <1>3. r \in Browser /\ BrowserSound(r, doc, link) /\ Held(s) = HeldBy(r) /\ r # Idle
    BY <1>1, BrowserAt, Kinds
  <1>4. CASE Answer(s)
    BY <1>2, <1>4, QuietAnswer
  <1>5. CASE Move(s, new)
    <2>1. req' = [req EXCEPT ![s] = new]
      BY <1>5 DEF Move
    <2>2. /\ new \in Browser /\ new.op = r.op /\ new.rows = r.rows /\ new.link = r.link /\ new.doc = r.doc
          /\ new.phase = "served" /\ new.todo = r.todo /\ new.seen = r.seen
      BY <1>3 DEF Browser
    <2> HIDE DEF new
    <2>3. BrowserSound(new, doc, link)
      BY <1>1, <1>3, <2>2 DEF BrowserSound, SessionOps, Browser, UploadOps
    <2>4. Sound(new, RowTable, doc, link, grant, login, session) /\ IsRequest(new) /\ HeldBy(new) = HeldBy(r)
      BY <1>3, <2>2, <2>3, Kinds DEF Sound, IsRequest, HeldBy
    <2> QED
      BY <1>2, <1>3, <2>1, <2>4, QuietStep DEF Base, LocksExclusive
  <1> QED
    BY <1>4, <1>5 DEF StreamDocument

\* Redeeming a link changes that link alone, and only that it is redeemed.
LEMMA RedeemEffect ==
    ASSUME Base, NEW s \in Slots, RedeemGrant(s)
    PROVE  /\ req[s] \in Browser /\ req[s].link \in Links /\ link[req[s].link] \in Link /\ link[req[s].link] # None
           /\ link' \in [Links -> Link \cup {None}] /\ opened' \in [Links -> Nat] /\ LinksGrow(link, link')
           /\ \A l \in Links \ {req[s].link} : link'[l] = link[l] /\ opened'[l] = opened[l]
           /\ req[s].seen = link[req[s].link] /\ Held(s) = {req[s].link}
           /\ MayRedeem(link[req[s].link], clock) =>
                 /\ link'[req[s].link].issued = link[req[s].link].issued
                 /\ link'[req[s].link].expires = link[req[s].link].expires
                 /\ link'[req[s].link].redeemed = clock /\ link'[req[s].link] # None
                 /\ opened'[req[s].link] = opened[req[s].link] + 1
           /\ ~MayRedeem(link[req[s].link], clock) => UNCHANGED <<link, opened>>
  <1> DEFINE r == req[s]
             l == r.link
             v == link[l]
             new == [v EXCEPT !.redeemed = clock]
  <1>1. r.phase = "locked" /\ r.op = "open"
    BY DEF RedeemGrant
  <1>2. r \in Browser /\ BrowserSound(r, doc, link) /\ Held(s) = r.rows \ r.todo
    BY <1>1, BrowserAt DEF UploadOps
  <1>3. l \in Links /\ v # None /\ r.seen = v /\ r.rows = {l} /\ r.todo = {}
    BY <1>1, <1>2 DEF BrowserSound
  <1>4. v \in Link /\ link \in [Links -> Link \cup {None}] /\ opened \in [Links -> Nat] /\ clock \in Nat
    BY <1>3, CatalogueAssumption DEF Base, TablesTyped
  <1>5. IF MayRedeem(v, clock)
        THEN link' = [link EXCEPT ![l] = new] /\ opened' = [opened EXCEPT ![l] = @ + 1]
        ELSE UNCHANGED <<link, opened>>
    BY <1>3 DEF RedeemGrant, Redeem
  <1> HIDE DEF r, l, v
  <1>6. /\ new \in Link /\ new.target = v.target /\ new.window = v.window /\ new.issued = v.issued
        /\ new.expires = v.expires /\ new.redeemed = clock
    BY <1>4 DEF Link, EvidenceLink, PolicyLink
  <1>7. new # None
    BY <1>6, NoneIsNoLink DEF Link
  <1> HIDE DEF new
  <1>8. link' \in [Links -> Link \cup {None}] /\ opened' \in [Links -> Nat]
    BY <1>3, <1>4, <1>5, <1>6
  <1>9. \A k \in Links \ {l} : link'[k] = link[k] /\ opened'[k] = opened[k]
    BY <1>4, <1>5
  <1>10. MayRedeem(v, clock) => link'[l] = new /\ opened'[l] = opened[l] + 1
    BY <1>3, <1>4, <1>5
  <1>11. ~MayRedeem(v, clock) => UNCHANGED <<link, opened>>
    BY <1>5
  <1>12. LinksGrow(link, link')
    BY <1>6, <1>7, <1>9, <1>10, <1>11 DEF LinksGrow, v
  <1> QED
    BY <1>2, <1>3, <1>4, <1>6, <1>7, <1>8, <1>9, <1>10, <1>11, <1>12 DEF r, l, v

\* RedeemGrant writes only the link it holds.
LEMMA RedeemGrantKeepsBase ==
    ASSUME Base, NEW s \in Slots, RedeemGrant(s), UNCHANGED auditorVars
    PROVE  Base'
  <1>1. /\ LinksGrow(link, link') /\ Held(s) = {req[s].link}
        /\ \A l \in Links \ {req[s].link} : link'[l] = link[l]
    BY RedeemEffect
  <1>2. TablesTyped'
    BY RedeemEffect DEF RedeemGrant, RowsStand, auditorVars, Base, TablesTyped
  <1>3. RowTable' = RowTable /\ UNCHANGED <<doc, grant, login, session>> /\ req' = [req EXCEPT ![s] = Idle]
    BY SameRows DEF RedeemGrant, RowsStand, auditorVars, Answer
  <1>4. ASSUME NEW t \in Slots \ {s}
        PROVE  Sound(req[t], RowTable', doc', link', grant', login', session')
    <2>1. Sound(req[t], RowTable, doc, link, grant, login, session) /\ Held(s) \cap Held(t) = {}
      BY DEF Base, RequestsSound, LocksExclusive
    <2>2. req[t] \in Browser /\ req[t].op = "open" /\ req[t].phase = "locked" =>
             req[t].link \in Links /\ Held(t) = {req[t].link}
      BY <2>1, Kinds DEF Sound, BrowserSound, Held
    <2>3. Sound(req[t], RowTable, doc, link', grant, login, session)
      BY <1>1, <2>1, <2>2, SoundAsLinksGrow
    <2> QED
      BY <1>3, <2>3
  <1> QED
    BY <1>2, <1>3, <1>4, IdleSound, SlotStep

\* Issuing a link adds a row.
LEMMA IssueEffect ==
    ASSUME Base, NEW l \in Links, link[l] = None, NEW v \in Link, link' = [link EXCEPT ![l] = v]
    PROVE  /\ link' \in [Links -> Link \cup {None}] /\ LinksGrow(link, link') /\ link'[l] = v /\ v # None
           /\ \A k \in Links \ {l} : link'[k] = link[k]
  <1>1. link \in [Links -> Link \cup {None}] /\ v # None
    BY NoneIsNoLink DEF Base, TablesTyped, Link
  <1> QED
    BY <1>1 DEF LinksGrow

\* A new link disturbs no request: none has one that was not there.
LEMMA LinkStepKeepsBase ==
    ASSUME Base, NEW l \in Links, link[l] = None, NEW v \in Link, link' = [link EXCEPT ![l] = v],
           UNCHANGED <<clock, control, evidence, policy, doc, req, opened, tickets, auditorVars>>
    PROVE  Base'
  <1>1. link' \in [Links -> Link \cup {None}] /\ LinksGrow(link, link') /\ \A k \in Links \ {l} : link'[k] = link[k]
    BY IssueEffect
  <1>2. TablesTyped'
    BY <1>1 DEF Base, TablesTyped, auditorVars
  <1>3. RowTable' = RowTable /\ UNCHANGED <<doc, grant, login, session>>
    BY SameRows DEF auditorVars
  <1>4. ASSUME NEW t \in Slots
        PROVE  Sound(req[t], RowTable', doc', link', grant', login', session')
    <2>1. Sound(req[t], RowTable, doc, link, grant, login, session)
      BY DEF Base, RequestsSound
    <2>2. req[t] \in Browser /\ req[t].op = "open" => req[t].link \in Links \ {l}
      BY <2>1 DEF Sound, BrowserSound
    <2>3. Sound(req[t], RowTable, doc, link', grant, login, session)
      BY <1>1, <2>1, <2>2, SoundAsLinksGrow
    <2> QED
      BY <1>3, <2>3
  <1> QED
    BY <1>2, <1>4, TableStep

\* Issuing a link keeps the base invariant.
LEMMA IssueKeepsBase ==
    ASSUME Base, NEW l \in Links, UNCHANGED auditorVars,
           \/ \E e \in Evidence, w \in Windows : ManageEvidenceSubmissions(l, e, w)
           \/ \E p \in Policies : ManagePolicyDocument(l, p)
    PROVE  Base'
  <1>1. clock \in Nat /\ GrantTtl \in Nat
    BY CatalogueAssumption, SessionsAssumption DEF Base, TablesTyped
  <1>2. ASSUME NEW e \in Evidence, NEW w \in Windows, ManageEvidenceSubmissions(l, e, w)
        PROVE  Base'
    <2>1. IssueEvidenceGrant(e, w, clock) \in Link
      BY <1>1 DEF IssueEvidenceGrant, Link, EvidenceLink
    <2> QED
      BY <1>2, <2>1, LinkStepKeepsBase DEF ManageEvidenceSubmissions
  <1>3. ASSUME NEW p \in Policies, ManagePolicyDocument(l, p)
        PROVE  Base'
    <2>1. IssuePolicyGrant(p, clock) \in Link
      BY <1>1 DEF IssuePolicyGrant, Link, PolicyLink
    <2> QED
      BY <1>3, <2>1, LinkStepKeepsBase DEF ManagePolicyDocument
  <1> QED
    BY <1>2, <1>3

\* A step that only changes documents, in no way that unmakes one.
LEMMA DocumentStepKeepsBase ==
    ASSUME Base, doc' \in [Documents -> DocumentRow \cup {None}], DocumentsGrow(doc, doc'),
           UNCHANGED <<clock, control, evidence, policy, sessionVars, auditorVars>>,
           UNCHANGED req \/ \E s \in Slots : Answer(s)
    PROVE  Base'
  <1>1. TablesTyped'
    BY DEF Base, TablesTyped, sessionVars, auditorVars
  <1>2. RowTable' = RowTable /\ UNCHANGED <<link, grant, login, session>>
    BY SameRows DEF sessionVars, auditorVars
  <1>3. ASSUME NEW t \in Slots
        PROVE  Sound(req[t], RowTable', doc', link', grant', login', session')
    <2>1. Sound(req[t], RowTable, doc, link, grant, login, session)
      BY DEF Base, RequestsSound
    <2>2. Sound(req[t], RowTable, doc', link, grant, login, session)
      BY <2>1, SoundAsDocumentsGrow
    <2> QED
      BY <1>2, <2>2
  <1>4. ASSUME NEW s \in Slots, Answer(s)
        PROVE  Base'
    <2>1. req' = [req EXCEPT ![s] = Idle]
      BY <1>4 DEF Answer
    <2> QED
      BY <1>1, <1>3, <2>1, IdleSound, SlotStep
  <1> QED
    BY <1>1, <1>3, <1>4, TableStep

\* One document is changed: a new row, or a row whose owner and window stay.
LEMMA DocumentUpdate ==
    ASSUME TablesTyped, NEW d \in Documents, NEW v \in DocumentRow, doc' = [doc EXCEPT ![d] = v],
           doc[d] = None \/ (v.owner = doc[d].owner /\ v.window = doc[d].window)
    PROVE  /\ doc' \in [Documents -> DocumentRow \cup {None}] /\ DocumentsGrow(doc, doc')
           /\ doc'[d] = v /\ v # None /\ \A e \in Documents \ {d} : doc'[e] = doc[e]
  <1>1. doc \in [Documents -> DocumentRow \cup {None}] /\ v # None
    BY IdsAreDistinct DEF TablesTyped
  <1> QED
    BY <1>1 DEF DocumentsGrow

\* Settling and archiving a document change its status and its mark.
LEMMA DocumentMarked ==
    ASSUME TablesTyped, NEW d \in Documents, doc[d] # None
    PROVE  /\ [doc[d] EXCEPT !.archived = TRUE] \in DocumentRow
           /\ [doc[d] EXCEPT !.archived = TRUE].owner = doc[d].owner
           /\ [doc[d] EXCEPT !.archived = TRUE].window = doc[d].window
           /\ [doc[d] EXCEPT !.archived = TRUE].status = doc[d].status
           /\ [doc[d] EXCEPT !.archived = TRUE].archived = TRUE
           /\ \A status \in Terminal :
                 /\ [doc[d] EXCEPT !.status = status] \in DocumentRow
                 /\ [doc[d] EXCEPT !.status = status].owner = doc[d].owner
                 /\ [doc[d] EXCEPT !.status = status].window = doc[d].window
                 /\ [doc[d] EXCEPT !.status = status].status = status
                 /\ [doc[d] EXCEPT !.status = status].archived = doc[d].archived
  <1> DEFINE v == doc[d]
  <1>1. v \in EvidenceDocument \/ v \in PolicyDocument
    BY DEF TablesTyped, DocumentRow
  <1> HIDE DEF v
  <1>2. CASE v \in EvidenceDocument
    BY <1>2 DEF EvidenceDocument, DocumentRow, v
  <1>3. CASE v \in PolicyDocument
    BY <1>3 DEF PolicyDocument, DocumentRow, v
  <1> QED
    BY <1>1, <1>2, <1>3

\* CreateSubmission makes one document, of the evidence and window of its link.
LEMMA CreateSubmissionEffect ==
    ASSUME Base, NEW s \in Slots, NEW d \in Documents, CreateSubmission(s, d)
    PROVE  /\ doc' \in [Documents -> DocumentRow \cup {None}] /\ DocumentsGrow(doc, doc')
           /\ \A e \in Documents \ {d} : doc'[e] = doc[e]
           /\ doc[d] = None /\ doc'[d].owner \in Evidence /\ ~doc'[d].archived
           /\ req[s] # Idle /\ req[s].op = "upload" /\ doc'[d].owner = link[req[s].link].target
           /\ doc'[d].window = link[req[s].link].window
  <1> DEFINE r == req[s]
             v == link[r.link]
             new == NewDocument(v.target, v.window)
  <1>1. r.phase = "staged" /\ doc[d] = None /\ doc' = [doc EXCEPT ![d] = new]
    BY DEF CreateSubmission
  <1>2. r \in Browser /\ BrowserSound(r, doc, link)
    BY <1>1, BrowserAt
  <1>3. r.op = "upload"
    BY <1>1, <1>2 DEF BrowserSound, Browser, UploadOps, SessionOps
  <1>4. r.link \in Links /\ v # None /\ v.target \in Evidence
    BY <1>2, <1>3 DEF BrowserSound, SessionOps
  <1>5. v.window \in Windows /\ v.target \in Evidence
    BY <1>4, LinkFields DEF Base
  <1> HIDE DEF v
  <1>6. new \in DocumentRow /\ new.owner = v.target /\ new.window = v.window /\ ~new.archived
    BY <1>5 DEF NewDocument, DocumentRow, EvidenceDocument, InProgress
  <1> HIDE DEF new, r
  <1> QED
    BY <1>1, <1>2, <1>3, <1>5, <1>6, DocumentUpdate, Kinds DEF Base, r, v

\* CreatePolicyDocument makes at most one document, of the policy it has locked, when
\* the policy it read is active and has no document.
LEMMA CreatePolicyDocumentEffect ==
    ASSUME Base, NEW s \in Slots, NEW d \in Documents, CreatePolicyDocument(s, d)
    PROVE  /\ doc' \in [Documents -> DocumentRow \cup {None}] /\ DocumentsGrow(doc, doc')
           /\ \A e \in Documents \ {d} : doc'[e] = doc[e]
           /\ req[s] # Idle /\ req[s].op = "upload_policy" /\ req[s].phase = "locked"
           /\ Held(s) = {link[req[s].link].target}
           /\ \/ doc'[d] = doc[d]
              \/ /\ doc[d] = None /\ doc'[d].owner = link[req[s].link].target
                 /\ doc'[d].window = link[req[s].link].window /\ doc'[d].owner \in Policies
                 /\ ~doc'[d].archived /\ ~req[s].seen.archived /\ CurrentDocument(link[req[s].link].target) = {}
  <1> DEFINE r == req[s]
             v == link[r.link]
             p == v.target
             new == NewDocument(p, None)
  <1>1. /\ r.phase = "locked" /\ r.op = "upload_policy" /\ doc[d] = None
        /\ doc' = IF ~r.seen.archived /\ CurrentDocument(p) = {} THEN [doc EXCEPT ![d] = new] ELSE doc
    BY DEF CreatePolicyDocument
  <1>2. r \in Browser /\ BrowserSound(r, doc, link) /\ Held(s) = r.rows \ r.todo
    BY <1>1, BrowserAt DEF UploadOps, SessionOps
  <1>3. r.link \in Links /\ v # None /\ p \in Policies /\ r.rows = {p} /\ r.todo = {}
    BY <1>1, <1>2 DEF BrowserSound, SessionOps
  <1>4. v.window = None
    BY <1>3, LinkFields DEF Base
  <1>5. new \in DocumentRow /\ new.owner = p /\ new.window = None /\ ~new.archived
    BY <1>3 DEF NewDocument, DocumentRow, PolicyDocument, InProgress
  <1> HIDE DEF new, p, v, r
  <1>6. CASE doc' = doc
    BY <1>1, <1>2, <1>3, <1>6, Kinds DEF Base, TablesTyped, DocumentsGrow, p, v, r
  <1>7. CASE ~r.seen.archived /\ CurrentDocument(p) = {} /\ doc' = [doc EXCEPT ![d] = new]
    BY <1>1, <1>2, <1>3, <1>4, <1>5, <1>7, DocumentUpdate, Kinds DEF Base, p, v, r
  <1> QED
    BY <1>1, <1>6, <1>7

\* ArchiveDocument archives at most the document it was asked for.
LEMMA ArchiveDocumentEffect ==
    ASSUME Base, NEW s \in Slots, ArchiveDocument(s)
    PROVE  /\ doc' \in [Documents -> DocumentRow \cup {None}] /\ DocumentsGrow(doc, doc')
           /\ req[s] # Idle /\ req[s].op = "archive" /\ req[s].doc \in Documents /\ doc[req[s].doc] # None
           /\ \A e \in Documents \ {req[s].doc} : doc'[e] = doc[e]
           /\ doc[req[s].doc].owner = link[req[s].link].target
           /\ doc[req[s].doc].window = link[req[s].link].window
           /\ \/ doc'[req[s].doc] = doc[req[s].doc]
              \/ doc'[req[s].doc].archived
  <1> DEFINE r == req[s]
             d == r.doc
             new == [doc[d] EXCEPT !.archived = TRUE]
  <1>1. r.phase = "decided" /\ doc' = IF MayArchive(doc[d]) THEN [doc EXCEPT ![d].archived = TRUE] ELSE doc
    BY DEF ArchiveDocument
  <1>2. r \in Browser /\ BrowserSound(r, doc, link)
    BY <1>1, BrowserAt
  <1>3. r.op = "archive"
    BY <1>1, <1>2 DEF BrowserSound, Browser, UploadOps, SessionOps
  <1>4. /\ d \in Documents /\ doc[d] # None /\ doc[d].owner = link[r.link].target
        /\ doc[d].window = link[r.link].window
    BY <1>2, <1>3 DEF BrowserSound
  <1>5. doc' = doc \/ doc' = [doc EXCEPT ![d] = new]
    BY <1>1
  <1>6. new \in DocumentRow /\ new.owner = doc[d].owner /\ new.window = doc[d].window /\ new.archived
    BY <1>4, DocumentMarked DEF Base
  <1> HIDE DEF new, d, r
  <1>7. CASE doc' = doc
    BY <1>2, <1>3, <1>4, <1>7, Kinds DEF Base, TablesTyped, DocumentsGrow, d, r
  <1>8. CASE doc' = [doc EXCEPT ![d] = new]
    BY <1>2, <1>3, <1>4, <1>6, <1>8, DocumentUpdate, Kinds DEF Base, d, r
  <1> QED
    BY <1>5, <1>7, <1>8

\* SettleDocument ends the scan of one document and changes nothing else of it.
LEMMA SettleDocumentEffect ==
    ASSUME Base, NEW d \in Documents, NEW status \in Terminal, SettleDocument(d, status)
    PROVE  /\ doc' \in [Documents -> DocumentRow \cup {None}] /\ DocumentsGrow(doc, doc')
           /\ \A e \in Documents \ {d} : doc'[e] = doc[e]
           /\ doc[d] # None /\ doc'[d].status = status /\ doc'[d].archived = doc[d].archived
  <1> DEFINE new == [doc[d] EXCEPT !.status = status]
  <1>1. doc[d] # None /\ doc' = [doc EXCEPT ![d] = new]
    BY DEF SettleDocument
  <1>2. /\ new \in DocumentRow /\ new.owner = doc[d].owner /\ new.window = doc[d].window
        /\ new.status = status /\ new.archived = doc[d].archived
    BY <1>1, DocumentMarked DEF Base
  <1> HIDE DEF new
  <1> QED
    BY <1>1, <1>2, DocumentUpdate DEF Base

\* The steps of browsers keep the base invariant.
LEMMA SessionKeepsBase ==
    ASSUME Base, SessionStep, UNCHANGED auditorVars
    PROVE  Base'
  <1>1. ASSUME NEW s \in Slots, NEW d \in Documents, CreateSubmission(s, d)
        PROVE  Base'
    BY <1>1, CreateSubmissionEffect, DocumentStepKeepsBase DEF CreateSubmission, SessionsStand, sessionVars
  <1>2. ASSUME NEW s \in Slots, NEW d \in Documents, CreatePolicyDocument(s, d)
        PROVE  Base'
    BY <1>2, CreatePolicyDocumentEffect, DocumentStepKeepsBase DEF CreatePolicyDocument, SessionsStand, sessionVars
  <1>3. ASSUME NEW s \in Slots, ArchiveDocument(s)
        PROVE  Base'
    BY <1>3, ArchiveDocumentEffect, DocumentStepKeepsBase DEF ArchiveDocument, SessionsStand, sessionVars
  <1>4. ASSUME NEW d \in Documents, NEW status \in Terminal, SettleDocument(d, status)
        PROVE  Base'
    BY <1>4, SettleDocumentEffect, DocumentStepKeepsBase DEF SettleDocument, SessionsStand, sessionVars
  <1>5. ASSUME NEW l \in Links, NEW d \in Documents, DownloadEvidenceFile(l, d)
        PROVE  Base'
    <2>1. TablesTyped'
      BY <1>5, CatalogueAssumption, SessionsAssumption
         DEF DownloadEvidenceFile, Base, TablesTyped, Ticket, auditorVars
    <2>2. RowTable' = RowTable /\ UNCHANGED <<req, doc, link, grant, login, session>>
      BY <1>5, SameRows DEF DownloadEvidenceFile, auditorVars
    <2> QED
      BY <2>1, <2>2, TableStep DEF Base, RequestsSound
  <1> QED
    BY <1>1, <1>2, <1>3, <1>4, <1>5, AskingBrowserKeepsBase, IssueKeepsBase, LockLinkKeepsBase, RedeemGrantKeepsBase,
       LockPolicyForUploadKeepsBase, StreamDocumentKeepsBase, TicketKeepsBase
       DEF SessionStep

-----------------------------------------------------------------------------
(* The requests of auditors keep the base invariant.                        *)

AuditPhases == {"lock", "locked"} \cup ClaimedPhases \cup VisitPhases

\* An auditor's request begins with nothing locked.
LEMMA AuditBegins ==
    ASSUME Base, NEW s \in Slots, NEW op \in AuditOps, NEW phase \in AuditPhases,
           NEW rows \in SUBSET (Grants \cup Logins \cup Sessions), NEW g \in Grants,
           NEW x \in Logins \cup Sessions \cup {None}, NEW what \in What,
           AuditSound(AuditRequest(op, phase, rows, g, x, what), grant, login, session),
           BeginAudit(s, AuditRequest(op, phase, rows, g, x, what)), UNCHANGED sessionVars
    PROVE  Base'
  <1> DEFINE r == AuditRequest(op, phase, rows, g, x, what)
  <1>1. clock \in Nat
    BY CatalogueAssumption DEF Base, TablesTyped
  <1>2. r \in Audit /\ r.rows = rows /\ r.todo = rows
    BY <1>1 DEF AuditRequest, Audit, SeenByAudit, AuditPhases
  <1>3. req' = [req EXCEPT ![s] = r]
    BY DEF BeginAudit, Begin
  <1>4. TablesTyped' /\ UNCHANGED soundVars
    BY TablesStand DEF BeginAudit, AuditorStands, auditorVars, sessionVars, tableVars, soundVars, Base
  <1> HIDE DEF r
  <1>5. IsRequest(r) /\ Sound(r, RowTable, doc, link, grant, login, session)
    BY <1>2, Kinds DEF IsRequest, Sound, r
  <1>6. HeldBy(r) = {}
    BY <1>2 DEF HeldBy
  <1> QED
    BY <1>3, <1>4, <1>5, <1>6, QuietStep

\* A revocation of a grant begins sound.
LEMMA RevokeAuditorAccessGrantKeepsBase ==
    ASSUME Base, NEW s \in Slots, NEW g \in Grants, RevokeAuditorAccessGrant(s, g), UNCHANGED sessionVars
    PROVE  Base'
  <1>1. grant[g] # None /\ BeginAudit(s, AuditRequest("revoke_grant", "lock", {g}, g, None, None))
    BY DEF RevokeAuditorAccessGrant
  <1>2. AuditSound(AuditRequest("revoke_grant", "lock", {g}, g, None, None), grant, login, session)
    BY <1>1 DEF AuditSound, AuditRequest
  <1> QED
    BY <1>1, <1>2, AuditBegins DEF AuditOps, AuditPhases, What

\* A login begins sound.
LEMMA StartLoginKeepsBase ==
    ASSUME Base, NEW s \in Slots, NEW g \in Grants, StartLogin(s, g), UNCHANGED sessionVars
    PROVE  Base'
  <1>1. BeginAudit(s, AuditRequest("login", "asked", {}, g, None, None))
    BY DEF StartLogin
  <1>2. AuditSound(AuditRequest("login", "asked", {}, g, None, None), grant, login, session)
    BY DEF AuditSound, AuditRequest
  <1> QED
    BY <1>1, <1>2, AuditBegins DEF AuditOps, AuditPhases, ClaimedPhases, What

\* A callback of the identity provider begins sound.
LEMMA Auth0CallbackKeepsBase ==
    ASSUME Base, NEW s \in Slots, NEW t \in Logins, NEW outcome \in {"code", "error"},
           Auth0Callback(s, t, outcome), UNCHANGED sessionVars
    PROVE  Base'
  <1> DEFINE g == login[t].grant
  <1>1. login[t] # None /\ BeginAudit(s, AuditRequest("callback", "lock", {t}, g, t, outcome))
    BY DEF Auth0Callback
  <1>2. g \in Grants
    BY <1>1 DEF Base, TablesTyped, AuditorAuthTransaction
  <1> HIDE DEF g
  <1>3. AuditSound(AuditRequest("callback", "lock", {t}, g, t, outcome), grant, login, session)
    BY <1>1 DEF AuditSound, AuditRequest
  <1> QED
    BY <1>1, <1>2, <1>3, AuditBegins DEF AuditOps, AuditPhases, What

\* A logout begins sound.
LEMMA LogoutKeepsBase ==
    ASSUME Base, NEW s \in Slots, NEW v \in Sessions, Logout(s, v), UNCHANGED sessionVars
    PROVE  Base'
  <1> DEFINE g == session[v].grant
  <1>1. session[v] # None /\ BeginAudit(s, AuditRequest("logout", "lock", {v}, g, v, None))
    BY DEF Logout
  <1>2. g \in Grants
    BY <1>1 DEF Base, TablesTyped, AuditorSession
  <1> HIDE DEF g
  <1>3. AuditSound(AuditRequest("logout", "lock", {v}, g, v, None), grant, login, session)
    BY <1>1 DEF AuditSound, AuditRequest
  <1> QED
    BY <1>1, <1>2, <1>3, AuditBegins DEF AuditOps, AuditPhases, What

\* A visit of the portal begins sound.
LEMMA VisitKeepsBase ==
    ASSUME Base, NEW s \in Slots, NEW v \in Sessions, UNCHANGED sessionVars,
           \/ \E d \in Documents : DownloadDocument(s, v, d)
           \/ \E x \in Policies \cup Controls \cup {None} : OpenPage(s, v, x)
    PROVE  Base'
  <1> DEFINE g == session[v].grant
  <1>1. SessionActive(v)
    BY DEF DownloadDocument, OpenPage
  <1>2. g \in Grants
    BY <1>1 DEF SessionActive, Base, TablesTyped, AuditorSession
  <1>3. ASSUME NEW d \in Documents, DownloadDocument(s, v, d)
        PROVE  Base'
    <2>1. BeginAudit(s, AuditRequest("visit", "download", {}, g, v, d))
      BY <1>3 DEF DownloadDocument
    <2> HIDE DEF g
    <2>2. AuditSound(AuditRequest("visit", "download", {}, g, v, d), grant, login, session)
      BY DEF AuditSound, AuditRequest, VisitPhases, ReadPhases
    <2> QED
      BY <1>2, <2>1, <2>2, AuditBegins DEF AuditOps, AuditPhases, VisitPhases, What
  <1>4. ASSUME NEW x \in Policies \cup Controls \cup {None}, OpenPage(s, v, x)
        PROVE  Base'
    <2>1. BeginAudit(s, AuditRequest("visit", "page", {}, g, v, x))
      BY <1>4 DEF OpenPage
    <2> HIDE DEF g
    <2>2. AuditSound(AuditRequest("visit", "page", {}, g, v, x), grant, login, session)
      BY DEF AuditSound, AuditRequest, VisitPhases, ReadPhases
    <2> QED
      BY <1>2, <2>1, <2>2, AuditBegins DEF AuditOps, AuditPhases, VisitPhases, What
  <1> QED
    BY <1>3, <1>4

\* An auditor's request is known by its operation, or by a phase only it has.
LEMMA AuditAt ==
    ASSUME Base, NEW s \in Slots,
           \/ req[s].phase \in {"lock", "locked"} /\ req[s].op \in AuditOps
           \/ req[s].phase \in ClaimedPhases \cup VisitPhases
    PROVE  /\ req[s] \in Audit /\ AuditSound(req[s], grant, login, session) /\ req[s] # Idle
           /\ Held(s) = HeldBy(req[s]) /\ HeldBy(req[s]) = req[s].rows \ req[s].todo
  <1>1. IsRequest(req[s]) /\ Sound(req[s], RowTable, doc, link, grant, login, session)
    BY DEF Base, RequestsTyped, RequestsSound
  <1>2. Edits \cap AuditOps = {} /\ UploadOps \cap AuditOps = {}
    BY DEF Edits, ControlEdits, EvidenceEdits, PolicyEdits, UploadOps, SessionOps, AuditOps
  <1>3. {"idle", "lock", "locked", "written", "saved", "staged", "decided", "fetch", "served"}
        \cap (ClaimedPhases \cup VisitPhases) = {}
    BY DEF ClaimedPhases, VisitPhases, ReadPhases
  <1>4. req[s] \in Audit
    BY <1>1, <1>2, <1>3, Kinds DEF IsRequest
  <1> QED
    BY <1>1, <1>4, Kinds DEF Sound, Held, HeldBy

\* A step of an auditor's request that changes no table.
LEMMA AuditMoves ==
    ASSUME Base, NEW s \in Slots, NEW new \in Audit, AuditSound(new, grant, login, session),
           \A t \in Slots \ {s} : (new.rows \ new.todo) \cap Held(t) = {},
           Move(s, new), RowsStand, AuditorStands, UNCHANGED sessionVars
    PROVE  Base'
  <1>1. TablesTyped' /\ UNCHANGED soundVars
    BY TablesStand DEF RowsStand, AuditorStands, auditorVars, sessionVars, tableVars, soundVars, Base
  <1>2. IsRequest(new) /\ Sound(new, RowTable, doc, link, grant, login, session) /\ HeldBy(new) = new.rows \ new.todo
    BY Kinds DEF IsRequest, Sound, HeldBy
  <1> QED
    BY <1>1, <1>2, QuietStep DEF Move

\* An auditor's request that is answered keeps the base invariant.
LEMMA AuditAnswers ==
    ASSUME Base, NEW s \in Slots, Answer(s), RowsStand, AuditorStands, UNCHANGED sessionVars
    PROVE  Base'
  BY QuietAnswer, TablesStand DEF RowsStand, AuditorStands, auditorVars, sessionVars, tableVars, soundVars, Base

\* LockGrant takes a grant nobody holds and reads it as it stands.
LEMMA LockGrantKeepsBase ==
    ASSUME Base, NEW s \in Slots, LockGrant(s), UNCHANGED sessionVars
    PROVE  Base'
  <1> DEFINE r == req[s]
             row == grant[r.grant]
             new == [r EXCEPT !.phase = "locked", !.todo = {}, !.seen = row]
  <1>1. /\ Move(s, new) /\ RowsStand /\ AuditorStands /\ r.phase = "lock" /\ r.op = "revoke_grant"
        /\ GrantFree(s, r.grant)
    BY DEF LockGrant
  <1>2. r \in Audit /\ AuditSound(r, grant, login, session)
    BY <1>1, AuditAt DEF AuditOps
  <1>3. row # None /\ r.rows = {r.grant}
    BY <1>1, <1>2 DEF AuditSound
  <1>4. row \in AuditorAccessGrant
    BY <1>1, <1>2, <1>3 DEF AuditSound, Base, TablesTyped, Audit
  <1> HIDE DEF r, row
  <1>5. /\ new \in Audit /\ new.op = r.op /\ new.rows = r.rows /\ new.todo = {} /\ new.grant = r.grant
        /\ new.key = r.key /\ new.phase = "locked" /\ new.seen = row
    BY <1>2, <1>4 DEF Audit, SeenByAudit
  <1> HIDE DEF new
  <1>6. AuditSound(new, grant, login, session)
    BY <1>1, <1>2, <1>5 DEF AuditSound, row
  <1>7. \A t \in Slots \ {s} : (new.rows \ new.todo) \cap Held(t) = {}
    BY <1>1, <1>3, <1>5 DEF GrantFree
  <1> QED
    BY <1>1, <1>5, <1>6, <1>7, AuditMoves

\* LockLogin takes a login nobody holds and reads it as it stands.
LEMMA LockLoginKeepsBase ==
    ASSUME Base, NEW s \in Slots, LockLogin(s), UNCHANGED sessionVars
    PROVE  Base'
  <1> DEFINE r == req[s]
             row == login[r.key]
             new == [r EXCEPT !.phase = "locked", !.todo = {}, !.seen = row]
  <1>1. /\ Move(s, new) /\ RowsStand /\ AuditorStands /\ r.phase = "lock" /\ r.op = "callback"
        /\ LoginFree(s, r.key)
    BY DEF LockLogin
  <1>2. r \in Audit /\ AuditSound(r, grant, login, session)
    BY <1>1, AuditAt DEF AuditOps
  <1>3. row # None /\ r.rows = {r.key}
    BY <1>1, <1>2 DEF AuditSound
  <1>4. row \in AuditorAuthTransaction
    BY <1>1, <1>2, <1>3 DEF AuditSound, Base, TablesTyped, Audit
  <1> HIDE DEF r, row
  <1>5. /\ new \in Audit /\ new.op = r.op /\ new.rows = r.rows /\ new.todo = {} /\ new.grant = r.grant
        /\ new.key = r.key /\ new.phase = "locked" /\ new.seen = row
    BY <1>2, <1>4 DEF Audit, SeenByAudit
  <1> HIDE DEF new
  <1>6. AuditSound(new, grant, login, session)
    BY <1>1, <1>2, <1>5 DEF AuditSound, row
  <1>7. \A t \in Slots \ {s} : (new.rows \ new.todo) \cap Held(t) = {}
    BY <1>1, <1>3, <1>5 DEF LoginFree
  <1> QED
    BY <1>1, <1>5, <1>6, <1>7, AuditMoves

\* LockSession takes a session nobody holds and reads it as it stands.
LEMMA LockSessionKeepsBase ==
    ASSUME Base, NEW s \in Slots, LockSession(s), UNCHANGED sessionVars
    PROVE  Base'
  <1> DEFINE r == req[s]
             row == session[r.key]
             new == [r EXCEPT !.phase = "locked", !.todo = {}, !.seen = row]
  <1>1. /\ Move(s, new) /\ RowsStand /\ AuditorStands /\ r.phase = "lock" /\ r.op = "logout"
        /\ SessionFree(s, r.key)
    BY DEF LockSession
  <1>2. r \in Audit /\ AuditSound(r, grant, login, session)
    BY <1>1, AuditAt DEF AuditOps
  <1>3. row # None /\ r.rows = {r.key}
    BY <1>1, <1>2 DEF AuditSound
  <1>4. row \in AuditorSession
    BY <1>1, <1>2, <1>3 DEF AuditSound, Base, TablesTyped, Audit
  <1> HIDE DEF r, row
  <1>5. /\ new \in Audit /\ new.op = r.op /\ new.rows = r.rows /\ new.todo = {} /\ new.grant = r.grant
        /\ new.key = r.key /\ new.phase = "locked" /\ new.seen = row
    BY <1>2, <1>4 DEF Audit, SeenByAudit
  <1> HIDE DEF new
  <1>6. AuditSound(new, grant, login, session)
    BY <1>1, <1>2, <1>5 DEF AuditSound, row
  <1>7. \A t \in Slots \ {s} : (new.rows \ new.todo) \cap Held(t) = {}
    BY <1>1, <1>3, <1>5 DEF SessionFree
  <1> QED
    BY <1>1, <1>5, <1>6, <1>7, AuditMoves

\* ShareGrant moves the request or answers it.
LEMMA ShareGrantKeepsBase ==
    ASSUME Base, NEW s \in Slots, ShareGrant(s), UNCHANGED sessionVars
    PROVE  Base'
  <1> DEFINE r == req[s]
             new == [r EXCEPT !.phase = "shared"]
  <1>1. r.phase = "asked" /\ RowsStand /\ AuditorStands
    BY DEF ShareGrant
  <1>2. r \in Audit /\ AuditSound(r, grant, login, session) /\ Held(s) = r.rows \ r.todo
    BY <1>1, AuditAt DEF ClaimedPhases, VisitPhases, ReadPhases
  <1>3. r.op \in {"login", "callback"}
    BY <1>1, <1>2 DEF AuditSound, Audit, AuditOps, ClaimedPhases, VisitPhases, ReadPhases
  <1>4. CASE Answer(s)
    BY <1>1, <1>4, AuditAnswers
  <1>5. CASE Move(s, new)
    <2> HIDE DEF r
    <2>1. /\ new \in Audit /\ new.phase = "shared" /\ new.what = r.what /\ new.seen = r.seen
          /\ new.op = r.op /\ new.rows = r.rows /\ new.todo = r.todo /\ new.grant = r.grant /\ new.key = r.key
      BY <1>2 DEF Audit, ClaimedPhases, VisitPhases, ReadPhases, What
    <2> HIDE DEF new
    <2>2. AuditSound(new, grant, login, session)
      BY <1>1, <1>2, <1>3, <2>1 DEF AuditSound, ClaimedPhases, VisitPhases, ReadPhases
    <2>3. \A t \in Slots \ {s} : (new.rows \ new.todo) \cap Held(t) = {}
      BY <1>2, <2>1 DEF Base, LocksExclusive
    <2> QED
      BY <1>1, <1>5, <2>1, <2>2, <2>3, AuditMoves
  <1> QED
    BY <1>4, <1>5 DEF ShareGrant

\* ExchangeAndVerify records who the provider named, or answers.
LEMMA ExchangeAndVerifyKeepsBase ==
    ASSUME Base, NEW s \in Slots, NEW who \in {None, "auditor", "someone"}, ExchangeAndVerify(s, who),
           UNCHANGED sessionVars
    PROVE  Base'
  <1> DEFINE r == req[s]
             new == [r EXCEPT !.phase = "identified", !.what = who]
  <1>1. r.phase = "claimed" /\ RowsStand /\ AuditorStands
    BY DEF ExchangeAndVerify
  <1>2. r \in Audit /\ AuditSound(r, grant, login, session) /\ Held(s) = r.rows \ r.todo
    BY <1>1, AuditAt DEF ClaimedPhases, VisitPhases, ReadPhases
  <1>3. r.op \in {"callback"}
    BY <1>1, <1>2 DEF AuditSound, Audit, AuditOps, ClaimedPhases, VisitPhases, ReadPhases
  <1>4. CASE Answer(s)
    BY <1>1, <1>4, AuditAnswers
  <1>5. CASE Move(s, new)
    <2> HIDE DEF r
    <2>1. /\ new \in Audit /\ new.phase = "identified" /\ new.what = who /\ new.seen = r.seen
          /\ new.op = r.op /\ new.rows = r.rows /\ new.todo = r.todo /\ new.grant = r.grant /\ new.key = r.key
      BY <1>2 DEF Audit, ClaimedPhases, VisitPhases, ReadPhases, What
    <2> HIDE DEF new
    <2>2. AuditSound(new, grant, login, session)
      BY <1>1, <1>2, <1>3, <2>1 DEF AuditSound, ClaimedPhases, VisitPhases, ReadPhases
    <2>3. \A t \in Slots \ {s} : (new.rows \ new.todo) \cap Held(t) = {}
      BY <1>2, <2>1 DEF Base, LocksExclusive
    <2> QED
      BY <1>1, <1>5, <2>1, <2>2, <2>3, AuditMoves
  <1> QED
    BY <1>4, <1>5 DEF ExchangeAndVerify

\* ResolveActiveGrant moves the request or answers it.
LEMMA ResolveActiveGrantKeepsBase ==
    ASSUME Base, NEW s \in Slots, ResolveActiveGrant(s), UNCHANGED sessionVars
    PROVE  Base'
  <1> DEFINE r == req[s]
             new == [r EXCEPT !.phase = "asked", !.now = clock]
  <1>1. r.phase = "identified" /\ RowsStand /\ AuditorStands
    BY DEF ResolveActiveGrant
  <1>2. r \in Audit /\ AuditSound(r, grant, login, session) /\ Held(s) = r.rows \ r.todo
    BY <1>1, AuditAt DEF ClaimedPhases, VisitPhases, ReadPhases
  <1>3. r.op \in {"callback"}
    BY <1>1, <1>2 DEF AuditSound, Audit, AuditOps, ClaimedPhases, VisitPhases, ReadPhases
  <1>4. CASE Answer(s)
    BY <1>1, <1>4, AuditAnswers
  <1>5. CASE Move(s, new)
    <2> HIDE DEF r
    <2>0. clock \in Nat
      BY CatalogueAssumption DEF Base, TablesTyped
    <2>1. /\ new \in Audit /\ new.phase = "asked" /\ new.what = r.what /\ new.seen = r.seen
          /\ new.op = r.op /\ new.rows = r.rows /\ new.todo = r.todo /\ new.grant = r.grant /\ new.key = r.key
      BY <1>2, <2>0 DEF Audit, ClaimedPhases, VisitPhases, ReadPhases, What
    <2> HIDE DEF new
    <2>2. AuditSound(new, grant, login, session)
      BY <1>1, <1>2, <1>3, <2>1 DEF AuditSound, ClaimedPhases, VisitPhases, ReadPhases
    <2>3. \A t \in Slots \ {s} : (new.rows \ new.todo) \cap Held(t) = {}
      BY <1>2, <2>1 DEF Base, LocksExclusive
    <2> QED
      BY <1>1, <1>5, <2>1, <2>2, <2>3, AuditMoves
  <1> QED
    BY <1>4, <1>5 DEF ResolveActiveGrant

\* StreamToAuditor moves the request or answers it.
LEMMA StreamToAuditorKeepsBase ==
    ASSUME Base, NEW s \in Slots, StreamToAuditor(s), UNCHANGED sessionVars
    PROVE  Base'
  <1> DEFINE r == req[s]
             new == [r EXCEPT !.phase = "streamed"]
  <1>1. r.phase = "download" /\ RowsStand /\ AuditorStands
    BY DEF StreamToAuditor
  <1>2. r \in Audit /\ AuditSound(r, grant, login, session) /\ Held(s) = r.rows \ r.todo
    BY <1>1, AuditAt DEF ClaimedPhases, VisitPhases, ReadPhases
  <1>3. r.op \in {"visit"}
    BY <1>1, <1>2 DEF AuditSound, Audit, AuditOps, ClaimedPhases, VisitPhases, ReadPhases
  <1>4. CASE Answer(s)
    BY <1>1, <1>4, AuditAnswers
  <1>5. CASE Move(s, new)
    <2> HIDE DEF r
    <2>1. /\ new \in Audit /\ new.phase = "streamed" /\ new.what = r.what /\ new.seen = r.seen
          /\ new.op = r.op /\ new.rows = r.rows /\ new.todo = r.todo /\ new.grant = r.grant /\ new.key = r.key
      BY <1>2 DEF Audit, ClaimedPhases, VisitPhases, ReadPhases, What
    <2> HIDE DEF new
    <2>2. AuditSound(new, grant, login, session)
      BY <1>1, <1>2, <1>3, <2>1 DEF AuditSound, ClaimedPhases, VisitPhases, ReadPhases
    <2>3. \A t \in Slots \ {s} : (new.rows \ new.todo) \cap Held(t) = {}
      BY <1>2, <2>1 DEF Base, LocksExclusive
    <2> QED
      BY <1>1, <1>5, <2>1, <2>2, <2>3, AuditMoves
  <1> QED
    BY <1>4, <1>5 DEF StreamToAuditor

\* ShowPage moves the request or answers it.
LEMMA ShowPageKeepsBase ==
    ASSUME Base, NEW s \in Slots, ShowPage(s), UNCHANGED sessionVars
    PROVE  Base'
  <1> DEFINE r == req[s]
             new == [r EXCEPT !.phase = "shown"]
  <1>1. r.phase = "policies" /\ RowsStand /\ AuditorStands
    BY DEF ShowPage
  <1>2. r \in Audit /\ AuditSound(r, grant, login, session) /\ Held(s) = r.rows \ r.todo
    BY <1>1, AuditAt DEF ClaimedPhases, VisitPhases, ReadPhases
  <1>3. r.op \in {"visit"}
    BY <1>1, <1>2 DEF AuditSound, Audit, AuditOps, ClaimedPhases, VisitPhases, ReadPhases
  <1>4. CASE Answer(s)
    BY <1>1, <1>4, AuditAnswers
  <1>5. CASE Move(s, new)
    <2> HIDE DEF r
    <2>1. /\ new \in Audit /\ new.phase = "shown" /\ new.what = r.what /\ new.seen = r.seen
          /\ new.op = r.op /\ new.rows = r.rows /\ new.todo = r.todo /\ new.grant = r.grant /\ new.key = r.key
      BY <1>2 DEF Audit, ClaimedPhases, VisitPhases, ReadPhases, What
    <2> HIDE DEF new
    <2>2. AuditSound(new, grant, login, session)
      BY <1>1, <1>2, <1>3, <2>1 DEF AuditSound, ClaimedPhases, VisitPhases, ReadPhases
    <2>3. \A t \in Slots \ {s} : (new.rows \ new.todo) \cap Held(t) = {}
      BY <1>2, <2>1 DEF Base, LocksExclusive
    <2> QED
      BY <1>1, <1>5, <2>1, <2>2, <2>3, AuditMoves
  <1> QED
    BY <1>4, <1>5 DEF ShowPage

\* Each statement of a page adds its part to what was read before.
LEMMA ReadPortalEffect ==
    ASSUME Base, NEW s \in Slots, ReadPortal(s)
    PROVE  \E new \in Audit :
              /\ Move(s, new) /\ new.op = req[s].op /\ new.rows = req[s].rows /\ new.todo = req[s].todo
              /\ new.grant = req[s].grant /\ new.key = req[s].key /\ new.seen \in PageRead
              /\ new.phase \in {"controls", "submissions", "mappings", "policies"}
              /\ \/ new.seen.submissions \in {{}, PortalSubmissions}
                 \/ req[s].phase \in ReadPhases /\ new.seen.submissions = req[s].seen.submissions
  <1> DEFINE r == req[s]
             Adds(field, value) == [r EXCEPT !.phase = field, !.seen = [@ EXCEPT ![field] = value]]
             first == [controls |-> ExistingIds(Controls), submissions |-> {}, mappings |-> {}, policies |-> {}]
  <1>1. r.phase \in {"page", "controls", "submissions", "mappings"}
    BY DEF ReadPortal
  <1>2. r \in Audit /\ AuditSound(r, grant, login, session)
    BY <1>1, AuditAt DEF VisitPhases, ReadPhases
  <1>3. r.op = "visit"
    BY <1>1, <1>2 DEF AuditSound, Audit, AuditOps, ClaimedPhases
  <1>4. r.phase # "page" => r.seen \in PageRead
    BY <1>1, <1>2, <1>3 DEF AuditSound, ReadPhases
  <1>5. /\ ExistingIds(Controls) \in SUBSET Controls /\ PortalSubmissions \in SUBSET Documents
        /\ PortalMappings \in SUBSET (Controls \X Evidence) /\ PortalPolicies \in SUBSET Policies
    BY DEF ExistingIds, PortalSubmissions, PortalMappings, PortalPolicies
  <1>6. CASE r.phase = "page" /\ Move(s, [r EXCEPT !.phase = "controls", !.seen = first])
    <2> DEFINE new == [r EXCEPT !.phase = "controls", !.seen = first]
    <2>1. first \in PageRead /\ first.submissions = {}
      BY <1>5 DEF PageRead
    <2>2. Move(s, new)
      BY <1>6
    <2> HIDE DEF first, r
    <2>3. /\ new \in Audit /\ new.op = r.op /\ new.rows = r.rows /\ new.todo = r.todo
          /\ new.grant = r.grant /\ new.key = r.key /\ new.seen = first /\ new.phase = "controls"
      BY <1>2, <2>1 DEF Audit, SeenByAudit, VisitPhases, ReadPhases
    <2> HIDE DEF new
    <2> QED
      BY <2>1, <2>2, <2>3 DEF r
  <1>7. CASE r.phase = "controls" /\ Move(s, Adds("submissions", PortalSubmissions))
    <2> DEFINE page == [r.seen EXCEPT !["submissions"] = PortalSubmissions]
               new == [r EXCEPT !.phase = "submissions", !.seen = page]
    <2>1. page \in PageRead /\ page.submissions = PortalSubmissions
      BY <1>4, <1>5, <1>7 DEF PageRead
    <2>2. Move(s, new)
      BY <1>7
    <2> HIDE DEF page, r
    <2>3. /\ new \in Audit /\ new.op = r.op /\ new.rows = r.rows /\ new.todo = r.todo
          /\ new.grant = r.grant /\ new.key = r.key /\ new.seen = page /\ new.phase = "submissions"
      BY <1>2, <2>1 DEF Audit, SeenByAudit, VisitPhases, ReadPhases
    <2> HIDE DEF new
    <2> QED
      BY <2>1, <2>2, <2>3 DEF r
  <1>8. CASE r.phase = "submissions" /\ Move(s, Adds("mappings", PortalMappings))
    <2> DEFINE page == [r.seen EXCEPT !["mappings"] = PortalMappings]
               new == [r EXCEPT !.phase = "mappings", !.seen = page]
    <2>1. page \in PageRead /\ page.submissions = r.seen.submissions
      BY <1>4, <1>5, <1>8 DEF PageRead
    <2>2. Move(s, new)
      BY <1>8
    <2> HIDE DEF page, r
    <2>3. /\ new \in Audit /\ new.op = r.op /\ new.rows = r.rows /\ new.todo = r.todo
          /\ new.grant = r.grant /\ new.key = r.key /\ new.seen = page /\ new.phase = "mappings"
      BY <1>2, <2>1 DEF Audit, SeenByAudit, VisitPhases, ReadPhases
    <2> HIDE DEF new
    <2> QED
      BY <1>8, <2>1, <2>2, <2>3 DEF r, ReadPhases
  <1>9. CASE r.phase = "mappings" /\ Move(s, Adds("policies", PortalPolicies))
    <2> DEFINE page == [r.seen EXCEPT !["policies"] = PortalPolicies]
               new == [r EXCEPT !.phase = "policies", !.seen = page]
    <2>1. page \in PageRead /\ page.submissions = r.seen.submissions
      BY <1>4, <1>5, <1>9 DEF PageRead
    <2>2. Move(s, new)
      BY <1>9
    <2> HIDE DEF page, r
    <2>3. /\ new \in Audit /\ new.op = r.op /\ new.rows = r.rows /\ new.todo = r.todo
          /\ new.grant = r.grant /\ new.key = r.key /\ new.seen = page /\ new.phase = "policies"
      BY <1>2, <2>1 DEF Audit, SeenByAudit, VisitPhases, ReadPhases
    <2> HIDE DEF new
    <2> QED
      BY <1>9, <2>1, <2>2, <2>3 DEF r, ReadPhases
  <1> QED
    BY <1>6, <1>7, <1>8, <1>9 DEF ReadPortal

\* Each read of a page adds to what the page has read.
LEMMA ReadPortalKeepsBase ==
    ASSUME Base, NEW s \in Slots, ReadPortal(s), UNCHANGED sessionVars
    PROVE  Base'
  <1> DEFINE r == req[s]
  <1>1. PICK new \in Audit :
              /\ Move(s, new) /\ new.op = r.op /\ new.rows = r.rows /\ new.todo = r.todo
              /\ new.grant = r.grant /\ new.key = r.key /\ new.seen \in PageRead
              /\ new.phase \in {"controls", "submissions", "mappings", "policies"}
    BY ReadPortalEffect
  <1>2. r.phase \in {"page", "controls", "submissions", "mappings"} /\ RowsStand /\ AuditorStands
    BY DEF ReadPortal
  <1>3. r \in Audit /\ AuditSound(r, grant, login, session) /\ Held(s) = r.rows \ r.todo
    BY <1>2, AuditAt DEF VisitPhases, ReadPhases
  <1>4. r.op = "visit" /\ r.todo = {}
    BY <1>2, <1>3 DEF AuditSound, Audit, AuditOps, ClaimedPhases
  <1>5. AuditSound(new, grant, login, session)
    BY <1>1, <1>4 DEF AuditSound, VisitPhases, ReadPhases
  <1>6. \A t \in Slots \ {s} : (new.rows \ new.todo) \cap Held(t) = {}
    BY <1>1, <1>3 DEF Base, LocksExclusive
  <1> QED
    BY <1>1, <1>2, <1>5, <1>6, AuditMoves

\* A new grant is a new row.
LEMMA CreateGrantEffect ==
    ASSUME Base, NEW g \in Grants, NEW n \in GrantLifetimes, CreateAuditorAccessGrant(g, n)
    PROVE  /\ grant' \in [Grants -> AuditorAccessGrant \cup {None}] /\ grant[g] = None /\ grant'[g] # None
           /\ \A h \in Grants \ {g} : grant'[h] = grant[h]
  <1>1. IssueGrant(n) \in AuditorAccessGrant /\ IssueGrant(n) # None
    BY CatalogueAssumption, AuditorAssumption, NoneIsNoAuditorRow
       DEF IssueGrant, AuditorAccessGrant, Time, Base, TablesTyped
  <1>2. grant \in [Grants -> AuditorAccessGrant \cup {None}]
    BY DEF Base, TablesTyped
  <1> QED
    BY <1>1, <1>2 DEF CreateAuditorAccessGrant

\* A revocation marks the grant it has locked.
LEMMA RevokeGrantEffect ==
    ASSUME Base, NEW s \in Slots, RevokeGrant(s)
    PROVE  /\ req[s].grant \in Grants /\ Held(s) = {req[s].grant} /\ req[s] \in Audit /\ grant[req[s].grant] # None
           /\ grant' \in [Grants -> AuditorAccessGrant \cup {None}] /\ grant'[req[s].grant] # None
           /\ \A h \in Grants \ {req[s].grant} : grant'[h] = grant[h]
  <1> DEFINE r == req[s]
             g == r.grant
             v == grant[g]
             new == Revoke(v, clock)
  <1>1. r.phase = "locked" /\ r.op = "revoke_grant"
    BY DEF RevokeGrant
  <1>2. r \in Audit /\ AuditSound(r, grant, login, session) /\ Held(s) = r.rows \ r.todo
    BY <1>1, AuditAt DEF AuditOps
  <1>3. g \in Grants /\ v # None /\ r.seen = v /\ Held(s) = {g}
    BY <1>1, <1>2 DEF AuditSound, Audit
  <1>4. grant \in [Grants -> AuditorAccessGrant \cup {None}] /\ v \in AuditorAccessGrant /\ clock \in Nat
    BY <1>3, CatalogueAssumption DEF Base, TablesTyped
  <1>5. grant' = [grant EXCEPT ![g] = new]
    BY <1>3 DEF RevokeGrant
  <1> HIDE DEF v, g, r
  <1>6. new \in AuditorAccessGrant
    BY <1>4 DEF Revoke, AuditorAccessGrant, Time
  <1>7. new # None
    BY <1>6, NoneIsNoAuditorRow
  <1> HIDE DEF new
  <1> QED
    BY <1>2, <1>3, <1>4, <1>5, <1>6, <1>7 DEF v, g, r

\* StartAuditorAuthTransaction makes one login, of the grant of its request.
LEMMA StartLoginEffect ==
    ASSUME Base, NEW s \in Slots, NEW t \in Logins, StartAuditorAuthTransaction(s, t)
    PROVE  /\ login' \in [Logins -> AuditorAuthTransaction \cup {None}] /\ login[t] = None /\ login'[t] # None
           /\ \A u \in Logins \ {t} : login'[u] = login[u]
           /\ req[s] \in Audit /\ login'[t].grant = req[s].grant /\ LoginConsistent(login'[t])
           /\ login'[t].consumed = None
  <1> DEFINE r == req[s]
             new == StartTransaction(r.grant, r.now)
  <1>1. r.phase = "shared" /\ r.op = "login" /\ login[t] = None /\ login' = [login EXCEPT ![t] = new]
    BY DEF StartAuditorAuthTransaction
  <1>2. r \in Audit
    BY <1>1, AuditAt DEF ClaimedPhases
  <1>3. r.grant \in Grants /\ r.now \in Nat
    BY <1>2 DEF Audit
  <1>4. login \in [Logins -> AuditorAuthTransaction \cup {None}]
    BY DEF Base, TablesTyped
  <1>5. /\ new \in AuditorAuthTransaction /\ new.grant = r.grant /\ new.consumed = None
        /\ new.expires = r.now + TransactionTtl /\ new.created = r.now
    BY <1>3, AuditorAssumption DEF StartTransaction, AuditorAuthTransaction, Time
  <1>6. new # None
    BY <1>5, NoneIsNoAuditorRow
  <1> HIDE DEF new, r
  <1>7. LoginConsistent(new)
    BY <1>3, <1>5, AuditorAssumption DEF LoginConsistent
  <1> QED
    BY <1>1, <1>2, <1>4, <1>5, <1>6, <1>7 DEF r

\* A claim marks the login the callback has locked, while it may be claimed.
LEMMA ClaimEffect ==
    ASSUME Base, NEW s \in Slots, ClaimAuditorAuthTransaction(s)
    PROVE  /\ req[s] \in Audit /\ req[s].key \in Logins /\ Held(s) = {req[s].key} /\ login[req[s].key] # None
           /\ login' \in [Logins -> AuditorAuthTransaction \cup {None}] /\ login'[req[s].key] # None
           /\ \A u \in Logins \ {req[s].key} : login'[u] = login[u]
           /\ login'[req[s].key].grant = login[req[s].key].grant
           /\ LoginConsistent(login[req[s].key]) => LoginConsistent(login'[req[s].key])
           /\ \/ Answer(s) /\ (login[req[s].key].consumed # None => login'[req[s].key].consumed # None)
              \/ /\ login[req[s].key].consumed = None /\ login'[req[s].key].consumed # None
                 /\ Move(s, [req[s] EXCEPT !.phase = "claimed", !.rows = {}])
  <1> DEFINE r == req[s]
             t == r.key
             v == login[t]
             new == [v EXCEPT !.consumed = clock]
  <1>1. r.phase = "locked" /\ r.op = "callback"
    BY DEF ClaimAuditorAuthTransaction
  <1>2. r \in Audit /\ AuditSound(r, grant, login, session) /\ Held(s) = r.rows \ r.todo
    BY <1>1, AuditAt DEF AuditOps
  <1>3. t \in Logins /\ v # None /\ r.seen = v /\ Held(s) = {t}
    BY <1>1, <1>2 DEF AuditSound
  <1>4. login \in [Logins -> AuditorAuthTransaction \cup {None}] /\ v \in AuditorAuthTransaction /\ clock \in Nat
    BY <1>3, CatalogueAssumption DEF Base, TablesTyped
  <1>5. IF MayClaim(v, clock)
        THEN /\ login' = [login EXCEPT ![t] = new]
             /\ Answer(s) \/ Move(s, [r EXCEPT !.phase = "claimed", !.rows = {}])
        ELSE Answer(s) /\ UNCHANGED login
    BY <1>3 DEF ClaimAuditorAuthTransaction, Claim
  <1> HIDE DEF v, t, r
  <1>6. /\ new \in AuditorAuthTransaction /\ new.grant = v.grant /\ new.created = v.created
        /\ new.expires = v.expires /\ new.consumed = clock
    BY <1>4 DEF AuditorAuthTransaction, Time
  <1>7. new # None /\ new.consumed # None
    BY <1>4, <1>6, NoneIsNoAuditorRow, IdsAreDistinct
  <1> HIDE DEF new
  <1>8. CASE MayClaim(v, clock)
    <2>1. v.consumed = None /\ v.created <= clock /\ clock < v.expires
      BY <1>8 DEF MayClaim
    <2>2. LoginConsistent(v) => LoginConsistent(new)
      BY <1>6, <2>1 DEF LoginConsistent
    <2>3. login'[t] = new /\ \A u \in Logins \ {t} : login'[u] = login[u]
      BY <1>3, <1>4, <1>5, <1>8
    <2>4. login' \in [Logins -> AuditorAuthTransaction \cup {None}]
      BY <1>4, <1>5, <1>6, <1>8
    <2> QED
      BY <1>2, <1>3, <1>5, <1>6, <1>7, <1>8, <2>1, <2>2, <2>3, <2>4 DEF v, t, r
  <1>9. CASE ~MayClaim(v, clock)
    BY <1>2, <1>3, <1>4, <1>5, <1>9 DEF v, t, r
  <1> QED
    BY <1>8, <1>9

\* CreateAuthenticatedAuditorSession makes one session, of the grant and the login of
\* its request.
LEMMA CreateSessionEffect ==
    ASSUME Base, NEW s \in Slots, NEW v \in Sessions, CreateAuthenticatedAuditorSession(s, v)
    PROVE  /\ session' \in [Sessions -> AuditorSession \cup {None}] /\ session[v] = None /\ session'[v] # None
           /\ \A w \in Sessions \ {v} : session'[w] = session[w]
           /\ req[s] \in Audit /\ session'[v].grant = req[s].grant /\ session'[v].login = req[s].key
           /\ req[s].key \in Logins
  <1> DEFINE r == req[s]
             new == CreateSession(r.grant, r.now, r.key)
  <1>1. r.phase = "shared" /\ r.op = "callback" /\ session[v] = None /\ session' = [session EXCEPT ![v] = new]
    BY DEF CreateAuthenticatedAuditorSession
  <1>2. r \in Audit /\ AuditSound(r, grant, login, session)
    BY <1>1, AuditAt DEF ClaimedPhases
  <1>3. r.grant \in Grants /\ r.now \in Nat /\ r.key \in Logins
    BY <1>1, <1>2 DEF Audit, AuditSound
  <1>4. session \in [Sessions -> AuditorSession \cup {None}]
    BY DEF Base, TablesTyped
  <1>5. new \in AuditorSession /\ new.grant = r.grant /\ new.login = r.key
    BY <1>3, AuditorAssumption DEF CreateSession, AuditorSession, Time
  <1>6. new # None
    BY <1>5, NoneIsNoAuditorRow
  <1> HIDE DEF new, r
  <1> QED
    BY <1>1, <1>2, <1>3, <1>4, <1>5, <1>6 DEF r

\* RevokeAuditorSession writes only the session it holds, and keeps its login and grant.
LEMMA RevokeSessionEffect ==
    ASSUME Base, NEW s \in Slots, RevokeAuditorSession(s)
    PROVE  /\ req[s] \in Audit /\ req[s].key \in Sessions /\ Held(s) = {req[s].key}
           /\ session' \in [Sessions -> AuditorSession \cup {None}]
           /\ session[req[s].key] # None /\ session'[req[s].key] # None
           /\ session'[req[s].key].login = session[req[s].key].login
           /\ \A w \in Sessions \ {req[s].key} : session'[w] = session[w]
  <1> DEFINE r == req[s]
             k == r.key
             v == session[k]
             new == Revoke(v, clock)
  <1>1. r.phase = "locked" /\ r.op = "logout"
    BY DEF RevokeAuditorSession
  <1>2. r \in Audit /\ AuditSound(r, grant, login, session) /\ Held(s) = r.rows \ r.todo
    BY <1>1, AuditAt DEF AuditOps
  <1>3. k \in Sessions /\ v # None /\ r.seen = v /\ Held(s) = {k}
    BY <1>1, <1>2 DEF AuditSound
  <1>4. session \in [Sessions -> AuditorSession \cup {None}] /\ v \in AuditorSession /\ clock \in Nat
    BY <1>3, CatalogueAssumption DEF Base, TablesTyped
  <1>5. session' = [session EXCEPT ![k] = new]
    BY <1>3 DEF RevokeAuditorSession
  <1> HIDE DEF v, k, r
  <1>6. new \in AuditorSession /\ new.login = v.login
    BY <1>4 DEF Revoke, AuditorSession, Time
  <1>7. new # None
    BY <1>6, NoneIsNoAuditorRow
  <1> HIDE DEF new
  <1> QED
    BY <1>2, <1>3, <1>4, <1>5, <1>6, <1>7 DEF v, k, r

\* RevokeGrant writes only the grant it holds.
LEMMA RevokeGrantKeepsBase ==
    ASSUME Base, NEW s \in Slots, RevokeGrant(s), UNCHANGED sessionVars
    PROVE  Base'
  <1>1. /\ Held(s) = {req[s].grant} /\ \A h \in Grants \ {req[s].grant} : grant'[h] = grant[h]
        /\ \A h \in Grants : grant[h] # None => grant'[h] # None
    BY RevokeGrantEffect
  <1>2. TablesTyped'
    BY RevokeGrantEffect DEF RevokeGrant, RowsStand, sessionVars, Base, TablesTyped
  <1>3. RowTable' = RowTable /\ UNCHANGED <<doc, link, login, session>> /\ req' = [req EXCEPT ![s] = Idle]
    BY SameRows DEF RevokeGrant, RowsStand, sessionVars, Answer
  <1>4. ASSUME NEW t \in Slots \ {s}
        PROVE  Sound(req[t], RowTable', doc', link', grant', login', session')
    <2>1. Sound(req[t], RowTable, doc, link, grant, login, session) /\ Held(s) \cap Held(t) = {}
      BY DEF Base, RequestsSound, LocksExclusive
    <2>2. req[t] \in Audit /\ req[t].op = "revoke_grant" /\ req[t].phase = "locked" =>
             grant'[req[t].grant] = grant[req[t].grant]
      <3> SUFFICES ASSUME req[t] \in Audit, req[t].op = "revoke_grant", req[t].phase = "locked"
                   PROVE  grant'[req[t].grant] = grant[req[t].grant]
        OBVIOUS
      <3>1. AuditSound(req[t], grant, login, session) /\ req[t] # Idle
        BY <2>1, Kinds DEF Sound
      <3>2. req[t].grant \in Grants /\ grant[req[t].grant] # None /\ Held(t) = {req[t].grant}
        BY <3>1 DEF AuditSound, Held, Audit
      <3> QED
        BY <1>1, <2>1, <3>2
    <2>3. Sound(req[t], RowTable, doc, link, grant', login, session)
      BY <1>1, <2>1, <2>2, SoundAsGrantsGrow
    <2> QED
      BY <1>3, <2>3
  <1> QED
    BY <1>2, <1>3, <1>4, IdleSound, SlotStep

\* A new login disturbs no request.
LEMMA StartTransactionKeepsBase ==
    ASSUME Base, NEW s \in Slots, NEW k \in Logins, StartAuditorAuthTransaction(s, k), UNCHANGED sessionVars
    PROVE  Base'
  <1>1. /\ login[k] = None /\ \A u \in Logins \ {k} : login'[u] = login[u]
        /\ \A u \in Logins : login[u] # None => login'[u] # None
    BY StartLoginEffect
  <1>2. TablesTyped'
    BY StartLoginEffect DEF StartAuditorAuthTransaction, RowsStand, sessionVars, Base, TablesTyped
  <1>3. RowTable' = RowTable /\ UNCHANGED <<doc, link, grant, session>> /\ req' = [req EXCEPT ![s] = Idle]
    BY SameRows DEF StartAuditorAuthTransaction, RowsStand, sessionVars, Answer
  <1>4. ASSUME NEW t \in Slots \ {s}
        PROVE  Sound(req[t], RowTable', doc', link', grant', login', session')
    <2>1. Sound(req[t], RowTable, doc, link, grant, login, session) /\ Held(s) \cap Held(t) = {}
      BY DEF Base, RequestsSound, LocksExclusive
    <2>2. req[t] \in Audit /\ req[t].op = "callback" /\ req[t].phase = "locked" =>
             login'[req[t].key] = login[req[t].key]
      <3> SUFFICES ASSUME req[t] \in Audit, req[t].op = "callback", req[t].phase = "locked"
                   PROVE  login'[req[t].key] = login[req[t].key]
        OBVIOUS
      <3>1. AuditSound(req[t], grant, login, session) /\ req[t] # Idle
        BY <2>1, Kinds DEF Sound
      <3>2. req[t].key \in Logins /\ login[req[t].key] # None /\ Held(t) = {req[t].key}
        BY <3>1 DEF AuditSound, Held, Audit
      <3> QED
        BY <1>1, <2>1, <3>2
    <2>3. Sound(req[t], RowTable, doc, link, grant, login', session)
      BY <1>1, <2>1, <2>2, SoundAsLoginsGrow
    <2> QED
      BY <1>3, <2>3
  <1> QED
    BY <1>2, <1>3, <1>4, IdleSound, SlotStep

\* A new session disturbs no request.
LEMMA CreateSessionKeepsBase ==
    ASSUME Base, NEW s \in Slots, NEW k \in Sessions, CreateAuthenticatedAuditorSession(s, k), UNCHANGED sessionVars
    PROVE  Base'
  <1>1. /\ session[k] = None /\ \A u \in Sessions \ {k} : session'[u] = session[u]
        /\ \A u \in Sessions : session[u] # None => session'[u] # None
    BY CreateSessionEffect
  <1>2. TablesTyped'
    BY CreateSessionEffect DEF CreateAuthenticatedAuditorSession, RowsStand, sessionVars, Base, TablesTyped
  <1>3. RowTable' = RowTable /\ UNCHANGED <<doc, link, grant, login>> /\ req' = [req EXCEPT ![s] = Idle]
    BY SameRows DEF CreateAuthenticatedAuditorSession, RowsStand, sessionVars, Answer
  <1>4. ASSUME NEW t \in Slots \ {s}
        PROVE  Sound(req[t], RowTable', doc', link', grant', login', session')
    <2>1. Sound(req[t], RowTable, doc, link, grant, login, session) /\ Held(s) \cap Held(t) = {}
      BY DEF Base, RequestsSound, LocksExclusive
    <2>2. req[t] \in Audit /\ req[t].op = "logout" /\ req[t].phase = "locked" =>
             session'[req[t].key] = session[req[t].key]
      <3> SUFFICES ASSUME req[t] \in Audit, req[t].op = "logout", req[t].phase = "locked"
                   PROVE  session'[req[t].key] = session[req[t].key]
        OBVIOUS
      <3>1. AuditSound(req[t], grant, login, session) /\ req[t] # Idle
        BY <2>1, Kinds DEF Sound
      <3>2. req[t].key \in Sessions /\ session[req[t].key] # None /\ Held(t) = {req[t].key}
        BY <3>1 DEF AuditSound, Held, Audit
      <3> QED
        BY <1>1, <2>1, <3>2
    <2>3. Sound(req[t], RowTable, doc, link, grant, login, session')
      BY <1>1, <2>1, <2>2, SoundAsSessionsGrow
    <2> QED
      BY <1>3, <2>3
  <1> QED
    BY <1>2, <1>3, <1>4, IdleSound, SlotStep

\* Revoking a session disturbs no request but its own.
LEMMA RevokeSessionKeepsBase ==
    ASSUME Base, NEW s \in Slots, RevokeAuditorSession(s), UNCHANGED sessionVars
    PROVE  Base'
  <1>1. /\ Held(s) = {req[s].key} /\ \A u \in Sessions \ {req[s].key} : session'[u] = session[u]
        /\ \A u \in Sessions : session[u] # None => session'[u] # None
    BY RevokeSessionEffect
  <1>2. TablesTyped'
    BY RevokeSessionEffect DEF RevokeAuditorSession, RowsStand, sessionVars, Base, TablesTyped
  <1>3. RowTable' = RowTable /\ UNCHANGED <<doc, link, grant, login>> /\ req' = [req EXCEPT ![s] = Idle]
    BY SameRows DEF RevokeAuditorSession, RowsStand, sessionVars, Answer
  <1>4. ASSUME NEW t \in Slots \ {s}
        PROVE  Sound(req[t], RowTable', doc', link', grant', login', session')
    <2>1. Sound(req[t], RowTable, doc, link, grant, login, session) /\ Held(s) \cap Held(t) = {}
      BY DEF Base, RequestsSound, LocksExclusive
    <2>2. req[t] \in Audit /\ req[t].op = "logout" /\ req[t].phase = "locked" =>
             session'[req[t].key] = session[req[t].key]
      <3> SUFFICES ASSUME req[t] \in Audit, req[t].op = "logout", req[t].phase = "locked"
                   PROVE  session'[req[t].key] = session[req[t].key]
        OBVIOUS
      <3>1. AuditSound(req[t], grant, login, session) /\ req[t] # Idle
        BY <2>1, Kinds DEF Sound
      <3>2. req[t].key \in Sessions /\ session[req[t].key] # None /\ Held(t) = {req[t].key}
        BY <3>1 DEF AuditSound, Held, Audit
      <3> QED
        BY <1>1, <2>1, <3>2
    <2>3. Sound(req[t], RowTable, doc, link, grant, login, session')
      BY <1>1, <2>1, <2>2, SoundAsSessionsGrow
    <2> QED
      BY <1>3, <2>3
  <1> QED
    BY <1>2, <1>3, <1>4, IdleSound, SlotStep

\* The callback that has claimed its login holds nothing any more.
LEMMA ClaimedRequest ==
    ASSUME Base, NEW s \in Slots, ClaimAuditorAuthTransaction(s),
           NEW new, new = [req[s] EXCEPT !.phase = "claimed", !.rows = {}]
    PROVE  /\ new \in Audit /\ new.op = "callback" /\ new.key = req[s].key /\ new.grant = req[s].grant
           /\ new.phase = "claimed" /\ new.rows = {} /\ new.todo = {} /\ HeldBy(new) = {}
  <1>1. req[s].phase = "locked" /\ req[s].op = "callback"
    BY DEF ClaimAuditorAuthTransaction
  <1>2. req[s] \in Audit /\ AuditSound(req[s], grant, login, session)
    BY <1>1, AuditAt DEF AuditOps
  <1>3. req[s].todo = {}
    BY <1>1, <1>2 DEF AuditSound
  <1>4. /\ new \in Audit /\ new.op = "callback" /\ new.key = req[s].key /\ new.grant = req[s].grant
        /\ new.phase = "claimed" /\ new.rows = {} /\ new.todo = {}
    BY <1>1, <1>2, <1>3 DEF Audit, ClaimedPhases
  <1> QED
    BY <1>4 DEF HeldBy

\* Claiming a login disturbs no request but its own.
LEMMA ClaimKeepsBase ==
    ASSUME Base, NEW s \in Slots, ClaimAuditorAuthTransaction(s), UNCHANGED sessionVars
    PROVE  Base'
  <1> DEFINE new == [req[s] EXCEPT !.phase = "claimed", !.rows = {}]
  <1>1. /\ Held(s) = {req[s].key} /\ \A u \in Logins \ {req[s].key} : login'[u] = login[u]
        /\ \A u \in Logins : login[u] # None => login'[u] # None
        /\ req[s].key \in Logins /\ login'[req[s].key] # None
        /\ Answer(s) \/ Move(s, new)
    BY ClaimEffect
  <1>2. TablesTyped'
    BY ClaimEffect DEF ClaimAuditorAuthTransaction, RowsStand, sessionVars, Base, TablesTyped
  <1>3. RowTable' = RowTable /\ UNCHANGED <<doc, link, grant, session>>
    BY SameRows DEF ClaimAuditorAuthTransaction, RowsStand, sessionVars
  <1>4. ASSUME NEW t \in Slots \ {s}
        PROVE  Sound(req[t], RowTable', doc', link', grant', login', session')
    <2>1. Sound(req[t], RowTable, doc, link, grant, login, session) /\ Held(s) \cap Held(t) = {}
      BY DEF Base, RequestsSound, LocksExclusive
    <2>2. req[t] \in Audit /\ req[t].op = "callback" /\ req[t].phase = "locked" =>
             login'[req[t].key] = login[req[t].key]
      <3> SUFFICES ASSUME req[t] \in Audit, req[t].op = "callback", req[t].phase = "locked"
                   PROVE  login'[req[t].key] = login[req[t].key]
        OBVIOUS
      <3>1. AuditSound(req[t], grant, login, session) /\ req[t] # Idle
        BY <2>1, Kinds DEF Sound
      <3>2. req[t].key \in Logins /\ Held(t) = {req[t].key}
        BY <3>1 DEF AuditSound, Held
      <3> QED
        BY <1>1, <2>1, <3>2
    <2>3. Sound(req[t], RowTable, doc, link, grant, login', session)
      BY <1>1, <2>1, <2>2, SoundAsLoginsGrow
    <2> QED
      BY <1>3, <2>3
  <1>5. CASE Answer(s)
    <2>1. req' = [req EXCEPT ![s] = Idle]
      BY <1>5 DEF Answer
    <2> QED
      BY <1>2, <1>4, <2>1, IdleSound, SlotStep
  <1>6. CASE Move(s, new)
    <2>1. req' = [req EXCEPT ![s] = new]
      BY <1>6 DEF Move
    <2>2. /\ new \in Audit /\ new.op = "callback" /\ new.key = req[s].key
          /\ new.phase = "claimed" /\ new.rows = {} /\ new.todo = {} /\ HeldBy(new) = {}
      BY ClaimedRequest
    <2> HIDE DEF new
    <2>3. AuditSound(new, grant', login', session')
      BY <1>1, <2>2 DEF AuditSound, ClaimedPhases
    <2>4. Sound(new, RowTable', doc', link', grant', login', session') /\ IsRequest(new)
      BY <2>2, <2>3, Kinds DEF Sound, IsRequest
    <2> QED
      BY <1>2, <1>4, <2>1, <2>2, <2>4, SlotStep
  <1> QED
    BY <1>1, <1>5, <1>6

\* A new grant disturbs no request.
LEMMA CreateGrantKeepsBase ==
    ASSUME Base, NEW g \in Grants, NEW n \in GrantLifetimes, CreateAuditorAccessGrant(g, n), UNCHANGED sessionVars
    PROVE  Base'
  <1>1. /\ grant[g] = None /\ \A h \in Grants \ {g} : grant'[h] = grant[h]
        /\ \A h \in Grants : grant[h] # None => grant'[h] # None
    BY CreateGrantEffect
  <1>2. TablesTyped'
    BY CreateGrantEffect DEF CreateAuditorAccessGrant, sessionVars, Base, TablesTyped
  <1>3. RowTable' = RowTable /\ UNCHANGED <<req, doc, link, login, session>>
    BY SameRows DEF CreateAuditorAccessGrant, sessionVars
  <1>4. ASSUME NEW t \in Slots
        PROVE  Sound(req[t], RowTable', doc', link', grant', login', session')
    <2>1. Sound(req[t], RowTable, doc, link, grant, login, session)
      BY DEF Base, RequestsSound
    <2>2. req[t] \in Audit /\ req[t].op = "revoke_grant" => req[t].grant \in Grants \ {g}
      BY <1>1, <2>1 DEF Sound, AuditSound, Audit
    <2>3. Sound(req[t], RowTable, doc, link, grant', login, session)
      BY <1>1, <2>1, <2>2, SoundAsGrantsGrow
    <2> QED
      BY <1>3, <2>3
  <1> QED
    BY <1>2, <1>3, <1>4, TableStep

\* The steps of auditors keep the base invariant.
LEMMA AuditorKeepsBase ==
    ASSUME Base, AuditorStep, UNCHANGED sessionVars
    PROVE  Base'
  <1>1. ASSUME NEW s \in Slots, NEW t \in Logins, NEW outcome \in {"code", "error"}, Auth0Callback(s, t, outcome)
        PROVE  Base'
    BY <1>1, Auth0CallbackKeepsBase
  <1>2. ASSUME NEW s \in Slots, NEW who \in {None, "auditor", "someone"}, ExchangeAndVerify(s, who)
        PROVE  Base'
    BY <1>2, ExchangeAndVerifyKeepsBase
  <1>3. ASSUME NEW s \in Slots,
               \/ \E g \in Grants : RevokeAuditorAccessGrant(s, g) \/ StartLogin(s, g)
               \/ LockGrant(s) \/ RevokeGrant(s) \/ ShareGrant(s)
               \/ \E t \in Logins : StartAuditorAuthTransaction(s, t)
        PROVE  Base'
    BY <1>3, RevokeAuditorAccessGrantKeepsBase, StartLoginKeepsBase, LockGrantKeepsBase, RevokeGrantKeepsBase,
       ShareGrantKeepsBase, StartTransactionKeepsBase
  <1>4. ASSUME NEW s \in Slots,
               \/ LockLogin(s) \/ ClaimAuditorAuthTransaction(s) \/ ResolveActiveGrant(s)
               \/ LockSession(s) \/ RevokeAuditorSession(s) \/ StreamToAuditor(s) \/ ReadPortal(s) \/ ShowPage(s)
        PROVE  Base'
    BY <1>4, LockLoginKeepsBase, ClaimKeepsBase, ResolveActiveGrantKeepsBase, LockSessionKeepsBase,
       RevokeSessionKeepsBase, StreamToAuditorKeepsBase, ReadPortalKeepsBase, ShowPageKeepsBase
  <1>5. ASSUME NEW s \in Slots, NEW v \in Sessions,
               \/ CreateAuthenticatedAuditorSession(s, v) \/ Logout(s, v)
               \/ \E d \in Documents : DownloadDocument(s, v, d)
               \/ \E x \in Policies \cup Controls \cup {None} : OpenPage(s, v, x)
        PROVE  Base'
    BY <1>5, CreateSessionKeepsBase, LogoutKeepsBase, VisitKeepsBase
  <1> QED
    BY <1>1, <1>2, <1>3, <1>4, <1>5, CreateGrantKeepsBase DEF AuditorStep

\* At the start nothing runs and the tables hold what was made earlier.
LEMMA InitBase ==
    ASSUME Init
    PROVE  Base
  <1> USE DEF Init, CatalogueInit, SessionInit, AuditorInit
  <1>1. TablesTyped
    BY CatalogueAssumption DEF TablesTyped
  <1>2. RequestsTyped /\ LocksExclusive
    BY DEF RequestsTyped, IsRequest, LocksExclusive, Held
  <1>3. RequestsSound
    BY IdleSound DEF RequestsSound
  <1> QED
    BY <1>1, <1>2, <1>3 DEF Base

\* Every step keeps the base invariant.
LEMMA NextBase ==
    ASSUME Base, [Next]_vars
    PROVE  Base'
  <1>1. CASE UNCHANGED vars
    <2>1. TablesTyped' /\ UNCHANGED soundVars /\ UNCHANGED req
      BY <1>1, TablesStand DEF vars, catalogueVars, sessionVars, auditorVars, tableVars, soundVars, Base
    <2>2. RowTable' = RowTable /\ UNCHANGED <<doc, link, grant, login, session>>
      BY <2>1, SameRows DEF soundVars
    <2> QED
      BY <2>1, <2>2, TableStep DEF Base, RequestsSound
  <1> QED
    BY <1>1, CatalogueKeepsBase, SessionKeepsBase, AuditorKeepsBase, TickKeepsBase DEF Next

-----------------------------------------------------------------------------
(* What the steps of one group do to the requests.                          *)

\* A step changes the request of one slot, or none.
LEMMA OneSlot ==
    ASSUME Base, NEW s \in Slots, NEW r, req' = [req EXCEPT ![s] = r]
    PROVE  req'[s] = r /\ \A t \in Slots \ {s} : req'[t] = req[t]
  BY SlotEffect DEF Base

\* The operation of a request tells its kind.
LEMMA ByOperation ==
    ASSUME NEW r, IsRequest(r), r.phase # "idle"
    PROVE  /\ r.op \in UploadOps => r \in Browser
           /\ r.op \in AuditOps => r \in Audit
           /\ r.op \in Edits => IsEdit(r)
  <1>1. Edits \cap UploadOps = {} /\ Edits \cap AuditOps = {} /\ UploadOps \cap AuditOps = {}
    BY DEF Edits, ControlEdits, EvidenceEdits, PolicyEdits, UploadOps, SessionOps, AuditOps
  <1> QED
    BY <1>1, Kinds DEF IsRequest

\* The requests of changes are changed by nobody else.
LEMMA CatalogueShape ==
    ASSUME Base, CatalogueStep, UNCHANGED <<sessionVars, auditorVars>>
    PROVE  \A t \in Slots : req'[t] = req[t] \/ req'[t] = Idle \/ IsEdit(req'[t])
  <1>1. Base'
    BY CatalogueKeepsBase
  <1>2. \A t \in Slots : IsRequest(req'[t])
    BY <1>1 DEF Base, RequestsTyped
  <1>3. ASSUME NEW s \in Slots, NEW r, req' = [req EXCEPT ![s] = r], r = Idle \/ (r.phase # "idle" /\ r.op \in Edits)
        PROVE  \A t \in Slots : req'[t] = req[t] \/ req'[t] = Idle \/ IsEdit(req'[t])
    BY <1>2, <1>3, OneSlot, ByOperation
  <1>4. PICK s \in Slots : AskForChange(s) \/ LockRow(s) \/ SaveRows(s) \/ ClaimName(s) \/ CommitChange(s) \/ Abandon(s)
    BY DEF CatalogueStep
  <1>5. CASE Answer(s)
    BY <1>3, <1>5 DEF Answer
  <1>6. CASE AskForChange(s)
    <2>1. ASSUME NEW op \in Edits, NEW rows, NEW cs, NEW name, Change(s, op, rows, cs, name)
          PROVE  \A t \in Slots : req'[t] = req[t] \/ req'[t] = Idle \/ IsEdit(req'[t])
      <3> DEFINE r == [op |-> op, phase |-> IF op \in Creations THEN "locked" ELSE "lock",
                       rows |-> rows, todo |-> IF op \in Creations THEN {} ELSE rows,
                       controls |-> cs, name |-> name, seen |-> [x \in rows |-> None]]
      <3>1. req' = [req EXCEPT ![s] = r] /\ r.op = op /\ r.phase # "idle"
        BY <2>1 DEF Change, Begin
      <3> HIDE DEF r
      <3> QED
        BY <1>3, <3>1
    <2>2. \E op \in Edits, rows \in SUBSET Ids, cs \in SUBSET Controls, name \in Names \cup {None} :
             Change(s, op, rows, cs, name)
      BY <1>6 DEF AskForChange, Edits, ControlEdits, EvidenceEdits, PolicyEdits, Ids,
                  CreateControl, ReplaceControl, CreateEvidence, CreatePolicy, UpdatePolicy, ArchivePolicy,
                  MapEvidenceToControl, RemoveEvidenceControlMapping, MapEvidenceToControls,
                  UnmapEvidenceFromControls,
                  MapControlToEvidence, UnmapControlFromEvidence, AttachPolicyToControl, DetachPolicyFromControl,
                  AttachPolicyToControls, DetachPolicyFromControls, AttachControlToPolicies, DetachControlFromPolicies
    <2> QED
      BY <2>1, <2>2
  <1>7. ASSUME NEW new, Move(s, new), new.op = req[s].op, new.phase # "idle", req[s].op \in Edits
        PROVE  \A t \in Slots : req'[t] = req[t] \/ req'[t] = Idle \/ IsEdit(req'[t])
    BY <1>3, <1>7 DEF Move
  <1>8. CASE LockRow(s)
    <2> DEFINE r == req[s]
               x == NextToLock(r)
               new == [r EXCEPT !.todo = @ \ {x}, !.seen[x] = RowOf(x),
                                !.phase = IF r.todo = {x} THEN "locked" ELSE @]
    <2>1. Move(s, new) /\ r.phase = "lock" /\ r.op \in Edits
      BY <1>8 DEF LockRow
    <2>2. r \in Edit(r.rows)
      BY <2>1, EditAt DEF IsEdit
    <2>3. new.op = r.op /\ new.phase # "idle"
      BY <2>1, <2>2 DEF Edit
    <2> HIDE DEF new
    <2> QED
      BY <1>7, <2>1, <2>3
  <1>9. ASSUME NEW phase \in {"written", "saved"}, Move(s, [req[s] EXCEPT !.phase = phase]),
               req[s].phase \in {"locked", "written"}, req[s].op \in Edits
        PROVE  \A t \in Slots : req'[t] = req[t] \/ req'[t] = Idle \/ IsEdit(req'[t])
    <2> DEFINE r == req[s]
               new == [r EXCEPT !.phase = phase]
    <2>1. r \in Edit(r.rows)
      BY <1>9, EditAt DEF IsEdit
    <2>2. new.op = r.op /\ new.phase # "idle"
      BY <2>1 DEF Edit
    <2>3. Move(s, new)
      BY <1>9
    <2> HIDE DEF new
    <2> QED
      BY <1>7, <1>9, <2>2, <2>3
  <1>10. CASE SaveRows(s)
    <2>1. Answer(s) \/ Move(s, [req[s] EXCEPT !.phase = "written"]) \/ Move(s, [req[s] EXCEPT !.phase = "saved"])
      BY <1>10 DEF SaveRows
    <2> QED
      BY <1>5, <1>9, <1>10, <2>1 DEF SaveRows
  <1>11. CASE ClaimName(s)
    BY <1>5, <1>9, <1>11 DEF ClaimName
  <1>12. CASE CommitChange(s) \/ Abandon(s)
    BY <1>5, <1>12 DEF CommitChange, Abandon
  <1> QED
    BY <1>4, <1>6, <1>8, <1>10, <1>11, <1>12

\* The requests of browsers are changed by nobody else, and change nothing of
\* the catalogue.
LEMMA SessionShape ==
    ASSUME Base, SessionStep, UNCHANGED auditorVars
    PROVE  /\ UNCHANGED <<clock, control, evidence, policy>>
           /\ LinksGrow(link, link') /\ DocumentsGrow(doc, doc')
           /\ \A t \in Slots : req'[t] = req[t] \/ req'[t] = Idle \/ req'[t] \in Browser
  <1> DEFINE Shape == \A t \in Slots : req'[t] = req[t] \/ req'[t] = Idle \/ req'[t] \in Browser
             Same == UNCHANGED <<clock, control, evidence, policy>>
             Grow == LinksGrow(link, link') /\ DocumentsGrow(doc, doc')
  <1>1. \A t \in Slots : IsRequest(req'[t])
    BY SessionKeepsBase DEF Base, RequestsTyped
  <1>2. ASSUME NEW s \in Slots, NEW r, req' = [req EXCEPT ![s] = r], r = Idle \/ (r.phase # "idle" /\ r.op \in UploadOps)
        PROVE  Shape
    BY <1>1, <1>2, OneSlot, ByOperation
  <1>3. ASSUME NEW s \in Slots, Answer(s)
        PROVE  Shape
    BY <1>2, <1>3 DEF Answer
  <1>4. ASSUME UNCHANGED <<link, doc>>
        PROVE  Grow
    BY <1>4 DEF LinksGrow, DocumentsGrow
  <1>5. ASSUME NEW s \in Slots, NEW op \in UploadOps, NEW phase, phase # "idle", NEW rows, NEW l, NEW d,
               BeginUpload(s, Request(op, phase, rows, l, d))
        PROVE  Shape /\ Same /\ Grow
    <2>1. req' = [req EXCEPT ![s] = Request(op, phase, rows, l, d)] /\ Same /\ UNCHANGED <<link, doc>>
      BY <1>5 DEF BeginUpload, Begin, SessionsStand
    <2>2. Request(op, phase, rows, l, d).op = op /\ Request(op, phase, rows, l, d).phase = phase
      BY DEF Request
    <2> QED
      BY <1>2, <1>4, <1>5, <2>1, <2>2
  <1> HIDE DEF Shape, Same, Grow
  <1>6. ASSUME NEW s \in Slots, NEW l \in Links,
               \/ OpenUploadSession(s, l) \/ OpenPolicyUploadSession(s, l)
               \/ UploadEvidenceFile(s, l) \/ UploadPolicyFile(s, l)
               \/ \E d \in Documents :
                     ArchiveEvidenceFile(s, l, d) \/ ArchivePolicyFile(s, l, d) \/ DownloadPolicyFile(s, l, d)
        PROVE  Shape /\ Same /\ Grow
    BY <1>5, <1>6 DEF OpenUploadSession, OpenPolicyUploadSession, UploadEvidenceFile, UploadPolicyFile,
                      ArchiveEvidenceFile, ArchivePolicyFile, DownloadPolicyFile, UploadOps, SessionOps
  <1>7. ASSUME NEW s \in Slots, NEW k \in tickets, RedeemDownloadGrant(s, k)
        PROVE  Shape /\ Same /\ Grow
    BY <1>5, <1>7 DEF RedeemDownloadGrant, UploadOps
  <1>8. ASSUME NEW l \in Links, NEW v \in Link, link[l] = None, link' = [link EXCEPT ![l] = v],
               UNCHANGED <<clock, control, evidence, policy, doc, req>>
        PROVE  Shape /\ Same /\ Grow
    BY <1>8, IssueEffect DEF Shape, Same, Grow, DocumentsGrow
  <1>9. clock \in Nat /\ GrantTtl \in Nat
    BY CatalogueAssumption, SessionsAssumption DEF Base, TablesTyped
  <1>10. ASSUME NEW l \in Links, \/ \E e \in Evidence, w \in Windows : ManageEvidenceSubmissions(l, e, w)
                                 \/ \E p \in Policies : ManagePolicyDocument(l, p)
         PROVE  Shape /\ Same /\ Grow
    <2>1. \A e \in Evidence, w \in Windows : IssueEvidenceGrant(e, w, clock) \in Link
      BY <1>9 DEF IssueEvidenceGrant, Link, EvidenceLink
    <2>2. \A p \in Policies : IssuePolicyGrant(p, clock) \in Link
      BY <1>9 DEF IssuePolicyGrant, Link, PolicyLink
    <2> QED
      BY <1>8, <1>10, <2>1, <2>2 DEF ManageEvidenceSubmissions, ManagePolicyDocument
  <1>11. ASSUME NEW s \in Slots, NEW new, req' = [req EXCEPT ![s] = new], req[s] \in Browser,
                new.op = req[s].op, new.phase # "idle", RowsStand, SessionsStand
         PROVE  Shape /\ Same /\ Grow
    <2>1. req[s].op \in UploadOps /\ UNCHANGED <<link, doc>>
      BY <1>11, Kinds DEF RowsStand, SessionsStand
    <2> QED
      BY <1>2, <1>4, <1>11, <2>1 DEF RowsStand, Same
  <1>12. ASSUME NEW s \in Slots, NEW row, req[s] \in Browser, RowsStand, SessionsStand,
                Move(s, [req[s] EXCEPT !.phase = "locked", !.todo = {}, !.seen = row])
         PROVE  Shape /\ Same /\ Grow
    <2> DEFINE new == [req[s] EXCEPT !.phase = "locked", !.todo = {}, !.seen = row]
    <2>1. new.op = req[s].op /\ new.phase # "idle" /\ req' = [req EXCEPT ![s] = new]
      BY <1>12 DEF Browser, Move
    <2> HIDE DEF new
    <2> QED
      BY <1>11, <1>12, <2>1
  <1>13. ASSUME NEW s \in Slots, LockLink(s) \/ LockPolicyForUpload(s)
         PROVE  Shape /\ Same /\ Grow
    <2>1. req[s] \in Browser
      BY <1>13, BrowserAt DEF LockLink, LockPolicyForUpload, UploadOps, SessionOps
    <2> QED
      BY <1>12, <1>13, <2>1 DEF LockLink, LockPolicyForUpload
  <1>14. ASSUME NEW s \in Slots, StreamDocument(s)
         PROVE  Shape /\ Same /\ Grow
    <2> DEFINE new == [req[s] EXCEPT !.phase = "served"]
    <2>1. req[s] \in Browser /\ RowsStand /\ SessionsStand /\ (Answer(s) \/ Move(s, new))
      BY <1>14, BrowserAt DEF StreamDocument
    <2>2. new.op = req[s].op /\ new.phase # "idle"
      BY <2>1 DEF Browser
    <2>3. Answer(s) => Shape /\ Same /\ Grow
      BY <1>3, <1>4, <2>1 DEF RowsStand, SessionsStand, Same
    <2> HIDE DEF new
    <2> QED
      BY <1>11, <2>1, <2>2, <2>3 DEF Move
  <1>15. ASSUME NEW s \in Slots, RedeemGrant(s)
         PROVE  Shape /\ Same /\ Grow
    BY <1>3, <1>15, RedeemEffect DEF RedeemGrant, RowsStand, Same, Grow, DocumentsGrow
  <1>16. ASSUME NEW s \in Slots,
                ArchiveDocument(s) \/ \E d \in Documents : CreateSubmission(s, d) \/ CreatePolicyDocument(s, d)
         PROVE  Shape /\ Same /\ Grow
    <2>1. Answer(s) /\ Same /\ LinksGrow(link, link')
      BY <1>16 DEF ArchiveDocument, CreateSubmission, CreatePolicyDocument, SessionsStand, Same, LinksGrow
    <2>2. DocumentsGrow(doc, doc')
      BY <1>16, ArchiveDocumentEffect, CreateSubmissionEffect, CreatePolicyDocumentEffect
    <2> QED
      BY <1>3, <2>1, <2>2 DEF Grow
  <1>17. ASSUME NEW d \in Documents, NEW status \in Terminal, SettleDocument(d, status)
         PROVE  Shape /\ Same /\ Grow
    <2>1. UNCHANGED req /\ Same /\ LinksGrow(link, link') /\ DocumentsGrow(doc, doc')
      BY <1>17, SettleDocumentEffect DEF SettleDocument, SessionsStand, Same, LinksGrow
    <2> QED
      BY <2>1 DEF Shape, Grow
  <1>18. ASSUME NEW l \in Links, NEW d \in Documents, DownloadEvidenceFile(l, d)
         PROVE  Shape /\ Same /\ Grow
    BY <1>4, <1>18 DEF DownloadEvidenceFile, Shape, Same
  <1>19. Shape /\ Same /\ Grow
    BY <1>6, <1>7, <1>10, <1>13, <1>14, <1>15, <1>16, <1>17, <1>18 DEF SessionStep
  <1> QED
    BY <1>19 DEF Shape, Same, Grow

\* The steps of auditors change nothing of the catalogue and no document.
LEMMA AuditorLeavesCatalogue ==
    ASSUME AuditorStep
    PROVE  UNCHANGED <<clock, control, evidence, policy, doc>>
  <1>1. ASSUME NEW s \in Slots, NEW r, BeginAudit(s, r)
        PROVE  UNCHANGED <<clock, control, evidence, policy, doc>>
    BY <1>1 DEF BeginAudit
  <1>2. ASSUME RowsStand
        PROVE  UNCHANGED <<clock, control, evidence, policy, doc>>
    BY <1>2 DEF RowsStand
  <1>3. ASSUME NEW g \in Grants, NEW n \in GrantLifetimes, CreateAuditorAccessGrant(g, n)
        PROVE  UNCHANGED <<clock, control, evidence, policy, doc>>
    BY <1>3 DEF CreateAuditorAccessGrant
  <1> QED
    BY <1>1, <1>2, <1>3 DEF AuditorStep, RevokeAuditorAccessGrant, StartLogin, LockGrant, RevokeGrant, ShareGrant,
       StartAuditorAuthTransaction, Auth0Callback, LockLogin, ClaimAuditorAuthTransaction, ExchangeAndVerify,
       ResolveActiveGrant, CreateAuthenticatedAuditorSession, Logout, DownloadDocument, OpenPage, LockSession,
       RevokeAuditorSession, StreamToAuditor, ReadPortal, ShowPage

\* Only a commit changes a row of the catalogue.
LEMMA OnlyCommitsWrite ==
    ASSUME Base, [Next]_vars
    PROVE  \/ UNCHANGED <<control, evidence, policy>>
           \/ \E s \in Slots : CommitChange(s) /\ UNCHANGED <<sessionVars, auditorVars>>
  <1>1. ASSUME NEW s \in Slots, AskForChange(s)
        PROVE  UNCHANGED <<control, evidence, policy>>
    <2>1. \E op, rows, cs, name : Change(s, op, rows, cs, name)
      BY <1>1 DEF AskForChange,
                  CreateControl, ReplaceControl, CreateEvidence, CreatePolicy, UpdatePolicy, ArchivePolicy,
                  MapEvidenceToControl, RemoveEvidenceControlMapping, MapEvidenceToControls,
                  UnmapEvidenceFromControls,
                  MapControlToEvidence, UnmapControlFromEvidence, AttachPolicyToControl, DetachPolicyFromControl,
                  AttachPolicyToControls, DetachPolicyFromControls, AttachControlToPolicies, DetachControlFromPolicies
    <2> QED
      BY <2>1 DEF Change
  <1>2. ASSUME NEW s \in Slots, LockRow(s) \/ SaveRows(s) \/ ClaimName(s) \/ Abandon(s)
        PROVE  UNCHANGED <<control, evidence, policy>>
    BY <1>2 DEF LockRow, SaveRows, ClaimName, Abandon, RowsStand
  <1>3. CASE CatalogueStep /\ UNCHANGED <<sessionVars, auditorVars>>
    BY <1>1, <1>2, <1>3 DEF CatalogueStep
  <1>4. CASE SessionStep /\ UNCHANGED auditorVars
    BY <1>4, SessionShape
  <1>5. CASE AuditorStep
    BY <1>5, AuditorLeavesCatalogue
  <1>6. CASE UNCHANGED vars \/ Tick
    BY <1>6 DEF vars, catalogueVars, Tick
  <1> QED
    BY <1>3, <1>4, <1>5, <1>6 DEF Next

-----------------------------------------------------------------------------
(* Changes add up.                                                          *)

\* What ChangesAddUp says of one step.
AddsUp ==
    \A x \in DOMAIN Rank : RowOf(x)' # RowOf(x) =>
          /\ x \in Policies /\ policy[x] # None => ~policy[x].archived
          /\ \E s \in Slots : /\ req[s].phase = "saved" /\ x \in req[s].rows
                              /\ RowOf(x)' = Edited(req[s], RowOf(x))

\* Every step adds up: only CommitChange writes a row, and what it read of the row is
\* what the row is.
LEMMA StepAddsUp ==
    ASSUME Base, [Next]_vars
    PROVE  AddsUp
  <1>1. DOMAIN Rank = Ids
    BY CatalogueAssumption DEF Ids
  <1>2. CASE UNCHANGED <<control, evidence, policy>>
    BY <1>2 DEF AddsUp, RowOf
  <1>3. ASSUME NEW s \in Slots, CommitChange(s), NEW x \in Ids, RowOf(x)' # RowOf(x)
        PROVE  /\ x \in Policies /\ policy[x] # None => ~policy[x].archived
               /\ req[s].phase = "saved" /\ x \in req[s].rows /\ RowOf(x)' = Edited(req[s], RowOf(x))
    <2>1. x \in req[s].rows /\ req[s].seen[x] = RowOf(x) /\ RowOf(x)' = Edited(req[s], RowOf(x))
      BY <1>3, CommitEffect
    <2>2. EditSound(req[s]) /\ IsEdit(req[s]) /\ req[s].phase = "saved" /\ req[s].op \in Edits
      BY <1>3, CommitEffect DEF CommitChange
    <2>3. ASSUME x \in Policies, policy[x] # None
          PROVE  ~policy[x].archived
      <3>1. RowOf(x) = policy[x]
        BY <2>3 DEF RowOf
      <3>2. req[s].op \in PolicyEdits
        BY <2>1, <2>2, <2>3, IdsAreDistinct DEF EditSound, Edits
      <3>3. req[s].op \notin Creations
        BY <2>1, <2>2, <2>3, <3>1 DEF EditSound
      <3>4. Active(req[s])
        BY <2>2, <3>2, <3>3 DEF EditSound
      <3> QED
        BY <2>1, <3>1, <3>4 DEF Active
    <2> QED
      BY <2>1, <2>2, <2>3
  <1> QED
    BY <1>1, <1>2, <1>3, OnlyCommitsWrite DEF AddsUp

\* The base invariant holds of every reachable state.
LEMMA BaseInvariant ==
    Spec => []Base
  <1>1. Init => Base
    BY InitBase
  <1>2. Base /\ [Next]_vars => Base'
    BY NextBase
  <1> QED
    BY <1>1, <1>2, PTL DEF Spec

\* Concurrent changes of the catalogue add up: whatever CommitChange writes is
\* the request's own edit of the row as it stands, so nothing another request
\* has committed is undone and an archived policy is never changed.
THEOREM NoLostUpdates ==
    Spec => ChangesAddUp
  <1>1. Base /\ [Next]_vars => [AddsUp]_catalogueVars
    BY StepAddsUp
  <1> QED
    BY <1>1, BaseInvariant, PTL DEF Spec, ChangesAddUp, AddsUp

-----------------------------------------------------------------------------
(* Changes wait for each other only to exchange names.                      *)

\* Only a replacement or a creation of a control holds a control, and it maps
\* nothing.
LEMMA HoldersOfControls ==
    ASSUME Base, NEW s \in Slots, req[s] # Idle, req[s].op \in Edits, NEW c \in Controls, c \in Held(s)
    PROVE  req[s].op \in ControlEdits /\ req[s].phase # "lock" /\ MappedBy(req[s]) = {}
  <1> DEFINE r == req[s]
  <1>1. IsRequest(r) /\ Sound(r, RowTable, doc, link, grant, login, session)
    BY DEF Base, RequestsTyped, RequestsSound
  <1>2. IsEdit(r) /\ EditSound(r)
    BY <1>1, Kinds DEF IsRequest, Sound
  <1>3. c \in r.rows /\ c \notin r.todo
    BY DEF Held
  <1>4. r.op \in ControlEdits /\ r.rows \subseteq Controls
    BY <1>2, <1>3, IdsAreDistinct DEF EditSound, Edits
  <1>5. r.todo \subseteq r.rows
    BY <1>2 DEF IsEdit, Edit
  <1>6. r.op \in NamingEdits
    BY <1>4 DEF ControlEdits, NamingEdits
  <1>7. \A x, y \in r.rows : x = y
    BY <1>2, <1>6 DEF EditSound
  <1>8. r.phase # "lock"
    BY <1>2, <1>3, <1>5, <1>7 DEF EditSound
  <1>9. MappedBy(r) = {}
    BY <1>4 DEF MappedBy
  <1> QED
    BY <1>4, <1>8, <1>9

\* What an accepted change maps are controls.
LEMMA MapsControls ==
    ASSUME NEW r, IsEdit(r), EditSound(r), r.phase = "locked", Acceptable(r)
    PROVE  MappedBy(r) \subseteq Controls
  <1>1. r.op \notin Creations => Known(r)
    BY AcceptableKnown DEF IsEdit, Edit
  <1> SUFFICES ASSUME NEW x \in r.rows, x \notin Controls
               PROVE  Edited(r, r.seen[x]).mapped \subseteq Controls
    BY DEF MappedBy
  <1> DEFINE row == r.seen[x]
  <1>2. row \in RowsFor(x) /\ r.op \in Edits /\ r.controls \in SUBSET Controls /\ (r.op \notin Creations => row # None)
    BY <1>1 DEF EditSound, IsEdit, Edit, Known
  <1>3. (r.op \in EvidenceEdits /\ x \in Evidence /\ x \notin Policies) \/ (r.op \in PolicyEdits /\ x \in Policies)
    BY <1>2, IdsAreDistinct DEF EditSound, Edits
  <1> HIDE DEF row
  <1>4. CASE r.op \in EvidenceEdits
    <2>1. row \in EvidenceRow \/ r.op = "create_evidence"
      BY <1>2, <1>3, <1>4 DEF RowsFor, Creations, EvidenceEdits, PolicyEdits
    <2>2. Edited(r, row).mapped \subseteq Controls
      BY <1>2, <1>4, <2>1 DEF Edited, EvidenceEdits, EvidenceRow, DefineEvidence, AddMappings, RemoveMappings
    <2> QED
      BY <2>2 DEF row
  <1>5. CASE r.op \in PolicyEdits
    <2>1. row \in PolicyRow \/ r.op = "create_policy"
      BY <1>2, <1>3, <1>5 DEF RowsFor, Creations, EvidenceEdits, PolicyEdits
    <2>2. Edited(r, row).mapped \subseteq Controls
      BY <1>2, <1>5, <2>1 DEF Edited, PolicyEdits, PolicyRow, DefinePolicy, ReplacePolicyRow,
                                    ArchivePolicyRow, AddMappings, RemoveMappings
    <2> QED
      BY <2>2 DEF row
  <1> QED
    BY <1>3, <1>4, <1>5

\* What waiting in a phase says about the other request.
LEMMA WaitingPhases ==
    ASSUME Base, NEW s \in Slots, NEW t \in Slots, WaitsFor(s, t), req[t].phase # "saved"
    PROVE  /\ IsEdit(req[s]) /\ EditSound(req[s]) /\ EditCurrent(req[s], RowTable) /\ req[s] # Idle /\ req[s].op \in Edits
           /\ \/ req[s].phase = "lock" /\ NextToLock(req[s]) \in Held(t)
              \/ /\ req[s].phase = "locked" /\ Acceptable(req[s]) /\ MappedBy(req[s]) \cap Held(t) # {}
                 /\ MappedBy(req[s]) \subseteq Controls
              \/ req[s].phase = "written" /\ req[t].phase = "written"
                 /\ \E x \in req[s].rows : NameHeldBy(t, x, Claimed(req[s], x))
  <1>1. req[s] # Idle /\ req[s].op \in Edits
    BY DEF WaitsFor
  <1>2. IsRequest(req[s]) /\ Sound(req[s], RowTable, doc, link, grant, login, session)
    BY DEF Base, RequestsTyped, RequestsSound
  <1>3. IsEdit(req[s]) /\ EditSound(req[s]) /\ EditCurrent(req[s], RowTable)
    BY <1>1, <1>2, Kinds DEF IsRequest, Sound
  <1>4. Shared(t) = {}
    BY DEF Shared
  <1>5. req[s].phase = "locked" /\ Acceptable(req[s]) => MappedBy(req[s]) \subseteq Controls
    BY <1>3, MapsControls
  <1> QED
    BY <1>1, <1>3, <1>4, <1>5 DEF WaitsFor, NameHeldBy

\* Two changes never wait for each other's locks.
LEMMA NoLockCycle ==
    ASSUME Base, NEW s \in Slots, NEW t \in Slots, WaitsFor(s, t), WaitsFor(t, s),
           req[s].phase # "saved", req[t].phase # "saved"
    PROVE  req[s].phase = "written" /\ req[t].phase = "written"
  <1>1. /\ IsEdit(req[s]) /\ EditSound(req[s]) /\ req[s] # Idle /\ req[s].op \in Edits
        /\ IsEdit(req[t]) /\ EditSound(req[t]) /\ req[t] # Idle /\ req[t].op \in Edits
    BY WaitingPhases
  <1>2. ~(req[s].phase = "lock" /\ req[t].phase = "lock")
    <2> SUFFICES ASSUME req[s].phase = "lock", req[t].phase = "lock"
                 PROVE  FALSE
      OBVIOUS
    <2> DEFINE x == NextToLock(req[s])
               y == NextToLock(req[t])
    <2>1. x \in Held(t) /\ y \in Held(s)
      BY WaitingPhases
    <2>2. x \in req[s].todo /\ y \in req[t].todo
      BY <1>1, LowestFirst DEF EditSound, IsEdit, Edit
    <2>3. x \in req[t].rows \ req[t].todo /\ y \in req[s].rows \ req[s].todo
      BY <1>1, <2>1 DEF Held
    <2>4. Rank[x] < Rank[y] /\ Rank[y] < Rank[x]
      BY <1>1, <2>2, <2>3 DEF EditSound
    <2>5. Rank[x] \in Nat /\ Rank[y] \in Nat
      BY <1>1, <2>3, CatalogueAssumption DEF IsEdit, Ids
    <2> HIDE DEF x, y
    <2> QED
      BY <2>4, <2>5
  <1>3. ASSUME NEW u \in Slots, NEW v \in Slots, u \in {s, t}, v \in {s, t}, WaitsFor(u, v), WaitsFor(v, u)
        PROVE  req[u].phase # "locked"
    <2> SUFFICES ASSUME req[u].phase = "locked"
                 PROVE  FALSE
      OBVIOUS
    <2>1. MappedBy(req[u]) \cap Held(v) # {} /\ MappedBy(req[u]) \subseteq Controls
      BY <1>3, WaitingPhases
    <2>2. req[v].phase # "lock" /\ MappedBy(req[v]) = {}
      BY <1>1, <1>3, <2>1, HoldersOfControls
    <2> QED
      BY <1>3, <2>2, WaitingPhases
  <1> QED
    BY <1>2, <1>3, WaitingPhases

\* Two changes that wait for each other have both written and want each other's names:
\* locks and shares alone never make a cycle.
LEMMA WaitsAreSwaps ==
    ASSUME Base
    PROVE  WaitCyclesAreSwaps
  <1> SUFFICES ASSUME NEW s \in Slots, NEW t \in Slots, WaitsFor(s, t), WaitsFor(t, s)
               PROVE  /\ req[s].phase = "written" /\ req[t].phase = "written"
                      /\ \E x \in req[s].rows, y \in req[t].rows :
                            /\ Claimed(req[s], x) = NameOf(y, RowOf(y))
                            /\ Claimed(req[t], y) = NameOf(x, RowOf(x))
    BY DEF WaitCyclesAreSwaps
  <1>1. req[s].phase # "saved" /\ req[t].phase # "saved"
    BY DEF WaitsFor
  <1>2. req[s].phase = "written" /\ req[t].phase = "written"
    BY <1>1, NoLockCycle
  <1>3. ASSUME NEW u \in Slots, req[u].phase = "written"
        PROVE  (\A x, y \in req[u].rows : x = y) /\ \A x \in req[u].rows : req[u].seen[x] = RowOf(x)
    <2>1. IsEdit(req[u]) /\ EditSound(req[u]) /\ EditCurrent(req[u], RowTable)
      BY <1>3, EditAt
    <2> QED
      BY <1>3, <2>1 DEF EditSound, EditCurrent, RowTable, IsEdit
  <1>4. PICK x \in req[s].rows : NameHeldBy(t, x, Claimed(req[s], x))
    BY <1>1, <1>2, WaitingPhases
  <1>5. PICK y \in req[t].rows : NameHeldBy(s, y, Claimed(req[t], y))
    BY <1>1, <1>2, WaitingPhases
  <1>6. NameOf(y, req[t].seen[y]) = Claimed(req[s], x)
    BY <1>2, <1>3, <1>4 DEF NameHeldBy
  <1>7. NameOf(x, req[s].seen[x]) = Claimed(req[t], y)
    BY <1>2, <1>3, <1>5 DEF NameHeldBy
  <1> QED
    BY <1>2, <1>3, <1>6, <1>7

\* Two changes wait for each other only when they exchange names: rows are
\* locked in the order of their ids (LockRow), and a change that holds a
\* control waits for no row.
THEOREM OnlySwapsDeadlock ==
    Spec => []WaitCyclesAreSwaps
  BY BaseInvariant, WaitsAreSwaps, PTL

-----------------------------------------------------------------------------
(* What the steps of auditors do to the requests.                           *)

\* The steps of an auditor's request that change no table.
Moves(s) == \/ LockGrant(s) \/ LockLogin(s) \/ LockSession(s) \/ ShareGrant(s)
            \/ \E who \in {None, "auditor", "someone"} : ExchangeAndVerify(s, who)
            \/ ResolveActiveGrant(s) \/ StreamToAuditor(s) \/ ReadPortal(s) \/ ShowPage(s)

\* From which phase to which they lead.
Advances(from, to) == \/ from = "lock" /\ to = "locked"
                      \/ from = "asked" /\ to = "shared"
                      \/ from = "claimed" /\ to = "identified"
                      \/ from = "identified" /\ to = "asked"
                      \/ from = "download" /\ to = "streamed"
                      \/ from \in {"page", "controls", "submissions", "mappings", "policies"} /\ to \in ReadPhases

\* What is known of the request after such a step, from what it has read.
Found(s, new) ==
    /\ new.phase = "locked" /\ new.op = "revoke_grant" => GrantFree(s, new.grant)
    /\ new.phase = "shared" => GrantActive(new.grant, req[s].now) /\ \A t \in Slots \ {s} : new.grant \notin Held(t)
    /\ new.phase = "streamed" => DownloadCandidate(new.what) /\ WithinPeriod(new.what)
    /\ new.phase \in ReadPhases =>
          \/ new.seen.submissions \in {{}, PortalSubmissions}
          \/ req[s].phase \in ReadPhases /\ new.seen.submissions = req[s].seen.submissions

\* The request goes on with the same operation, grant and key.
GoesOn(s, new) == /\ new.op = req[s].op /\ new.grant = req[s].grant /\ new.key = req[s].key
                  /\ Advances(req[s].phase, new.phase) /\ Found(s, new)

\* Such a step keeps the base invariant.
LEMMA MovesKeepBase ==
    ASSUME Base, NEW s \in Slots, Moves(s), UNCHANGED sessionVars
    PROVE  Base'
  BY LockGrantKeepsBase, LockLoginKeepsBase, LockSessionKeepsBase, ShareGrantKeepsBase, ExchangeAndVerifyKeepsBase,
     ResolveActiveGrantKeepsBase, StreamToAuditorKeepsBase, ReadPortalKeepsBase, ShowPageKeepsBase DEF Moves

\* Such a step answers, or goes on.
LEMMA MovesEffect ==
    ASSUME Base, NEW s \in Slots, Moves(s), UNCHANGED sessionVars
    PROVE  /\ RowsStand /\ AuditorStands /\ req[s] \in Audit /\ AuditSound(req[s], grant, login, session)
           /\ \/ Answer(s)
              \/ \E new \in Audit : req' = [req EXCEPT ![s] = new] /\ GoesOn(s, new)
  <1> DEFINE r == req[s]
  <1>1. RowsStand /\ AuditorStands
    BY DEF Moves, LockGrant, LockLogin, LockSession, ShareGrant, ExchangeAndVerify, ResolveActiveGrant,
           StreamToAuditor, ReadPortal, ShowPage
  <1>2. r \in Audit /\ AuditSound(r, grant, login, session)
    BY AuditAt DEF Moves, LockGrant, LockLogin, LockSession, ShareGrant, ExchangeAndVerify, ResolveActiveGrant,
           StreamToAuditor, ReadPortal, ShowPage, AuditOps, ClaimedPhases, VisitPhases, ReadPhases
  <1>3. \A t \in Slots : IsRequest(req'[t])
    BY MovesKeepBase DEF Base, RequestsTyped
  <1> DEFINE Done == Answer(s) \/ \E new \in Audit : req' = [req EXCEPT ![s] = new] /\ GoesOn(s, new)
  <1>4. ASSUME NEW new, Move(s, new), new.op = r.op, new.phase # "idle", GoesOn(s, new)
        PROVE  Done
    <2>1. req' = [req EXCEPT ![s] = new] /\ req'[s] = new
      BY <1>4, OneSlot DEF Move
    <2>2. new \in Audit
      BY <1>2, <1>3, <1>4, <2>1, ByOperation, Kinds
    <2> QED
      BY <1>4, <2>1, <2>2
  <1>5. Answer(s) => Done
    OBVIOUS
  <1> HIDE DEF Done
  <1>6. ASSUME LockGrant(s) \/ LockLogin(s) \/ LockSession(s)
        PROVE  Done
    <2>1. PICK row : Move(s, [r EXCEPT !.phase = "locked", !.todo = {}, !.seen = row])
      BY <1>6 DEF LockGrant, LockLogin, LockSession
    <2>2. r.phase = "lock" /\ (r.op = "revoke_grant" => GrantFree(s, r.grant))
      BY <1>6 DEF LockGrant, LockLogin, LockSession
    <2> DEFINE new == [r EXCEPT !.phase = "locked", !.todo = {}, !.seen = row]
    <2>3. new.op = r.op /\ new.grant = r.grant /\ new.key = r.key /\ new.phase = "locked"
      BY <1>2 DEF Audit
    <2>4. Move(s, new)
      BY <2>1
    <2> HIDE DEF new
    <2>5. GoesOn(s, new)
      BY <2>2, <2>3 DEF GoesOn, Advances, Found, ReadPhases
    <2> QED
      BY <1>4, <2>3, <2>4, <2>5
  <1>7. ASSUME ShareGrant(s)
        PROVE  Done
    <2> DEFINE new == [r EXCEPT !.phase = "shared"]
    <2>1. r.phase = "asked" /\ (\A t \in Slots \ {s} : r.grant \notin Held(t))
          /\ (Answer(s) \/ (GrantActive(r.grant, r.now) /\ Move(s, new)))
      BY <1>7 DEF ShareGrant
    <2>2. new.op = r.op /\ new.grant = r.grant /\ new.key = r.key /\ new.phase = "shared"
      BY <1>2 DEF Audit
    <2> HIDE DEF new
    <2>3. GrantActive(r.grant, r.now) => GoesOn(s, new)
      BY <2>1, <2>2 DEF GoesOn, Advances, Found, ReadPhases
    <2> QED
      BY <1>4, <1>5, <2>1, <2>2, <2>3
  <1>8. ASSUME \E who \in {None, "auditor", "someone"} : ExchangeAndVerify(s, who)
        PROVE  Done
    <2>1. PICK who : r.phase = "claimed" /\ (Answer(s) \/ Move(s, [r EXCEPT !.phase = "identified", !.what = who]))
      BY <1>8 DEF ExchangeAndVerify
    <2> DEFINE new == [r EXCEPT !.phase = "identified", !.what = who]
    <2>2. new.op = r.op /\ new.grant = r.grant /\ new.key = r.key /\ new.phase = "identified"
      BY <1>2 DEF Audit
    <2>3. Answer(s) \/ Move(s, new)
      BY <2>1
    <2> HIDE DEF new
    <2>4. GoesOn(s, new)
      BY <2>1, <2>2 DEF GoesOn, Advances, Found, ReadPhases
    <2> QED
      BY <1>4, <1>5, <2>2, <2>3, <2>4
  <1>9. ASSUME ResolveActiveGrant(s)
        PROVE  Done
    <2> DEFINE new == [r EXCEPT !.phase = "asked", !.now = clock]
    <2>1. r.phase = "identified" /\ (Answer(s) \/ Move(s, new))
      BY <1>9 DEF ResolveActiveGrant
    <2>2. new.op = r.op /\ new.grant = r.grant /\ new.key = r.key /\ new.phase = "asked"
      BY <1>2 DEF Audit
    <2> HIDE DEF new
    <2>3. GoesOn(s, new)
      BY <2>1, <2>2 DEF GoesOn, Advances, Found, ReadPhases
    <2> QED
      BY <1>4, <1>5, <2>1, <2>2, <2>3
  <1>10. ASSUME StreamToAuditor(s)
        PROVE  Done
    <2> DEFINE new == [r EXCEPT !.phase = "streamed"]
    <2>1. r.phase = "download" /\ (Answer(s) \/ (DownloadCandidate(r.what) /\ WithinPeriod(r.what) /\ Move(s, new)))
      BY <1>10 DEF StreamToAuditor
    <2>2. new.op = r.op /\ new.grant = r.grant /\ new.key = r.key /\ new.phase = "streamed" /\ new.what = r.what
      BY <1>2 DEF Audit
    <2> HIDE DEF new
    <2>3. DownloadCandidate(r.what) /\ WithinPeriod(r.what) => GoesOn(s, new)
      BY <2>1, <2>2 DEF GoesOn, Advances, Found, ReadPhases
    <2> QED
      BY <1>4, <1>5, <2>1, <2>2, <2>3
  <1>11. ASSUME ReadPortal(s)
        PROVE  Done
    <2>1. PICK new \in Audit :
              /\ Move(s, new) /\ new.op = r.op /\ new.grant = r.grant /\ new.key = r.key
              /\ new.phase \in {"controls", "submissions", "mappings", "policies"}
              /\ \/ new.seen.submissions \in {{}, PortalSubmissions}
                 \/ r.phase \in ReadPhases /\ new.seen.submissions = r.seen.submissions
      BY <1>11, ReadPortalEffect
    <2>2. r.phase \in {"page", "controls", "submissions", "mappings"}
      BY <1>11 DEF ReadPortal
    <2>3. GoesOn(s, new)
      BY <2>1, <2>2 DEF GoesOn, Advances, Found, ReadPhases
    <2>4. new.phase # "idle"
      BY <2>1
    <2> QED
      BY <1>4, <2>1, <2>3, <2>4
  <1>12. ASSUME ShowPage(s)
        PROVE  Done
    <2> DEFINE new == [r EXCEPT !.phase = "shown"]
    <2>1. r.phase = "policies" /\ (Answer(s) \/ Move(s, new))
      BY <1>12 DEF ShowPage
    <2>2. new.op = r.op /\ new.grant = r.grant /\ new.key = r.key /\ new.phase = "shown" /\ new.seen = r.seen
      BY <1>2 DEF Audit
    <2> HIDE DEF new
    <2>3. GoesOn(s, new)
      BY <2>1, <2>2 DEF GoesOn, Advances, Found, ReadPhases
    <2> QED
      BY <1>4, <1>5, <2>1, <2>2, <2>3
  <1>13. Done
    BY <1>6, <1>7, <1>8, <1>9, <1>10, <1>11, <1>12 DEF Moves
  <1> QED
    BY <1>1, <1>2, <1>13 DEF Done

\* A request of an auditor begins.
Arrives(s, new) ==
    /\ req[s] = Idle /\ new \in Audit /\ req' = [req EXCEPT ![s] = new] /\ AuditorStands
    /\ \/ new.phase = "lock" /\ new.op \in {"revoke_grant", "callback", "logout"}
       \/ new.phase = "asked" /\ new.op = "login"
       \/ /\ new.phase \in {"download", "page"} /\ new.op = "visit"
          /\ new.key \in Sessions /\ SessionActive(new.key)

Arrival(s) == \/ \E g \in Grants : RevokeAuditorAccessGrant(s, g) \/ StartLogin(s, g)
              \/ \E t \in Logins, outcome \in {"code", "error"} : Auth0Callback(s, t, outcome)
              \/ \E v \in Sessions :
                    \/ Logout(s, v) \/ \E d \in Documents : DownloadDocument(s, v, d)
                    \/ \E x \in Policies \cup Controls \cup {None} : OpenPage(s, v, x)

\* An arriving request of an auditor takes an empty slot and no table changes.
LEMMA ArrivalEffect ==
    ASSUME Base, NEW s \in Slots, Arrival(s), UNCHANGED sessionVars
    PROVE  \E new \in Audit : Arrives(s, new)
  <1>1. Base'
    BY RevokeAuditorAccessGrantKeepsBase, StartLoginKeepsBase, Auth0CallbackKeepsBase, LogoutKeepsBase, VisitKeepsBase
       DEF Arrival
  <1>2. \A t \in Slots : IsRequest(req'[t])
    BY <1>1 DEF Base, RequestsTyped
  <1>3. ASSUME NEW op, NEW phase, NEW rows, NEW g, NEW x, NEW what,
               BeginAudit(s, AuditRequest(op, phase, rows, g, x, what)),
               \/ phase = "lock" /\ op \in {"revoke_grant", "callback", "logout"}
               \/ phase = "asked" /\ op = "login"
               \/ phase \in {"download", "page"} /\ op = "visit" /\ x \in Sessions /\ SessionActive(x)
        PROVE  \E new \in Audit : Arrives(s, new)
    <2> DEFINE new == AuditRequest(op, phase, rows, g, x, what)
    <2>1. new.op = op /\ new.phase = phase /\ new.key = x
      BY DEF AuditRequest
    <2>2. req[s] = Idle /\ req' = [req EXCEPT ![s] = new] /\ AuditorStands
      BY <1>3 DEF BeginAudit, Begin
    <2> HIDE DEF new
    <2>3. new.op \in AuditOps /\ new.phase # "idle"
      BY <1>3, <2>1 DEF AuditOps
    <2>4. new \in Audit
      BY <1>2, <2>2, <2>3, OneSlot, ByOperation
    <2> QED
      BY <1>3, <2>1, <2>2, <2>4 DEF Arrives
  <1> QED
    BY <1>3 DEF Arrival, RevokeAuditorAccessGrant, StartLogin, Auth0Callback, Logout, DownloadDocument, OpenPage

\* The steps of auditors, by what they do.
LEMMA AuditorCases ==
    ASSUME AuditorStep
    PROVE  \/ \E g \in Grants, n \in GrantLifetimes : CreateAuditorAccessGrant(g, n)
           \/ \E s \in Slots : \/ Moves(s) \/ Arrival(s) \/ RevokeGrant(s) \/ ClaimAuditorAuthTransaction(s)
                               \/ RevokeAuditorSession(s)
                               \/ \E t \in Logins : StartAuditorAuthTransaction(s, t)
                               \/ \E v \in Sessions : CreateAuthenticatedAuditorSession(s, v)
  BY DEF AuditorStep, Moves, Arrival

\* The requests of auditors are changed by nobody else.
LEMMA AuditorShape ==
    ASSUME Base, AuditorStep, UNCHANGED sessionVars
    PROVE  \A t \in Slots : req'[t] = req[t] \/ req'[t] = Idle \/ req'[t] \in Audit
  <1> DEFINE Shape == \A t \in Slots : req'[t] = req[t] \/ req'[t] = Idle \/ req'[t] \in Audit
  <1>1. ASSUME NEW s \in Slots, NEW r, req' = [req EXCEPT ![s] = r], r = Idle \/ r \in Audit
        PROVE  Shape
    BY <1>1, OneSlot
  <1>2. ASSUME NEW s \in Slots, Answer(s)
        PROVE  Shape
    BY <1>1, <1>2 DEF Answer
  <1> HIDE DEF Shape
  <1>3. ASSUME NEW s \in Slots, Moves(s)
        PROVE  Shape
    BY <1>1, <1>2, <1>3, MovesEffect
  <1>4. ASSUME NEW s \in Slots, Arrival(s)
        PROVE  Shape
    <2>1. PICK new \in Audit : Arrives(s, new)
      BY <1>4, ArrivalEffect
    <2> QED
      BY <1>1, <2>1 DEF Arrives
  <1>5. ASSUME NEW s \in Slots, ClaimAuditorAuthTransaction(s)
        PROVE  Shape
    <2> DEFINE new == [req[s] EXCEPT !.phase = "claimed", !.rows = {}]
    <2>1. new \in Audit
      BY <1>5, ClaimedRequest
    <2>2. Answer(s) \/ req' = [req EXCEPT ![s] = new]
      BY <1>5, ClaimEffect DEF Move
    <2> HIDE DEF new
    <2> QED
      BY <1>1, <1>2, <2>1, <2>2
  <1>6. ASSUME NEW s \in Slots, \/ RevokeGrant(s) \/ RevokeAuditorSession(s)
                                \/ \E t \in Logins : StartAuditorAuthTransaction(s, t)
                                \/ \E v \in Sessions : CreateAuthenticatedAuditorSession(s, v)
        PROVE  Shape
    BY <1>2, <1>6
       DEF RevokeGrant, RevokeAuditorSession, StartAuditorAuthTransaction, CreateAuthenticatedAuditorSession
  <1>7. ASSUME NEW g \in Grants, NEW n \in GrantLifetimes, CreateAuditorAccessGrant(g, n)
        PROVE  Shape
    BY <1>7 DEF CreateAuditorAccessGrant, Shape
  <1>8. Shape
    BY <1>3, <1>4, <1>5, <1>6, <1>7, AuditorCases
  <1> QED
    BY <1>8 DEF Shape

-----------------------------------------------------------------------------
(* Browsers stay within their sessions.                                     *)

\* The steps of a browser's request once it has begun.
BrowserMoves(s) == \/ LockLink(s) \/ RedeemGrant(s) \/ LockPolicyForUpload(s) \/ ArchiveDocument(s)
                   \/ StreamDocument(s)
                   \/ \E d \in Documents : CreateSubmission(s, d) \/ CreatePolicyDocument(s, d)

\* Such a step is of a browser's request and touches no other slot.
LEMMA BrowserMovesEffect ==
    ASSUME Base, NEW s \in Slots, BrowserMoves(s)
    PROVE  req[s] \in Browser /\ req[s] # Idle /\ \A t \in Slots \ {s} : req'[t] = req[t]
  <1>1. \E new : req' = [req EXCEPT ![s] = new]
    BY DEF BrowserMoves, LockLink, RedeemGrant, LockPolicyForUpload, ArchiveDocument, StreamDocument,
           CreateSubmission, CreatePolicyDocument, Move, Answer
  <1>2. req[s] \in Browser
    BY BrowserAt DEF BrowserMoves, LockLink, RedeemGrant, LockPolicyForUpload, ArchiveDocument, StreamDocument,
           CreateSubmission, CreatePolicyDocument, UploadOps, SessionOps
  <1> QED
    BY <1>1, <1>2, Kinds, OneSlot

\* A session admits nothing once its link has expired.
LEMMA SessionAdmits ==
    ASSUME Base, SessionStep, NEW s \in Slots, req[s] = Idle, req'[s] # Idle, req'[s].op \in SessionOps
    PROVE  clock < link[req'[s].link].expires
  <1>1. ASSUME NEW u \in Slots, NEW op, NEW phase, NEW rows, NEW l \in Links, NEW d,
               BeginUpload(u, Request(op, phase, rows, l, d)), VerifySession(l)
        PROVE  clock < link[req'[s].link].expires
    <2>1. req' = [req EXCEPT ![u] = Request(op, phase, rows, l, d)]
      BY <1>1 DEF BeginUpload, Begin
    <2>2. req'[s] = Request(op, phase, rows, l, d)
      BY <2>1, OneSlot
    <2> QED
      BY <1>1, <2>2 DEF Request, VerifySession, SessionExpires
  <1>2. ASSUME NEW u \in Slots, NEW rows, NEW phase, NEW l, NEW d, NEW op \in {"open", "fetch"},
               BeginUpload(u, Request(op, phase, rows, l, d))
        PROVE  FALSE
    <2>1. req' = [req EXCEPT ![u] = Request(op, phase, rows, l, d)]
      BY <1>2 DEF BeginUpload, Begin
    <2>2. req'[s] = Request(op, phase, rows, l, d)
      BY <2>1, OneSlot
    <2> QED
      BY <1>2, <2>2 DEF Request, SessionOps
  <1>3. ASSUME NEW u \in Slots, NEW l \in Links,
               \/ UploadEvidenceFile(u, l) \/ UploadPolicyFile(u, l)
               \/ \E d \in Documents :
                     ArchiveEvidenceFile(u, l, d) \/ ArchivePolicyFile(u, l, d) \/ DownloadPolicyFile(u, l, d)
        PROVE  clock < link[req'[s].link].expires
    BY <1>1, <1>3 DEF UploadEvidenceFile, UploadPolicyFile, ArchiveEvidenceFile, ArchivePolicyFile, DownloadPolicyFile
  <1>4. ASSUME NEW u \in Slots,
               (\E l \in Links : OpenUploadSession(u, l) \/ OpenPolicyUploadSession(u, l))
               \/ \E k \in tickets : RedeemDownloadGrant(u, k)
        PROVE  FALSE
    BY <1>2, <1>4 DEF OpenUploadSession, OpenPolicyUploadSession, RedeemDownloadGrant
  <1>5. ASSUME NEW u \in Slots, BrowserMoves(u)
        PROVE  FALSE
    BY <1>5, BrowserMovesEffect
  <1>6. ~UNCHANGED req
    OBVIOUS
  <1>7. ASSUME NEW l \in Links, NEW d \in Documents, DownloadEvidenceFile(l, d)
        PROVE  FALSE
    BY <1>6, <1>7 DEF DownloadEvidenceFile
  <1>8. ASSUME NEW l \in Links, \/ \E e \in Evidence, w \in Windows : ManageEvidenceSubmissions(l, e, w)
                                \/ \E p \in Policies : ManagePolicyDocument(l, p)
        PROVE  FALSE
    BY <1>6, <1>8 DEF ManageEvidenceSubmissions, ManagePolicyDocument
  <1>9. ASSUME NEW d \in Documents, NEW status \in Terminal, SettleDocument(d, status)
        PROVE  FALSE
    BY <1>6, <1>9 DEF SettleDocument
  <1> QED
    BY <1>3, <1>4, <1>5, <1>7, <1>8, <1>9 DEF SessionStep, BrowserMoves

\* Which steps write documents.
LEMMA DocumentWriters ==
    ASSUME Base, [Next]_vars
    PROVE  \/ UNCHANGED doc
           \/ /\ UNCHANGED <<clock, control, evidence, policy, sessionVars, auditorVars>>
              /\ \/ \E s \in Slots : \/ ArchiveDocument(s)
                                     \/ \E d \in Documents : CreateSubmission(s, d) \/ CreatePolicyDocument(s, d)
                 \/ \E d \in Documents, status \in Terminal : SettleDocument(d, status)
  <1>1. CASE UNCHANGED vars \/ Tick
    BY <1>1 DEF vars, catalogueVars, Tick
  <1>2. CASE AuditorStep
    BY <1>2, AuditorLeavesCatalogue
  <1>3. CASE CatalogueStep
    <2>1. ASSUME NEW s \in Slots, AskForChange(s)
          PROVE  UNCHANGED doc
      <3>1. \E op, rows, cs, name : Change(s, op, rows, cs, name)
        BY <2>1 DEF AskForChange,
                  CreateControl, ReplaceControl, CreateEvidence, CreatePolicy, UpdatePolicy, ArchivePolicy,
                  MapEvidenceToControl, RemoveEvidenceControlMapping, MapEvidenceToControls,
                  UnmapEvidenceFromControls,
                  MapControlToEvidence, UnmapControlFromEvidence, AttachPolicyToControl, DetachPolicyFromControl,
                  AttachPolicyToControls, DetachPolicyFromControls, AttachControlToPolicies, DetachControlFromPolicies
      <3> QED
        BY <3>1 DEF Change
    <2> QED
      BY <1>3, <2>1 DEF CatalogueStep, LockRow, SaveRows, ClaimName, CommitChange, Abandon, RowsStand
  <1>4. CASE SessionStep /\ UNCHANGED auditorVars
    <2>1. ASSUME NEW s \in Slots, NEW r, BeginUpload(s, r)
          PROVE  UNCHANGED doc
      BY <2>1 DEF BeginUpload
    <2>2. ASSUME NEW s \in Slots, LockLink(s) \/ RedeemGrant(s) \/ LockPolicyForUpload(s) \/ StreamDocument(s)
          PROVE  UNCHANGED doc
      BY <2>2 DEF LockLink, RedeemGrant, LockPolicyForUpload, StreamDocument, RowsStand
    <2>3. ASSUME NEW s \in Slots, NEW l \in Links,
               \/ OpenUploadSession(s, l) \/ OpenPolicyUploadSession(s, l)
               \/ UploadEvidenceFile(s, l) \/ UploadPolicyFile(s, l)
               \/ \E d \in Documents :
                     ArchiveEvidenceFile(s, l, d) \/ ArchivePolicyFile(s, l, d) \/ DownloadPolicyFile(s, l, d)
          PROVE  UNCHANGED doc
      BY <2>1, <2>3 DEF OpenUploadSession, OpenPolicyUploadSession, UploadEvidenceFile, UploadPolicyFile,
                      ArchiveEvidenceFile, ArchivePolicyFile, DownloadPolicyFile
    <2>4. ASSUME NEW s \in Slots, NEW k \in tickets, RedeemDownloadGrant(s, k)
          PROVE  UNCHANGED doc
      BY <2>1, <2>4 DEF RedeemDownloadGrant
    <2>5. ASSUME NEW l \in Links, \/ \E e \in Evidence, w \in Windows : ManageEvidenceSubmissions(l, e, w)
                                  \/ \E p \in Policies : ManagePolicyDocument(l, p)
                                  \/ \E d \in Documents : DownloadEvidenceFile(l, d)
          PROVE  UNCHANGED doc
      BY <2>5 DEF ManageEvidenceSubmissions, ManagePolicyDocument, DownloadEvidenceFile
    <2>6. ASSUME \/ \E s \in Slots : \/ ArchiveDocument(s)
                                     \/ \E d \in Documents : CreateSubmission(s, d) \/ CreatePolicyDocument(s, d)
                 \/ \E d \in Documents, status \in Terminal : SettleDocument(d, status)
          PROVE  UNCHANGED <<clock, control, evidence, policy, sessionVars>>
      BY <2>6 DEF ArchiveDocument, CreateSubmission, CreatePolicyDocument, SettleDocument, SessionsStand, sessionVars
    <2> QED
      BY <1>4, <2>2, <2>3, <2>4, <2>5, <2>6 DEF SessionStep
  <1> QED
    BY <1>1, <1>2, <1>3, <1>4 DEF Next

\* What SessionsStayInBounds says of one step.
StaysInBounds ==
       /\ \A s \in Slots :
             req[s] = Idle /\ req'[s] # Idle /\ req'[s].op \in SessionOps =>
                 clock < link[req'[s].link].expires
       /\ \A d \in Documents :
             doc'[d] # doc[d] /\ (doc[d] = None \/ doc'[d].archived # doc[d].archived) =>
                 \E s \in Slots : /\ req[s] # Idle /\ req[s].op \in SessionOps
                                  /\ link[req[s].link].target = doc'[d].owner
                                  /\ link[req[s].link].window = doc'[d].window

\* Every step stays in bounds: a session is admitted against its link's expiry, and a
\* document is made or archived only by a request of its own link.
LEMMA StepStaysInBounds ==
    ASSUME Base, [Next]_vars
    PROVE  StaysInBounds
  <1>1. ASSUME NEW s \in Slots, req[s] = Idle, req'[s] # Idle, req'[s].op \in SessionOps
        PROVE  clock < link[req'[s].link].expires
    <2>1. SessionOps \cap Edits = {} /\ SessionOps \cap AuditOps = {}
      BY DEF SessionOps, Edits, ControlEdits, EvidenceEdits, PolicyEdits, AuditOps
    <2>2. CASE CatalogueStep /\ UNCHANGED <<sessionVars, auditorVars>>
      BY <1>1, <2>1, <2>2, CatalogueShape, Kinds
    <2>3. CASE SessionStep
      BY <1>1, <2>3, SessionAdmits
    <2>4. CASE AuditorStep /\ UNCHANGED sessionVars
      BY <1>1, <2>1, <2>4, AuditorShape, Kinds
    <2>5. CASE UNCHANGED vars \/ Tick
      BY <1>1, <2>5 DEF vars, catalogueVars, Tick
    <2> QED
      BY <2>2, <2>3, <2>4, <2>5 DEF Next
  <1>2. ASSUME NEW d \in Documents, doc'[d] # doc[d], doc[d] = None \/ doc'[d].archived # doc[d].archived
        PROVE  \E s \in Slots : /\ req[s] # Idle /\ req[s].op \in SessionOps
                                /\ link[req[s].link].target = doc'[d].owner
                                /\ link[req[s].link].window = doc'[d].window
    <2>1. ASSUME NEW s \in Slots, NEW e \in Documents, CreateSubmission(s, e)
          PROVE  /\ req[s] # Idle /\ req[s].op \in SessionOps
                 /\ link[req[s].link].target = doc'[d].owner /\ link[req[s].link].window = doc'[d].window
      BY <1>2, <2>1, CreateSubmissionEffect DEF SessionOps
    <2>2. ASSUME NEW s \in Slots, NEW e \in Documents, CreatePolicyDocument(s, e)
          PROVE  /\ req[s] # Idle /\ req[s].op \in SessionOps
                 /\ link[req[s].link].target = doc'[d].owner /\ link[req[s].link].window = doc'[d].window
      BY <1>2, <2>2, CreatePolicyDocumentEffect DEF SessionOps
    <2>3. ASSUME NEW s \in Slots, ArchiveDocument(s)
          PROVE  /\ req[s] # Idle /\ req[s].op \in SessionOps
                 /\ link[req[s].link].target = doc'[d].owner /\ link[req[s].link].window = doc'[d].window
      BY <1>2, <2>3, ArchiveDocumentEffect DEF SessionOps, DocumentsGrow
    <2>4. ASSUME NEW e \in Documents, NEW status \in Terminal, SettleDocument(e, status)
          PROVE  FALSE
      BY <1>2, <2>4, SettleDocumentEffect
    <2> QED
      BY <1>2, <2>1, <2>2, <2>3, <2>4, DocumentWriters
  <1> QED
    BY <1>1, <1>2 DEF StaysInBounds

\* A session admits nothing once its link has expired, and however late a
\* request of it commits, it makes and archives only documents of its own
\* policy, or of its own evidence and window.
THEOREM BrowsersStayInBounds ==
    Spec => SessionsStayInBounds
  <1>1. Base /\ [Next]_vars => [StaysInBounds]_<<req, doc>>
    BY StepStaysInBounds
  <1> QED
    BY <1>1, BaseInvariant, PTL DEF Spec, SessionsStayInBounds, StaysInBounds

-----------------------------------------------------------------------------
(* Links are opened once.                                                   *)

\* Which steps write links.
LEMMA LinkWriters ==
    ASSUME Base, [Next]_vars
    PROVE  \/ UNCHANGED <<link, opened>>
           \/ \E s \in Slots : RedeemGrant(s)
           \/ \E l \in Links, e \in Evidence, w \in Windows : ManageEvidenceSubmissions(l, e, w)
           \/ \E l \in Links, p \in Policies : ManagePolicyDocument(l, p)
  <1>1. CASE UNCHANGED sessionVars
    BY <1>1 DEF sessionVars
  <1>2. CASE SessionStep
    <2>1. ASSUME NEW s \in Slots, NEW r, BeginUpload(s, r)
          PROVE  UNCHANGED <<link, opened>>
      BY <2>1 DEF BeginUpload, SessionsStand
    <2>2. ASSUME NEW s \in Slots, BrowserMoves(s), ~RedeemGrant(s)
          PROVE  UNCHANGED <<link, opened>>
      BY <2>2 DEF BrowserMoves, LockLink, LockPolicyForUpload, StreamDocument, ArchiveDocument, CreateSubmission,
                  CreatePolicyDocument, SessionsStand
    <2>3. ASSUME NEW s \in Slots, NEW l \in Links,
               \/ OpenUploadSession(s, l) \/ OpenPolicyUploadSession(s, l)
               \/ UploadEvidenceFile(s, l) \/ UploadPolicyFile(s, l)
               \/ \E d \in Documents :
                     ArchiveEvidenceFile(s, l, d) \/ ArchivePolicyFile(s, l, d) \/ DownloadPolicyFile(s, l, d)
          PROVE  UNCHANGED <<link, opened>>
      BY <2>1, <2>3 DEF OpenUploadSession, OpenPolicyUploadSession, UploadEvidenceFile, UploadPolicyFile,
                      ArchiveEvidenceFile, ArchivePolicyFile, DownloadPolicyFile
    <2>4. ASSUME NEW s \in Slots, NEW k \in tickets, RedeemDownloadGrant(s, k)
          PROVE  UNCHANGED <<link, opened>>
      BY <2>1, <2>4 DEF RedeemDownloadGrant
    <2>5. ASSUME \/ \E l \in Links, d \in Documents : DownloadEvidenceFile(l, d)
                 \/ \E d \in Documents, status \in Terminal : SettleDocument(d, status)
          PROVE  UNCHANGED <<link, opened>>
      BY <2>5 DEF DownloadEvidenceFile, SettleDocument, SessionsStand
    <2> QED
      BY <1>2, <2>2, <2>3, <2>4, <2>5 DEF SessionStep, BrowserMoves
  <1> QED
    BY <1>1, <1>2 DEF Next, vars

\* A link that is not redeemed has been exchanged for nothing, so opening it
\* exchanges it once.
LEMMA NextLinks ==
    ASSUME Base, LinksSound, [Next]_vars
    PROVE  LinksSound'
  <1>1. clock \in Nat /\ None \notin Nat
    BY CatalogueAssumption, IdsAreDistinct DEF Base, TablesTyped
  <1>2. CASE UNCHANGED <<link, opened>>
    BY <1>2 DEF LinksSound
  <1>3. ASSUME NEW s \in Slots, RedeemGrant(s)
        PROVE  LinksSound'
    <2> DEFINE l == req[s].link
    <2>1. /\ l \in Links /\ link[l] # None /\ \A k \in Links \ {l} : link'[k] = link[k] /\ opened'[k] = opened[k]
          /\ MayRedeem(link[l], clock) =>
                 /\ link'[l].issued = link[l].issued /\ link'[l].expires = link[l].expires
                 /\ link'[l].redeemed = clock /\ link'[l] # None /\ opened'[l] = opened[l] + 1
          /\ ~MayRedeem(link[l], clock) => UNCHANGED <<link, opened>>
      BY <1>3, RedeemEffect
    <2>2. CASE MayRedeem(link[l], clock)
      <3>1. opened[l] = 0 /\ LinkConsistent(link[l]) /\ clock >= link[l].issued /\ clock < link[l].expires
        BY <2>1, <2>2 DEF LinksSound, MayRedeem
      <3>2. link'[l] # None /\ link'[l].redeemed = clock /\ opened'[l] = 1 /\ link'[l].issued = link[l].issued
            /\ link'[l].expires = link[l].expires
        BY <2>1, <2>2, <3>1
      <3>3. link[l].issued \in Nat /\ link[l].expires \in Nat
        BY <2>1 DEF Base, TablesTyped, Link, EvidenceLink, PolicyLink
      <3>4. LinkConsistent(link'[l])
        BY <1>1, <3>1, <3>2, <3>3 DEF LinkConsistent
      <3> HIDE DEF l
      <3>5. ASSUME NEW k \in Links
            PROVE  /\ opened'[k] <= 1
                   /\ link'[k] = None \/ link'[k].redeemed = None => opened'[k] = 0
                   /\ link'[k] # None => LinkConsistent(link'[k])
        <4>1. CASE k = l
          BY <1>1, <3>2, <3>4, <4>1
        <4>2. CASE k # l
          <5>1. link'[k] = link[k] /\ opened'[k] = opened[k]
            BY <2>1, <4>2
          <5> QED
            BY <5>1 DEF LinksSound
        <4> QED
          BY <4>1, <4>2
      <3> QED
        BY <3>5 DEF LinksSound
    <2>3. CASE ~MayRedeem(link[l], clock)
      BY <1>2, <2>1, <2>3
    <2> QED
      BY <2>2, <2>3
  <1>4. ASSUME NEW l \in Links, link[l] = None, NEW v \in Link, link' = [link EXCEPT ![l] = v], UNCHANGED opened,
               v.redeemed = None, v.issued = clock, v.expires = clock + GrantTtl
        PROVE  LinksSound'
    <2>1. link'[l] = v /\ \A k \in Links \ {l} : link'[k] = link[k]
      BY <1>4, IssueEffect
    <2>2. LinkConsistent(v)
      BY <1>1, <1>4, SessionsAssumption DEF LinkConsistent
    <2>3. opened[l] = 0
      BY <1>4 DEF LinksSound
    <2>4. ASSUME NEW k \in Links
          PROVE  /\ opened'[k] <= 1
                 /\ link'[k] = None \/ link'[k].redeemed = None => opened'[k] = 0
                 /\ link'[k] # None => LinkConsistent(link'[k])
      <3>1. CASE k = l
        BY <1>4, <2>1, <2>2, <2>3, <3>1
      <3>2. CASE k # l
        <4>1. link'[k] = link[k] /\ opened'[k] = opened[k]
          BY <1>4, <2>1, <3>2
        <4> QED
          BY <4>1 DEF LinksSound
      <3> QED
        BY <3>1, <3>2
    <2> QED
      BY <2>4 DEF LinksSound
  <1>5. ASSUME NEW l \in Links, \/ \E e \in Evidence, w \in Windows : ManageEvidenceSubmissions(l, e, w)
                                \/ \E p \in Policies : ManagePolicyDocument(l, p)
        PROVE  LinksSound'
    <2>1. ASSUME NEW e \in Evidence, NEW w \in Windows
          PROVE  LET v == IssueEvidenceGrant(e, w, clock) IN
                 v \in Link /\ v.redeemed = None /\ v.issued = clock /\ v.expires = clock + GrantTtl
      BY <1>1, SessionsAssumption DEF IssueEvidenceGrant, Link, EvidenceLink
    <2>2. ASSUME NEW p \in Policies
          PROVE  LET v == IssuePolicyGrant(p, clock) IN
                 v \in Link /\ v.redeemed = None /\ v.issued = clock /\ v.expires = clock + GrantTtl
      BY <1>1, SessionsAssumption DEF IssuePolicyGrant, Link, PolicyLink
    <2>3. PICK v \in Link : /\ v.redeemed = None /\ v.issued = clock /\ v.expires = clock + GrantTtl
                            /\ link[l] = None /\ link' = [link EXCEPT ![l] = v] /\ UNCHANGED opened
      BY <1>5, <2>1, <2>2 DEF ManageEvidenceSubmissions, ManagePolicyDocument
    <2> QED
      BY <1>4, <2>3
  <1> QED
    BY <1>2, <1>3, <1>5, LinkWriters

-----------------------------------------------------------------------------
(* A login yields one session.                                              *)

\* Only auditors touch the auditors' tables and requests.
LEMMA OthersLeaveAuditors ==
    ASSUME Base, [Next]_vars, ~(AuditorStep /\ UNCHANGED sessionVars)
    PROVE  /\ AuditorStands
           /\ \A t \in Slots : req'[t] = req[t] \/ req'[t] = Idle \/ IsEdit(req'[t]) \/ req'[t] \in Browser
  <1>1. CASE CatalogueStep /\ UNCHANGED <<sessionVars, auditorVars>>
    BY <1>1, CatalogueShape DEF AuditorStands
  <1>2. CASE SessionStep /\ UNCHANGED auditorVars
    BY <1>2, SessionShape DEF AuditorStands
  <1>3. CASE (Tick /\ UNCHANGED <<sessionVars, auditorVars>>) \/ UNCHANGED vars
    BY <1>3 DEF AuditorStands, Tick, vars, catalogueVars
  <1> QED
    BY <1>1, <1>2, <1>3 DEF Next

\* A claim made is kept by no other step than those of auditors.
LEMMA OthersClaimNothing ==
    ASSUME NEW r, r = Idle \/ IsEdit(r) \/ r \in Browser
    PROVE  /\ ~(r.phase \in ClaimedPhases) /\ r.phase # "shared" /\ ~(r.phase = "locked" /\ r.op = "revoke_grant")
           /\ r.phase # "streamed" /\ r.phase \notin ReadPhases /\ r.phase # "shown"
  <1>1. "revoke_grant" \notin Edits \cup UploadOps
    BY DEF Edits, ControlEdits, EvidenceEdits, PolicyEdits, UploadOps, SessionOps
  <1>2. r.phase \in {"idle", "lock", "locked", "written", "saved", "staged", "decided", "fetch", "served"}
    BY Kinds
  <1>3. r.phase = "locked" => r.op \in Edits \cup UploadOps
    BY Kinds
  <1> QED
    BY <1>1, <1>2, <1>3 DEF ClaimedPhases, ReadPhases

\* What a callback that has claimed a login knows of it.
LEMMA ClaimingKnown ==
    ASSUME Base, NEW s \in Slots, NEW t \in Logins, Claiming(s, t)
    PROVE  login[t] # None /\ req[s] \in Audit
  <1>1. req[s] \in Audit /\ AuditSound(req[s], grant, login, session)
    BY AuditAt DEF Claiming
  <1> QED
    BY <1>1 DEF AuditSound, Claiming

\* Nothing is lost when no login, no session and no new claim is made.
LEMMA LoginsStand ==
    ASSUME LoginsSound, UNCHANGED <<login, session>>,
           \A s \in Slots, t \in Logins : Claiming(s, t)' => Claiming(s, t)
    PROVE  LoginsSound'
  <1>1. ASSUME NEW s \in Slots, NEW t \in Logins, Claiming(s, t)'
        PROVE  /\ login'[t].consumed # None
               /\ \A u \in Slots \ {s} : ~(Claiming(u, t)')
               /\ \A v \in Sessions : session'[v] # None => session'[v].login # t
    BY <1>1 DEF LoginsSound
  <1>2. OneSessionPerLogin'
    BY DEF LoginsSound, OneSessionPerLogin
  <1>3. /\ \A t \in Logins : login'[t] # None => LoginConsistent(login'[t])
        /\ \A v \in Sessions : session'[v] # None =>
              login'[session'[v].login] # None /\ login'[session'[v].login].consumed # None
    BY DEF LoginsSound
  <1> QED
    BY <1>1, <1>2, <1>3 DEF LoginsSound

\* A step of one slot that claims nothing it had not claimed.
LEMMA NoNewClaim ==
    ASSUME Base, NEW s \in Slots, NEW r, req' = [req EXCEPT ![s] = r],
           r.phase \in ClaimedPhases /\ r.op = "callback" =>
              req[s].phase \in ClaimedPhases /\ req[s].op = "callback" /\ req[s].key = r.key
    PROVE  \A u \in Slots, t \in Logins : Claiming(u, t)' => Claiming(u, t)
  <1>1. req'[s] = r /\ \A t \in Slots \ {s} : req'[t] = req[t]
    BY OneSlot
  <1> TAKE u \in Slots, t \in Logins
  <1> QED
    BY <1>1 DEF Claiming

\* An answered request claims no login.
LEMMA AnswerClaimsNothing ==
    ASSUME Base, NEW s \in Slots, Answer(s)
    PROVE  /\ \A u \in Slots, t \in Logins : Claiming(u, t)' => Claiming(u, t)
           /\ \A t \in Logins : ~(Claiming(s, t)')
  <1>1. Idle.phase \notin ClaimedPhases
    BY DEF Idle, ClaimedPhases
  <1>2. req' = [req EXCEPT ![s] = Idle] /\ req'[s] = Idle
    BY OneSlot DEF Answer
  <1> QED
    BY <1>1, <1>2, NoNewClaim DEF Claiming

\* Every step keeps logins single: a claim is made under the lock of an unconsumed
\* login, and only the claiming callback makes a session of it.
LEMMA NextLogins ==
    ASSUME Base, LoginsSound, [Next]_vars
    PROVE  LoginsSound'
  <1>1. CASE ~(AuditorStep /\ UNCHANGED sessionVars)
    <2>1. \A s \in Slots, t \in Logins : Claiming(s, t)' => Claiming(s, t)
      BY <1>1, OthersLeaveAuditors, OthersClaimNothing DEF Claiming
    <2> QED
      BY <1>1, <2>1, LoginsStand, OthersLeaveAuditors DEF AuditorStands, auditorVars
  <1>2. ASSUME NEW s \in Slots, Moves(s), UNCHANGED sessionVars
        PROVE  LoginsSound'
    <2>1. UNCHANGED <<login, session>>
      BY <1>2, MovesEffect DEF AuditorStands, auditorVars
    <2>2. ASSUME NEW new \in Audit, req' = [req EXCEPT ![s] = new], GoesOn(s, new)
          PROVE  LoginsSound'
      <3>1. new.phase \in ClaimedPhases => req[s].phase \in ClaimedPhases
        BY <2>2 DEF GoesOn, Advances, ClaimedPhases, ReadPhases
      <3>2. \A u \in Slots, t \in Logins : Claiming(u, t)' => Claiming(u, t)
        BY <2>2, <3>1, NoNewClaim DEF GoesOn
      <3> QED
        BY <2>1, <3>2, LoginsStand
    <2>3. CASE Answer(s)
      BY <2>1, <2>3, AnswerClaimsNothing, LoginsStand
    <2> QED
      BY <1>2, <2>2, <2>3, MovesEffect
  <1>3. ASSUME NEW s \in Slots, Arrival(s), UNCHANGED sessionVars
        PROVE  LoginsSound'
    <2>1. PICK new \in Audit : Arrives(s, new)
      BY <1>3, ArrivalEffect
    <2>2. \A u \in Slots, t \in Logins : Claiming(u, t)' => Claiming(u, t)
      BY <2>1, NoNewClaim DEF Arrives, ClaimedPhases
    <2> QED
      BY <2>1, <2>2, LoginsStand DEF Arrives, AuditorStands, auditorVars
  <1>4. ASSUME \E g \in Grants, n \in GrantLifetimes : CreateAuditorAccessGrant(g, n)
        PROVE  LoginsSound'
    BY <1>4, LoginsStand DEF CreateAuditorAccessGrant, Claiming
  <1>5. ASSUME NEW s \in Slots, RevokeGrant(s)
        PROVE  LoginsSound'
    BY <1>5, LoginsStand, AnswerClaimsNothing DEF RevokeGrant
  <1>6. ASSUME NEW s \in Slots, NEW k \in Logins, StartAuditorAuthTransaction(s, k)
        PROVE  LoginsSound'
    <2>1. /\ login[k] = None /\ login'[k] # None /\ LoginConsistent(login'[k])
          /\ \A u \in Logins \ {k} : login'[u] = login[u]
      BY <1>6, StartLoginEffect
    <2>2. UNCHANGED session /\ Answer(s)
      BY <1>6 DEF StartAuditorAuthTransaction
    <2>3. \A u \in Slots, t \in Logins : Claiming(u, t)' => Claiming(u, t) /\ t # k
      BY <2>1, <2>2, AnswerClaimsNothing, ClaimingKnown
    <2>4. \A v \in Sessions : session[v] # None => session[v].login \in Logins /\ session[v].login # k
      BY <2>1 DEF LoginsSound, Base, TablesTyped, AuditorSession
    <2>5. ASSUME NEW u \in Slots, NEW t \in Logins, Claiming(u, t)'
          PROVE  /\ login'[t].consumed # None
                 /\ \A w \in Slots \ {u} : ~(Claiming(w, t)')
                 /\ \A v \in Sessions : session'[v] # None => session'[v].login # t
      BY <2>1, <2>2, <2>3, <2>5 DEF LoginsSound
    <2>6. OneSessionPerLogin'
      BY <2>2 DEF LoginsSound, OneSessionPerLogin
    <2>7. /\ \A t \in Logins : login'[t] # None => LoginConsistent(login'[t])
          /\ \A v \in Sessions : session'[v] # None =>
                login'[session'[v].login] # None /\ login'[session'[v].login].consumed # None
      BY <2>1, <2>2, <2>4 DEF LoginsSound
    <2> QED
      BY <2>5, <2>6, <2>7 DEF LoginsSound
  <1>7. ASSUME NEW s \in Slots, ClaimAuditorAuthTransaction(s)
        PROVE  LoginsSound'
    <2> DEFINE k == req[s].key
               new == [req[s] EXCEPT !.phase = "claimed", !.rows = {}]
    <2>1. /\ k \in Logins /\ login[k] # None /\ login'[k] # None /\ \A u \in Logins \ {k} : login'[u] = login[u]
          /\ LoginConsistent(login[k]) => LoginConsistent(login'[k])
          /\ login[k].consumed # None => login'[k].consumed # None
      BY <1>7, ClaimEffect
    <2>2. UNCHANGED session
      BY <1>7 DEF ClaimAuditorAuthTransaction
    <2>3. Answer(s) \/ (login[k].consumed = None /\ login'[k].consumed # None /\ req' = [req EXCEPT ![s] = new])
      BY <1>7, ClaimEffect DEF Move
    <2>4. new.op = "callback" /\ new.key = k /\ new.phase = "claimed"
      BY <1>7, ClaimedRequest
    <2> HIDE DEF new, k
    <2>5. \A t \in Logins : login[t] # None /\ login[t].consumed # None => login'[t] # None /\ login'[t].consumed # None
      BY <2>1
    <2>6. /\ \A t \in Logins : login'[t] # None => LoginConsistent(login'[t])
          /\ \A v \in Sessions : session'[v] # None =>
                login'[session'[v].login] # None /\ login'[session'[v].login].consumed # None
      <3>1. \A v \in Sessions : session[v] # None => session[v].login \in Logins
        BY DEF Base, TablesTyped, AuditorSession
      <3> QED
        BY <2>1, <2>2, <2>5, <3>1 DEF LoginsSound
    <2>7. OneSessionPerLogin'
      BY <2>2 DEF LoginsSound, OneSessionPerLogin
    <2>8. ASSUME NEW u \in Slots, NEW t \in Logins, Claiming(u, t), \A w \in Slots \ {u} : Claiming(w, t)' => Claiming(w, t)
          PROVE  /\ login'[t].consumed # None
                 /\ \A w \in Slots \ {u} : ~(Claiming(w, t)')
                 /\ \A v \in Sessions : session'[v] # None => session'[v].login # t
      BY <2>2, <2>5, <2>8, ClaimingKnown DEF LoginsSound
    <2>9. CASE Answer(s)
      <3>1. \A u \in Slots, t \in Logins : Claiming(u, t)' => Claiming(u, t)
        BY <2>9, AnswerClaimsNothing
      <3> QED
        BY <2>6, <2>7, <2>8, <3>1 DEF LoginsSound
    <2>10. CASE login[k].consumed = None /\ login'[k].consumed # None /\ req' = [req EXCEPT ![s] = new]
      <3>1. req'[s] = new /\ \A u \in Slots \ {s} : req'[u] = req[u]
        BY <2>10, OneSlot
      <3>2. \A u \in Slots, t \in Logins : Claiming(u, t)' => (u = s /\ t = k) \/ (u # s /\ t # k /\ Claiming(u, t))
        BY <2>1, <2>4, <2>10, <3>1 DEF Claiming, LoginsSound
      <3>3. \A v \in Sessions : session[v] # None => session[v].login # k
        BY <2>10 DEF LoginsSound
      <3>4. ASSUME NEW u \in Slots, NEW t \in Logins, Claiming(u, t)'
            PROVE  /\ login'[t].consumed # None
                   /\ \A w \in Slots \ {u} : ~(Claiming(w, t)')
                   /\ \A v \in Sessions : session'[v] # None => session'[v].login # t
        <4>1. CASE u = s /\ t = k
          BY <2>2, <2>10, <3>2, <3>3, <4>1
        <4>2. CASE u # s /\ t # k /\ Claiming(u, t)
          BY <2>8, <3>2, <4>2
        <4> QED
          BY <3>2, <3>4, <4>1, <4>2
      <3> QED
        BY <2>6, <2>7, <3>4 DEF LoginsSound
    <2> QED
      BY <2>3, <2>9, <2>10
  <1>8. ASSUME NEW s \in Slots, NEW v \in Sessions, CreateAuthenticatedAuditorSession(s, v)
        PROVE  LoginsSound'
    <2> DEFINE k == req[s].key
    <2>1. /\ session[v] = None /\ session'[v] # None /\ \A w \in Sessions \ {v} : session'[w] = session[w]
          /\ session'[v].login = k /\ k \in Logins
      BY <1>8, CreateSessionEffect
    <2>2. UNCHANGED login /\ Answer(s) /\ Claiming(s, k)
      BY <1>8 DEF CreateAuthenticatedAuditorSession, Claiming, ClaimedPhases
    <2> HIDE DEF k
    <2>3. login[k] # None /\ login[k].consumed # None /\ \A w \in Sessions : session[w] # None => session[w].login # k
      BY <2>1, <2>2, ClaimingKnown DEF LoginsSound
    <2>4. OneSessionPerLogin'
      BY <2>1, <2>3 DEF LoginsSound, OneSessionPerLogin
    <2>5. /\ \A t \in Logins : login'[t] # None => LoginConsistent(login'[t])
          /\ \A w \in Sessions : session'[w] # None =>
                login'[session'[w].login] # None /\ login'[session'[w].login].consumed # None
      BY <2>1, <2>2, <2>3 DEF LoginsSound
    <2>6. \A u \in Slots, t \in Logins : Claiming(u, t)' => Claiming(u, t) /\ u # s /\ t # k
      BY <2>1, <2>2, AnswerClaimsNothing DEF LoginsSound
    <2>7. ASSUME NEW u \in Slots, NEW t \in Logins, Claiming(u, t)'
          PROVE  /\ login'[t].consumed # None
                 /\ \A w \in Slots \ {u} : ~(Claiming(w, t)')
                 /\ \A w \in Sessions : session'[w] # None => session'[w].login # t
      BY <2>1, <2>2, <2>6, <2>7 DEF LoginsSound
    <2> QED
      BY <2>4, <2>5, <2>7 DEF LoginsSound
  <1>9. ASSUME NEW s \in Slots, RevokeAuditorSession(s)
        PROVE  LoginsSound'
    <2> DEFINE k == req[s].key
    <2>1. /\ k \in Sessions /\ session[k] # None /\ session'[k] # None /\ session'[k].login = session[k].login
          /\ \A w \in Sessions \ {k} : session'[w] = session[w]
      BY <1>9, RevokeSessionEffect
    <2>2. UNCHANGED login /\ Answer(s)
      BY <1>9 DEF RevokeAuditorSession
    <2> HIDE DEF k
    <2>3. \A w \in Sessions : session'[w] # None => session[w] # None /\ session'[w].login = session[w].login
      BY <2>1
    <2>4. OneSessionPerLogin'
      BY <2>3 DEF LoginsSound, OneSessionPerLogin
    <2>5. /\ \A t \in Logins : login'[t] # None => LoginConsistent(login'[t])
          /\ \A w \in Sessions : session'[w] # None =>
                login'[session'[w].login] # None /\ login'[session'[w].login].consumed # None
      BY <2>2, <2>3 DEF LoginsSound
    <2>6. \A u \in Slots, t \in Logins : Claiming(u, t)' => Claiming(u, t)
      BY <2>2, AnswerClaimsNothing
    <2>7. ASSUME NEW u \in Slots, NEW t \in Logins, Claiming(u, t)'
          PROVE  /\ login'[t].consumed # None
                 /\ \A w \in Slots \ {u} : ~(Claiming(w, t)')
                 /\ \A w \in Sessions : session'[w] # None => session'[w].login # t
      BY <2>2, <2>3, <2>6, <2>7 DEF LoginsSound
    <2> QED
      BY <2>4, <2>5, <2>7 DEF LoginsSound
  <1>10. CASE AuditorStep /\ UNCHANGED sessionVars
    BY <1>2, <1>3, <1>4, <1>5, <1>6, <1>7, <1>8, <1>9, <1>10, AuditorCases
  <1> QED
    BY <1>1, <1>10

-----------------------------------------------------------------------------
(* A shared grant is not revoked.                                           *)

Revoking(s, g) == req[s].phase = "locked" /\ req[s].op = "revoke_grant" /\ req[s].grant = g

\* A revocation that has locked its grant holds it.
LEMMA RevokingHolds ==
    ASSUME Base, NEW s \in Slots, NEW g, Revoking(s, g)
    PROVE  g \in Held(s) /\ req[s] \in Audit
  <1>1. req[s] \in Audit /\ AuditSound(req[s], grant, login, session) /\ Held(s) = req[s].rows \ req[s].todo
    BY AuditAt DEF Revoking, AuditOps
  <1> QED
    BY <1>1 DEF AuditSound, Revoking

\* Shares stand when no new one is taken, the shared grants stand and nobody new is
\* about to revoke.
LEMMA SharesStand ==
    ASSUME SharesSound,
           \A s \in Slots, g \in Grants : SharesGrant(s, g)' => SharesGrant(s, g) /\ grant'[g] = grant[g],
           \A s \in Slots, g \in Grants : Revoking(s, g)' => Revoking(s, g),
           \A s \in Slots : req'[s].phase = "shared" => req'[s].grant \in Grants
    PROVE  SharesSound'
  <1> SUFFICES ASSUME NEW s \in Slots, req'[s].phase = "shared"
               PROVE  /\ grant'[req'[s].grant] # None /\ grant'[req'[s].grant].revoked = None
                      /\ \A t \in Slots \ {s} : req'[t].phase = "locked" /\ req'[t].op = "revoke_grant" =>
                            req'[t].grant # req'[s].grant
    BY DEF SharesSound
  <1>1. PICK g \in Grants : g = req'[s].grant
    OBVIOUS
  <1>2. SharesGrant(s, g)'
    BY <1>1 DEF SharesGrant
  <1>3. req[s].phase = "shared" /\ req[s].grant = g /\ grant'[g] = grant[g]
    BY <1>2 DEF SharesGrant
  <1>4. grant[g] # None /\ grant[g].revoked = None /\ \A t \in Slots \ {s} : ~Revoking(t, g)
    BY <1>3 DEF SharesSound, Revoking
  <1>5. \A t \in Slots \ {s} : ~(Revoking(t, g)')
    BY <1>4
  <1> QED
    BY <1>1, <1>3, <1>4, <1>5 DEF Revoking

\* A step of one slot that leaves it neither sharing nor about to revoke.
LEMMA SharesKept ==
    ASSUME Base, SharesSound, NEW s \in Slots, NEW r, req' = [req EXCEPT ![s] = r], Base',
           r.phase # "shared", ~(r.phase = "locked" /\ r.op = "revoke_grant"),
           \A t \in Slots \ {s} : req[t].phase = "shared" => grant'[req[t].grant] = grant[req[t].grant]
    PROVE  SharesSound'
  <1>1. req'[s] = r /\ \A t \in Slots \ {s} : req'[t] = req[t]
    BY OneSlot
  <1>2. \A t \in Slots : req'[t].phase = "shared" => req'[t].grant \in Grants
    <2> TAKE t \in Slots
    <2> HAVE req'[t].phase = "shared"
    <2>1. t # s /\ req'[t] = req[t]
      BY <1>1
    <2>2. req[t] \in Audit
      BY <2>1, AuditAt DEF ClaimedPhases
    <2> QED
      BY <2>1, <2>2 DEF Audit
  <1>3. \A t \in Slots, g \in Grants : SharesGrant(t, g)' => SharesGrant(t, g) /\ grant'[g] = grant[g]
    BY <1>1 DEF SharesGrant
  <1>4. \A t \in Slots, g \in Grants : Revoking(t, g)' => Revoking(t, g)
    BY <1>1 DEF Revoking
  <1> QED
    BY <1>2, <1>3, <1>4, SharesStand

\* An answered request gives up its share and disturbs no other.
LEMMA AnswerKeepsShares ==
    ASSUME Base, SharesSound, NEW s \in Slots, Answer(s), Base',
           \A t \in Slots \ {s} : req[t].phase = "shared" => grant'[req[t].grant] = grant[req[t].grant]
    PROVE  SharesSound'
  <1>1. req' = [req EXCEPT ![s] = Idle]
    BY DEF Answer
  <1>2. Idle.phase = "idle"
    BY DEF Idle
  <1> QED
    BY <1>1, <1>2, SharesKept

\* Every step keeps shared grants: ShareGrant waits for a revocation that holds the
\* row, and LockGrant waits for a share.
LEMMA NextShares ==
    ASSUME Base, SharesSound, [Next]_vars
    PROVE  SharesSound'
  <1>0. Base'
    BY NextBase
  <1>1. CASE ~(AuditorStep /\ UNCHANGED sessionVars)
    <2>1. UNCHANGED grant
      BY <1>1, OthersLeaveAuditors DEF AuditorStands, auditorVars
    <2>2. \A t \in Slots : req'[t].phase = "shared" \/ (req'[t].phase = "locked" /\ req'[t].op = "revoke_grant") =>
             req'[t] = req[t]
      BY <1>1, OthersLeaveAuditors, OthersClaimNothing
    <2>3. \A t \in Slots : req'[t].phase = "shared" => req'[t].grant \in Grants
      <3> TAKE t \in Slots
      <3> HAVE req'[t].phase = "shared"
      <3>1. req[t] \in Audit
        BY <2>2, AuditAt DEF ClaimedPhases
      <3> QED
        BY <2>2, <3>1 DEF Audit
    <2>4. \A s \in Slots, g \in Grants : SharesGrant(s, g)' => SharesGrant(s, g) /\ grant'[g] = grant[g]
      BY <2>1, <2>2 DEF SharesGrant
    <2>5. \A s \in Slots, g \in Grants : Revoking(s, g)' => Revoking(s, g)
      BY <2>2 DEF Revoking
    <2> QED
      BY <2>3, <2>4, <2>5, SharesStand
  <1>2. ASSUME NEW s \in Slots, Moves(s), UNCHANGED sessionVars
        PROVE  SharesSound'
    <2>1. UNCHANGED grant /\ req[s] \in Audit
      BY <1>2, MovesEffect DEF AuditorStands, auditorVars
    <2>2. ASSUME NEW new \in Audit, req' = [req EXCEPT ![s] = new], GoesOn(s, new)
          PROVE  SharesSound'
      <3>1. req'[s] = new /\ \A t \in Slots \ {s} : req'[t] = req[t]
        BY <2>2, OneSlot
      <3>2. CASE new.phase = "shared"
        <4>1. GrantActive(new.grant, req[s].now) /\ \A t \in Slots \ {s} : new.grant \notin Held(t)
          BY <2>2, <3>2 DEF GoesOn, Found
        <4>2. \A t \in Slots \ {s} : ~Revoking(t, new.grant)
          BY <4>1, RevokingHolds
        <4>3. ASSUME NEW t \in Slots, req'[t].phase = "shared"
              PROVE  /\ grant'[req'[t].grant] # None /\ grant'[req'[t].grant].revoked = None
                     /\ \A u \in Slots \ {t} : req'[u].phase = "locked" /\ req'[u].op = "revoke_grant" =>
                            req'[u].grant # req'[t].grant
          <5>1. CASE t = s
            BY <2>1, <3>1, <4>1, <4>2, <5>1 DEF GrantActive, Revoking
          <5>2. CASE t # s
            BY <2>1, <3>1, <3>2, <4>3, <5>2 DEF SharesSound
          <5> QED
            BY <5>1, <5>2
        <4> QED
          BY <4>3 DEF SharesSound
      <3>3. CASE new.phase = "locked" /\ new.op = "revoke_grant"
        <4>1. GrantFree(s, new.grant)
          BY <2>2, <3>3 DEF GoesOn, Found
        <4>2. \A t \in Slots \ {s} : ~SharesGrant(t, new.grant)
          BY <4>1 DEF GrantFree
        <4>3. ASSUME NEW t \in Slots, req'[t].phase = "shared"
              PROVE  /\ grant'[req'[t].grant] # None /\ grant'[req'[t].grant].revoked = None
                     /\ \A u \in Slots \ {t} : req'[u].phase = "locked" /\ req'[u].op = "revoke_grant" =>
                            req'[u].grant # req'[t].grant
          <5>1. t # s /\ req'[t] = req[t]
            BY <3>1, <3>3, <4>3
          <5>2. req[t].grant # new.grant
            BY <4>2, <4>3, <5>1 DEF SharesGrant
          <5> QED
            BY <2>1, <3>1, <4>3, <5>1, <5>2 DEF SharesSound
        <4> QED
          BY <4>3 DEF SharesSound
      <3>4. CASE new.phase # "shared" /\ ~(new.phase = "locked" /\ new.op = "revoke_grant")
        BY <1>0, <2>1, <2>2, <3>4, SharesKept
      <3> QED
        BY <3>2, <3>3, <3>4
    <2>3. CASE Answer(s)
      BY <1>0, <2>1, <2>3, AnswerKeepsShares
    <2> QED
      BY <1>2, <2>2, <2>3, MovesEffect
  <1>3. ASSUME NEW s \in Slots, Arrival(s), UNCHANGED sessionVars
        PROVE  SharesSound'
    <2>1. PICK new \in Audit : Arrives(s, new)
      BY <1>3, ArrivalEffect
    <2>2. new.phase # "shared" /\ new.phase # "locked" /\ req' = [req EXCEPT ![s] = new] /\ UNCHANGED grant
      BY <2>1 DEF Arrives, AuditorStands, auditorVars
    <2> QED
      BY <1>0, <2>2, SharesKept
  <1>4. ASSUME NEW g \in Grants, NEW n \in GrantLifetimes, CreateAuditorAccessGrant(g, n)
        PROVE  SharesSound'
    <2>1. UNCHANGED req /\ grant[g] = None /\ \A h \in Grants \ {g} : grant'[h] = grant[h]
      BY <1>4, CreateGrantEffect DEF CreateAuditorAccessGrant
    <2>2. \A t \in Slots : req[t].phase = "shared" => req[t].grant \in Grants /\ req[t].grant # g
      <3> TAKE t \in Slots
      <3> HAVE req[t].phase = "shared"
      <3>1. req[t] \in Audit
        BY AuditAt DEF ClaimedPhases
      <3> QED
        BY <2>1, <3>1 DEF Audit, SharesSound
    <2> QED
      BY <2>1, <2>2, SharesStand DEF SharesGrant, Revoking
  <1>5. ASSUME NEW s \in Slots, RevokeGrant(s)
        PROVE  SharesSound'
    <2>1. Answer(s) /\ req[s].phase = "locked" /\ req[s].op = "revoke_grant"
          /\ \A h \in Grants \ {req[s].grant} : grant'[h] = grant[h]
      BY <1>5, RevokeGrantEffect DEF RevokeGrant
    <2>2. \A t \in Slots \ {s} : req[t].phase = "shared" => grant'[req[t].grant] = grant[req[t].grant]
      <3> TAKE t \in Slots \ {s}
      <3> HAVE req[t].phase = "shared"
      <3>1. req[t] \in Audit
        BY AuditAt DEF ClaimedPhases
      <3>2. req[s].grant # req[t].grant
        BY <2>1 DEF SharesSound
      <3> QED
        BY <2>1, <3>1, <3>2 DEF Audit
    <2> QED
      BY <1>0, <2>1, <2>2, AnswerKeepsShares
  <1>6. ASSUME NEW s \in Slots, \/ RevokeAuditorSession(s)
                                \/ \E t \in Logins : StartAuditorAuthTransaction(s, t)
                                \/ \E v \in Sessions : CreateAuthenticatedAuditorSession(s, v)
        PROVE  SharesSound'
    <2>1. Answer(s) /\ UNCHANGED grant
      BY <1>6 DEF RevokeAuditorSession, StartAuditorAuthTransaction, CreateAuthenticatedAuditorSession
    <2> QED
      BY <1>0, <2>1, AnswerKeepsShares
  <1>7. ASSUME NEW s \in Slots, ClaimAuditorAuthTransaction(s)
        PROVE  SharesSound'
    <2> DEFINE new == [req[s] EXCEPT !.phase = "claimed", !.rows = {}]
    <2>1. UNCHANGED grant /\ (Answer(s) \/ req' = [req EXCEPT ![s] = new])
      BY <1>7, ClaimEffect DEF ClaimAuditorAuthTransaction, Move
    <2>2. new.phase = "claimed"
      BY <1>7, ClaimedRequest
    <2> HIDE DEF new
    <2> QED
      BY <1>0, <2>1, <2>2, AnswerKeepsShares, SharesKept
  <1>8. CASE AuditorStep /\ UNCHANGED sessionVars
    BY <1>2, <1>3, <1>4, <1>5, <1>6, <1>7, <1>8, AuditorCases
  <1> QED
    BY <1>1, <1>8

\* What NothingAfterRevocation says of one step.
MadeUnderLiveGrant ==
       /\ \A t \in Logins : login[t] = None /\ login'[t] # None => grant[login'[t].grant].revoked = None
       /\ \A v \in Sessions : session[v] = None /\ session'[v] # None => grant[session'[v].grant].revoked = None

\* Logins and sessions are made only by requests that share a grant, which is then not
\* revoked.
LEMMA StepMadeUnderLiveGrant ==
    ASSUME Base, SharesSound, [Next]_vars
    PROVE  MadeUnderLiveGrant
  <1>1. ASSUME UNCHANGED <<login, session>>
        PROVE  MadeUnderLiveGrant
    BY <1>1 DEF MadeUnderLiveGrant
  <1>2. CASE ~(AuditorStep /\ UNCHANGED sessionVars)
    BY <1>1, <1>2, OthersLeaveAuditors DEF AuditorStands, auditorVars
  <1>3. ASSUME NEW s \in Slots, Moves(s), UNCHANGED sessionVars
        PROVE  MadeUnderLiveGrant
    BY <1>1, <1>3, MovesEffect DEF AuditorStands, auditorVars
  <1>4. ASSUME NEW s \in Slots, Arrival(s), UNCHANGED sessionVars
        PROVE  MadeUnderLiveGrant
    BY <1>1, <1>4, ArrivalEffect DEF Arrives, AuditorStands, auditorVars
  <1>5. ASSUME \E g \in Grants, n \in GrantLifetimes : CreateAuditorAccessGrant(g, n)
        PROVE  MadeUnderLiveGrant
    BY <1>1, <1>5 DEF CreateAuditorAccessGrant
  <1>6. ASSUME NEW s \in Slots, RevokeGrant(s)
        PROVE  MadeUnderLiveGrant
    BY <1>1, <1>6 DEF RevokeGrant
  <1>7. ASSUME NEW s \in Slots, NEW k \in Logins, StartAuditorAuthTransaction(s, k)
        PROVE  MadeUnderLiveGrant
    <2>1. login'[k].grant = req[s].grant /\ \A u \in Logins \ {k} : login'[u] = login[u]
      BY <1>7, StartLoginEffect
    <2>2. req[s].phase = "shared" /\ UNCHANGED session
      BY <1>7 DEF StartAuditorAuthTransaction
    <2> QED
      BY <2>1, <2>2 DEF SharesSound, MadeUnderLiveGrant
  <1>8. ASSUME NEW s \in Slots, ClaimAuditorAuthTransaction(s)
        PROVE  MadeUnderLiveGrant
    <2>1. /\ req[s].key \in Logins /\ login[req[s].key] # None
          /\ \A u \in Logins \ {req[s].key} : login'[u] = login[u]
      BY <1>8, ClaimEffect
    <2>2. UNCHANGED session
      BY <1>8 DEF ClaimAuditorAuthTransaction
    <2> QED
      BY <2>1, <2>2 DEF MadeUnderLiveGrant
  <1>9. ASSUME NEW s \in Slots, NEW v \in Sessions, CreateAuthenticatedAuditorSession(s, v)
        PROVE  MadeUnderLiveGrant
    <2>1. session'[v].grant = req[s].grant /\ \A w \in Sessions \ {v} : session'[w] = session[w]
      BY <1>9, CreateSessionEffect
    <2>2. req[s].phase = "shared" /\ UNCHANGED login
      BY <1>9 DEF CreateAuthenticatedAuditorSession
    <2> QED
      BY <2>1, <2>2 DEF SharesSound, MadeUnderLiveGrant
  <1>10. ASSUME NEW s \in Slots, RevokeAuditorSession(s)
         PROVE  MadeUnderLiveGrant
    <2>1. /\ req[s].key \in Sessions /\ session[req[s].key] # None
          /\ \A w \in Sessions \ {req[s].key} : session'[w] = session[w]
      BY <1>10, RevokeSessionEffect
    <2>2. UNCHANGED login
      BY <1>10 DEF RevokeAuditorSession
    <2> QED
      BY <2>1, <2>2 DEF MadeUnderLiveGrant
  <1>11. CASE AuditorStep /\ UNCHANGED sessionVars
    BY <1>3, <1>4, <1>5, <1>6, <1>7, <1>8, <1>9, <1>10, <1>11, AuditorCases
  <1> QED
    BY <1>2, <1>11

-----------------------------------------------------------------------------
(* Auditors stay within their grant and the audit period.                   *)

\* Documents and links keep what names their owner.
LEMMA TablesGrow ==
    ASSUME Base, [Next]_vars
    PROVE  DocumentsGrow(doc, doc') /\ LinksGrow(link, link')
  <1>1. CASE UNCHANGED <<doc, link>>
    BY <1>1 DEF DocumentsGrow, LinksGrow
  <1>2. CASE SessionStep /\ UNCHANGED auditorVars
    BY <1>2, SessionShape
  <1>3. CASE UNCHANGED sessionVars
    <2>1. UNCHANGED doc \/ DocumentsGrow(doc, doc')
      BY DocumentWriters, ArchiveDocumentEffect, CreateSubmissionEffect, CreatePolicyDocumentEffect,
         SettleDocumentEffect
    <2> QED
      BY <1>3, <2>1 DEF sessionVars, DocumentsGrow, LinksGrow
  <1> QED
    BY <1>1, <1>2, <1>3 DEF Next, vars, catalogueVars, sessionVars

\* A document that an auditor may be shown.
InPeriod(d) == doc[d] # None /\ doc[d].owner \in Evidence /\ doc[d].window \in Covered

\* After a step, what auditors are shown lies in the period, as the documents
\* were before it.
LEMMA ShownInPeriod ==
    ASSUME Base, VisitsSound, [Next]_vars, NEW s \in Slots
    PROVE  /\ req'[s].phase = "streamed" => doc[req'[s].what] # None /\ WithinPeriod(req'[s].what)
           /\ req'[s].phase \in ReadPhases => \A d \in req'[s].seen.submissions : InPeriod(d)
  <1>1. CASE req'[s] = req[s]
    BY <1>1 DEF VisitsSound, InPeriod, WithinPeriod
  <1>2. ASSUME NEW r, r = req'[s], r.phase \notin {"streamed"} \cup ReadPhases
        PROVE  /\ req'[s].phase = "streamed" => doc[req'[s].what] # None /\ WithinPeriod(req'[s].what)
               /\ req'[s].phase \in ReadPhases => \A d \in req'[s].seen.submissions : InPeriod(d)
    BY <1>2
  <1>3. CASE ~(AuditorStep /\ UNCHANGED sessionVars)
    BY <1>1, <1>2, <1>3, OthersLeaveAuditors, OthersClaimNothing
  <1>4. Idle.phase \notin {"streamed"} \cup ReadPhases
    BY DEF Idle, ReadPhases
  <1>5. ASSUME NEW u \in Slots, Answer(u)
        PROVE  req'[s] = req[s] \/ req'[s] = Idle
    BY <1>5, OneSlot DEF Answer
  <1>6. ASSUME NEW u \in Slots, NEW new, req' = [req EXCEPT ![u] = new]
        PROVE  req'[s] = req[s] \/ (s = u /\ req'[s] = new)
    BY <1>6, OneSlot
  <1>7. ASSUME NEW u \in Slots, Moves(u), UNCHANGED sessionVars
        PROVE  /\ req'[s].phase = "streamed" => doc[req'[s].what] # None /\ WithinPeriod(req'[s].what)
               /\ req'[s].phase \in ReadPhases => \A d \in req'[s].seen.submissions : InPeriod(d)
    <2>1. ASSUME NEW new \in Audit, GoesOn(s, new), req'[s] = new
          PROVE  /\ new.phase = "streamed" => doc[new.what] # None /\ WithinPeriod(new.what)
                 /\ new.phase \in ReadPhases => \A d \in new.seen.submissions : InPeriod(d)
      <3>1. new.phase = "streamed" => DownloadCandidate(new.what) /\ WithinPeriod(new.what)
        BY <2>1 DEF GoesOn, Found
      <3>2. new.phase \in ReadPhases =>
              \/ new.seen.submissions \in {{}, PortalSubmissions}
              \/ req[s].phase \in ReadPhases /\ new.seen.submissions = req[s].seen.submissions
        BY <2>1 DEF GoesOn, Found
      <3>3. \A d \in PortalSubmissions : InPeriod(d)
        BY DEF PortalSubmissions, WithinPeriod, InPeriod
      <3>4. req[s].phase \in ReadPhases => \A d \in req[s].seen.submissions : InPeriod(d)
        BY DEF VisitsSound, InPeriod
      <3> QED
        BY <3>1, <3>2, <3>3, <3>4 DEF DownloadCandidate
    <2>2. CASE Answer(u)
      BY <1>1, <1>2, <1>4, <1>5, <2>2
    <2>3. CASE \E new \in Audit : req' = [req EXCEPT ![u] = new] /\ GoesOn(u, new)
      BY <1>1, <1>6, <2>1, <2>3
    <2> QED
      BY <1>7, <2>2, <2>3, MovesEffect
  <1>8. ASSUME NEW u \in Slots, Arrival(u), UNCHANGED sessionVars
        PROVE  req'[s] = req[s] \/ req'[s].phase \notin {"streamed"} \cup ReadPhases
    <2>1. PICK new \in Audit : Arrives(u, new)
      BY <1>8, ArrivalEffect
    <2>2. new.phase \notin {"streamed"} \cup ReadPhases /\ req' = [req EXCEPT ![u] = new]
      BY <2>1 DEF Arrives, ReadPhases
    <2> QED
      BY <1>6, <2>2
  <1>9. ASSUME NEW u \in Slots, ClaimAuditorAuthTransaction(u)
        PROVE  req'[s] = req[s] \/ req'[s].phase \notin {"streamed"} \cup ReadPhases
    <2> DEFINE new == [req[u] EXCEPT !.phase = "claimed", !.rows = {}]
    <2>1. Answer(u) \/ req' = [req EXCEPT ![u] = new]
      BY <1>9, ClaimEffect DEF ClaimAuditorAuthTransaction, Move
    <2>2. new.phase = "claimed"
      BY <1>9, ClaimedRequest
    <2>3. "claimed" \notin {"streamed"} \cup ReadPhases
      BY DEF ReadPhases
    <2> HIDE DEF new
    <2> QED
      BY <1>4, <1>5, <1>6, <2>1, <2>2, <2>3
  <1>10. ASSUME NEW u \in Slots, \/ RevokeAuditorSession(u) \/ RevokeGrant(u)
                                 \/ \E t \in Logins : StartAuditorAuthTransaction(u, t)
                                 \/ \E v \in Sessions : CreateAuthenticatedAuditorSession(u, v)
         PROVE  req'[s] = req[s] \/ req'[s] = Idle
    BY <1>5, <1>10
       DEF RevokeAuditorSession, RevokeGrant, StartAuditorAuthTransaction, CreateAuthenticatedAuditorSession
  <1>11. ASSUME \E g \in Grants, n \in GrantLifetimes : CreateAuditorAccessGrant(g, n)
         PROVE  req'[s] = req[s]
    BY <1>11 DEF CreateAuditorAccessGrant
  <1>12. CASE AuditorStep /\ UNCHANGED sessionVars
    BY <1>1, <1>2, <1>4, <1>7, <1>8, <1>9, <1>10, <1>11, <1>12, AuditorCases
  <1> QED
    BY <1>3, <1>12

\* Every step keeps what auditors are shown within the period: a document's window
\* never changes.
LEMMA NextVisits ==
    ASSUME Base, VisitsSound, [Next]_vars
    PROVE  VisitsSound'
  <1>1. Base' /\ DocumentsGrow(doc, doc')
    BY NextBase, TablesGrow
  <1> SUFFICES ASSUME NEW s \in Slots
               PROVE  /\ req'[s].phase = "streamed" =>
                            doc'[req'[s].what] # None
                            /\ (doc'[req'[s].what].owner \in Evidence => doc'[req'[s].what].window \in Covered)
                      /\ req'[s].phase \in ReadPhases =>
                            \A d \in req'[s].seen.submissions :
                                doc'[d] # None /\ doc'[d].owner \in Evidence /\ doc'[d].window \in Covered
    BY DEF VisitsSound, WithinPeriod
  <1>2. ASSUME req'[s].phase \in {"streamed"} \cup ReadPhases
        PROVE  /\ req'[s] \in Audit
               /\ req'[s].phase = "streamed" => req'[s].what \in Documents
               /\ req'[s].phase \in ReadPhases => req'[s].seen.submissions \subseteq Documents
    <2>1. IsRequest(req'[s]) /\ Sound(req'[s], RowTable', doc', link', grant', login', session')
      BY <1>1 DEF Base, RequestsTyped, RequestsSound
    <2>2. req'[s] \in Audit /\ req'[s].phase # "idle"
      BY <1>2, <2>1, Kinds, OthersClaimNothing DEF IsRequest
    <2>3. AuditSound(req'[s], grant', login', session')
      BY <2>1, <2>2 DEF Sound
    <2>4. req'[s].op = "visit"
      BY <1>2, <2>2, <2>3 DEF AuditSound, Audit, AuditOps, ReadPhases, ClaimedPhases
    <2>5. req'[s].phase \in ReadPhases => req'[s].seen \in PageRead
      BY <2>3, <2>4 DEF AuditSound
    <2> QED
      BY <1>2, <2>2, <2>3, <2>4, <2>5 DEF AuditSound, PageRead
  <1>3. ASSUME req'[s].phase = "streamed"
        PROVE  doc'[req'[s].what] # None
               /\ (doc'[req'[s].what].owner \in Evidence => doc'[req'[s].what].window \in Covered)
    <2>1. doc[req'[s].what] # None /\ WithinPeriod(req'[s].what) /\ req'[s].what \in Documents
      BY <1>2, <1>3, ShownInPeriod
    <2> QED
      BY <1>1, <2>1 DEF DocumentsGrow, WithinPeriod
  <1>4. ASSUME req'[s].phase \in ReadPhases, NEW d \in req'[s].seen.submissions
        PROVE  doc'[d] # None /\ doc'[d].owner \in Evidence /\ doc'[d].window \in Covered
    <2>1. InPeriod(d) /\ d \in Documents
      BY <1>2, <1>4, ShownInPeriod
    <2> QED
      BY <1>1, <2>1 DEF DocumentsGrow, InPeriod
  <1> QED
    BY <1>3, <1>4

\* An auditor is admitted with a session and a grant that are live.
LEMMA AuditorAdmits ==
    ASSUME Base, [Next]_vars, NEW s \in Slots, req[s] = Idle, req'[s] # Idle, req'[s].op = "visit"
    PROVE  req'[s].key \in Sessions /\ SessionActive(req'[s].key)
  <1>1. ~(req'[s] = req[s] \/ req'[s] = Idle \/ IsEdit(req'[s]) \/ req'[s] \in Browser)
    <2>1. "visit" \notin Edits \cup UploadOps
      BY DEF Edits, ControlEdits, EvidenceEdits, PolicyEdits, UploadOps, SessionOps
    <2> QED
      BY <2>1, Kinds
  <1>2. AuditorStep /\ UNCHANGED sessionVars
    BY <1>1, OthersLeaveAuditors
  <1>3. ASSUME NEW u \in Slots, Answer(u)
        PROVE  FALSE
    BY <1>3, OneSlot DEF Answer
  <1>4. ASSUME NEW u \in Slots, NEW new, req' = [req EXCEPT ![u] = new]
        PROVE  s = u /\ req'[s] = new
    BY <1>4, OneSlot
  <1>5. ASSUME NEW u \in Slots, Moves(u)
        PROVE  FALSE
    <2>1. req[u] \in Audit
      BY <1>2, <1>5, MovesEffect
    <2> QED
      BY <1>2, <1>3, <1>4, <1>5, <2>1, MovesEffect, Kinds
  <1>6. ASSUME NEW u \in Slots, Arrival(u)
        PROVE  req'[s].key \in Sessions /\ SessionActive(req'[s].key)
    <2>1. PICK new \in Audit : Arrives(u, new)
      BY <1>2, <1>6, ArrivalEffect
    <2>2. s = u /\ req'[s] = new
      BY <1>4, <2>1 DEF Arrives
    <2> QED
      BY <2>1, <2>2 DEF Arrives
  <1>7. ASSUME NEW u \in Slots, ClaimAuditorAuthTransaction(u)
        PROVE  FALSE
    <2> DEFINE new == [req[u] EXCEPT !.phase = "claimed", !.rows = {}]
    <2>1. req[u] # Idle
      BY <1>7, ClaimEffect, Kinds
    <2>2. Answer(u) \/ req' = [req EXCEPT ![u] = new]
      BY <1>7, ClaimEffect DEF Move
    <2> HIDE DEF new
    <2> QED
      BY <1>3, <1>4, <2>1, <2>2
  <1>8. ASSUME NEW u \in Slots, \/ RevokeAuditorSession(u) \/ RevokeGrant(u)
                                \/ \E t \in Logins : StartAuditorAuthTransaction(u, t)
                                \/ \E v \in Sessions : CreateAuthenticatedAuditorSession(u, v)
        PROVE  FALSE
    BY <1>3, <1>8
       DEF RevokeAuditorSession, RevokeGrant, StartAuditorAuthTransaction, CreateAuthenticatedAuditorSession
  <1>9. ASSUME \E g \in Grants, n \in GrantLifetimes : CreateAuditorAccessGrant(g, n)
         PROVE  FALSE
    BY <1>9 DEF CreateAuditorAccessGrant
  <1>10. \E u \in Slots : \/ Moves(u) \/ Arrival(u) \/ RevokeGrant(u) \/ ClaimAuditorAuthTransaction(u)
                          \/ RevokeAuditorSession(u)
                          \/ \E t \in Logins : StartAuditorAuthTransaction(u, t)
                          \/ \E v \in Sessions : CreateAuthenticatedAuditorSession(u, v)
    BY <1>2, <1>9, AuditorCases
  <1>11. PICK u \in Slots : Arrival(u)
    BY <1>5, <1>7, <1>8, <1>10
  <1> QED
    BY <1>6, <1>11

\* What AuditorsStayInBounds says of one step.
AuditorInBounds ==
    \A s \in Slots :
          /\ req[s] = Idle /\ req'[s] # Idle /\ req'[s].op = "visit" =>
                LET v == session[req'[s].key] IN
                /\ v.revoked = None /\ clock < v.expires
                /\ grant[v.grant].revoked = None /\ clock < grant[v.grant].expires
          /\ req'[s].phase = "streamed" => WithinPeriod(req'[s].what)
          /\ req'[s].phase = "shown" =>
                \A d \in req'[s].seen.submissions : doc[d].window \in Covered

\* Every step keeps auditors in bounds.
LEMMA StepAuditorInBounds ==
    ASSUME Base, VisitsSound, [Next]_vars
    PROVE  AuditorInBounds
  <1> SUFFICES ASSUME NEW s \in Slots
               PROVE  /\ req[s] = Idle /\ req'[s] # Idle /\ req'[s].op = "visit" =>
                            LET v == session[req'[s].key] IN
                            /\ v.revoked = None /\ clock < v.expires
                            /\ grant[v.grant].revoked = None /\ clock < grant[v.grant].expires
                      /\ req'[s].phase = "streamed" => WithinPeriod(req'[s].what)
                      /\ req'[s].phase = "shown" =>
                            \A d \in req'[s].seen.submissions : doc[d].window \in Covered
    BY DEF AuditorInBounds
  <1>1. ASSUME req[s] = Idle, req'[s] # Idle, req'[s].op = "visit"
        PROVE  LET v == session[req'[s].key] IN
               /\ v.revoked = None /\ clock < v.expires
               /\ grant[v.grant].revoked = None /\ clock < grant[v.grant].expires
    <2> DEFINE k == req'[s].key
    <2>1. k \in Sessions /\ SessionActive(k)
      BY <1>1, AuditorAdmits
    <2> HIDE DEF k
    <2>2. session[k] \in AuditorSession /\ clock \in Nat
      BY <2>1, CatalogueAssumption DEF SessionActive, Base, TablesTyped
    <2>3. /\ session[k].revoked = None /\ session[k].expires > clock /\ GrantActive(session[k].grant, clock)
          /\ session[k].expires \in Nat /\ session[k].grant \in Grants
      BY <2>1, <2>2 DEF SessionActive, AuditorSession
    <2>4. grant[session[k].grant].expires \in Nat
      BY <2>3 DEF GrantActive, Base, TablesTyped, AuditorAccessGrant
    <2>5. /\ session[k].revoked = None /\ clock < session[k].expires
          /\ grant[session[k].grant].revoked = None /\ clock < grant[session[k].grant].expires
      BY <2>2, <2>3, <2>4 DEF GrantActive
    <2> QED
      BY <2>5 DEF k
  <1>2. req'[s].phase = "streamed" => WithinPeriod(req'[s].what)
    BY ShownInPeriod
  <1>3. req'[s].phase = "shown" => \A d \in req'[s].seen.submissions : doc[d].window \in Covered
    BY ShownInPeriod DEF InPeriod, ReadPhases
  <1> QED
    BY <1>1, <1>2, <1>3

-----------------------------------------------------------------------------
(* Names in use are unique.                                                 *)

\* The name a row carries.
Carried(x) == NameOf(x, RowOf(x))

\* The claims of a change do not depend on how far it is.
LEMMA ClaimedSame ==
    ASSUME NEW r, NEW new, new.op = r.op, new.name = r.name, new.controls = r.controls, new.seen = r.seen, NEW x
    PROVE  Claimed(new, x) = Claimed(r, x)
  <1>1. Edited(new, r.seen[x]) = Edited(r, r.seen[x])
    BY DEF Edited
  <1> QED
    BY <1>1 DEF Claimed

\* A step of one slot that writes no row keeps the names when whatever it has
\* saved is free.
LEMMA ClaimsKept ==
    ASSUME Base, ClaimsFree, NEW s \in Slots, NEW r, req' = [req EXCEPT ![s] = r],
           UNCHANGED <<control, evidence, policy>>,
           r.phase = "saved" => \A x \in r.rows : Claimed(r, x) # None => ClaimFree(s, x, Claimed(r, x))
    PROVE  ClaimsFree'
  <1>1. req'[s] = r /\ \A t \in Slots \ {s} : req'[t] = req[t]
    BY OneSlot
  <1>2. \A y : Carried(y)' = Carried(y)
    BY DEF Carried, RowOf
  <1>3. ASSUME NEW t \in Slots, NEW x \in req'[t].rows, req'[t].phase = "saved", Claimed(req'[t], x) # None
        PROVE  /\ \A y \in Ids \ {x} : SameKind(x, y) => Carried(y)' # Claimed(req'[t], x)
               /\ \A u \in Slots \ {t} : req'[u].phase = "saved" =>
                     \A y \in req'[u].rows : SameKind(x, y) => Claimed(req'[u], y) # Claimed(req'[t], x)
    <2>1. CASE t = s
      <3>1. ClaimFree(s, x, Claimed(r, x))
        BY <1>1, <1>3, <2>1
      <3> QED
        BY <1>1, <1>2, <2>1, <3>1 DEF ClaimFree, Carried
    <2>2. CASE t # s
      <3> DEFINE n == Claimed(req[t], x)
      <3>1. req'[t] = req[t] /\ ClaimFree(t, x, n) /\ n # None
        BY <1>1, <1>3, <2>2 DEF ClaimsFree
      <3>2. ASSUME r.phase = "saved", NEW y \in r.rows, SameKind(x, y)
            PROVE  Claimed(r, y) # n
        <4>1. SameKind(y, x)
          BY <3>2 DEF SameKind
        <4>2. Claimed(r, y) # None => ClaimFree(s, y, Claimed(r, y))
          BY <3>2
        <4> QED
          BY <1>3, <2>2, <3>1, <4>1, <4>2 DEF ClaimFree
      <3>3. \A u \in Slots \ {t} : req'[u].phase = "saved" =>
                \A y \in req'[u].rows : SameKind(x, y) => Claimed(req'[u], y) # n
        BY <1>1, <3>1, <3>2 DEF ClaimFree
      <3> QED
        BY <1>2, <3>1, <3>3 DEF ClaimFree, Carried
    <2> QED
      BY <2>1, <2>2
  <1> QED
    BY <1>3 DEF ClaimsFree, ClaimFree, Carried

\* A step that saves nothing.
LEMMA NothingSaved ==
    ASSUME ClaimsFree, UNCHANGED <<control, evidence, policy>>,
           \A t \in Slots : req'[t].phase = "saved" => req'[t] = req[t]
    PROVE  ClaimsFree'
  <1>1. \A y : Carried(y)' = Carried(y)
    BY DEF Carried, RowOf
  <1>2. ASSUME NEW t \in Slots, NEW x \in req'[t].rows, req'[t].phase = "saved", Claimed(req'[t], x) # None
        PROVE  /\ \A y \in Ids \ {x} : SameKind(x, y) => Carried(y)' # Claimed(req'[t], x)
               /\ \A u \in Slots \ {t} : req'[u].phase = "saved" =>
                     \A y \in req'[u].rows : SameKind(x, y) => Claimed(req'[u], y) # Claimed(req'[t], x)
    <2>1. req'[t] = req[t] /\ ClaimFree(t, x, Claimed(req[t], x))
      BY <1>2 DEF ClaimsFree
    <2> QED
      BY <1>1, <2>1 DEF ClaimFree, Carried
  <1> QED
    BY <1>2 DEF ClaimsFree, ClaimFree, Carried

\* Names stand when the rows do.
LEMMA NamesStand ==
    ASSUME NamesUnique, UNCHANGED <<control, evidence, policy>>
    PROVE  NamesUnique'
  BY DEF NamesUnique, RowOf

\* The index lets a change on only with a name that is free.
LEMMA ClaimNameFree ==
    ASSUME Base, ClaimsFree, NEW s \in Slots, ClaimName(s)
    PROVE  ClaimsFree'
  <1> DEFINE r == req[s]
             new == [r EXCEPT !.phase = "saved"]
  <1>1. UNCHANGED <<control, evidence, policy>> /\ r.phase = "written" /\ r.op \in Edits
    BY DEF ClaimName, RowsStand
  <1>2. IsEdit(r) /\ EditSound(r)
    BY <1>1, EditAt
  <1>3. CASE Answer(s)
    BY <1>1, <1>3, ClaimsKept DEF Answer, Idle
  <1>4. CASE Move(s, new) /\ ~\E x \in r.rows : NameTaken(x, Claimed(r, x))
    <2>1. /\ new.op = r.op /\ new.name = r.name /\ new.controls = r.controls /\ new.seen = r.seen /\ new.rows = r.rows
      BY <1>2 DEF IsEdit, Edit
    <2>2. req' = [req EXCEPT ![s] = new]
      BY <1>4 DEF Move
    <2> HIDE DEF new
    <2>3. ASSUME NEW x \in r.rows
          PROVE  ClaimFree(s, x, Claimed(r, x))
      <3>1. \A y \in Ids \ {x} : SameKind(x, y) => NameOf(y, RowOf(y)) # Claimed(r, x)
        BY <1>4, CatalogueAssumption DEF NameTaken, Ids
      <3>2. ~NameBusy(s, x)
        BY DEF ClaimName
      <3>3. ASSUME NEW t \in Slots \ {s}, req[t].phase = "saved", NEW y \in req[t].rows, SameKind(x, y)
            PROVE  Claimed(req[t], y) # Claimed(r, x)
        <4>1. req[t].op \in Edits
          BY <3>3, EditAt, Kinds
        <4> QED
          BY <3>2, <3>3, <4>1 DEF NameBusy, NameHeldBy
      <3> QED
        BY <3>1, <3>3 DEF ClaimFree
    <2>4. \A x \in new.rows : Claimed(new, x) # None => ClaimFree(s, x, Claimed(new, x))
      BY <2>1, <2>3, ClaimedSame
    <2> QED
      BY <1>1, <2>2, <2>4, ClaimsKept
  <1> QED
    BY <1>3, <1>4 DEF ClaimName

\* A change that goes on without the index takes no name.
LEMMA SaveRowsFree ==
    ASSUME Base, ClaimsFree, NEW s \in Slots, SaveRows(s)
    PROVE  ClaimsFree'
  <1> DEFINE r == req[s]
             claims == \E x \in r.rows : Claimed(r, x) # None
             new == [r EXCEPT !.phase = IF claims THEN "written" ELSE "saved"]
  <1>1. UNCHANGED <<control, evidence, policy>> /\ r.phase = "locked" /\ r.op \in Edits
    BY DEF SaveRows, RowsStand
  <1>2. IsEdit(r) /\ EditSound(r)
    BY <1>1, EditAt
  <1>3. CASE Answer(s)
    BY <1>1, <1>3, ClaimsKept DEF Answer, Idle
  <1>4. CASE Move(s, new)
    <2>1. /\ new.op = r.op /\ new.name = r.name /\ new.controls = r.controls /\ new.seen = r.seen /\ new.rows = r.rows
          /\ new.phase = "saved" => ~claims
      BY <1>2 DEF IsEdit, Edit
    <2>2. req' = [req EXCEPT ![s] = new]
      BY <1>4 DEF Move
    <2> HIDE DEF new
    <2>3. new.phase = "saved" => \A x \in new.rows : Claimed(new, x) = None
      BY <2>1, ClaimedSame
    <2> QED
      BY <1>1, <2>2, <2>3, ClaimsKept
  <1> QED
    BY <1>3, <1>4 DEF SaveRows

\* What a commit makes of the name of a row.
LEMMA CommittedName ==
    ASSUME Base, NEW s \in Slots, CommitChange(s), NEW x \in Ids
    PROVE  \/ Carried(x)' = Carried(x)
           \/ Carried(x)' = None
           \/ /\ x \in req[s].rows /\ Claimed(req[s], x) # None /\ Carried(x)' = Claimed(req[s], x)
              /\ \A y \in req[s].rows : y = x
  <1> DEFINE r == req[s]
  <1>1. /\ RowOf(x)' = IF x \in r.rows THEN Edited(r, r.seen[x]) ELSE RowOf(x)
        /\ IsEdit(r) /\ EditSound(r) /\ (x \in r.rows => r.seen[x] = RowOf(x))
    BY CommitEffect
  <1>2. CASE x \notin r.rows
    BY <1>1, <1>2 DEF Carried
  <1>3. ASSUME x \in r.rows, Claimed(r, x) # None
        PROVE  \A y \in r.rows : y = x
    <2>1. r.op \notin Creations => r.seen[x] # None
      BY <1>1, <1>3 DEF CommitChange, EditSound, Known
    <2>2. r.op \in NamingEdits
      BY <1>1, <1>3, <2>1, OnlyNamingClaims
    <2> QED
      BY <1>1, <1>3, <2>2 DEF EditSound
  <1>4. CASE x \in r.rows
    <2>1. Carried(x)' = NameOf(x, Edited(r, r.seen[x])) /\ Carried(x) = NameOf(x, r.seen[x])
      BY <1>1, <1>4 DEF Carried
    <2> QED
      BY <1>3, <1>4, <2>1 DEF Claimed
  <1> QED
    BY <1>2, <1>4

\* CommitChange commits a name that no row carries and no other change is about to
\* commit.
LEMMA CommitKeepsNames ==
    ASSUME Base, NamesUnique, ClaimsFree, NEW s \in Slots, CommitChange(s)
    PROVE  NamesUnique' /\ ClaimsFree'
  <1> DEFINE r == req[s]
  <1>1. r.phase = "saved" /\ req' = [req EXCEPT ![s] = Idle]
    BY DEF CommitChange, Answer
  <1>2. req'[s] = Idle /\ Idle.phase = "idle" /\ \A t \in Slots \ {s} : req'[t] = req[t]
    BY <1>1, OneSlot DEF Idle
  <1>3. ASSUME NEW x \in Ids, NEW y \in Ids, x # y, SameKind(x, y), Carried(x)' # None
        PROVE  Carried(x)' # Carried(y)'
    <2>1. SameKind(y, x)
      BY <1>3 DEF SameKind
    <2>2. /\ x \in r.rows /\ Claimed(r, x) # None => Carried(y) # Claimed(r, x)
          /\ y \in r.rows /\ Claimed(r, y) # None => Carried(x) # Claimed(r, y)
      BY <1>1, <1>3, <2>1 DEF ClaimsFree, ClaimFree, Carried
    <2>3. Carried(x) # None => Carried(x) # Carried(y)
      BY <1>3 DEF NamesUnique, Carried
    <2> QED
      BY <1>3, <2>2, <2>3, CommittedName
  <1>4. NamesUnique'
    BY <1>3 DEF NamesUnique, Carried
  <1>5. ASSUME NEW t \in Slots, NEW x \in req'[t].rows, req'[t].phase = "saved", Claimed(req'[t], x) # None
        PROVE  /\ \A y \in Ids \ {x} : SameKind(x, y) => Carried(y)' # Claimed(req'[t], x)
               /\ \A u \in Slots \ {t} : req'[u].phase = "saved" =>
                     \A y \in req'[u].rows : SameKind(x, y) => Claimed(req'[u], y) # Claimed(req'[t], x)
    <2>1. t # s /\ req'[t] = req[t] /\ ClaimFree(t, x, Claimed(req[t], x))
      BY <1>2, <1>5 DEF ClaimsFree
    <2>2. ASSUME NEW y \in Ids \ {x}, SameKind(x, y)
          PROVE  Carried(y)' # Claimed(req[t], x)
      <3>1. Carried(y) # Claimed(req[t], x)
        BY <2>1, <2>2 DEF ClaimFree, Carried
      <3>2. y \in r.rows => Claimed(r, y) # Claimed(req[t], x)
        BY <1>1, <2>1, <2>2 DEF ClaimFree
      <3> QED
        BY <1>5, <2>1, <3>1, <3>2, CommittedName
    <2> QED
      BY <1>2, <2>1, <2>2 DEF ClaimFree
  <1>6. ClaimsFree'
    BY <1>5 DEF ClaimsFree, ClaimFree, Carried
  <1> QED
    BY <1>4, <1>6

\* A change that is asked for, or locks a row, has not saved yet.
LEMMA BeforeSaving ==
    ASSUME Base, NEW s \in Slots, AskForChange(s) \/ LockRow(s) \/ Abandon(s)
    PROVE  /\ UNCHANGED <<control, evidence, policy>>
           /\ \A t \in Slots : req'[t].phase \in {"written", "saved"} => req'[t] = req[t]
  <1>1. ASSUME NEW r, req' = [req EXCEPT ![s] = r], r.phase \notin {"written", "saved"}
        PROVE  \A t \in Slots : req'[t].phase \in {"written", "saved"} => req'[t] = req[t]
    BY <1>1, OneSlot
  <1>2. CASE AskForChange(s)
    <2>1. PICK op, rows, cs, name : Change(s, op, rows, cs, name)
      BY <1>2 DEF AskForChange,
                  CreateControl, ReplaceControl, CreateEvidence, CreatePolicy, UpdatePolicy, ArchivePolicy,
                  MapEvidenceToControl, RemoveEvidenceControlMapping, MapEvidenceToControls,
                  UnmapEvidenceFromControls,
                  MapControlToEvidence, UnmapControlFromEvidence, AttachPolicyToControl, DetachPolicyFromControl,
                  AttachPolicyToControls, DetachPolicyFromControls, AttachControlToPolicies, DetachControlFromPolicies
    <2> DEFINE r == [op |-> op, phase |-> IF op \in Creations THEN "locked" ELSE "lock",
                     rows |-> rows, todo |-> IF op \in Creations THEN {} ELSE rows,
                     controls |-> cs, name |-> name, seen |-> [x \in rows |-> None]]
    <2>2. req' = [req EXCEPT ![s] = r] /\ r.phase \notin {"written", "saved"} /\ UNCHANGED <<control, evidence, policy>>
      BY <2>1 DEF Change, Begin
    <2> HIDE DEF r
    <2> QED
      BY <1>1, <2>2
  <1>3. CASE LockRow(s)
    <2> DEFINE r == req[s]
               x == NextToLock(r)
               new == [r EXCEPT !.todo = @ \ {x}, !.seen[x] = RowOf(x),
                                !.phase = IF r.todo = {x} THEN "locked" ELSE @]
    <2>1. Move(s, new) /\ r.phase = "lock" /\ r.op \in Edits /\ UNCHANGED <<control, evidence, policy>>
      BY <1>3 DEF LockRow, RowsStand
    <2>2. r \in Edit(r.rows)
      BY <2>1, EditAt DEF IsEdit
    <2>3. new.phase \in {"lock", "locked"}
      BY <2>1, <2>2 DEF Edit
    <2> HIDE DEF new
    <2> QED
      BY <1>1, <2>1, <2>3 DEF Move
  <1>4. CASE Abandon(s)
    <2>1. req' = [req EXCEPT ![s] = Idle] /\ UNCHANGED <<control, evidence, policy>> /\ Idle.phase = "idle"
      BY <1>4 DEF Abandon, Answer, RowsStand, Idle
    <2> QED
      BY <1>1, <2>1
  <1> QED
    BY <1>2, <1>3, <1>4

\* Nothing but changes saves.
LEMMA OthersSaveNothing ==
    ASSUME Base, [Next]_vars, ~(CatalogueStep /\ UNCHANGED <<sessionVars, auditorVars>>)
    PROVE  /\ UNCHANGED <<control, evidence, policy>>
           /\ \A t \in Slots : req'[t].phase \in {"written", "saved"} => req'[t] = req[t]
  <1>1. ASSUME NEW r, r = Idle \/ r \in Browser \/ r \in Audit
        PROVE  r.phase \notin {"written", "saved"}
    BY <1>1, Kinds DEF ClaimedPhases, VisitPhases, ReadPhases
  <1>2. CASE SessionStep /\ UNCHANGED auditorVars
    BY <1>1, <1>2, SessionShape
  <1>3. CASE AuditorStep /\ UNCHANGED sessionVars
    BY <1>1, <1>3, AuditorShape, AuditorLeavesCatalogue
  <1>4. CASE Tick \/ UNCHANGED vars
    BY <1>4 DEF Tick, vars, catalogueVars
  <1> QED
    BY <1>2, <1>3, <1>4 DEF Next

\* Every step keeps names unique.
LEMMA NextNames ==
    ASSUME Base, NamesUnique, ClaimsFree, [Next]_vars
    PROVE  NamesUnique' /\ ClaimsFree'
  <1>1. CASE ~(CatalogueStep /\ UNCHANGED <<sessionVars, auditorVars>>)
    BY <1>1, OthersSaveNothing, NothingSaved, NamesStand
  <1>2. ASSUME NEW s \in Slots, AskForChange(s) \/ LockRow(s) \/ Abandon(s)
        PROVE  NamesUnique' /\ ClaimsFree'
    BY <1>2, BeforeSaving, NothingSaved, NamesStand
  <1>3. ASSUME NEW s \in Slots, SaveRows(s) \/ ClaimName(s)
        PROVE  NamesUnique' /\ ClaimsFree'
    <2>1. UNCHANGED <<control, evidence, policy>>
      BY <1>3 DEF SaveRows, ClaimName, RowsStand
    <2> QED
      BY <1>3, <2>1, SaveRowsFree, ClaimNameFree, NamesStand
  <1>4. ASSUME NEW s \in Slots, CommitChange(s)
        PROVE  NamesUnique' /\ ClaimsFree'
    BY <1>4, CommitKeepsNames
  <1>5. CASE CatalogueStep
    BY <1>2, <1>3, <1>4, <1>5 DEF CatalogueStep
  <1> QED
    BY <1>1, <1>5

-----------------------------------------------------------------------------
(* Uploads know the policy they have locked.                                *)

\* What UploadsSound says of one request.
UploadKnows(r) == r # Idle /\ r.op = "upload_policy" =>
    LET p == link[r.link].target IN policy[p] # None /\ (r.phase = "locked" => r.seen = policy[p])

\* Links keep their target and policies stay, so requests that stand know
\* their policy still, if nobody has written a locked one.
LEMMA UploadKept ==
    ASSUME Base, UploadsSound, NEW s \in Slots, LinksGrow(link, link'),
           \A p \in Policies : policy[p] # None => policy'[p] # None,
           \A p \in Policies \cap Held(s) : policy'[p] = policy[p]
    PROVE  req[s] # Idle /\ req[s].op = "upload_policy" =>
              LET p == link'[req[s].link].target IN
              policy'[p] # None /\ (req[s].phase = "locked" => req[s].seen = policy'[p])
  <1> SUFFICES ASSUME req[s] # Idle, req[s].op = "upload_policy"
               PROVE  LET p == link'[req[s].link].target IN
                      policy'[p] # None /\ (req[s].phase = "locked" => req[s].seen = policy'[p])
    OBVIOUS
  <1> DEFINE r == req[s]
             p == link[r.link].target
  <1>1. IsRequest(r) /\ Sound(r, RowTable, doc, link, grant, login, session)
    BY DEF Base, RequestsTyped, RequestsSound
  <1>2. "upload_policy" \in UploadOps /\ "upload_policy" \notin Edits \cup AuditOps /\ "upload_policy" \in SessionOps
    BY DEF UploadOps, SessionOps, Edits, ControlEdits, EvidenceEdits, PolicyEdits, AuditOps
  <1>3. r \in Browser /\ BrowserSound(r, doc, link)
    BY <1>1, <1>2, Kinds DEF IsRequest, Sound
  <1>4. /\ r.link \in Links /\ link[r.link] # None /\ p \in Policies /\ r.rows = {p}
        /\ r.phase = "locked" => r.todo = {}
    BY <1>2, <1>3 DEF BrowserSound
  <1>5. link'[r.link].target = p
    BY <1>4 DEF LinksGrow
  <1>6. policy[p] # None /\ (r.phase = "locked" => r.seen = policy[p])
    BY DEF UploadsSound
  <1>7. r.phase = "locked" => p \in Held(s)
    BY <1>4 DEF Held
  <1> QED
    BY <1>4, <1>5, <1>6, <1>7

\* The requests of browsers that begin or go on.
LEMMA SessionUploads ==
    ASSUME Base, UploadsSound, SessionStep, UNCHANGED auditorVars, NEW s \in Slots
    PROVE  \/ req'[s] = req[s] \/ req'[s] = Idle \/ req'[s].op # "upload_policy"
           \/ UNCHANGED link /\ UploadKnows(req'[s])
  <1> DEFINE Fine == \/ req'[s] = req[s] \/ req'[s] = Idle \/ req'[s].op # "upload_policy"
                     \/ UNCHANGED link /\ UploadKnows(req'[s])
  <1>1. ASSUME NEW u \in Slots, NEW r, req' = [req EXCEPT ![u] = r],
               r = Idle \/ r.op # "upload_policy" \/ (UNCHANGED link /\ UploadKnows(r))
        PROVE  Fine
    BY <1>1, OneSlot
  <1>2. ASSUME NEW u \in Slots, Answer(u)
        PROVE  Fine
    BY <1>1, <1>2 DEF Answer
  <1>3. UNCHANGED req => Fine
    OBVIOUS
  <1> HIDE DEF Fine
  <1>4. ASSUME NEW u \in Slots, NEW op, op # "upload_policy", NEW phase, NEW rows, NEW l, NEW d,
               BeginUpload(u, Request(op, phase, rows, l, d))
        PROVE  Fine
    <2>1. req' = [req EXCEPT ![u] = Request(op, phase, rows, l, d)]
      BY <1>4 DEF BeginUpload, Begin
    <2>2. Request(op, phase, rows, l, d).op = op
      BY DEF Request
    <2> QED
      BY <1>1, <1>4, <2>1, <2>2
  <1>5. ASSUME NEW u \in Slots, NEW l \in Links,
               \/ OpenUploadSession(u, l) \/ OpenPolicyUploadSession(u, l) \/ UploadEvidenceFile(u, l)
               \/ \E d \in Documents :
                     ArchiveEvidenceFile(u, l, d) \/ ArchivePolicyFile(u, l, d) \/ DownloadPolicyFile(u, l, d)
        PROVE  Fine
    BY <1>4, <1>5 DEF OpenUploadSession, OpenPolicyUploadSession, UploadEvidenceFile,
                      ArchiveEvidenceFile, ArchivePolicyFile, DownloadPolicyFile
  <1>6. ASSUME NEW u \in Slots, NEW k \in tickets, RedeemDownloadGrant(u, k)
        PROVE  Fine
    BY <1>4, <1>6 DEF RedeemDownloadGrant
  <1>7. ASSUME NEW u \in Slots, NEW l \in Links, UploadPolicyFile(u, l)
        PROVE  Fine
    <2> DEFINE r == Request("upload_policy", "lock", {link[l].target}, l, None)
    <2>1. req' = [req EXCEPT ![u] = r] /\ UNCHANGED link /\ policy[link[l].target] # None
      BY <1>7 DEF UploadPolicyFile, BeginUpload, Begin, SessionsStand, PolicyInventory, PolicyActive
    <2>2. r.link = l /\ r.phase = "lock"
      BY DEF Request
    <2> HIDE DEF r
    <2> QED
      BY <1>1, <2>1, <2>2 DEF UploadKnows
  <1>8. ASSUME NEW u \in Slots, LockPolicyForUpload(u)
        PROVE  Fine
    <2> DEFINE r == req[u]
               p == link[r.link].target
               new == [r EXCEPT !.phase = "locked", !.todo = {}, !.seen = policy[p]]
    <2>1. r.phase = "lock" /\ r.op = "upload_policy" /\ Move(u, new) /\ UNCHANGED link
      BY <1>8 DEF LockPolicyForUpload, SessionsStand
    <2>2. r \in Browser /\ r # Idle
      BY <2>1, BrowserAt, Kinds DEF UploadOps, SessionOps
    <2>3. policy[p] # None
      BY <2>1, <2>2 DEF UploadsSound
    <2>4. new.link = r.link /\ new.seen = policy[p]
      BY <2>2 DEF Browser
    <2> HIDE DEF new
    <2> QED
      BY <1>1, <2>1, <2>3, <2>4 DEF UploadKnows, Move
  <1>9. ASSUME NEW u \in Slots, NEW new, Move(u, new), req[u] \in Browser, new.op = req[u].op, req[u].op # "upload_policy"
        PROVE  Fine
    BY <1>1, <1>9 DEF Move
  <1>10. ASSUME NEW u \in Slots, LockLink(u)
         PROVE  Fine
    <2> DEFINE r == req[u]
               new == [r EXCEPT !.phase = "locked", !.todo = {}, !.seen = link[r.link]]
    <2>1. r.phase = "lock" /\ r.op = "open" /\ Move(u, new)
      BY <1>10 DEF LockLink
    <2>2. r \in Browser
      BY <2>1, BrowserAt DEF UploadOps, SessionOps
    <2>3. new.op = r.op
      BY <2>2 DEF Browser
    <2> HIDE DEF new
    <2> QED
      BY <1>9, <2>1, <2>2, <2>3
  <1>11. ASSUME NEW u \in Slots, StreamDocument(u)
         PROVE  Fine
    <2> DEFINE r == req[u]
               new == [r EXCEPT !.phase = "served"]
    <2>1. r.phase = "fetch" /\ (Answer(u) \/ Move(u, new))
      BY <1>11 DEF StreamDocument
    <2>2. r \in Browser /\ BrowserSound(r, doc, link)
      BY <2>1, BrowserAt
    <2>3. new.op = r.op
      BY <2>2 DEF Browser
    <2>4. r.op # "upload_policy"
      BY <2>1, <2>2 DEF BrowserSound
    <2> HIDE DEF new
    <2> QED
      BY <1>2, <1>9, <2>1, <2>2, <2>3, <2>4
  <1>12. ASSUME NEW u \in Slots, RedeemGrant(u) \/ ArchiveDocument(u) \/
                \E d \in Documents : CreateSubmission(u, d) \/ CreatePolicyDocument(u, d)
         PROVE  Fine
    BY <1>2, <1>12 DEF RedeemGrant, ArchiveDocument, CreateSubmission, CreatePolicyDocument
  <1>13. ASSUME NEW l \in Links, \/ \E e \in Evidence, w \in Windows : ManageEvidenceSubmissions(l, e, w)
                                 \/ \E p \in Policies : ManagePolicyDocument(l, p)
                                 \/ \E d \in Documents : DownloadEvidenceFile(l, d)
         PROVE  Fine
    BY <1>3, <1>13 DEF ManageEvidenceSubmissions, ManagePolicyDocument, DownloadEvidenceFile
  <1>14. ASSUME NEW d \in Documents, NEW status \in Terminal, SettleDocument(d, status)
         PROVE  Fine
    BY <1>3, <1>14 DEF SettleDocument
  <1>15. Fine
    BY <1>5, <1>6, <1>7, <1>8, <1>10, <1>11, <1>12, <1>13, <1>14 DEF SessionStep
  <1> QED
    BY <1>15 DEF Fine

\* Every step keeps what an upload knows of its policy: the policy stays, and nobody
\* else writes it while the upload holds it.
LEMMA NextUploads ==
    ASSUME Base, UploadsSound, [Next]_vars
    PROVE  UploadsSound'
  <1>1. LinksGrow(link, link')
    BY TablesGrow
  <1>2. \A p \in Policies : policy[p] # None => policy'[p] # None
    BY OnlyCommitsWrite, CommitEffect
  <1>3. SUFFICES ASSUME NEW s \in Slots, req'[s] # Idle, req'[s].op = "upload_policy"
                 PROVE  LET p == link'[req'[s].link].target IN
                        policy'[p] # None /\ (req'[s].phase = "locked" => req'[s].seen = policy'[p])
    BY DEF UploadsSound
  <1>4. "upload_policy" \notin Edits \cup AuditOps
    BY DEF Edits, ControlEdits, EvidenceEdits, PolicyEdits, AuditOps
  <1>5. ASSUME req'[s] = req[s], \A p \in Policies \cap Held(s) : policy'[p] = policy[p]
        PROVE  LET p == link'[req'[s].link].target IN
               policy'[p] # None /\ (req'[s].phase = "locked" => req'[s].seen = policy'[p])
    BY <1>1, <1>2, <1>3, <1>5, UploadKept
  <1>6. CASE CatalogueStep /\ UNCHANGED <<sessionVars, auditorVars>>
    <2>1. req'[s] = req[s]
      BY <1>3, <1>4, <1>6, CatalogueShape, Kinds
    <2>2. CASE UNCHANGED policy
      BY <1>5, <2>1, <2>2
    <2>3. ASSUME NEW u \in Slots, CommitChange(u)
          PROVE  \A p \in Policies \cap Held(s) : policy'[p] = policy[p]
      <3>1. req'[u] = Idle
        BY <2>3, OneSlot DEF CommitChange, Answer
      <3>2. Held(u) \cap Held(s) = {} /\ Held(u) = req[u].rows
        BY <1>3, <2>3, <3>1, CommitEffect DEF Base, LocksExclusive
      <3>3. \A p \in Policies : p \notin req[u].rows => RowOf(p)' = RowOf(p)
        BY <2>3, CommitEffect DEF Ids
      <3> QED
        BY <3>2, <3>3 DEF RowOf
    <2> QED
      BY <1>5, <2>1, <2>2, <2>3, OnlyCommitsWrite
  <1>7. CASE SessionStep /\ UNCHANGED auditorVars
    <2>1. UNCHANGED policy
      BY <1>7, SessionShape
    <2>2. req'[s] = req[s] \/ (UNCHANGED link /\ UploadKnows(req'[s]))
      BY <1>3, <1>7, SessionUploads
    <2> QED
      BY <1>3, <1>5, <2>1, <2>2 DEF UploadKnows
  <1>8. CASE AuditorStep /\ UNCHANGED sessionVars
    <2>1. req'[s] = req[s] /\ UNCHANGED policy
      BY <1>3, <1>4, <1>8, AuditorShape, AuditorLeavesCatalogue, Kinds
    <2> QED
      BY <1>5, <2>1
  <1>9. CASE Tick \/ UNCHANGED vars
    BY <1>5, <1>9 DEF Tick, vars, catalogueVars
  <1> QED
    BY <1>6, <1>7, <1>8, <1>9 DEF Next

-----------------------------------------------------------------------------
(* A policy has one document, in progress only while the policy is active.  *)

\* A change of a policy other than archiving leaves it active.
LEMMA EditedActive ==
    ASSUME NEW r, IsEdit(r), EditSound(r), r.phase = "saved", NEW p \in r.rows \cap Policies, r.op # "archive_policy"
    PROVE  ~Edited(r, r.seen[p]).archived
  <1> DEFINE row == r.seen[p]
  <1>1. r.op \in PolicyEdits
    BY IdsAreDistinct DEF EditSound, IsEdit, Edit, Edits
  <1>2. row \in PolicyRow \cup {None} /\ (r.op \notin Creations => row # None /\ ~row.archived)
    BY <1>1 DEF EditSound, RowsFor, Known, Active
  <1> HIDE DEF row
  <1>3. row \in PolicyRow \/ r.op = "create_policy"
    BY <1>1, <1>2 DEF Creations, PolicyEdits
  <1>4. r.op # "create_policy" => row \in PolicyRow /\ ~row.archived
    BY <1>1, <1>2, <1>3 DEF Creations, PolicyEdits
  <1>5. ~Edited(r, row).archived
    BY <1>1, <1>4 DEF Edited, PolicyEdits, PolicyRow, DefinePolicy, ReplacePolicyRow, AddMappings, RemoveMappings
  <1> QED
    BY <1>5 DEF row

\* The documents of p that are in progress.
Waiting(p) == {d \in Documents : Counts(d) /\ doc[d].owner = p /\ doc[d].status \in InProgress}

\* The documents that count, when the documents or the policies change and no
\* new document counts.
LEMMA DocumentsKept ==
    ASSUME DocumentsSound,
           \A d \in Documents : Counts(d)' =>
              /\ Counts(d) /\ doc'[d].owner = doc[d].owner
              /\ doc'[d].status \in InProgress => doc[d].status \in InProgress,
           \A p \in Policies : PolicyActive(p) /\ Waiting(p) # {} => PolicyActive(p)'
    PROVE  DocumentsSound'
  <1>1. \A d, e \in Documents : Counts(d)' /\ Counts(e)' /\ doc'[d].owner = doc'[e].owner => d = e
    BY DEF DocumentsSound
  <1>2. ASSUME NEW d \in Documents, Counts(d)', doc'[d].status \in InProgress
        PROVE  policy'[doc'[d].owner] # None /\ ~policy'[doc'[d].owner].archived
    <2>1. doc'[d].owner = doc[d].owner /\ doc[d].status \in InProgress /\ Counts(d)
      BY <1>2
    <2>2. PICK p \in Policies : p = doc[d].owner
      BY <2>1 DEF Counts
    <2>3. PolicyActive(p) /\ d \in Waiting(p)
      BY <2>1, <2>2 DEF DocumentsSound, Waiting
    <2>4. PolicyActive(p)'
      BY <2>3
    <2> QED
      BY <2>1, <2>2, <2>4 DEF PolicyActive
  <1> QED
    BY <1>1, <1>2 DEF DocumentsSound, PolicyActive

\* Archivings stand when none is new and no document begins to count or to be scanned.
LEMMA ArchivingsKept ==
    ASSUME ArchivingsSound, \A s \in Slots : req'[s].phase = "saved" => req'[s] = req[s],
           \A d \in Documents : Counts(d)' =>
              /\ Counts(d) /\ doc'[d].owner = doc[d].owner
              /\ doc'[d].status \in InProgress => doc[d].status \in InProgress
    PROVE  ArchivingsSound'
  BY DEF ArchivingsSound

\* The steps that write documents.
LEMMA DocumentStepKeepsDocuments ==
    ASSUME Base, UploadsSound, DocumentsSound, ArchivingsSound,
           UNCHANGED <<clock, control, evidence, policy, sessionVars, auditorVars>>,
           \/ \E s \in Slots : \/ ArchiveDocument(s)
                               \/ \E d \in Documents : CreateSubmission(s, d) \/ CreatePolicyDocument(s, d)
           \/ \E d \in Documents, status \in Terminal : SettleDocument(d, status)
    PROVE  DocumentsSound' /\ ArchivingsSound'
  <1>1. ASSUME NEW s \in Slots, Answer(s)
        PROVE  \A t \in Slots : req'[t].phase = "saved" => req'[t] = req[t]
    <2>1. req'[s] = Idle /\ Idle.phase = "idle" /\ \A t \in Slots \ {s} : req'[t] = req[t]
      BY <1>1, OneSlot DEF Answer, Idle
    <2> QED
      BY <2>1
  <1>2. \A p \in Policies : PolicyActive(p) => PolicyActive(p)'
    BY DEF PolicyActive
  <1>3. ASSUME \A d \in Documents : Counts(d)' =>
                  /\ Counts(d) /\ doc'[d].owner = doc[d].owner
                  /\ doc'[d].status \in InProgress => doc[d].status \in InProgress,
               \A t \in Slots : req'[t].phase = "saved" => req'[t] = req[t]
        PROVE  DocumentsSound' /\ ArchivingsSound'
    BY <1>2, <1>3, DocumentsKept, ArchivingsKept
  <1>4. ASSUME NEW s \in Slots, ArchiveDocument(s)
        PROVE  DocumentsSound' /\ ArchivingsSound'
    <2>1. \A d \in Documents : doc'[d] = doc[d] \/ doc'[d].archived
      BY <1>4, ArchiveDocumentEffect
    <2>2. Answer(s)
      BY <1>4 DEF ArchiveDocument
    <2> QED
      BY <1>1, <1>3, <2>1, <2>2 DEF Counts
  <1>5. ASSUME NEW s \in Slots, NEW d \in Documents, CreateSubmission(s, d)
        PROVE  DocumentsSound' /\ ArchivingsSound'
    <2>1. doc'[d].owner \notin Policies /\ \A e \in Documents \ {d} : doc'[e] = doc[e]
      BY <1>5, CreateSubmissionEffect, IdsAreDistinct
    <2>2. Answer(s)
      BY <1>5 DEF CreateSubmission
    <2> QED
      BY <1>1, <1>3, <2>1, <2>2 DEF Counts
  <1>6. ASSUME NEW d \in Documents, NEW status \in Terminal, SettleDocument(d, status)
        PROVE  DocumentsSound' /\ ArchivingsSound'
    <2>1. /\ doc[d] # None /\ doc'[d].owner = doc[d].owner /\ doc'[d].archived = doc[d].archived
          /\ doc'[d].status \notin InProgress /\ \A e \in Documents \ {d} : doc'[e] = doc[e]
      BY <1>6, SettleDocumentEffect DEF DocumentsGrow, Terminal, InProgress
    <2>2. UNCHANGED req
      BY <1>6 DEF SettleDocument
    <2> QED
      BY <1>3, <2>1, <2>2 DEF Counts
  <1>7. ASSUME NEW s \in Slots, NEW d \in Documents, CreatePolicyDocument(s, d)
        PROVE  DocumentsSound' /\ ArchivingsSound'
    <2> DEFINE p == link[req[s].link].target
    <2>1. /\ \A e \in Documents \ {d} : doc'[e] = doc[e]
          /\ req[s] # Idle /\ req[s].op = "upload_policy" /\ req[s].phase = "locked" /\ Held(s) = {p}
          /\ \/ doc'[d] = doc[d]
             \/ /\ doc[d] = None /\ doc'[d].owner = p /\ doc'[d].owner \in Policies
                /\ ~req[s].seen.archived /\ CurrentDocument(p) = {}
      BY <1>7, CreatePolicyDocumentEffect
    <2>2. Answer(s)
      BY <1>7 DEF CreatePolicyDocument
    <2>3. policy[p] # None /\ req[s].seen = policy[p]
      BY <2>1 DEF UploadsSound
    <2> HIDE DEF p
    <2>4. CASE doc'[d] = doc[d]
      BY <1>1, <1>3, <2>1, <2>2, <2>4 DEF Counts
    <2>5. CASE doc[d] = None /\ doc'[d].owner = p /\ p \in Policies /\ ~req[s].seen.archived /\ CurrentDocument(p) = {}
      <3>1. \A e \in Documents : Counts(e) => doc[e].owner # p
        BY <2>5 DEF CurrentDocument, Counts
      <3>2. ASSUME NEW e \in Documents, Counts(e)', e # d
            PROVE  Counts(e) /\ doc'[e] = doc[e] /\ doc[e].owner # p
        BY <2>1, <3>1, <3>2 DEF Counts
      <3>3. policy'[p] # None /\ ~policy'[p].archived
        BY <2>3, <2>5
      <3>4. \A e, g \in Documents : Counts(e)' /\ Counts(g)' /\ doc'[e].owner = doc'[g].owner => e = g
        BY <2>5, <3>2 DEF DocumentsSound
      <3>5. \A e \in Documents : Counts(e)' /\ doc'[e].status \in InProgress =>
               policy'[doc'[e].owner] # None /\ ~policy'[doc'[e].owner].archived
        BY <2>5, <3>2, <3>3 DEF DocumentsSound, PolicyActive
      <3>6. DocumentsSound'
        BY <3>4, <3>5 DEF DocumentsSound, PolicyActive
      <3>7. ASSUME NEW t \in Slots, req'[t].phase = "saved", req'[t].op = "archive_policy",
                   NEW e \in Documents, Counts(e)', doc'[e].owner \in req'[t].rows
            PROVE  doc'[e].status \notin InProgress
        <4>1. t # s /\ req'[t] = req[t]
          <5>1. req'[s] = Idle /\ Idle.phase = "idle" /\ \A u \in Slots \ {s} : req'[u] = req[u]
            BY <2>2, OneSlot DEF Answer, Idle
          <5> QED
            BY <3>7, <5>1
        <4>2. Held(t) = req[t].rows
          <5>1. req[t].phase = "saved"
            BY <3>7, <4>1
          <5>2. EditSound(req[t]) /\ Held(t) = req[t].rows \ req[t].todo
            BY <1>1, <5>1, EditAt
          <5>3. req[t].todo = {}
            BY <5>1, <5>2 DEF EditSound
          <5> QED
            BY <5>2, <5>3
        <4>3. p \notin req[t].rows
          BY <2>1, <4>1, <4>2 DEF Base, LocksExclusive
        <4>4. e # d
          BY <2>5, <3>7, <4>1, <4>3
        <4> QED
          BY <3>2, <3>7, <4>1, <4>4 DEF ArchivingsSound
      <3>8. ArchivingsSound'
        BY <3>7 DEF ArchivingsSound
      <3> QED
        BY <3>6, <3>8
    <2> QED
      BY <2>1, <2>4, <2>5
  <1> QED
    BY <1>4, <1>5, <1>6, <1>7

\* An archiving goes on only when its policies have no document in progress.
LEMMA SaveRowsKeepsArchivings ==
    ASSUME Base, ArchivingsSound, NEW s \in Slots, SaveRows(s)
    PROVE  ArchivingsSound'
  <1> DEFINE r == req[s]
             claims == \E x \in r.rows : Claimed(r, x) # None
             new == [r EXCEPT !.phase = IF claims THEN "written" ELSE "saved"]
  <1>1. UNCHANGED doc /\ r.phase = "locked" /\ r.op \in Edits
    BY DEF SaveRows, RowsStand
  <1>2. \A d \in Documents : Counts(d)' = Counts(d)
    BY <1>1 DEF Counts
  <1>3. CASE Answer(s)
    <2>1. req'[s] = Idle /\ Idle.phase = "idle" /\ \A t \in Slots \ {s} : req'[t] = req[t]
      BY <1>3, OneSlot DEF Answer, Idle
    <2>2. \A t \in Slots : req'[t].phase = "saved" => req'[t] = req[t]
      BY <2>1
    <2> QED
      BY <1>1, <1>2, <2>2, ArchivingsKept
  <1>4. CASE Acceptable(r) /\ Move(s, new)
    <2>1. r \in Edit(r.rows)
      BY <1>1, EditAt DEF IsEdit
    <2>2. new.op = r.op /\ new.rows = r.rows
      BY <2>1 DEF Edit
    <2>3. req' = [req EXCEPT ![s] = new]
      BY <1>4 DEF Move
    <2> HIDE DEF new
    <2>4. req'[s] = new /\ \A t \in Slots \ {s} : req'[t] = req[t]
      BY <2>3, OneSlot
    <2>5. ASSUME r.op = "archive_policy", NEW d \in Documents, Counts(d), doc[d].owner \in r.rows
          PROVE  doc[d].status \notin InProgress
      <3>1. \A p \in r.rows : ~DocumentInProgress(p)
        BY <1>4, <2>5 DEF Acceptable, Creations, MayArchivePolicy
      <3> QED
        BY <2>5, <3>1 DEF DocumentInProgress, CurrentDocument, Counts
    <2>6. ASSUME NEW t \in Slots, req'[t].phase = "saved", req'[t].op = "archive_policy",
                 NEW d \in Documents, Counts(d), doc[d].owner \in req'[t].rows
          PROVE  doc[d].status \notin InProgress
      <3>1. CASE t = s
        BY <2>2, <2>4, <2>5, <2>6, <3>1
      <3>2. CASE t # s
        BY <2>4, <2>6, <3>2 DEF ArchivingsSound
      <3> QED
        BY <3>1, <3>2
    <2> QED
      BY <1>1, <1>2, <2>6 DEF ArchivingsSound
  <1> QED
    BY <1>3, <1>4 DEF SaveRows

\* A change that waited for a name is no archiving.
LEMMA ClaimNameKeepsArchivings ==
    ASSUME Base, ArchivingsSound, NEW s \in Slots, ClaimName(s)
    PROVE  ArchivingsSound'
  <1> DEFINE r == req[s]
             new == [r EXCEPT !.phase = "saved"]
  <1>1. UNCHANGED doc /\ r.phase = "written" /\ r.op \in Edits
    BY DEF ClaimName, RowsStand
  <1>2. \A d \in Documents : Counts(d)' = Counts(d)
    BY <1>1 DEF Counts
  <1>3. r \in Edit(r.rows) /\ r.op \in NamingEdits
    BY <1>1, EditAt DEF IsEdit, EditSound
  <1>4. PICK q : req' = [req EXCEPT ![s] = q] /\ (q = Idle \/ q = new)
    BY DEF ClaimName, Move, Answer
  <1>5. new.op # "archive_policy"
    BY <1>3 DEF Edit, NamingEdits
  <1>6. Idle.phase # "saved"
    BY DEF Idle
  <1> HIDE DEF new
  <1>7. req'[s] = q /\ \A t \in Slots \ {s} : req'[t] = req[t]
    BY <1>4, OneSlot
  <1>8. ASSUME NEW t \in Slots, req'[t].phase = "saved", req'[t].op = "archive_policy"
        PROVE  req'[t] = req[t]
    BY <1>4, <1>5, <1>6, <1>7, <1>8
  <1> QED
    BY <1>1, <1>2, <1>8 DEF ArchivingsSound

\* A commit archives only policies without a document in progress.
LEMMA CommitKeepsDocuments ==
    ASSUME Base, DocumentsSound, ArchivingsSound, NEW s \in Slots, CommitChange(s)
    PROVE  DocumentsSound' /\ ArchivingsSound'
  <1> DEFINE r == req[s]
  <1>1. UNCHANGED doc /\ r.phase = "saved" /\ Answer(s)
    BY DEF CommitChange
  <1>2. \A d \in Documents : Counts(d)' = Counts(d)
    BY <1>1 DEF Counts
  <1>3. req'[s] = Idle /\ Idle.phase = "idle" /\ \A t \in Slots \ {s} : req'[t] = req[t]
    BY <1>1, OneSlot DEF Answer, Idle
  <1>4. ArchivingsSound'
    BY <1>1, <1>2, <1>3, ArchivingsKept
  <1>5. ASSUME NEW p \in Policies, PolicyActive(p), Waiting(p) # {}
        PROVE  PolicyActive(p)'
    <2>1. policy'[p] # None
      BY <1>5, CommitEffect DEF PolicyActive
    <2>2. /\ RowOf(p)' = IF p \in r.rows THEN Edited(r, r.seen[p]) ELSE RowOf(p)
          /\ IsEdit(r) /\ EditSound(r)
      BY CommitEffect DEF Ids
    <2>3. RowOf(p)' = policy'[p] /\ RowOf(p) = policy[p]
      BY DEF RowOf
    <2>4. CASE p \notin r.rows
      BY <1>5, <2>2, <2>3, <2>4 DEF PolicyActive
    <2>5. CASE p \in r.rows
      <3>1. r.op # "archive_policy"
        BY <1>1, <1>5, <2>5 DEF ArchivingsSound, Waiting
      <3>2. ~Edited(r, r.seen[p]).archived
        BY <1>1, <2>2, <2>5, <3>1, EditedActive
      <3> QED
        BY <2>1, <2>2, <2>3, <2>5, <3>2 DEF PolicyActive
    <2> QED
      BY <2>4, <2>5
  <1>6. DocumentsSound'
    BY <1>1, <1>2, <1>5, DocumentsKept
  <1> QED
    BY <1>4, <1>6

\* Every step keeps one document per policy, and none in progress for an archived one:
\* an upload and an archiving hold the same row of the policy.
LEMMA NextDocuments ==
    ASSUME Base, UploadsSound, DocumentsSound, ArchivingsSound, [Next]_vars
    PROVE  DocumentsSound' /\ ArchivingsSound'
  <1>1. ASSUME UNCHANGED <<policy, doc>>
        PROVE  DocumentsSound'
    BY <1>1 DEF DocumentsSound, Counts, PolicyActive
  <1>2. ASSUME UNCHANGED doc, \A t \in Slots : req'[t].phase = "saved" => req'[t] = req[t]
        PROVE  ArchivingsSound'
    <2>1. \A d \in Documents : Counts(d)' = Counts(d)
      BY <1>2 DEF Counts
    <2> QED
      BY <1>2, <2>1, ArchivingsKept
  <1>3. CASE UNCHANGED doc
    <2>1. CASE ~(CatalogueStep /\ UNCHANGED <<sessionVars, auditorVars>>)
      BY <1>1, <1>2, <1>3, <2>1, OthersSaveNothing
    <2>2. ASSUME NEW s \in Slots, AskForChange(s) \/ LockRow(s) \/ Abandon(s)
          PROVE  DocumentsSound' /\ ArchivingsSound'
      BY <1>1, <1>2, <1>3, <2>2, BeforeSaving
    <2>3. ASSUME NEW s \in Slots, SaveRows(s) \/ ClaimName(s)
          PROVE  DocumentsSound' /\ ArchivingsSound'
      <3>1. UNCHANGED policy
        BY <2>3 DEF SaveRows, ClaimName, RowsStand
      <3> QED
        BY <1>1, <1>3, <2>3, <3>1, SaveRowsKeepsArchivings, ClaimNameKeepsArchivings
    <2>4. ASSUME NEW s \in Slots, CommitChange(s)
          PROVE  DocumentsSound' /\ ArchivingsSound'
      BY <2>4, CommitKeepsDocuments
    <2>5. CASE CatalogueStep
      BY <2>2, <2>3, <2>4, <2>5 DEF CatalogueStep
    <2> QED
      BY <2>1, <2>5
  <1> QED
    BY <1>3, DocumentWriters, DocumentStepKeepsDocuments

-----------------------------------------------------------------------------
(* The whole invariant, and what it says.                                   *)

\* The rows made earlier keep the unique index of names.
LEMMA InitNames ==
    ASSUME Init
    PROVE  NamesUnique
  <1> SUFFICES ASSUME NEW x \in Ids, NEW y \in Ids, x # y, SameKind(x, y), NameOf(x, RowOf(x)) # None
               PROVE  NameOf(x, RowOf(x)) # NameOf(y, RowOf(y))
    BY DEF NamesUnique
  <1>1. control = InitialControls /\ evidence = InitialEvidence /\ policy = InitialPolicies
    BY DEF Init, CatalogueInit
  <1>2. x \notin Evidence
    BY DEF NameOf
  <1>3. /\ x \in Policies <=> y \in Policies
        /\ x \in Controls <=> y \in Controls
    BY DEF SameKind
  <1>4. CASE x \in Policies
    <2>1. RowOf(x) = InitialPolicies[x] /\ RowOf(y) = InitialPolicies[y]
      BY <1>1, <1>3, <1>4 DEF RowOf
    <2> QED
      BY <1>3, <1>4, <2>1, InitialRowsSound
  <1>5. CASE x \in Controls
    <2>1. RowOf(x) = InitialControls[x] /\ RowOf(y) = InitialControls[y]
      BY <1>1, <1>3, <1>5, IdsAreDistinct DEF RowOf
    <2> QED
      BY <1>3, <1>5, <2>1, InitialRowsSound
  <1> QED
    BY <1>2, <1>4, <1>5 DEF Ids

\* Of the documents made earlier one counts for each policy, in progress only
\* while the policy is active.
LEMMA InitDocuments ==
    ASSUME Init
    PROVE  DocumentsSound
  <1>1. doc = InitialDocuments /\ policy = InitialPolicies
    BY DEF Init, CatalogueInit
  <1>2. ASSUME NEW d \in Documents, NEW e \in Documents, Counts(d), Counts(e), doc[d].owner = doc[e].owner
        PROVE  d = e
    BY <1>1, <1>2, InitialRowsSound DEF Counts
  <1>3. ASSUME NEW d \in Documents, Counts(d), doc[d].status \in InProgress
        PROVE  PolicyActive(doc[d].owner)
    BY <1>1, <1>3, InitialRowsSound DEF Counts, PolicyActive
  <1> QED
    BY <1>2, <1>3 DEF DocumentsSound

\* Nothing runs yet and no link, grant, login or session has been made.
LEMMA InitWorkspace ==
    ASSUME Init
    PROVE  WorkspaceInv
  <1>1. \A s \in Slots : req[s] = Idle /\ req[s].phase = "idle"
    BY DEF Init, CatalogueInit, Idle
  <1>2. ClaimsFree /\ ArchivingsSound /\ UploadsSound /\ VisitsSound /\ SharesSound
    <2>1. ClaimsFree
      BY <1>1 DEF ClaimsFree
    <2>2. ArchivingsSound
      BY <1>1 DEF ArchivingsSound
    <2>3. UploadsSound
      BY <1>1 DEF UploadsSound
    <2>4. VisitsSound
      BY <1>1 DEF VisitsSound, ReadPhases
    <2>5. SharesSound
      BY <1>1 DEF SharesSound
    <2> QED
      BY <2>1, <2>2, <2>3, <2>4, <2>5
  <1>3. LinksSound
    BY DEF Init, SessionInit, LinksSound
  <1>4. LoginsSound
    <2>1. \A s \in Slots, t \in Logins : ~Claiming(s, t)
      BY <1>1 DEF Claiming, ClaimedPhases
    <2>2. /\ \A t \in Logins : login[t] = None
          /\ \A v \in Sessions : session[v] = None
      BY DEF Init, AuditorInit
    <2> QED
      BY <2>1, <2>2 DEF LoginsSound, OneSessionPerLogin
  <1> QED
    BY <1>2, <1>3, <1>4, InitBase, InitNames, InitDocuments DEF WorkspaceInv

\* Every step keeps the invariant.
LEMMA NextWorkspace ==
    ASSUME WorkspaceInv, [Next]_vars
    PROVE  WorkspaceInv'
  <1> USE DEF WorkspaceInv
  <1>1. Base'
    BY NextBase
  <1>2. NamesUnique' /\ ClaimsFree'
    BY NextNames
  <1>3. DocumentsSound' /\ ArchivingsSound' /\ UploadsSound'
    BY NextDocuments, NextUploads
  <1>4. VisitsSound' /\ LinksSound'
    BY NextVisits, NextLinks
  <1>5. LoginsSound' /\ SharesSound'
    BY NextLogins, NextShares
  <1> QED
    BY <1>1, <1>2, <1>3, <1>4, <1>5

\* The inductive invariant of a workspace: row locks are exclusive and what a
\* request has read under its lock is current, names about to be committed are
\* free, an archiving and an upload of one policy exclude each other, and an
\* unclaimed login or unredeemed link has yielded nothing.
THEOREM WorkspaceCorrect ==
    Spec => []WorkspaceInv
  <1>1. Init => WorkspaceInv
    BY InitWorkspace
  <1>2. WorkspaceInv /\ [Next]_vars => WorkspaceInv'
    BY NextWorkspace
  <1> QED
    BY <1>1, <1>2, PTL DEF Spec

\* Every row a handler loads has its type and passes what rehydration demands
\* of it, and the two unique indexes of names hold.
THEOREM WorkspaceTyped ==
    Spec => []TypeOK
  <1>1. WorkspaceInv => TypeOK
    <2> SUFFICES ASSUME WorkspaceInv
                 PROVE  TypeOK
      OBVIOUS
    <2>1. TablesTyped
      BY DEF WorkspaceInv, Base
    <2>2. ASSUME NEW x \in DOMAIN Rank, NameOf(x, RowOf(x)) # None
          PROVE  ~NameTaken(x, NameOf(x, RowOf(x)))
      <3>1. DOMAIN Rank = Ids
        BY CatalogueAssumption DEF Ids
      <3> QED
        BY <2>2, <3>1 DEF WorkspaceInv, NamesUnique, NameTaken
    <2>3. CatalogueTypeOK
      BY <2>1, <2>2 DEF CatalogueTypeOK, TablesTyped
    <2>4. SessionsTypeOK
      BY <2>1 DEF SessionsTypeOK, TablesTyped, Link, WorkspaceInv, LinksSound
    <2>5. AuditorTypeOK
      BY <2>1 DEF AuditorTypeOK, TablesTyped, WorkspaceInv, LoginsSound
    <2> QED
      BY <2>3, <2>4, <2>5 DEF TypeOK
  <1> QED
    BY <1>1, WorkspaceCorrect, PTL

\* An upload link is exchanged for one session and a login at the identity
\* provider for one session of an auditor, however concurrently it is tried.
THEOREM LinksAndLoginsUsedOnce ==
    Spec => []UsedOnce
  <1>1. WorkspaceInv => UsedOnce
    BY DEF WorkspaceInv, LinksSound, LoginsSound, UsedOnce, LinkOpensOnce
  <1> QED
    BY <1>1, WorkspaceCorrect, PTL

\* A policy has one document that is not archived, and an archived policy has
\* none in progress, whichever of upload and archiving locks the policy first.
THEOREM ArchivedPoliciesRest ==
    Spec => []ArchivedPolicyHasNoUpload
  <1>1. WorkspaceInv => ArchivedPolicyHasNoUpload
    <2> SUFFICES ASSUME WorkspaceInv, NEW p \in Policies
                 PROVE  Cardinality(CurrentDocument(p)) <= 1 /\ (DocumentInProgress(p) => PolicyActive(p))
      BY DEF ArchivedPolicyHasNoUpload
    <2>1. \A d \in CurrentDocument(p) : d \in Documents /\ Counts(d) /\ doc[d].owner = p
      BY DEF CurrentDocument, Counts
    <2>2. DocumentInProgress(p) => PolicyActive(p)
      BY <2>1 DEF DocumentInProgress, WorkspaceInv, DocumentsSound
    <2>3. \A d, e \in CurrentDocument(p) : d = e
      BY <2>1 DEF WorkspaceInv, DocumentsSound
    <2>4. CASE CurrentDocument(p) = {}
      BY <2>2, <2>4, FS_EmptySet
    <2>5. CASE CurrentDocument(p) # {}
      <3>1. PICK d \in CurrentDocument(p) : TRUE
        BY <2>5
      <3>2. CurrentDocument(p) = {d}
        BY <2>3, <3>1
      <3> QED
        BY <2>2, <3>2, FS_Singleton
    <2> QED
      BY <2>4, <2>5
  <1> QED
    BY <1>1, WorkspaceCorrect, PTL

\* Once a revocation has committed, ShareGrant and the commits after it make
\* no login and no session under the grant.
THEOREM RevokedGrantsYieldNothing ==
    Spec => NothingAfterRevocation
  <1>1. WorkspaceInv /\ [Next]_vars => [MadeUnderLiveGrant]_auditorVars
    BY StepMadeUnderLiveGrant DEF WorkspaceInv
  <1> QED
    BY <1>1, WorkspaceCorrect, PTL DEF Spec, NothingAfterRevocation, MadeUnderLiveGrant

\* A session is admitted only while it and its grant stand, and shows only
\* submissions of the audit period.
THEOREM AuditorsSeeTheirPeriod ==
    Spec => AuditorsStayInBounds
  <1>1. WorkspaceInv /\ [Next]_vars => [AuditorInBounds]_<<req, session, grant>>
    BY StepAuditorInBounds DEF WorkspaceInv
  <1> QED
    BY <1>1, WorkspaceCorrect, PTL DEF Spec, AuditorsStayInBounds, AuditorInBounds

=============================================================================
