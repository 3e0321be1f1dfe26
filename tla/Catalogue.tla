------------------------------ MODULE Catalogue ------------------------------
(***************************************************************************)
(* The controls, evidence and policies of one workspace and the mappings    *)
(* between them, as agents change them.                                     *)
(*                                                                         *)
(* A change is one transaction.  It locks the rows it edits, one statement  *)
(* each, edits what it read, and saves every row as a whole: definition and *)
(* mappings are deleted and written again.  A saved mapping takes a share   *)
(* of its control's row (the foreign key).  A save that takes a new name    *)
(* has written its row before the unique index is searched, and waits there *)
(* for a transaction that holds or gives up that name.                      *)
(*                                                                         *)
(* The requests of UploadSessions and AuditorAccess run in the same slots.  *)
(***************************************************************************)
EXTENDS Naturals, FiniteSets

CONSTANTS Controls, Evidence, Policies,
          Names,      \* policy names, in lower case, and control codes
          Rank,       \* the order of the rows' ids
          Documents,  \* documents that may be made
          Windows,    \* validity windows a submission may state
          Slots,      \* requests that run at once
          MaxBatchItems,
          Granted,    \* the permissions of the agents
          InitialControls, InitialEvidence, InitialPolicies,
          InitialDocuments,  \* rows made earlier
          Budgets,    \* how many requests of each kind a behaviour may hold
          MaxTime,    \* bound on the clock
          None

VARIABLES clock,
          control, evidence, policy,  \* the rows
          doc,     \* the documents of policies and of evidence submissions
          req,     \* the requests in flight
          budget   \* how many more requests of each kind may begin

catalogueVars == <<clock, control, evidence, policy, doc, req, budget>>

-----------------------------------------------------------------------------
(* The rows.                                                               *)

WorkspacePermission == {"read_evidence", "write_evidence", "read_evidence_submissions",
                        "write_evidence_submissions", "read_controls", "write_controls",
                        "manage_auditor_access"}

ControlRow  == [code : Names]
EvidenceRow == [mapped : SUBSET Controls]
PolicyRow   == [name : Names, mapped : SUBSET Controls, archived : BOOLEAN]

InProgress == {"pending"}
Terminal   == {"uploaded", "failed"}
EvidenceDocument == [owner : Evidence, window : Windows,
                     status : InProgress \cup Terminal, archived : BOOLEAN]
PolicyDocument   == [owner : Policies, window : {None},
                     status : InProgress \cup Terminal, archived : BOOLEAN]
DocumentRow == EvidenceDocument \cup PolicyDocument

ASSUME CatalogueAssumption ==
          /\ Rank \in [Policies \cup Evidence \cup Controls -> Nat]
          /\ \A x, y \in DOMAIN Rank : Rank[x] = Rank[y] => x = y
          /\ InitialControls \in [Controls -> ControlRow \cup {None}]
          /\ InitialEvidence \in [Evidence -> EvidenceRow \cup {None}]
          /\ InitialPolicies \in [Policies -> PolicyRow \cup {None}]
          /\ InitialDocuments \in [Documents -> DocumentRow \cup {None}]
          /\ Budgets \subseteq [edits : Nat, uploads : Nat, audits : Nat]
          /\ Granted \subseteq WorkspacePermission
          /\ MaxTime \in Nat /\ MaxBatchItems \in Nat

\* Ids are of one kind, and None stands for what is not there.
ASSUME IdsAreDistinct ==
          /\ Policies \cap Evidence = {} /\ Policies \cap Controls = {} /\ Evidence \cap Controls = {}
          /\ None \notin Nat \cup Names \cup ControlRow \cup EvidenceRow \cup PolicyRow \cup DocumentRow

ControlEdits  == {"create_control", "replace_control"}
EvidenceEdits == {"create_evidence", "map", "unmap"}
PolicyEdits   == {"create_policy", "replace_policy", "archive_policy", "attach", "detach"}
Edits         == ControlEdits \cup EvidenceEdits \cup PolicyEdits
Creations     == {"create_control", "create_evidence", "create_policy"}

Row == ControlRow \cup EvidenceRow \cup PolicyRow \cup {None}

Ids == Policies \cup Evidence \cup Controls

\* A request that changes the rows xs.
Edit(xs) == [op : Edits, phase : {"lock", "locked", "written", "saved"}, rows : {xs},
             todo : SUBSET xs, controls : SUBSET Controls, name : Names \cup {None},
             seen : [xs -> Row]]
Idle == [phase |-> "idle"]

RowOf(x) == IF x \in Policies THEN policy[x] ELSE IF x \in Evidence THEN evidence[x] ELSE control[x]

CatalogueInit ==
    /\ clock = 0
    /\ control = InitialControls /\ evidence = InitialEvidence /\ policy = InitialPolicies
    /\ doc = InitialDocuments
    /\ req = [s \in Slots |-> Idle]
    /\ budget \in Budgets

-----------------------------------------------------------------------------
(* What the domain decides about one row.                                   *)

Has(permission) == permission \in Granted

DefineControl(code)          == [code |-> code]
DefineEvidence               == [mapped |-> {}]
DefinePolicy(name, cs)       == [name |-> name, mapped |-> cs, archived |-> FALSE]

ReplaceControlRow(row, code) == [row EXCEPT !.code = code]
ReplacePolicyRow(row, name)  == [row EXCEPT !.name = name]
ArchivePolicyRow(row)        == [row EXCEPT !.archived = TRUE]
AddMappings(row, cs)         == [row EXCEPT !.mapped = @ \cup cs]
RemoveMappings(row, cs)      == [row EXCEPT !.mapped = @ \ cs]

\* The row that request r saves for the row it read.
Edited(r, row) ==
    CASE r.op = "create_control"   -> DefineControl(r.name)
      [] r.op = "create_evidence"  -> DefineEvidence
      [] r.op = "create_policy"    -> DefinePolicy(r.name, r.controls)
      [] r.op = "replace_control"  -> ReplaceControlRow(row, r.name)
      [] r.op = "replace_policy"   -> ReplacePolicyRow(row, r.name)
      [] r.op = "archive_policy"   -> ArchivePolicyRow(row)
      [] r.op \in {"map", "attach"} -> AddMappings(row, r.controls)
      [] OTHER                     -> RemoveMappings(row, r.controls)

-----------------------------------------------------------------------------
(* Reads and locks.                                                        *)

ExistingIds(cs) == {c \in cs : control[c] # None}

\* The document a policy has, whatever became of its scan.
CurrentDocument(p) == {d \in Documents : doc[d] # None /\ doc[d].owner = p /\ ~doc[d].archived}
DocumentInProgress(p) == \E d \in CurrentDocument(p) : doc[d].status \in InProgress

Held(s) == IF req[s] = Idle THEN {} ELSE req[s].rows \ req[s].todo

\* A saved mapping shares the row of its control.
MappedBy(r) == UNION {IF x \in Controls THEN {} ELSE Edited(r, r.seen[x]).mapped : x \in r.rows}
Shared(s) == IF req[s].phase = "saved" /\ req[s].op \in Edits THEN MappedBy(req[s]) ELSE {}

\* Mutant: rows are read without FOR UPDATE.
RowNeverLocked(s, x) == TRUE

RowFree(s, x) == \A t \in Slots \ {s} : x \notin Held(t) \cup Shared(t)

\* Mutant: a removal takes its rows in the other order.
NextToLockDescending(r) ==
    CHOOSE x \in r.todo : \A y \in r.todo : IF r.op \in {"detach", "unmap"} THEN Rank[x] >= Rank[y]
                                                                       ELSE Rank[x] <= Rank[y]

\* Rows are locked in the order of their ids.
NextToLock(r) == CHOOSE x \in r.todo : \A y \in r.todo : Rank[x] <= Rank[y]

-----------------------------------------------------------------------------
(* Unique names: policies_workspace_lower_name_active_key and the codes of  *)
(* controls.                                                               *)

NameOf(x, row) == IF row = None \/ x \in Evidence THEN None
                  ELSE IF x \in Controls THEN row.code
                  ELSE IF row.archived THEN None ELSE row.name

\* The rows made earlier keep the index, and what archiving a policy demands.
ASSUME InitialRowsSound ==
          /\ \A x, y \in Policies : x # y /\ NameOf(x, InitialPolicies[x]) # None =>
                NameOf(x, InitialPolicies[x]) # NameOf(y, InitialPolicies[y])
          /\ \A x, y \in Controls : x # y /\ NameOf(x, InitialControls[x]) # None =>
                NameOf(x, InitialControls[x]) # NameOf(y, InitialControls[y])
          /\ \A d \in Documents :
                LET v == InitialDocuments[d] IN
                v # None /\ v.owner \in Policies /\ ~v.archived =>
                   /\ v.status \in InProgress =>
                         InitialPolicies[v.owner] # None /\ ~InitialPolicies[v.owner].archived
                   /\ \A e \in Documents \ {d} :
                         \/ InitialDocuments[e] = None \/ InitialDocuments[e].archived
                         \/ InitialDocuments[e].owner # v.owner

\* The name that r takes for x, if it takes one.
Claimed(r, x) == LET n == NameOf(x, Edited(r, r.seen[x])) IN
                 IF n = NameOf(x, r.seen[x]) THEN None ELSE n

SameKind(x, y) == \A kind \in {Policies, Evidence, Controls} : x \in kind <=> y \in kind

\* t gives up the name from the moment it has written its row, and has taken
\* its own once the index has accepted it.
NameHeldBy(t, x, n) ==
    /\ req[t].phase \in {"written", "saved"} /\ req[t].op \in Edits
    /\ \E y \in req[t].rows : /\ SameKind(x, y)
                              /\ \/ NameOf(y, req[t].seen[y]) = n
                                 \/ req[t].phase = "saved" /\ Claimed(req[t], y) = n

\* Mutant: the index does not wait for open transactions.
NameNeverBusy(s, x) == FALSE

NameBusy(s, x) == \E t \in Slots \ {s} : NameHeldBy(t, x, Claimed(req[s], x))

NameTaken(x, n) == \E y \in DOMAIN Rank \ {x} : SameKind(x, y) /\ NameOf(y, RowOf(y)) = n

-----------------------------------------------------------------------------
(* The tools an agent calls.  Each is one request for one kind of edit.     *)

Begin(s, r, kind) ==
    /\ req[s] = Idle /\ budget[kind] > 0
    /\ req' = [req EXCEPT ![s] = r]
    /\ budget' = [budget EXCEPT ![kind] = @ - 1]

Change(s, op, rows, cs, name) ==
    /\ Begin(s, [op |-> op, phase |-> IF op \in Creations THEN "locked" ELSE "lock",
                 rows |-> rows, todo |-> IF op \in Creations THEN {} ELSE rows,
                 controls |-> cs, name |-> name, seen |-> [x \in rows |-> None]], "edits")
    /\ UNCHANGED <<clock, control, evidence, policy, doc>>

ValidBatch(xs) == xs # {} /\ Cardinality(xs) <= MaxBatchItems

\* A new row gets an id no row has, nor any creation under way.
FreshId(x) == RowOf(x) = None /\ \A t \in Slots : x \notin (IF req[t] = Idle THEN {} ELSE req[t].rows)

CreateControl(s, c, code) == Has("write_controls") /\ FreshId(c) /\ Change(s, "create_control", {c}, {}, code)
CreateEvidence(s, e)      == Has("write_evidence") /\ FreshId(e) /\ Change(s, "create_evidence", {e}, {}, None)

\* The controls are looked up before the policy is made.
MayCreatePolicy(cs) == ExistingIds(cs) = cs

CreatePolicy(s, p, name, cs) ==
    /\ Has("write_controls") /\ FreshId(p) /\ MayCreatePolicy(cs)
    /\ Change(s, "create_policy", {p}, cs, name)

ReplaceControl(s, c, code) == Has("write_controls") /\ Change(s, "replace_control", {c}, {}, code)
UpdatePolicy(s, p, name)   == Has("write_controls") /\ Change(s, "replace_policy", {p}, {}, name)
ArchivePolicy(s, p)        == Has("write_controls") /\ Change(s, "archive_policy", {p}, {}, None)

MapEvidenceToControl(s, e, c) == Has("write_controls") /\ Change(s, "map", {e}, {c}, None)
MapEvidenceToControls(s, e, cs) ==
    Has("write_controls") /\ ValidBatch(cs) /\ Change(s, "map", {e}, cs, None)
RemoveEvidenceControlMapping(s, e, c) == Has("write_controls") /\ Change(s, "unmap", {e}, {c}, None)
UnmapEvidenceFromControls(s, e, cs) ==
    Has("write_controls") /\ ValidBatch(cs) /\ Change(s, "unmap", {e}, cs, None)

\* From the control's side its row is read first, then the others locked.
MapControlToEvidence(s, c, es) ==
    /\ Has("write_controls") /\ ValidBatch(es) /\ ExistingIds({c}) = {c}
    /\ Change(s, "map", es, {c}, None)
UnmapControlFromEvidence(s, c, es) ==
    /\ Has("write_controls") /\ ValidBatch(es) /\ ExistingIds({c}) = {c}
    /\ Change(s, "unmap", es, {c}, None)

AttachPolicyToControl(s, p, c)   == Has("write_controls") /\ Change(s, "attach", {p}, {c}, None)
DetachPolicyFromControl(s, p, c) == Has("write_controls") /\ Change(s, "detach", {p}, {c}, None)
AttachPolicyToControls(s, p, cs) ==
    Has("write_controls") /\ ValidBatch(cs) /\ Change(s, "attach", {p}, cs, None)
DetachPolicyFromControls(s, p, cs) ==
    Has("write_controls") /\ ValidBatch(cs) /\ Change(s, "detach", {p}, cs, None)
AttachControlToPolicies(s, c, ps) ==
    /\ Has("write_controls") /\ ValidBatch(ps) /\ ExistingIds({c}) = {c}
    /\ Change(s, "attach", ps, {c}, None)
DetachControlFromPolicies(s, c, ps) ==
    /\ Has("write_controls") /\ ValidBatch(ps) /\ ExistingIds({c}) = {c}
    /\ Change(s, "detach", ps, {c}, None)

-----------------------------------------------------------------------------
(* What each handler demands of the rows it has locked.                     *)

Known(r)    == \A x \in r.rows : r.seen[x] # None
Active(r)   == \A x \in r.rows : ~r.seen[x].archived
Unmapped(r) == \A x \in r.rows : r.seen[x].mapped \cap r.controls = {}
Mapped(r)   == \A x \in r.rows : r.controls \subseteq r.seen[x].mapped
ControlsExist(r) == ExistingIds(r.controls) = r.controls

MayReplaceControl(r) == Known(r)
MayReplacePolicy(r)  == Known(r) /\ Active(r)

\* Mutant: the policy's document is not looked at.
MayArchiveUnread(r) == Known(r) /\ Active(r)
MayArchivePolicy(r) == Known(r) /\ Active(r) /\ \A p \in r.rows : ~DocumentInProgress(p)
MayMap(r)     == Known(r) /\ ControlsExist(r) /\ Unmapped(r)
MayUnmap(r)   == Known(r) /\ ControlsExist(r) /\ Mapped(r)
MayAttach(r)  == Known(r) /\ Active(r) /\ ControlsExist(r) /\ Unmapped(r)
MayDetach(r)  == Known(r) /\ Active(r) /\ ControlsExist(r) /\ Mapped(r)

Acceptable(r) ==
    CASE r.op \in Creations -> TRUE
      [] r.op = "replace_control" -> MayReplaceControl(r)
      [] r.op = "replace_policy" -> MayReplacePolicy(r)
      [] r.op = "archive_policy" -> MayArchivePolicy(r)
      [] r.op = "map"    -> MayMap(r)
      [] r.op = "unmap"  -> MayUnmap(r)
      [] r.op = "attach" -> MayAttach(r)
      [] OTHER           -> MayDetach(r)

-----------------------------------------------------------------------------
(* The steps of a change.                                                   *)

Move(s, r) == req' = [req EXCEPT ![s] = r]
Answer(s)  == req' = [req EXCEPT ![s] = Idle]
RowsStand  == UNCHANGED <<clock, control, evidence, policy, doc, budget>>

\* SELECT ... FOR UPDATE of the next row; what it returns is what is edited.
LockRow(s) ==
    LET r == req[s]
        x == NextToLock(r) IN
    /\ r.phase = "lock" /\ r.op \in Edits /\ RowFree(s, x)
    /\ Move(s, [r EXCEPT !.todo = @ \ {x}, !.seen[x] = RowOf(x),
                         !.phase = IF r.todo = {x} THEN "locked" ELSE @])
    /\ RowsStand

\* The rows are written and their mappings inserted, or the request refused.
SaveRows(s) ==
    LET r == req[s]
        claims == \E x \in r.rows : Claimed(r, x) # None IN
    /\ r.phase = "locked" /\ r.op \in Edits
    /\ \/ /\ Acceptable(r)
          /\ \A c \in MappedBy(r), t \in Slots \ {s} : c \notin Held(t)
          /\ Move(s, [r EXCEPT !.phase = IF claims THEN "written" ELSE "saved"])
       \/ ~Acceptable(r) /\ Answer(s)
    /\ RowsStand

\* The unique index is searched: wait, be refused, or go on.
ClaimName(s) ==
    LET r == req[s] IN
    /\ r.phase = "written" /\ r.op \in Edits
    /\ \A x \in r.rows : ~NameBusy(s, x)
    /\ IF \E x \in r.rows : NameTaken(x, Claimed(r, x)) THEN Answer(s)
       ELSE Move(s, [r EXCEPT !.phase = "saved"])
    /\ RowsStand

CommitChange(s) ==
    LET r == req[s]
        Saved(rows) == [x \in DOMAIN rows |->
                           IF x \in r.rows THEN Edited(r, r.seen[x]) ELSE rows[x]] IN
    /\ r.phase = "saved" /\ r.op \in Edits
    /\ control' = Saved(control) /\ evidence' = Saved(evidence) /\ policy' = Saved(policy)
    /\ Answer(s)
    /\ UNCHANGED <<clock, doc, budget>>

\* A request that stops, or that PostgreSQL picks to end a deadlock, leaves
\* nothing of its transaction.
Abandon(s) == req[s] # Idle /\ Answer(s) /\ RowsStand

Tick == /\ clock < MaxTime /\ clock' = clock + 1
        /\ UNCHANGED <<control, evidence, policy, doc, req, budget>>

AskForChange(s) ==
    \/ \E c \in Controls, n \in Names : CreateControl(s, c, n) \/ ReplaceControl(s, c, n)
    \/ \E e \in Evidence : CreateEvidence(s, e)
    \/ \E p \in Policies, n \in Names, cs \in SUBSET Controls : CreatePolicy(s, p, n, cs)
    \/ \E p \in Policies, n \in Names : UpdatePolicy(s, p, n)
    \/ \E p \in Policies : ArchivePolicy(s, p)
    \/ \E e \in Evidence, c \in Controls :
          MapEvidenceToControl(s, e, c) \/ RemoveEvidenceControlMapping(s, e, c)
    \/ \E e \in Evidence, cs \in SUBSET Controls :
          MapEvidenceToControls(s, e, cs) \/ UnmapEvidenceFromControls(s, e, cs)
    \/ \E c \in Controls, es \in SUBSET Evidence :
          MapControlToEvidence(s, c, es) \/ UnmapControlFromEvidence(s, c, es)
    \/ \E p \in Policies, c \in Controls :
          AttachPolicyToControl(s, p, c) \/ DetachPolicyFromControl(s, p, c)
    \/ \E p \in Policies, cs \in SUBSET Controls :
          AttachPolicyToControls(s, p, cs) \/ DetachPolicyFromControls(s, p, cs)
    \/ \E c \in Controls, ps \in SUBSET Policies :
          AttachControlToPolicies(s, c, ps) \/ DetachControlFromPolicies(s, c, ps)

CatalogueStep == \E s \in Slots : \/ AskForChange(s) \/ LockRow(s) \/ SaveRows(s)
                                  \/ ClaimName(s) \/ CommitChange(s) \/ Abandon(s)

-----------------------------------------------------------------------------
(* Properties.                                                             *)

\* Rows and edits in flight have their types; names in use are unique.
CatalogueTypeOK ==
    /\ clock \in 0 .. MaxTime
    /\ control \in [Controls -> ControlRow \cup {None}]
    /\ evidence \in [Evidence -> EvidenceRow \cup {None}]
    /\ policy \in [Policies -> PolicyRow \cup {None}]
    /\ doc \in [Documents -> DocumentRow \cup {None}]
    /\ \A x \in DOMAIN Rank : LET n == NameOf(x, RowOf(x)) IN n # None => ~NameTaken(x, n)

\* Concurrent changes add up: whatever commits is the request's own edit of
\* the row as it stands at that moment, so no mapping, name or archiving that
\* another request has committed since is undone, and an archived policy is
\* never changed again.
ChangesAddUp ==
    [][\A x \in DOMAIN Rank : RowOf(x)' # RowOf(x) =>
          /\ x \in Policies /\ policy[x] # None => ~policy[x].archived
          /\ \E s \in Slots : /\ req[s].phase = "saved" /\ x \in req[s].rows
                              /\ RowOf(x)' = Edited(req[s], RowOf(x))]_catalogueVars

\* s waits for a row, a share of a control or a name that t has.
WaitsFor(s, t) ==
    LET r == req[s] IN
    /\ s # t /\ r # Idle /\ req[t] # Idle /\ r.op \in Edits
    /\ \/ r.phase = "lock" /\ NextToLock(r) \in Held(t) \cup Shared(t)
       \/ r.phase = "locked" /\ Acceptable(r) /\ MappedBy(r) \cap Held(t) # {}
       \/ r.phase = "written" /\ \E x \in r.rows : NameHeldBy(t, x, Claimed(r, x))

\* Requests wait for each other only when two replacements exchange names:
\* everything that locks several rows locks them in one order.
WaitCyclesAreSwaps ==
    \A s, t \in Slots : WaitsFor(s, t) /\ WaitsFor(t, s) =>
        /\ req[s].phase = "written" /\ req[t].phase = "written"
        /\ \E x \in req[s].rows, y \in req[t].rows :
            /\ Claimed(req[s], x) = NameOf(y, RowOf(y))
            /\ Claimed(req[t], y) = NameOf(x, RowOf(x))

=============================================================================
