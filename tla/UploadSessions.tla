--------------------------- MODULE UploadSessions ---------------------------
(***************************************************************************)
(* The links an agent hands to a person so that a browser can manage the    *)
(* documents of one policy, or of one evidence item in one validity window. *)
(*                                                                         *)
(* A link is opened once; opening it sets a session cookie that expires     *)
(* with the link.  A request is admitted by its cookie when it arrives and  *)
(* may commit much later.  A cookie carries its own authority: the agent's  *)
(* connection is not looked at again.  Downloads of evidence go through a   *)
(* second, stateless link.                                                  *)
(***************************************************************************)
EXTENDS Catalogue

CONSTANTS Links,        \* upload links that may be issued
          GrantTtl,     \* GRANT_TTL of both commands
          DownloadTtl   \* DOWNLOAD_TTL

ASSUME SessionsAssumption == GrantTtl \in Nat \ {0} /\ DownloadTtl \in Nat \ {0}

VARIABLES link,     \* the upload grants
          opened,   \* how many cookies each link was exchanged for
          tickets   \* the download links issued

sessionVars == <<link, opened, tickets>>

-----------------------------------------------------------------------------
(* The rows and the requests.                                               *)

EvidenceLink == [target : Evidence, window : Windows, issued : Nat, expires : Nat,
                 redeemed : Nat \cup {None}]
PolicyLink   == [target : Policies, window : {None}, issued : Nat, expires : Nat,
                 redeemed : Nat \cup {None}]

ASSUME NoneIsNoLink == None \notin EvidenceLink \cup PolicyLink

\* What rehydration demands of a link.
LinkConsistent(v) ==
    /\ v.expires > v.issued
    /\ v.redeemed # None => v.issued <= v.redeemed /\ v.redeemed < v.expires

Ticket == [doc : Documents, expires : Nat]

SessionOps == {"upload", "upload_policy", "archive", "fetch_policy"}
UploadOps  == SessionOps \cup {"open", "fetch"}

SessionInit == /\ link = [l \in Links |-> None]
               /\ opened = [l \in Links |-> 0]
               /\ tickets = {}

\* A request of a browser; seen is the row it locked.
Request(op, phase, rows, l, d) ==
    [op |-> op, phase |-> phase, rows |-> rows, todo |-> rows, link |-> l, doc |-> d, seen |-> None]

-----------------------------------------------------------------------------
(* What the domain decides about a link, a session and a document.          *)

IssueEvidenceGrant(e, w, t) ==
    [target |-> e, window |-> w, issued |-> t, expires |-> t + GrantTtl, redeemed |-> None]
IssuePolicyGrant(p, t) ==
    [target |-> p, window |-> None, issued |-> t, expires |-> t + GrantTtl, redeemed |-> None]

\* The authority in the token is the link's own.
MayRedeem(v, t) == v.redeemed = None /\ t >= v.issued /\ t < v.expires
Redeem(v, t)    == [v EXCEPT !.redeemed = t]

\* Mutant: the session lasts UPLOAD_SESSION_TTL, three times GRANT_TTL.
SessionExpiresLater(v) == v.redeemed + 3 * GrantTtl

\* The cookie is issued until the link expires.
SessionExpires(v) == v.expires

VerifySession(l) == opened[l] > 0 /\ clock < SessionExpires(link[l])

\* The document belongs to the evidence and the window of the session.
SessionOwnsDocument(l, d) ==
    /\ doc[d] # None /\ ~doc[d].archived
    /\ doc[d].owner = link[l].target /\ doc[d].window = link[l].window

PolicyActive(p) == policy[p] # None /\ ~policy[p].archived

\* The page of a policy session, unless the policy is gone.
PolicyInventory(l) == PolicyActive(link[l].target)

NewDocument(owner, window) ==
    [owner |-> owner, window |-> window, status |-> "pending", archived |-> FALSE]

MayArchive(v) == v.status \in Terminal

\* What a download finds: an evidence document, or the policy's document
\* while the policy is active.
DownloadCandidate(d) ==
    /\ doc[d] # None /\ ~doc[d].archived /\ doc[d].status = "uploaded"
    /\ doc[d].owner \in Policies => PolicyActive(doc[d].owner)

-----------------------------------------------------------------------------
(* Issuing a link.                                                          *)

SpendUpload == budget.uploads > 0 /\ budget' = [budget EXCEPT !.uploads = @ - 1]

ManageEvidenceSubmissions(l, e, w) ==
    /\ Has("write_evidence_submissions") /\ link[l] = None /\ evidence[e] # None
    /\ SpendUpload
    /\ link' = [link EXCEPT ![l] = IssueEvidenceGrant(e, w, clock)]
    /\ UNCHANGED <<clock, control, evidence, policy, doc, req, opened, tickets>>

\* The policy's row is locked while the link is saved.
ManagePolicyDocument(l, p) ==
    /\ Has("write_controls") /\ link[l] = None /\ PolicyActive(p)
    /\ \A s \in Slots : p \notin Held(s)
    /\ SpendUpload
    /\ link' = [link EXCEPT ![l] = IssuePolicyGrant(p, clock)]
    /\ UNCHANGED <<clock, control, evidence, policy, doc, req, opened, tickets>>

-----------------------------------------------------------------------------
(* Opening it: the row is locked, marked and saved in one transaction.      *)

SessionsStand == UNCHANGED <<link, opened, tickets>>
BeginUpload(s, r) == /\ Begin(s, r, "uploads") /\ SessionsStand
                     /\ UNCHANGED <<clock, control, evidence, policy, doc>>

\* The token opens while it has not expired.
OpenUploadSession(s, l) ==
    /\ link[l] # None /\ link[l].target \in Evidence /\ clock < link[l].expires
    /\ BeginUpload(s, Request("open", "lock", {l}, l, None))

OpenPolicyUploadSession(s, l) ==
    /\ link[l] # None /\ link[l].target \in Policies /\ clock < link[l].expires
    /\ BeginUpload(s, Request("open", "lock", {l}, l, None))

\* Mutant: the link is read without FOR UPDATE.
LinkNeverLocked(s, l) == TRUE

LinkFree(s, l) == \A t \in Slots \ {s} : l \notin Held(t)

LockLink(s) ==
    LET r == req[s] IN
    /\ r.phase = "lock" /\ r.op = "open" /\ LinkFree(s, r.link)
    /\ Move(s, [r EXCEPT !.phase = "locked", !.todo = {}, !.seen = link[r.link]])
    /\ RowsStand /\ SessionsStand

RedeemGrant(s) ==
    LET r == req[s] IN
    /\ r.phase = "locked" /\ r.op = "open"
    /\ IF MayRedeem(r.seen, clock)
       THEN /\ link' = [link EXCEPT ![r.link] = Redeem(r.seen, clock)]
            /\ opened' = [opened EXCEPT ![r.link] = @ + 1]
       ELSE UNCHANGED <<link, opened>>
    /\ Answer(s) /\ RowsStand /\ UNCHANGED tickets

-----------------------------------------------------------------------------
(* Uploading within a session.                                              *)

UploadEvidenceFile(s, l) ==
    /\ link[l] # None /\ VerifySession(l) /\ link[l].target \in Evidence
    /\ BeginUpload(s, Request("upload", "staged", {}, l, None))

\* A submission with an id of its own and its document.
CreateSubmission(s, d) ==
    LET v == link[req[s].link] IN
    /\ req[s].phase = "staged" /\ doc[d] = None
    /\ doc' = [doc EXCEPT ![d] = NewDocument(v.target, v.window)]
    /\ Answer(s) /\ SessionsStand
    /\ UNCHANGED <<clock, control, evidence, policy, budget>>

\* A policy with a document is a conflict before anything is read.
UploadPolicyFile(s, l) ==
    /\ link[l] # None /\ VerifySession(l) /\ link[l].target \in Policies
    /\ PolicyInventory(l) /\ CurrentDocument(link[l].target) = {}
    /\ BeginUpload(s, Request("upload_policy", "lock", {link[l].target}, l, None))

LockPolicyForUpload(s) ==
    LET r == req[s]
        p == link[r.link].target IN
    /\ r.phase = "lock" /\ r.op = "upload_policy" /\ RowFree(s, p)
    /\ Move(s, [r EXCEPT !.phase = "locked", !.todo = {}, !.seen = policy[p]])
    /\ RowsStand /\ SessionsStand

\* Whether it is active and has no document is read under the lock.
CreatePolicyDocument(s, d) ==
    LET r == req[s]
        p == link[r.link].target IN
    /\ r.phase = "locked" /\ r.op = "upload_policy" /\ doc[d] = None
    /\ doc' = IF ~r.seen.archived /\ CurrentDocument(p) = {}
              THEN [doc EXCEPT ![d] = NewDocument(p, None)] ELSE doc
    /\ Answer(s) /\ SessionsStand
    /\ UNCHANGED <<clock, control, evidence, policy, budget>>

-----------------------------------------------------------------------------
(* Archiving and downloading within a session.                              *)

ArchiveEvidenceFile(s, l, d) ==
    /\ link[l] # None /\ VerifySession(l) /\ link[l].target \in Evidence
    /\ SessionOwnsDocument(l, d)
    /\ BeginUpload(s, Request("archive", "decided", {}, l, d))

ArchivePolicyFile(s, l, d) ==
    /\ link[l] # None /\ VerifySession(l) /\ link[l].target \in Policies
    /\ PolicyInventory(l) /\ doc[d] # None /\ doc[d].owner = link[l].target
    /\ BeginUpload(s, Request("archive", "decided", {}, l, d))

\* The document is loaded again, under its lock.
ArchiveDocument(s) ==
    LET d == req[s].doc IN
    /\ req[s].phase = "decided"
    /\ doc' = IF MayArchive(doc[d]) THEN [doc EXCEPT ![d].archived = TRUE] ELSE doc
    /\ Answer(s) /\ SessionsStand
    /\ UNCHANGED <<clock, control, evidence, policy, budget>>

\* The answer is a download link with a lifetime of its own.
DownloadEvidenceFile(l, d) ==
    /\ link[l] # None /\ VerifySession(l) /\ link[l].target \in Evidence
    /\ SessionOwnsDocument(l, d) /\ DownloadCandidate(d)
    /\ SpendUpload
    /\ tickets' = tickets \cup {[doc |-> d, expires |-> clock + DownloadTtl]}
    /\ UNCHANGED <<clock, control, evidence, policy, doc, req, link, opened>>

RedeemDownloadGrant(s, k) ==
    /\ k \in tickets /\ clock < k.expires
    /\ BeginUpload(s, Request("fetch", "fetch", {}, None, k.doc))

DownloadPolicyFile(s, l, d) ==
    /\ link[l] # None /\ VerifySession(l) /\ link[l].target \in Policies
    /\ PolicyInventory(l) /\ d \in CurrentDocument(link[l].target) /\ doc[d].status = "uploaded"
    /\ BeginUpload(s, Request("fetch_policy", "fetch", {}, l, d))

\* The document is looked up once more and its object streamed.
StreamDocument(s) ==
    LET r == req[s] IN
    /\ r.phase = "fetch"
    /\ IF DownloadCandidate(r.doc) THEN Move(s, [r EXCEPT !.phase = "served"]) ELSE Answer(s)
    /\ RowsStand /\ SessionsStand

\* What the worker makes of an upload, as DocumentPipeline has it.
SettleDocument(d, status) ==
    /\ doc[d] # None /\ doc[d].status \in InProgress /\ ~doc[d].archived
    /\ doc' = [doc EXCEPT ![d].status = status]
    /\ SessionsStand /\ UNCHANGED <<clock, control, evidence, policy, req, budget>>

SessionStep ==
    \/ \E l \in Links, e \in Evidence, w \in Windows : ManageEvidenceSubmissions(l, e, w)
    \/ \E l \in Links, p \in Policies : ManagePolicyDocument(l, p)
    \/ \E s \in Slots, l \in Links :
          \/ OpenUploadSession(s, l) \/ OpenPolicyUploadSession(s, l)
          \/ UploadEvidenceFile(s, l) \/ UploadPolicyFile(s, l)
          \/ \E d \in Documents : \/ ArchiveEvidenceFile(s, l, d) \/ ArchivePolicyFile(s, l, d)
                                  \/ DownloadPolicyFile(s, l, d)
    \/ \E s \in Slots :
          \/ LockLink(s) \/ RedeemGrant(s) \/ LockPolicyForUpload(s) \/ ArchiveDocument(s)
          \/ StreamDocument(s)
          \/ \E d \in Documents : CreateSubmission(s, d) \/ CreatePolicyDocument(s, d)
          \/ \E k \in tickets : RedeemDownloadGrant(s, k)
    \/ \E l \in Links, d \in Documents : DownloadEvidenceFile(l, d)
    \/ \E d \in Documents, status \in Terminal : SettleDocument(d, status)

-----------------------------------------------------------------------------
(* Properties.                                                             *)

\* Links have their types and can be read again: their times stay in order.
SessionsTypeOK ==
    /\ \A l \in Links : link[l] # None => /\ link[l] \in EvidenceLink \cup PolicyLink
                                          /\ LinkConsistent(link[l])
    /\ opened \in [Links -> Nat]
    /\ tickets \subseteq Ticket

\* However often and however concurrently a link is opened, it is exchanged
\* for one session.
LinkOpensOnce == \A l \in Links : opened[l] <= 1

\* A session admits nothing once its link has expired, and changes no document
\* but those of its own policy, or of its own evidence and window.
SessionsStayInBounds ==
    [][/\ \A s \in Slots :
             req[s] = Idle /\ req'[s] # Idle /\ req'[s].op \in SessionOps =>
                 clock < link[req'[s].link].expires
       /\ \A d \in Documents :
             doc'[d] # doc[d] /\ (doc[d] = None \/ doc'[d].archived # doc[d].archived) =>
                 \E s \in Slots : /\ req[s] # Idle /\ req[s].op \in SessionOps
                                  /\ link[req[s].link].target = doc'[d].owner
                                  /\ link[req[s].link].window = doc'[d].window]_<<req, doc>>

\* A policy has one document that is not archived, and none in progress once
\* the policy is archived, whichever of the two the browser and the agent do
\* first.
ArchivedPolicyHasNoUpload ==
    \A p \in Policies : /\ Cardinality(CurrentDocument(p)) <= 1
                        /\ DocumentInProgress(p) => PolicyActive(p)

=============================================================================
