# A TLA+ model of Proofplane

Proofplane keeps a startup's controls, policies and evidence in one workspace
and lets an AI agent work on them. This directory holds specifications of the
parts of it where several processes touch the same rows, objects and messages,
the TLC models that check them on small instances, and proofs, checked by TLAPS,
of the properties that matter most.

To check a run: `tlc -config <cfg> <MC module>`. To check the proofs: `tlapm` on each
of the six modules whose names end in `Proofs` (`WorkspaceAccessProofs` takes about five
minutes, the others one or less). `PROJECT.json` lists the runs, the source
lines behind every definition, one mutation of the code model per property that
the property must catch, the hazards, the findings and the theorems.

## 1. The system

One Rust crate, five commands (`api`, `mcp`, `worker`, `dequeuer`, `migrate`),
one Postgres database, Google Pub/Sub, Google Cloud Storage, ClamAV, Auth0.

A command loads a whole aggregate inside a unit of work
(`Postgres::in_unit_of_work`), usually `FOR UPDATE`, changes it in memory, saves
the whole snapshot and appends outbox messages in the same READ COMMITTED
transaction. Nothing but row locks and unique indexes keeps two commands apart,
and a commit error leaves open whether the commit took effect. Everything
asynchronous goes from the outbox over the dequeuer and Pub/Sub to the worker.

### Inventory

| Component | State | Operations | Hard because | What makes it correct |
| --- | --- | --- | --- | --- |
| Documents (`domain/document.rs`, `commands/documents.rs`, `services/*documents*`) | rows: status, object key, archived; objects in quarantine and evidence store | stage, create, scan, finalize, archive | snapshots overwrite each other; commit and object calls fail with or without effect | status only moves forward; uploaded means stored; unscanned bytes stay out; one current document per policy, one per submission |
| Worker handlers (`handlers/`) | none between deliveries | scan, promote, apply, clean up | deliveries overlap, repeat and stop anywhere | every delivery may be the second one |
| Outbox and dequeuer (`dequeuer/`, `persistence/outbox.rs`) | rows with attempts and due time | append, poll, publish, delete, reschedule | no claim on a row, no row is ever given up | nothing is deleted unpublished, nothing starves |
| Bus and worker endpoint (`worker.rs`, `messaging.rs`, `pubsub/`) | leases, delivery attempts, dead letters | push, ack by status code | late answers, expired leases | an accepted request is never lost |
| Machine upload grants (`agent_*_upload_grant*`, `agent_*_uploads`) | grant rows, five minutes of life, the document that completed them | issue, transfer, complete, replay, reconcile | attempts race, minutes of streaming between check and use, lost answers | at most one attempt completes; every retry hears of its document; its object stays |
| Browser upload grants and sessions (`*_document_upload_grant*`, `upload_sessions.rs`, `routes/*document_upload_sessions.rs`) | grant rows, sealed session cookies | issue, redeem, upload, archive, download | opened twice, admitted before and committed after the expiry or an archiving | one session per link, ending with it, changing its own documents only |
| Policies and control mappings (`commands/policies.rs`) | policies, names, mappings | create, replace, archive, map, unmap | several row locks and a unique name in one transaction | no change undone by another, none of an archived policy, locks in one order |
| Controls and evidence catalogue (`commands/*control*`, `*evidence*`) | controls, codes, evidence, mappings | create, replace, map, unmap, in batches | the same, and mappings share the rows of their controls | the same |
| Membership and invitations (`commands/workspace_invitations.rs`, `handlers/workspace_invitation_delivery.rs`) | users, memberships, invitations, links | sign in, found, invite, resend, revoke, accept, deliver, remove | acceptance races revocation; mail is sent inside the transaction; clocks read before a wait | one account, one pending invitation and one use of it; the last owner stays; no mail for a closed invitation |
| OAuth and agent connections (`services/oauth.rs`, `commands/agent_connections.rs`, `mcp/auth.rs`) | authorization flows with their codes, connections, tokens | authorize, log in, consent, cancel, exchange, call, revoke | one request is up to four transactions; codes presented twice; revocation during exchange | a code yields one token; a decision and a revocation are final; a call needs a live connection of a member |
| Auditor access (`routes/auditor_access.rs`, `domain/auditor_*`) | access grants, authentication transactions, sessions | grant, start, claim, complete, log out, revoke, read | callback replay, revocation races, sessions that outlive their grant | a session only under a live grant, one per login, and only what lies in the period |
| Authentication, MCP and REST surface | none | verify, parse, dispatch | I/O and cryptography | what they admit is in the modules above |
| Client metadata, read models, validation, configuration, migration, seeding, observability | caches, none | fetch, format, check | not concurrent, or I/O | not modelled |

### How the modelled parts meet

The request that uploads a document stages bytes, then commits the document
row together with a scan request in the outbox. The dequeuer moves the request to the
bus, the worker scans and commits the verdict together with a finalize
request, which takes the same way back to the worker. Machine upload grants sit
in front of the creating commit; policies are locked by it. A browser session
issues the same creating commit, admitted by a cookie instead of an agent's token.
Agents reach the catalogue through their connection, which belongs to a member of the
workspace; auditors read the catalogue and the documents.

## 2. Modules

| Module | Models | Used by |
| --- | --- | --- |
| `DocumentLifecycle` | what the rows promise, without messages, locks or objects | refined by `DocumentPipeline` |
| `DocumentPipeline` | upload request, policy archiving, dequeuer, bus, scan and finalize handlers, both object stores | `MCDocumentPipeline`, `DocumentPipelineProofs` |
| `MachineUpload` | machine upload grants for policies and for evidence, attempts, locks, lost commits | `MCMachineUpload`, `MachineUploadProofs` |
| `OutboxDequeuer` | batches, order, retry schedule, exits and overlap of dequeuers | `MCOutboxDequeuer`, `OutboxDequeuerProofs` |
| `WorkspaceInvitations` | accounts, memberships, invitations, their links and their delivery by mail | `MCWorkspaceInvitations`, `WorkspaceInvitationsProofs` |
| `AgentConnections` | authorization flows, codes, connections, tokens and calls | `MCAgentConnections`, `AgentConnectionsProofs` |
| `Catalogue` | controls, evidence, policies, their names and mappings | extended by `UploadSessions` |
| `UploadSessions` | browser upload links, sessions and what they do to documents | extended by `AuditorAccess` |
| `AuditorAccess` | auditors' grants, logins, sessions and what they read | extended by `WorkspaceAccess` |
| `WorkspaceAccess` | the three composed over one set of rows and requests | `MCWorkspaceAccess`, `WorkspaceAccessProofs` |

A module `...Proofs` extends the module it is named for with the inductive invariant, the
lemmas and the theorems of section 4.

### DocumentPipeline

Each `Docs` element is a document, its request and its two object keys, which
are never shared. `upload` is where the request is, `row` the documents table,
`retired` and `archiving` the policies with `archived_at` set or an archive
transaction open, `quarantine` and `evidence` the objects, `outbox` the table,
`published` the row the dequeuer has published and not deleted, `bus` the
subscription's view of every message id (a row published twice has two, up to
`Copies`), `task` what each handler invocation holds.

A transaction that reads under a lock and writes later is two actions, the
locking read (`BeginCreate`, `BeginScanCommand`, `BeginFinalizeCommand`,
`BeginArchivePolicy`) and the commit, so that dropping the lock is visible;
the handlers' steps in between (fetch, scan, promote, delete) are actions
of their own. Every commit has a second form, `...Unreported`, that takes effect and is
reported as failed. `StopWorker`, `AbandonUpload` and `StopBeforeDelete` are
processes that stop. `Answer` acknowledges only for the current lease, as
the bus does; `Requeued` applies the delivery limit and the dead letters.
Bytes are abstracted to intact, altered (somebody wrote the quarantine key) or
none, and a document is malicious or not; the CRC comparison of the finalizer
tells intact from altered.

### MachineUpload

One module for both grants, since their handlers differ in two places only:
policies are checked for eligibility before and inside the transaction, and
after a database error the policy service reads the grant again where the evidence
service just cleans up. An attempt goes from `idle` over the unlocked read
(`Admit`, `ReplayAtOnce`), the eligibility check, `Stage`, the grant's lock, the
policy's lock to `CommitCompletion`. `LoseConnection` leaves the transaction to the
server (`inDoubt`), which later commits or drops it and holds its locks until
then; `LateCommits` says whether that may happen after the request has read the
grant again. Times are a discrete clock; `Stage` takes the completion time where
`Utc::now()` is called, before the transaction waits. What the pipeline does
to the document is the one action `Process`.

### OutboxDequeuer

`due` is `next_available_at` relative to now, so that the state space is finite
without a bound on time; `age` is the time since a dequeuer's poll, because
the code computes the next attempt from the poll's clock. `attempts` saturates
at `MaxAttempts`, beyond which the code tells nothing apart. A database
error is `Exit`: `?` ends the run and the process, and Cloud Run starts it again.

### WorkspaceInvitations

A request (`slot`) is one transaction. It takes its locks in the order of its handler:
those of the subject or the user, of the workspace and of the invitation (an acceptance
takes the invitation before the user); `Has` and `Needs` say which a request of each kind has
and needs next, and each step is guarded by the lock it takes. `AbortDeadlocked`
is PostgreSQL ending a circle of waits. A read happens at the step of
its statement, so what was read before a later lock can be stale, and the clock of
`Utc::now()` is taken where the code takes it. `CreateInvitation` truncates its times to
seconds and `Resend` does not, as in the code; links carry seconds (`Second` ticks).
The delivery worker holds the invitation's row from the read over the provider's answer to
the commit; messages come again up to `MaxAttempts` times and then go to the dead letters.
`account`, `joined`, `mailed` and `failed` count what the properties speak of.

### AgentConnections

`slot` holds requests that run as several transactions: a login (attach the
subject, find a connection to reuse, issue the code), a consent (read the context, request
the connection, approve it, issue the code), an exchange (consume the code, authorize the
connection, issue the token) and a call (authorize the connection, be admitted). `Abandon` ends one
between any two steps. A connection is locked from `LockConnection` to
`CommitAuthorization`, which saves the whole row that was read. A flow's row is locked too,
but its code comes from a left join the lock does not cover: `ExchangeCode` is the start of that
statement and fixes the code it will see, `ConsumeAuthorizationCode` the rest of the
transaction. Secrets, PKCE values and redirects are abstracted to whether they match.

### Catalogue, UploadSessions, AuditorAccess, WorkspaceAccess

All requests run in `req`; a request names the `rows` it needs and those it has still
`todo`, and holds the difference. A change of the catalogue locks its rows one by one in the
order of their ids (`LockRow`), is refused or writes them (`SaveRows`, which waits for the
controls its mappings refer to), searches the unique index for a name it takes
(`ClaimName`, which waits for an open transaction that holds or gives up the name) and commits
(`CommitChange`). There is one action per tool of the MCP server. `budget` bounds how many
requests of each kind a behaviour has.

A link is issued for a policy, or for an evidence item and a validity window; opening
it locks the grant, redeems it and sets a cookie that lives until the link expires
(`SessionExpires`; the constant `UPLOAD_SESSION_TTL` of the code is used by nothing). A
session request is admitted by the clock at its arrival and commits later. Scanning is
abstracted to one step from pending to uploaded or failed.

A grant for an auditor is found by its secret, shared (`FOR KEY SHARE`) while a login or a session is
made under it, and locked by its revocation. `ClaimAuditorAuthTransaction`
commits before the identity provider is asked. A page is read by four statements
that nothing holds together.

## 3. Runs

| Run | Instance | Shows |
| --- | --- | --- |
| `pipeline_delivery` | 1 document, 2 handlers, 3 deliveries, bytes overwritten from outside | `WorkIsNeverLost`, `SourceIsKept`, `EvidenceWasScanned`, the refinement `ImplementsLifecycle`, and `DocumentsSettle` |
| `pipeline_submission_race` | 2 uploads for one submission, 2 copies of each message, 2 handlers | `UploadedIsStored`, `OneDocumentPerSubmission` |
| `pipeline_policy_race` | 2 uploads, one malware, for a policy being archived | `ArchivedPolicyIsQuiet`, `EligibilityIsFresh`, `PipelineInv` |
| `upload_expiry` | a policy and an evidence grant, 2 attempts each, clock passing the expiry, commits decided before reconciliation reads | `TypeOK` (every grant can be read again), `PolicyKeepsObject` |
| `upload_race` | 2 attempts of one grant, 1 of another, one policy, commits may land late | `AtMostOneCompletes`, `AnswersAgree`, `AttemptsEnd` |
| `upload_evidence_lost_answer` | evidence grant | **violated**: `AcceptedKeepsObject` |
| `outbox` | 2 dequeuers, one of which may stop, batches of 1, 1 of 2 rows never published | `DeletedWasPublished`, `DuplicatesAreBounded`, `WaitIsBounded`, `MessagesGetOut` |
| `invitations` | an owner, an invitee, 2 workspaces, 2 invitations, 2 requests and a worker at once, 5 requests and deliveries | `TypeOK` (accounts are unique, workspaces keep an owner, rows can be read again), `OnePendingPerMailbox`, `InvitationSpentOnce`, `OnlyExpectedFailures`, `WaitCyclesAreOwn`, `DeliveredWasMailed`, `NoDeliveryForgotten`, `MailedWhileCurrent`, `CreatorStillManages` |
| `invitation_resent_link` | the same | **violated**: `CurrentLinkOpens` |
| `agent_access` | 1 user, 2 workspaces, 2 flows of one client, 2 connections, 2 requests at once | `ConnectionTypeOK`, `RevokedIsFinal`, `DecidedOnce`, `AdmittedWhileLive` |
| `code_spent_once` | the same, 1 workspace | **violated**: `CodeSpentOnce` |
| `workspace_access` | 3 each of policies, evidence, controls and documents, one of each to be made, 1 upload link, 1 auditor grant, 2 logins, 2 sessions, 2 requests at once | `TypeOK`, `ChangesAddUp`, `WaitCyclesAreSwaps`, `UsedOnce`, `SessionsStayInBounds`, `ArchivedPolicyHasNoUpload`, `NothingAfterRevocation`, `AuditorsStayInBounds` |

**Bounds.** Two handlers are enough for a stale and a fresh one; three
deliveries for a first, a repeated and a final one (the last is treated
differently by the scan handler); two copies for a row published twice; two
documents for a race. Two attempts of a grant race for its lock, a third of another
grant for the policy's. A batch of one place and a row that never gets out are the
smallest instance in which one row can starve another. The outbox has no clock but
the time since or until each row's due time, so polling goes on for ever; `MaxLag` caps how
overdue a row's counter gets, and `WaitIsBounded` shows that the cap is not reached.
In `invitations` two requests at once are what a wait in a circle takes, two invitations
an overlap of windows, two generations a resend, and three ticks a whole life and a
fraction of a second after it. In `agent_access` two connections allow a second consent after
a revocation, and every lifetime is one tick, so each may end during a request. In
`workspace_access` the budgets are two edits, one edit with three upload requests, four upload
requests (issue, open, and two more), and five requests around an auditor (grant, login,
callback, and two more, a revocation or a repeated callback among them); a link, a login
and a grant live one tick, a session two, so that it may outlive its grant. Edits next to an auditor are left out: they share no lock, and no property
relates them.
No run but `outbox` checks deadlock: uploads, attempts, requests and budgets are
finite in number, and the system rests when they are done. The proofs have none
of these bounds.

**Fairness.** The dequeuer's interval fires for ever and a failed publish
stays in the table, so `Publish` gets strong and the delete weak fairness (the process
is restarted when it ends); the bus delivers what is available and ends leases;
nothing is assumed of workers, so `DocumentsSettle` allows the dead
letters. A running upload attempt takes its next step, and the server ends every
transaction; no client step and no failure is forced, because nothing in the code
limits a wait for a lock. The bus takes a message it is offered infinitely
often, except those in `Failing`. The modules about access have safety properties only:
the code retries nothing there, and a person may leave at any point.

## 4. Proofs

Every safety property of every run is also a theorem, for every value of the constants.
Each is `Spec => []P`, or `Spec => [][A]_vars`, from an inductive
invariant that was first checked by TLC on the run's instance. The assumptions on the constants
are those the modules state, and TLC evaluates them in every run; where the code does not
justify them by itself the list below says why they hold.

### DocumentPipelineProofs

For any documents, owners, workers, copies and delivery limit, from `OwnersAssumption` and
`DeliveryAssumption`:

- `PipelineInvariant`: `Spec => []PipelineInv`, and from it `TypeCorrect`,
  `UploadedAreStored`, `MalwareStaysOut`, `RequestsSurvive`, `SourcesSurvive`,
  `ArchivedPoliciesAreQuiet`, `LockedReadsStayTrue`, `SubmissionsHaveOneDocument`;
- `Refinement`: `Spec => ImplementsLifecycle`.

None of the safety properties is inductive alone. `UploadedIsStored`, say, needs
that a delivery that saw the promoted object still sees it when it commits
(`TasksFollowRows`), that this commit writes over the row it read
(`LocksExclusive`), and that a late delivery deletes a copy only where
somebody overwrote the source (`ObjectsFollowRows`). `WorkIsNeverLost` needs that
a message is acknowledged only once the document has left the status it is about
(`MessagesFollowRows`), which in turn rests on the status never moving back.
`PipelineInv` is the conjunction of these parts; every part has a lemma with
one case per action, over a few lemmas on what a status, an object or a message
may do in one step (`StatusForward`, `EvidenceKept`, `BusSteps`,
`OutboxSteps`). `PipelineInv` is itself an invariant of `pipeline_policy_race`.

### MachineUploadProofs

`UploadsCorrect`, and from it `UploadsTyped`, `OneDocumentPerGrant` (`AtMostOneCompletes`),
`RetriesAgree` (`AnswersAgree`) and `PolicyObjectsKept` (`PolicyKeepsObject`). That one attempt
completes a grant needs that the lock has one holder, the server's undecided transactions
included, and that the snapshot a holder read is still the row (`LocksExclusive`); that no
attempt still on its way has a document (`AttemptsFollowGrants`); and that a completed grant
names a document of its own (`GrantsFollowDocuments`). `PolicyObjectsKept` assumes
`~LateCommits`, as its run does: with late commits it is false (section 5). It adds
`ObjectsKept`: whoever will delete an object can no longer get a document for it.

### OutboxDequeuerProofs

`OutboxCorrect`, and from it `OutboxTyped`, `NothingLost` (`DeletedWasPublished`) and
`FewDuplicates` (`DuplicatesAreBounded`). The bound on duplicates is a count
(`PublishesCounted`): while a row is in the table, every publish of it belongs to a dequeuer about
to delete it or to one that ended, and once it is deleted only the dequeuers that still hold
it in their batch can publish it, once each. That needs that a batch lists no row twice
(`BatchesDistinct`), and, of finite sets, how cardinalities change by one element. `PowersOfTwo`
is arithmetic the provers do not know.

`WaitsAreBounded` (`WaitIsBounded`): a due row is held up for at most `Polls + 2` periods and one more
for every exit, where `Polls` is the number of batches the rows fill; neither the number of
dequeuers nor that of failures counts. `WaitInv` follows the wait of a row up to the last poll of
*each* dequeuer, and its backlog there (`Backlog`: the rows ahead of it that this dequeuer does not
hold). Three facts carry it. A row that waited a period is not overtaken any more: a new row is due
now, and a failure is rescheduled from a poll at most a period ago by a delay of at least one tick
(`RecordOnTime`). A poll that does not list the row lists `BatchSize` rows ahead of it (`PollLists`). An
exit gives at most a batch back (`ExitOnTime`). `OnTime` states what is left of that after `k` polls, and
`ReachedBounds` turns it into the bound. It rests on the model's clock: every dequeuer polls at least
once in a `Period`, its restart and the work on its batch included (`Tick`), and there is a dequeuer. A
`MaxLag` below the bound would hide the lateness of a row; `BacklogsShrink` and `LagBounded` say that
the bound holds then too.

### AgentConnectionsProofs

`AccessCorrect`, and from it `RowsReadable` (`ConnectionTypeOK`), `RevocationIsFinal`,
`FlowsDecidedOnce` and `AdmissionIsCurrent` (`AdmittedWhileLive`). `CommitAuthorization` saves the
whole row it read, so a revocation in between would be undone, were it not that a connection
has one holder whose copy is current (`LocksExclusive`, `RequestsBacked`). Everything else a request
remembers only has to exist (`FlowsSound`, `TokensBacked`, `PagesBacked`): rows and codes are never
removed. That a code can be spent twice does no harm to any of this. `NoneIsNoRow` says that
`None` is not a row.

### WorkspaceAccessProofs

About `Catalogue`, `UploadSessions` and `AuditorAccess` composed: `WorkspaceCorrect`, and from it
`WorkspaceTyped`, `NoLostUpdates` (`ChangesAddUp`), `OnlySwapsDeadlock` (`WaitCyclesAreSwaps`),
`BrowsersStayInBounds` (`SessionsStayInBounds`), `LinksAndLoginsUsedOnce` (`UsedOnce`),
`ArchivedPoliciesRest` (`ArchivedPolicyHasNoUpload`), `RevokedGrantsYieldNothing`
(`NothingAfterRevocation`) and `AuditorsSeeTheirPeriod` (`AuditorsStayInBounds`).

- `Base`: types, exclusive row locks, and for each kind of request what its handler has
  established (`RequestsSound`): what a change read of a row it holds is the row, and so no update
  is lost.
- `NamesUnique` and `ClaimsFree`: a name about to be committed is carried by no row and about to be
  committed by nobody else; this is the unique index, and what `ClaimName` waits for.
- `DocumentsSound`, `ArchivingsSound`, `UploadsSound`: an upload and an archiving of one policy
  exclude each other by the policy's lock, although each looks at other rows.
- `LinksSound`, `LoginsSound`: a login is in the hands of one callback or of one session, or of none.
- `SharesSound`: while a grant is shared nobody has it to revoke it.
- `VisitsSound`: what a page has collected lies in the period, whatever happened between its statements.

Waits cannot go round among row locks because rows are locked in the order of `Rank`: of the two in
a circle each would wait for a row above all it holds; a change that writes mappings waits for
controls, and who holds those waits for no row. What is left are the waits for a
name, and those go round only when each gives up what the other takes. Of the constants the
proofs assume `IdsAreDistinct` (ids are UUIDs of their own tables), `InitialRowsSound` (the rows at the
start satisfy the unique indexes) and that `None` is not a row (`NoneIsNoLink`, `NoneIsNoAuditorRow`).

### WorkspaceInvitationsProofs

`InvitationsCorrect`, and from it `InvitationsTyped`, `OneInvitationPending`
(`OnePendingPerMailbox`), `InvitationsSpentOnce`, `NoUnexpectedFailures` (`OnlyExpectedFailures`),
`OnlyOwnWaitCycles` (`WaitCyclesAreOwn`), `ShownDeliveredWasMailed` (`DeliveredWasMailed`),
`DeliveriesRemembered` (`NoDeliveryForgotten`), `OnlyCurrentIsMailed` (`MailedWhileCurrent`) and
`CreatorsManage` (`CreatorStillManages`).

- `LocksExclusive` (requests and the worker) and `RequestsSound`: what a request found out under a
  lock it still has is so: the subject has no account, the founder and the invitee are in no other
  workspace, the creator manages the workspace. The one change another request may make to
  a user that is locked is to remove the user from a workspace, which takes the workspace's lock, so a
  creator that has it is safe.
- `WorkspacesOwned`: a workspace with members has an owner, and so has one with invitations, which
  is why a request that waited never finds it empty.
- `WindowsApart`: open invitations of a mailbox to a workspace do not overlap, by the exclusion
  constraint; with `created <= clock` (`RowsSound`) two of them are never pending at once, though
  the constraint compares the times of requests that waited.
- `Spent`: an invitation that added a membership is accepted, and an accepted one is not pending.
- `WorkerSound`: the row the worker holds is current and open, and its message is still there.

Of two that wait for each other neither has a workspace's lock (`WaitShape`), so one has an
invitation and needs its user, the other the reverse. `NoneIsNoInvitation` says that `None` is not
a row.

### What is only model-checked

- Liveness: `DocumentsSettle`, `AttemptsEnd` and `MessagesGetOut`. Fairness and ENABLED are outside what
  the installed provers do. `WaitsAreBounded` is the part of the last one that a safety theorem can say:
  the row is tried in time, not that the bus takes it.

## 5. What the checks found

- *An evidence upload can lose its bytes.* `AgentEvidenceUploadService::complete`
  deletes the staged object after any database error, a commit whose answer was
  lost included. The policy service reconciles in the same place and says why.
  Run `upload_evidence_lost_answer`. The browser uploads behave the same way
  (`SourceIsKept` excepts requests that were told their commit failed).
- *A resent invitation's link does not open.* `create` truncates the expiry to seconds,
  `resend` keeps the fraction; links carry seconds and are compared for equality.
  Run `invitation_resent_link`.
- *A code can be exchanged twice.* The lock on the authorization request does not cover
  the joined code row, which is as old as the statement that waited. Run
  `code_spent_once`. Everything later still asks the connection (`AdmittedWhileLive`).

Met while modelling, without a run:

- The policy service's reconciling read takes no lock, whatever the comment at
  `persistence/aggregates/agent_policy_document_upload_grants.rs:24` says of one, so a commit
  that lands after it loses its object. `PolicyKeepsObject` is checked for
  `LateCommits = FALSE`, where the server decides first; with `TRUE` it fails.
- A consent that stops after its first transaction leaves a pending connection that the
  unique index counts as live, that no list shows and nothing revokes: that user cannot
  connect that client again, although the page says to start the connection again.
- Two replacements that exchange names end in a deadlock PostgreSQL breaks
  (`WaitCyclesAreSwaps` shows that nothing else waits in a circle); a user who accepts
  an invitation while resending or revoking it likewise (`WaitCyclesAreOwn`).
- The pages of an auditor are built from statements of different moments; what is
  mapped to a control created in between is left out.
- An auditor's session lives seven days by its own clock, past its grant; the join
  in the session read is all that ends it with the grant (`AuditorsStayInBounds`).

## 6. Not modelled, and the plan

Left out for good: token formats and cryptography, provider protocols, client metadata
documents, parsing and rendering, validation of fields, read models, metrics and audit
records, configuration, migration and seeding: no later step depends on them.
Envelope decoding in the worker is abstracted to messages it can decode. Handlers that nothing
calls (denying, activating or touching a connection by itself, replacing evidence, touching a session) have no
action.

No module and no safety theorem of the plan is left.
