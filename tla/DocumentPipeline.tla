-------------------------- MODULE DocumentPipeline --------------------------
(***************************************************************************)
(* The asynchronous document pipeline: an API request stages bytes in the   *)
(* quarantine store and records a document together with a scan request in  *)
(* the outbox; the dequeuer moves outbox rows to the message bus; worker    *)
(* handlers scan the bytes, request finalization, promote the bytes to the  *)
(* evidence store and mark the document uploaded.                           *)
(*                                                                         *)
(* Nothing here is exactly once.  The dequeuer may publish a row twice, the *)
(* bus delivers a message up to MaxDeliveryAttempts times and may do so     *)
(* while an earlier delivery still runs, a worker or request may stop       *)
(* between any two steps, a commit may take effect and be reported as       *)
(* failed, and storage calls may fail with or without taking effect.        *)
(*                                                                         *)
(* A unit of work that reads under a row lock and later writes the whole    *)
(* snapshot is two steps here, the read that takes the lock and the commit, *)
(* so that what the locks are for can be checked.                           *)
(***************************************************************************)
EXTENDS Naturals

CONSTANTS Docs, Policies, Submissions, OwnerOf, Malicious,
          Corruptible,          \* documents whose quarantined object may be overwritten from outside
          Workers,              \* handler invocations that can run at once
          Copies,               \* bus message ids available to one outbox row
          MaxDeliveryAttempts   \* worker.max_delivery_attempts, also the bus's limit

ASSUME OwnersAssumption ==
          /\ OwnerOf \in [Docs -> Policies \cup Submissions]
          /\ Policies \cap Submissions = {}
          /\ Malicious \subseteq Docs
          /\ Corruptible \subseteq Docs

ASSUME DeliveryAssumption == MaxDeliveryAttempts \in Nat \ {0}

VARIABLES
    upload,     \* the API request that uploads each document
    row,        \* the documents table
    retired,    \* policies with archived_at set
    archiving,  \* policies whose archive transaction is open
    quarantine, \* the object under each document's quarantine key
    evidence,   \* the object under each document's final key
    outbox,     \* the outbox_messages table
    published,  \* the outbox row published but not yet deleted, if any
    bus,        \* the push subscription's view of each message id
    task        \* the handler invocation each worker slot runs

vars == <<upload, row, retired, archiving, quarantine, evidence,
          outbox, published, bus, task>>

-----------------------------------------------------------------------------
InProgress == {"pending", "finalizing"}
Terminal   == {"uploaded", "contains_virus", "failed"}
Row == [status : {"none"} \cup InProgress \cup Terminal,
        key : {"quarantine", "final"}, archived : BOOLEAN]
NoRow == [status |-> "none", key |-> "quarantine", archived |-> FALSE]

\* An object store entry: the staged bytes, or something written over them.
Object == {"none", "intact", "altered"}

OutboxRow == [kind : {"scan", "finalize"}, doc : Docs]
Message   == [kind : {"scan", "finalize"}, doc : Docs, copy : Copies]
Delivery  == [state : {"absent", "available", "leased", "acked", "dead"},
              attempts : 0 .. MaxDeliveryAttempts]

ScanPC     == {"scanLoaded", "scanVerdict", "scanTx"}
FinalizePC == {"finLoaded", "finMismatch", "promoted", "finTx", "finApplied"}
Idle == [pc |-> "idle"]
Task == {Idle} \cup
        [pc : ScanPC \cup FinalizePC, msg : Message,
         attempt : 1 .. MaxDeliveryAttempts,
         verdict : {"none", "clean", "malicious", "failed"}, seen : Row]

TypeOK ==
    /\ upload \in [Docs -> {"idle", "staged", "eligible", "created",
                            "cleanup", "discarded", "abandoned"}]
    /\ row \in [Docs -> Row]
    /\ retired \subseteq Policies
    /\ archiving \subseteq Policies
    /\ quarantine \in [Docs -> Object]
    /\ evidence \in [Docs -> Object]
    /\ outbox \subseteq OutboxRow
    /\ published \subseteq OutboxRow
    /\ bus \in [Message -> Delivery]
    /\ task \in [Workers -> Task]

Init ==
    /\ upload = [d \in Docs |-> "idle"]
    /\ row = [d \in Docs |-> NoRow]
    /\ retired = {}
    /\ archiving = {}
    /\ quarantine = [d \in Docs |-> "none"]
    /\ evidence = [d \in Docs |-> "none"]
    /\ outbox = {}
    /\ published = {}
    /\ bus = [m \in Message |-> [state |-> "absent", attempts |-> 0]]
    /\ task = [w \in Workers |-> Idle]

-----------------------------------------------------------------------------
(* Reads and row locks                                                      *)

Rows(o)    == {d \in Docs : OwnerOf[d] = o /\ row[d].status # "none"}
Current(o) == {d \in Rows(o) : ~row[d].archived}

\* PolicyReads::document_in_progress
DocumentInProgress(p) == \E d \in Current(p) : row[d].status \in InProgress

\* Mutant: the policy is read without FOR UPDATE.
PolicyReadUnlocked(p) == TRUE

\* SELECT ... FOR UPDATE on the policy row waits for an open archive and for
\* an open upload of the same policy.
PolicyLockFree(p) == /\ p \notin archiving
                     /\ \A d \in Docs : OwnerOf[d] = p => upload[d] # "eligible"

\* Mutant: the document is read without FOR UPDATE.
DocumentReadUnlocked(d) == TRUE

\* SELECT ... FOR UPDATE on the document row waits for open worker commands.
DocumentLockFree(d) ==
    \A w \in Workers : task[w].pc \in {"scanTx", "finTx"} => task[w].msg.doc # d

\* Mutant: documents_evidence_submission_key is missing.
UniquePolicyOnly(o) == o \in Policies => Current(o) = {}

\* The two partial unique indexes on documents.owner_id.
UniqueOwner(o) == IF o \in Policies THEN Current(o) = {} ELSE Rows(o) = {}

\* The condition the creating command reads: the policy is active and has no
\* current document, or the submission does not exist.
MayTake(o) == IF o \in Policies
              THEN PolicyLockFree(o) /\ o \notin retired /\ Current(o) = {}
              ELSE Rows(o) = {}

-----------------------------------------------------------------------------
(* The uploading request                                                    *)

StageDocument(d) ==
    /\ upload[d] = "idle"
    /\ upload' = [upload EXCEPT ![d] = "staged"]
    /\ quarantine' = [quarantine EXCEPT ![d] = "intact"]
    /\ UNCHANGED <<row, retired, archiving, evidence, outbox, published, bus, task>>

\* The creating command has locked and read its owner.
BeginCreate(d) ==
    /\ upload[d] = "staged"
    /\ MayTake(OwnerOf[d])
    /\ upload' = [upload EXCEPT ![d] = "eligible"]
    /\ UNCHANGED <<row, retired, archiving, quarantine, evidence, outbox,
                   published, bus, task>>

\* Document::create, the row and the scan request commit together.
InsertDocument(d) ==
    /\ upload[d] = "eligible"
    /\ UniqueOwner(OwnerOf[d])
    /\ row' = [row EXCEPT ![d] = [NoRow EXCEPT !.status = "pending"]]
    /\ outbox' = outbox \cup {[kind |-> "scan", doc |-> d]}

CommitCreate(d) ==
    /\ InsertDocument(d)
    /\ upload' = [upload EXCEPT ![d] = "created"]
    /\ UNCHANGED <<retired, archiving, quarantine, evidence, published, bus, task>>

\* The commit takes effect but its answer is lost: the service sees an error
\* and goes on to delete what it staged.
CommitCreateUnreported(d) ==
    /\ InsertDocument(d)
    /\ upload' = [upload EXCEPT ![d] = "cleanup"]
    /\ UNCHANGED <<retired, archiving, quarantine, evidence, published, bus, task>>

\* The owner cannot take the document, the caller may not write, or the
\* database failed: the unit of work rolls back.
RejectCreate(d) ==
    /\ upload[d] \in {"staged", "eligible"}
    /\ upload' = [upload EXCEPT ![d] = "cleanup"]
    /\ UNCHANGED <<row, retired, archiving, quarantine, evidence, outbox,
                   published, bus, task>>

DeleteStaged(d) ==
    /\ upload[d] = "cleanup"
    /\ upload' = [upload EXCEPT ![d] = "discarded"]
    /\ quarantine' = [quarantine EXCEPT ![d] = "none"]
    /\ UNCHANGED <<row, retired, archiving, evidence, outbox, published, bus, task>>

\* The request stops, or its cleanup call fails: the staged object stays.
AbandonUpload(d) ==
    /\ upload[d] \in {"staged", "eligible", "cleanup"}
    /\ upload' = [upload EXCEPT ![d] = "abandoned"]
    /\ UNCHANGED <<row, retired, archiving, quarantine, evidence, outbox,
                   published, bus, task>>

\* Something other than the program overwrites a quarantined object.
OverwriteQuarantined(d) ==
    /\ d \in Corruptible
    /\ quarantine[d] = "intact"
    /\ quarantine' = [quarantine EXCEPT ![d] = "altered"]
    /\ UNCHANGED <<upload, row, retired, archiving, evidence, outbox,
                   published, bus, task>>

-----------------------------------------------------------------------------
(* Archiving                                                                *)

ArchiveDocument(d) ==
    /\ DocumentLockFree(d)
    /\ row[d].status \in Terminal
    /\ ~row[d].archived
    /\ row' = [row EXCEPT ![d].archived = TRUE]
    /\ UNCHANGED <<upload, retired, archiving, quarantine, evidence, outbox,
                   published, bus, task>>

BeginArchivePolicy(p) ==
    /\ PolicyLockFree(p)
    /\ p \notin retired
    /\ ~DocumentInProgress(p)
    /\ archiving' = archiving \cup {p}
    /\ UNCHANGED <<upload, row, retired, quarantine, evidence, outbox,
                   published, bus, task>>

CommitArchivePolicy(p) ==
    /\ p \in archiving
    /\ archiving' = archiving \ {p}
    /\ retired' = retired \cup {p}
    /\ UNCHANGED <<upload, row, quarantine, evidence, outbox, published, bus, task>>

RollBackArchivePolicy(p) ==
    /\ p \in archiving
    /\ archiving' = archiving \ {p}
    /\ UNCHANGED <<upload, row, retired, quarantine, evidence, outbox,
                   published, bus, task>>

-----------------------------------------------------------------------------
(* The dequeuer                                                             *)

\* publish_outbox_row succeeds under a new bus message id.
Publish(r) ==
    /\ published = {}
    /\ r \in outbox
    /\ \E c \in Copies :
          LET m == [kind |-> r.kind, doc |-> r.doc, copy |-> c]
          IN  /\ bus[m].state = "absent"
              /\ bus' = [bus EXCEPT ![m].state = "available"]
    /\ published' = {r}
    /\ UNCHANGED <<upload, row, retired, archiving, quarantine, evidence,
                   outbox, task>>

DeleteOutboxRow ==
    /\ published # {}
    /\ outbox' = outbox \ published
    /\ published' = {}
    /\ UNCHANGED <<upload, row, retired, archiving, quarantine, evidence, bus, task>>

\* The dequeuer stops, or its DELETE fails, after the publish: the row will be
\* published again.  Copies bounds how often this happens to one row.
StopBeforeDelete ==
    /\ \E r \in published : \E m \in Message :
          m.kind = r.kind /\ m.doc = r.doc /\ bus[m].state = "absent"
    /\ published' = {}
    /\ UNCHANGED <<upload, row, retired, archiving, quarantine, evidence,
                   outbox, bus, task>>

-----------------------------------------------------------------------------
(* The push subscription                                                    *)

\* A delivery that was not acknowledged is tried again, or dead-lettered.
Requeued(delivery) ==
    [delivery EXCEPT !.state = IF delivery.attempts = MaxDeliveryAttempts
                               THEN "dead" ELSE "available"]

\* The bus hands the message out once more, leased to this delivery.
Deliver(m, to) ==
    /\ bus[m].state = "available"
    /\ bus' = [bus EXCEPT ![m] = [state |-> to, attempts |-> bus[m].attempts + 1]]

\* The handler's status code answers the delivery it was given; an answer to
\* a delivery whose lease expired is ignored.
Answer(w, ack) ==
    LET m == task[w].msg
        leased == bus[m].state = "leased" /\ bus[m].attempts = task[w].attempt
    IN  /\ bus' = IF ~leased THEN bus
                  ELSE [bus EXCEPT ![m] = IF ack THEN [@ EXCEPT !.state = "acked"]
                                                 ELSE Requeued(@)]
        /\ task' = [task EXCEPT ![w] = Idle]

\* The acknowledgement deadline passes while a handler runs, or the worker
\* stopped without an answer.
ExpireLease(m) ==
    /\ bus[m].state = "leased"
    /\ bus' = [bus EXCEPT ![m] = Requeued(@)]
    /\ UNCHANGED <<upload, row, retired, archiving, quarantine, evidence,
                   outbox, published, task>>

-----------------------------------------------------------------------------
(* Worker handlers                                                          *)

\* DocumentReads::load: the row is in the expected status under the key of
\* the message, is not archived and its policy, if any, is active.
HasWork(d, status) ==
    /\ row[d].status = status
    /\ row[d].key = "quarantine"
    /\ ~row[d].archived
    /\ OwnerOf[d] \notin retired

ExpectedStatus(m) == IF m.kind = "scan" THEN "pending" ELSE "finalizing"

\* A delivery that finds its work starts a handler.
StartWork(w, m) ==
    /\ task[w] = Idle
    /\ HasWork(m.doc, ExpectedStatus(m))
    /\ Deliver(m, "leased")
    /\ task' = [task EXCEPT ![w] =
                  [pc |-> IF m.kind = "scan" THEN "scanLoaded" ELSE "finLoaded",
                   msg |-> m, attempt |-> bus[m].attempts + 1,
                   verdict |-> "none", seen |-> NoRow]]
    /\ UNCHANGED <<upload, row, retired, archiving, quarantine, evidence,
                   outbox, published>>

\* A duplicate or stale delivery is acknowledged at once.
SkipStale(m) ==
    /\ ~HasWork(m.doc, ExpectedStatus(m))
    /\ Deliver(m, "acked")
    /\ UNCHANGED <<upload, row, retired, archiving, quarantine, evidence,
                   outbox, published, task>>

\* Mutant: a failing read is taken for absent work.
LoadErrorAcked(m) ==
    /\ Deliver(m, "acked")
    /\ UNCHANGED <<upload, row, retired, archiving, quarantine, evidence,
                   outbox, published, task>>

\* The read that looks for the work fails.
LoadFails(m) ==
    /\ bus[m].state = "available"
    /\ bus' = [bus EXCEPT ![m] = Requeued([state |-> "leased",
                                           attempts |-> bus[m].attempts + 1])]
    /\ UNCHANGED <<upload, row, retired, archiving, quarantine, evidence,
                   outbox, published, task>>

\* A worker stops: whatever it held in memory and every open transaction go.
StopWorker(w) ==
    /\ task[w] # Idle
    /\ task' = [task EXCEPT ![w] = Idle]
    /\ UNCHANGED <<upload, row, retired, archiving, quarantine, evidence,
                   outbox, published, bus>>

-----------------------------------------------------------------------------
(* handle_scan_requested                                                    *)

Decide(w, verdict) ==
    /\ task' = [task EXCEPT ![w].pc = "scanVerdict", ![w].verdict = verdict]
    /\ UNCHANGED <<upload, row, retired, archiving, quarantine, evidence,
                   outbox, published, bus>>

FinalDelivery(w) == task[w].attempt >= MaxDeliveryAttempts

\* The object is there, its metadata matches the row and the scanner answers.
ScanObject(w) ==
    LET d == task[w].msg.doc
    IN  /\ task[w].pc = "scanLoaded"
        /\ quarantine[d] = "intact"
        /\ \E verdict \in {IF d \in Malicious THEN "malicious" ELSE "clean", "failed"} :
              Decide(w, verdict)

ObjectMissing(w) ==
    /\ task[w].pc = "scanLoaded"
    /\ quarantine[task[w].msg.doc] = "none"
    /\ Decide(w, "failed")

\* A storage error, a metadata mismatch or a scanner error.
ScanError(w) ==
    /\ task[w].pc = "scanLoaded"
    /\ \/ FinalDelivery(w) /\ Decide(w, "failed")
       \/ /\ ~FinalDelivery(w)
          /\ Answer(w, FALSE)
          /\ UNCHANGED <<upload, row, retired, archiving, quarantine, evidence,
                         outbox, published>>

\* ScanDocumentHandler reads the row under its lock ...
BeginScanCommand(w) ==
    LET d == task[w].msg.doc
    IN  /\ task[w].pc = "scanVerdict"
        /\ DocumentLockFree(d)
        /\ task' = [task EXCEPT ![w].pc = "scanTx", ![w].seen = row[d]]
        /\ UNCHANGED <<upload, row, retired, archiving, quarantine, evidence,
                       outbox, published, bus>>

\* Mutant: the transition does not look at the status it starts from.
TransitionFromAny(snapshot, verdict) ==
    [snapshot EXCEPT !.status = CASE verdict = "clean"     -> "finalizing"
                                  [] verdict = "malicious" -> "contains_virus"
                                  [] OTHER                 -> "failed"]

\* Document::transition on the snapshot that was read.
ScanTransition(snapshot, verdict) ==
    IF snapshot.archived \/ snapshot.status # "pending" \/ snapshot.key # "quarantine"
    THEN snapshot
    ELSE [snapshot EXCEPT !.status = CASE verdict = "clean"     -> "finalizing"
                                       [] verdict = "malicious" -> "contains_virus"
                                       [] OTHER                 -> "failed"]

\* ... and saves the whole snapshot with the finalization request, if any.
SaveScanned(w) ==
    LET d == task[w].msg.doc
        next == ScanTransition(task[w].seen, task[w].verdict)
        changed == next # task[w].seen
    IN  /\ task[w].pc = "scanTx"
        /\ row' = IF changed THEN [row EXCEPT ![d] = next] ELSE row
        /\ outbox' = IF changed /\ next.status = "finalizing"
                     THEN outbox \cup {[kind |-> "finalize", doc |-> d]} ELSE outbox
        /\ UNCHANGED <<upload, retired, archiving, quarantine, evidence, published>>

CommitScanCommand(w) == SaveScanned(w) /\ Answer(w, TRUE)

\* The commit takes effect but is reported as failed.
CommitScanUnreported(w) == SaveScanned(w) /\ Answer(w, FALSE)

\* The database fails before the commit, of either command.
CommandFails(w) ==
    /\ task[w].pc \in {"scanVerdict", "scanTx", "promoted", "finTx"}
    /\ Answer(w, FALSE)
    /\ UNCHANGED <<upload, row, retired, archiving, quarantine, evidence,
                   outbox, published>>

-----------------------------------------------------------------------------
(* handle_finalization_requested                                            *)

\* Mutant: the object is moved, not copied.
PromoteByMove(w) ==
    LET d == task[w].msg.doc
    IN  /\ task[w].pc = "finLoaded"
        /\ quarantine[d] # "none"
        /\ evidence' = [evidence EXCEPT ![d] = quarantine[d]]
        /\ quarantine' = [quarantine EXCEPT ![d] = "none"]
        /\ task' = [task EXCEPT ![w].pc = "promoted"]
        /\ UNCHANGED <<upload, row, retired, archiving, outbox, published, bus>>

\* The rewrite to the final key; the copy is compared with the loaded work.
Promote(w) ==
    LET d == task[w].msg.doc
    IN  /\ task[w].pc = "finLoaded"
        /\ quarantine[d] # "none"
        /\ evidence' = [evidence EXCEPT ![d] = quarantine[d]]
        /\ task' = [task EXCEPT ![w].pc = IF quarantine[d] = "intact"
                                          THEN "promoted" ELSE "finMismatch"]
        /\ UNCHANGED <<upload, row, retired, archiving, quarantine, outbox,
                       published, bus>>

\* Mutant: a failed promotion removes whatever is under the final key.
PromoteFailsAndClears(w) ==
    /\ task[w].pc = "finLoaded"
    /\ evidence' = [evidence EXCEPT ![task[w].msg.doc] = "none"]
    /\ Answer(w, FALSE)
    /\ UNCHANGED <<upload, row, retired, archiving, quarantine, outbox, published>>

\* The source is missing or the call failed, possibly after it took effect.
PromoteFails(w) ==
    LET d == task[w].msg.doc
    IN  /\ task[w].pc = "finLoaded"
        /\ \/ UNCHANGED evidence
           \/ quarantine[d] # "none" /\ evidence' = [evidence EXCEPT ![d] = quarantine[d]]
        /\ Answer(w, FALSE)
        /\ UNCHANGED <<upload, row, retired, archiving, quarantine, outbox, published>>

\* The mismatching copy is deleted, as far as that works, and the message retried.
DeleteMismatched(w) ==
    /\ task[w].pc = "finMismatch"
    /\ evidence' \in {evidence, [evidence EXCEPT ![task[w].msg.doc] = "none"]}
    /\ Answer(w, FALSE)
    /\ UNCHANGED <<upload, row, retired, archiving, quarantine, outbox, published>>

BeginFinalizeCommand(w) ==
    LET d == task[w].msg.doc
    IN  /\ task[w].pc = "promoted"
        /\ DocumentLockFree(d)
        /\ task' = [task EXCEPT ![w].pc = "finTx", ![w].seen = row[d]]
        /\ UNCHANGED <<upload, row, retired, archiving, quarantine, evidence,
                       outbox, published, bus>>

\* Document::finalize_uploaded, behind the handler's object key check.
Finalizable(snapshot) == /\ snapshot.key = "quarantine"
                         /\ ~snapshot.archived
                         /\ snapshot.status = "finalizing"

SaveFinalized(w) ==
    /\ task[w].pc = "finTx"
    /\ row' = IF Finalizable(task[w].seen)
              THEN [row EXCEPT ![task[w].msg.doc] =
                      [task[w].seen EXCEPT !.status = "uploaded", !.key = "final"]]
              ELSE row
    /\ UNCHANGED <<upload, retired, archiving, quarantine, evidence, outbox, published>>

CommitFinalizeCommand(w) ==
    /\ SaveFinalized(w)
    /\ IF Finalizable(task[w].seen)
       THEN task' = [task EXCEPT ![w].pc = "finApplied"] /\ UNCHANGED bus
       ELSE Answer(w, TRUE)

CommitFinalizeUnreported(w) == SaveFinalized(w) /\ Answer(w, FALSE)

\* Only the delivery that applied the transition deletes the quarantined
\* object, and acknowledges whether or not that worked.
DeleteQuarantined(w) ==
    /\ task[w].pc = "finApplied"
    /\ quarantine' \in {quarantine, [quarantine EXCEPT ![task[w].msg.doc] = "none"]}
    /\ Answer(w, TRUE)
    /\ UNCHANGED <<upload, row, retired, archiving, evidence, outbox, published>>

-----------------------------------------------------------------------------
UploadStep(d) == \/ StageDocument(d)
                 \/ BeginCreate(d)
                 \/ CommitCreate(d)
                 \/ CommitCreateUnreported(d)
                 \/ RejectCreate(d)
                 \/ DeleteStaged(d)
                 \/ AbandonUpload(d)
                 \/ OverwriteQuarantined(d)
                 \/ ArchiveDocument(d)

PolicyStep(p) == \/ BeginArchivePolicy(p)
                 \/ CommitArchivePolicy(p)
                 \/ RollBackArchivePolicy(p)

DequeuerStep == \/ \E r \in OutboxRow : Publish(r)
                \/ DeleteOutboxRow
                \/ StopBeforeDelete

BusStep(m) == \/ SkipStale(m)
              \/ LoadFails(m)
              \/ ExpireLease(m)
              \/ \E w \in Workers : StartWork(w, m)

ScanStep(w) == \/ ScanObject(w)
               \/ ObjectMissing(w)
               \/ ScanError(w)
               \/ BeginScanCommand(w)
               \/ CommitScanCommand(w)
               \/ CommitScanUnreported(w)

FinalizeStep(w) == \/ Promote(w)
                   \/ PromoteFails(w)
                   \/ DeleteMismatched(w)
                   \/ BeginFinalizeCommand(w)
                   \/ CommitFinalizeCommand(w)
                   \/ CommitFinalizeUnreported(w)
                   \/ DeleteQuarantined(w)

Next == \/ \E d \in Docs : UploadStep(d)
        \/ \E p \in Policies : PolicyStep(p)
        \/ DequeuerStep
        \/ \E m \in Message : BusStep(m)
        \/ \E w \in Workers : \/ ScanStep(w)
                              \/ FinalizeStep(w)
                              \/ CommandFails(w)
                              \/ StopWorker(w)

Spec == Init /\ [][Next]_vars

\* The dequeuer polls for ever and a failed publish is retried; the bus hands
\* out available messages and ends every lease.  Nothing is assumed of the
\* workers: a handler that never answers costs a delivery.
Delivered(m) == SkipStale(m) \/ LoadFails(m) \/ \E w \in Workers : StartWork(w, m)

Fairness == /\ \A r \in OutboxRow : SF_vars(Publish(r))
            /\ WF_vars(DeleteOutboxRow)
            /\ \A m \in Message : WF_vars(Delivered(m)) /\ WF_vars(ExpireLease(m))

FairSpec == Spec /\ Fairness

-----------------------------------------------------------------------------
(* Properties                                                               *)

\* A document that says it is uploaded is stored, unaltered, under the final
\* key its row names, whatever else finalization deliveries of the same
\* document promote, delete or retry afterwards.
UploadedIsStored ==
    \A d \in Docs \ Corruptible :
        row[d].status = "uploaded" => row[d].key = "final" /\ evidence[d] = "intact"

\* Nothing reaches the evidence store before a clean verdict was committed, so
\* a file that fails the scan never becomes usable evidence.
EvidenceWasScanned ==
    \A d \in Docs : evidence[d] # "none" => /\ d \notin Malicious
                                            /\ row[d].status \in {"finalizing", "uploaded"}

\* A document in progress always has someone to move it on: the request that
\* its row commits with is in the outbox, on the bus or in the dead letters,
\* however often it was published, delivered, skipped or half done.
Requested(d, kind) ==
    \/ [kind |-> kind, doc |-> d] \in outbox
    \/ \E c \in Copies : bus[[kind |-> kind, doc |-> d, copy |-> c]].state
                            \in {"available", "leased", "dead"}

WorkIsNeverLost ==
    \A d \in Docs : /\ row[d].status = "pending"    => Requested(d, "scan")
                    /\ row[d].status = "finalizing" => Requested(d, "finalize")

\* The quarantined object outlives a failed finalization: it is there for the
\* retry as long as the document is finalizing, unless the request that
\* created the document was told its commit had failed and deleted the object.
SourceIsKept ==
    \A d \in Docs : /\ row[d].status = "finalizing"
                    /\ upload[d] # "discarded"
                    => quarantine[d] # "none"

\* An archived policy has no document in progress: its messages would be
\* skipped as stale and the document would stay in progress for ever.
ArchivedPolicyIsQuiet == \A p \in retired : ~DocumentInProgress(p)

\* What a creating command read about its policy under the lock still holds
\* when it commits, so the unique index never refuses it.
EligibilityIsFresh ==
    \A d \in Docs : upload[d] = "eligible" /\ OwnerOf[d] \in Policies
                    => Current(OwnerOf[d]) = {} /\ OwnerOf[d] \notin retired

\* Submissions are read without a lock that an absent row could hold; two
\* racing uploads for one submission still leave a single document.
OneDocumentPerSubmission == \A s \in Submissions : \A d, e \in Rows(s) : d = e

\* The rows behave as the lifecycle promises: no delivery, however late,
\* writes an old snapshot over a newer one.
Lifecycle == INSTANCE DocumentLifecycle
                WITH status <- [d \in Docs |-> row[d].status],
                     archived <- [d \in Docs |-> row[d].archived]
ImplementsLifecycle == Lifecycle!Spec

\* Every accepted document is decided, or its request ends in the dead letters.
DeadLettered(d) == \E m \in Message : m.doc = d /\ bus[m].state = "dead"

DocumentsSettle ==
    \A d \in Docs : row[d].status \in InProgress
                    ~> row[d].status \in Terminal \/ DeadLettered(d)

-----------------------------------------------------------------------------
(* The inductive invariant behind the safety properties                     *)

\* A row is archived only once it is terminal, has its final key exactly when
\* it is uploaded, and does not exist before its creating commit.
RowsConsistent ==
    \A d \in Docs :
        /\ row[d].archived => row[d].status \in Terminal
        /\ row[d].key = "final" <=> row[d].status = "uploaded"
        /\ upload[d] \in {"idle", "staged", "eligible"} => row[d].status = "none"
        /\ row[d].status \in {"finalizing", "uploaded"} => d \notin Malicious

\* At most one command is open on a document, and what it read is still there.
Locked(w) == task[w].pc \in {"scanTx", "finTx"}
LocksExclusive ==
    \A v \in Workers : Locked(v) =>
        /\ task[v].seen = row[task[v].msg.doc]
        /\ \A w \in Workers : Locked(w) /\ task[w].msg.doc = task[v].msg.doc => v = w

\* What a running handler stands for.
TasksFollowRows ==
    \A w \in Workers :
        LET d == task[w].msg.doc
        IN  /\ task[w].pc \in ScanPC => task[w].msg.kind = "scan" /\ row[d].status # "none"
            /\ task[w].pc \in FinalizePC => /\ task[w].msg.kind = "finalize"
                                            /\ row[d].status \in {"finalizing", "uploaded"}
            /\ task[w].pc = "finApplied" => row[d].status = "uploaded"
            /\ task[w].pc \in ScanPC => /\ task[w].verdict = "clean" => d \notin Malicious
                                        /\ task[w].verdict = "malicious" => d \in Malicious
            /\ task[w].pc = "finMismatch" => d \in Corruptible
            /\ task[w].pc \in {"promoted", "finTx"} /\ d \notin Corruptible
                  => evidence[d] = "intact"

\* A message exists only once its row does, and is acknowledged only once its
\* document moved past the status it asks to leave.
MessagesFollowRows ==
    /\ \A r \in outbox : /\ row[r.doc].status # "none"
                         /\ r.kind = "finalize" => row[r.doc].status \in {"finalizing", "uploaded"}
    /\ \A m \in Message :
          /\ bus[m].state # "absent" =>
                /\ row[m.doc].status # "none"
                /\ m.kind = "finalize" => row[m.doc].status \in {"finalizing", "uploaded"}
          /\ bus[m].state = "acked" =>
                row[m.doc].status \notin {"none", ExpectedStatus(m)}
          /\ bus[m].state = "leased" => bus[m].attempts >= 1
          /\ bus[m].state = "available" => bus[m].attempts < MaxDeliveryAttempts
          /\ bus[m].state = "absent" => bus[m].attempts = 0
    /\ \A r \in published : \E c \in Copies :
          bus[[kind |-> r.kind, doc |-> r.doc, copy |-> c]].state # "absent"

\* Where the objects are, as long as nothing else writes to the stores.
ObjectsFollowRows ==
    \A d \in Docs :
        /\ upload[d] \in {"staged", "eligible"} => quarantine[d] # "none"
        /\ row[d].status \in InProgress /\ upload[d] # "discarded" => quarantine[d] # "none"
        /\ quarantine[d] = "altered" \/ evidence[d] = "altered" => d \in Corruptible

\* An open or finished archive excludes documents in progress and open uploads.
OwnersExclusive ==
    /\ \A p \in archiving \cup retired : ~DocumentInProgress(p)
    /\ \A d \in Docs : upload[d] = "eligible" /\ OwnerOf[d] \in Policies =>
          /\ OwnerOf[d] \notin archiving
          /\ \A e \in Docs : upload[e] = "eligible" /\ OwnerOf[e] = OwnerOf[d] => e = d

PipelineInv ==
    /\ TypeOK
    /\ RowsConsistent
    /\ LocksExclusive
    /\ TasksFollowRows
    /\ MessagesFollowRows
    /\ WorkIsNeverLost
    /\ ObjectsFollowRows
    /\ EvidenceWasScanned
    /\ UploadedIsStored
    /\ OwnersExclusive
    /\ EligibilityIsFresh
    /\ OneDocumentPerSubmission

=============================================================================
