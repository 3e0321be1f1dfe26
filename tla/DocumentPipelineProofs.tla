---------------------- MODULE DocumentPipelineProofs ----------------------
(***************************************************************************)
(* Proofs about DocumentPipeline for any documents, owners, workers, bus    *)
(* copies and delivery limit: PipelineInv is inductive, the safety          *)
(* properties the runs check follow from it, and every step of the          *)
(* pipeline is a step of DocumentLifecycle or leaves its rows alone.        *)
(*                                                                         *)
(* First what the shared parts of the actions do to the state, then what    *)
(* any step does to a status, an object or a message, then one lemma per    *)
(* conjunct of PipelineInv.                                                 *)
(***************************************************************************)
EXTENDS DocumentPipeline, TLAPS

\* The tasks of workers that run a handler.

BusyTask == [pc : ScanPC \cup FinalizePC, msg : Message,
             attempt : 1 .. MaxDeliveryAttempts,
             verdict : {"none", "clean", "malicious", "failed"}, seen : Row]

\* A worker that is not idle runs a handler for some message.
LEMMA BusyTaskTyped ==
    ASSUME NEW w \in Workers, TypeOK, task[w].pc # "idle"
    PROVE  task[w] \in BusyTask
BY DEF TypeOK, Task, Idle, BusyTask

\* An unanswered delivery is retried while attempts are left, else dead-lettered.
LEMMA RequeuedTyped ==
    ASSUME NEW delivery \in Delivery
    PROVE  /\ Requeued(delivery) \in Delivery
           /\ Requeued(delivery).attempts = delivery.attempts
           /\ Requeued(delivery).state \in {"available", "dead"}
           /\ Requeued(delivery).state = "available" => delivery.attempts < MaxDeliveryAttempts
BY DeliveryAssumption DEF Requeued, Delivery

\* The effect of answering a delivery on the subscription.
Answered(m, ack) ==
    /\ bus[m].state = "leased"
    /\ bus'[m].attempts = bus[m].attempts
    /\ ack => bus'[m].state = "acked"
    /\ ~ack => /\ bus'[m].state \in {"available", "dead"}
               /\ bus'[m].state = "available" => bus[m].attempts < MaxDeliveryAttempts

\* Answering ends the handler and settles at most its own delivery.
LEMMA AnswerEffect ==
    ASSUME NEW w \in Workers, NEW ack \in BOOLEAN, TypeOK, task[w].pc # "idle",
           Answer(w, ack)
    PROVE  /\ bus' \in [Message -> Delivery]
           /\ task' = [task EXCEPT ![w] = Idle]
           /\ task' \in [Workers -> Task]
           /\ \A m \in Message : bus'[m] = bus[m] \/ (m = task[w].msg /\ Answered(m, ack))
<1> DEFINE a == task[w].msg
<1>1. a \in Message /\ bus[a] \in Delivery
  BY BusyTaskTyped DEF BusyTask, TypeOK
<1>2. Requeued(bus[a]) \in Delivery /\ [bus[a] EXCEPT !.state = "acked"] \in Delivery
  BY <1>1, RequeuedTyped DEF Delivery
<1>3. task' = [task EXCEPT ![w] = Idle] /\ task' \in [Workers -> Task]
  BY DEF Answer, TypeOK, Task
<1>4. CASE bus' = bus
  BY <1>3, <1>4 DEF TypeOK
<1>5. CASE /\ bus[a].state = "leased"
           /\ bus' = [bus EXCEPT ![a] = IF ack THEN [bus[a] EXCEPT !.state = "acked"]
                                               ELSE Requeued(bus[a])]
  <2>1. bus' \in [Message -> Delivery]
    BY <1>1, <1>2, <1>5 DEF TypeOK
  <2>2. \A m \in Message : m # a => bus'[m] = bus[m]
    BY <1>5 DEF TypeOK
  <2>3. Answered(a, ack)
    <3>1. CASE ack
      BY <1>1, <1>5, <3>1 DEF Answered, Delivery, TypeOK
    <3>2. CASE ~ack
      BY <1>1, <1>5, <3>2, RequeuedTyped DEF Answered, TypeOK
    <3> QED BY <3>1, <3>2
  <2> QED BY <1>3, <2>1, <2>2, <2>3
<1> QED BY <1>4, <1>5 DEF Answer

\* Handing a message out uses up one of its attempts.
LEMMA DeliverEffect ==
    ASSUME NEW m \in Message, NEW to \in {"leased", "acked"}, PipelineInv, Deliver(m, to)
    PROVE  /\ bus' \in [Message -> Delivery]
           /\ bus[m].state = "available"
           /\ bus'[m].state = to /\ bus'[m].attempts = bus[m].attempts + 1
           /\ bus[m].attempts + 1 \in 1 .. MaxDeliveryAttempts
           /\ \A n \in Message : n # m => bus'[n] = bus[n]
<1>1. bus[m].attempts \in Nat /\ bus[m].attempts < MaxDeliveryAttempts
  BY DeliveryAssumption DEF PipelineInv, TypeOK, MessagesFollowRows, Deliver, Delivery
<1>2. [state |-> to, attempts |-> bus[m].attempts + 1] \in Delivery
  BY <1>1, DeliveryAssumption DEF Delivery
<1> QED
  BY <1>1, <1>2, DeliveryAssumption DEF PipelineInv, TypeOK, Deliver

\* The row of one document moves to another status.
Moved(d, from, to, key) ==
    /\ row[d].status = from /\ ~row[d].archived /\ row[d].key = "quarantine"
    /\ row'[d].status = to /\ ~row'[d].archived /\ row'[d].key = key
    /\ \A e \in Docs : e # d => row'[e] = row[e]

\* The effect of committing a scan verdict on the row.
Decided(w, d) ==
    \E s \in {"finalizing", "contains_virus", "failed"} :
        /\ Moved(d, "pending", s, "quarantine")
        /\ s = "finalizing" => /\ task[w].verdict = "clean"
                               /\ outbox' = outbox \cup {[kind |-> "finalize", doc |-> d]}
        /\ s # "finalizing" => outbox' = outbox
        /\ s = "contains_virus" => task[w].verdict = "malicious"

\* Committing a scan verdict moves a pending document once, or does nothing.
LEMMA SaveScannedEffect ==
    ASSUME NEW w \in Workers, PipelineInv, SaveScanned(w)
    PROVE  /\ task[w].msg.doc \in Docs
           /\ row' \in [Docs -> Row] /\ outbox' \subseteq OutboxRow
           /\ \/ Decided(w, task[w].msg.doc)
              \/ /\ row' = row
                 /\ outbox' = outbox
                 /\ row[task[w].msg.doc].status # "pending"
<1> DEFINE d == task[w].msg.doc
<1>1. task[w] \in BusyTask /\ d \in Docs /\ row[d] \in Row /\ task[w].seen = row[d]
  BY BusyTaskTyped DEF SaveScanned, PipelineInv, TypeOK, BusyTask, Message, LocksExclusive, Locked
<1>2. CASE ~row[d].archived /\ row[d].status = "pending" /\ row[d].key = "quarantine"
  <2> DEFINE next == ScanTransition(task[w].seen, task[w].verdict)
  <2>1. /\ next.status \in {"finalizing", "contains_virus", "failed"}
        /\ next.status = "finalizing" => task[w].verdict = "clean"
        /\ next.status = "contains_virus" => task[w].verdict = "malicious"
        /\ next \in Row /\ ~next.archived /\ next.key = "quarantine" /\ next # task[w].seen
    BY <1>1, <1>2 DEF ScanTransition, Row, InProgress, Terminal
  <2> HIDE DEF next
  <2>2. row' = [row EXCEPT ![d] = next]
        /\ outbox' = IF next.status = "finalizing"
                     THEN outbox \cup {[kind |-> "finalize", doc |-> d]} ELSE outbox
    BY <2>1 DEF SaveScanned, next
  <2>3. row' \in [Docs -> Row] /\ outbox' \subseteq OutboxRow
    BY <1>1, <2>1, <2>2 DEF PipelineInv, TypeOK, OutboxRow
  <2>4. Moved(d, "pending", next.status, "quarantine")
    BY <1>1, <1>2, <2>1, <2>2 DEF Moved, PipelineInv, TypeOK
  <2> QED BY <1>1, <2>1, <2>2, <2>3, <2>4 DEF Decided
<1>3. CASE ~(~row[d].archived /\ row[d].status = "pending" /\ row[d].key = "quarantine")
  <2>1. row[d].status # "pending"
    BY <1>1, <1>3 DEF PipelineInv, RowsConsistent, Row, Terminal
  <2> QED
    BY <1>1, <1>3, <2>1 DEF SaveScanned, ScanTransition, PipelineInv, TypeOK
<1> QED BY <1>2, <1>3

\* The effect of committing a finalization on the row.
LEMMA SaveFinalizedEffect ==
    ASSUME NEW w \in Workers, PipelineInv, SaveFinalized(w)
    PROVE  /\ task[w].msg.doc \in Docs
           /\ row' \in [Docs -> Row]
           /\ \/ /\ Finalizable(task[w].seen)
                 /\ Moved(task[w].msg.doc, "finalizing", "uploaded", "final")
              \/ /\ ~Finalizable(task[w].seen)
                 /\ row' = row
                 /\ row[task[w].msg.doc].status = "uploaded"
<1> DEFINE d == task[w].msg.doc
           next == [row[d] EXCEPT !.status = "uploaded", !.key = "final"]
<1>1. task[w] \in BusyTask /\ d \in Docs /\ row[d] \in Row /\ task[w].seen = row[d]
  BY BusyTaskTyped DEF SaveFinalized, PipelineInv, TypeOK, BusyTask, Message, LocksExclusive, Locked
<1>2. row[d].status \in {"finalizing", "uploaded"}
  BY DEF SaveFinalized, PipelineInv, TasksFollowRows, FinalizePC
<1>3. CASE Finalizable(row[d])
  <2>1. next \in Row /\ next.status = "uploaded" /\ next.key = "final" /\ ~next.archived
    BY <1>1, <1>3 DEF Row, InProgress, Terminal, Finalizable
  <2>2. row' = [row EXCEPT ![d] = next]
    BY <1>1, <1>3 DEF SaveFinalized
  <2> QED BY <1>1, <1>3, <2>1, <2>2 DEF Finalizable, Moved, PipelineInv, TypeOK
<1>4. CASE ~Finalizable(row[d])
  <2>1. row[d].status = "uploaded"
    BY <1>1, <1>2, <1>4 DEF Finalizable, PipelineInv, RowsConsistent, Row, Terminal
  <2> QED BY <1>1, <1>4, <2>1 DEF SaveFinalized, PipelineInv, TypeOK
<1> QED BY <1>3, <1>4

-----------------------------------------------------------------------------
(* Which steps change which variable                                        *)

\* A creating commit adds the row as pending together with its scan request.
LEMMA InsertEffect ==
    ASSUME NEW d \in Docs, PipelineInv, InsertDocument(d)
    PROVE  /\ Moved(d, "none", "pending", "quarantine")
           /\ row' \in [Docs -> Row]
           /\ outbox' = outbox \cup {[kind |-> "scan", doc |-> d]}
           /\ outbox' \subseteq OutboxRow
<1> DEFINE next == [NoRow EXCEPT !.status = "pending"]
<1>1. next \in Row /\ next.status = "pending" /\ next.key = "quarantine" /\ ~next.archived
  BY DEF NoRow, Row, InProgress
<1>2. row[d].status = "none" /\ ~row[d].archived /\ row[d].key = "quarantine"
  BY DEF InsertDocument, PipelineInv, RowsConsistent, TypeOK, Row, Terminal
<1> QED
  BY <1>1, <1>2 DEF InsertDocument, Moved, PipelineInv, TypeOK, OutboxRow

\* A document that is not in progress is archived.
LEMMA ArchiveEffect ==
    ASSUME NEW d \in Docs, PipelineInv, ArchiveDocument(d)
    PROVE  /\ row' \in [Docs -> Row]
           /\ row[d].status \in Terminal /\ row'[d].archived
           /\ row'[d].status = row[d].status /\ row'[d].key = row[d].key
           /\ \A e \in Docs : e # d => row'[e] = row[e]
<1>1. [row[d] EXCEPT !.archived = TRUE] \in Row
  BY DEF PipelineInv, TypeOK, Row
<1> QED BY <1>1 DEF ArchiveDocument, PipelineInv, TypeOK, Row

\* Moving a handler to another step keeps the tasks well typed.
LEMMA PcTyped ==
    ASSUME NEW w \in Workers, TypeOK, task[w].pc # "idle",
           NEW pc \in ScanPC \cup FinalizePC
    PROVE  [task EXCEPT ![w].pc = pc] \in [Workers -> Task]
<1>1. [task[w] EXCEPT !.pc = pc] \in BusyTask
  BY BusyTaskTyped DEF BusyTask
<1> QED BY <1>1 DEF TypeOK, BusyTask, Task

\* Recording a verdict keeps the state well typed.
LEMMA VerdictTyped ==
    ASSUME NEW w \in Workers, TypeOK, task[w].pc # "idle",
           NEW verdict \in {"clean", "malicious", "failed"}, Decide(w, verdict)
    PROVE  TypeOK'
<1>1. [task[w] EXCEPT !.pc = "scanVerdict", !.verdict = verdict] \in BusyTask
  BY BusyTaskTyped DEF BusyTask, ScanPC
<1>2. task' \in [Workers -> Task]
  BY <1>1 DEF TypeOK, BusyTask, Task, Decide
<1> QED BY <1>2 DEF TypeOK, Decide

\* Reading the row under its lock keeps the tasks well typed.
LEMMA SeenTyped ==
    ASSUME NEW w \in Workers, TypeOK, task[w].pc # "idle",
           NEW pc \in ScanPC \cup FinalizePC
    PROVE  [task EXCEPT ![w].pc = pc, ![w].seen = row[task[w].msg.doc]] \in [Workers -> Task]
<1>1. task[w] \in BusyTask /\ row[task[w].msg.doc] \in Row
  BY BusyTaskTyped DEF BusyTask, Message, TypeOK
<1>2. [task[w] EXCEPT !.pc = pc, !.seen = row[task[w].msg.doc]] \in BusyTask
  BY <1>1 DEF BusyTask
<1> QED BY <1>2 DEF TypeOK, BusyTask, Task

\* Every step keeps the state well typed.
LEMMA TypeStep == ASSUME PipelineInv, Next PROVE TypeOK'
<1> USE DEF PipelineInv
<1>1. ASSUME NEW d \in Docs, UploadStep(d) PROVE TypeOK'
  <2>1. CASE StageDocument(d)
    BY <2>1 DEF StageDocument, TypeOK, Object
  <2>2. CASE BeginCreate(d)
    BY <2>2 DEF BeginCreate, TypeOK
  <2>3. CASE CommitCreate(d)
    BY <2>3, InsertEffect DEF CommitCreate, InsertDocument, TypeOK
  <2>4. CASE CommitCreateUnreported(d)
    BY <2>4, InsertEffect DEF CommitCreateUnreported, InsertDocument, TypeOK
  <2>5. CASE RejectCreate(d)
    BY <2>5 DEF RejectCreate, TypeOK
  <2>6. CASE DeleteStaged(d)
    BY <2>6 DEF DeleteStaged, TypeOK, Object
  <2>7. CASE AbandonUpload(d)
    BY <2>7 DEF AbandonUpload, TypeOK
  <2>8. CASE OverwriteQuarantined(d)
    BY <2>8 DEF OverwriteQuarantined, TypeOK, Object
  <2>9. CASE ArchiveDocument(d)
    BY <2>9, ArchiveEffect DEF ArchiveDocument, TypeOK
  <2> QED
    BY <1>1, <2>1, <2>2, <2>3, <2>4, <2>5, <2>6, <2>7, <2>8, <2>9 DEF UploadStep
<1>2. ASSUME NEW p \in Policies, PolicyStep(p) PROVE TypeOK'
  BY <1>2 DEF PolicyStep, BeginArchivePolicy, CommitArchivePolicy, RollBackArchivePolicy, TypeOK
<1>3. CASE DequeuerStep
  <2>1. ASSUME NEW r \in OutboxRow, Publish(r) PROVE TypeOK'
    <3>1. PICK m \in Message : bus' = [bus EXCEPT ![m].state = "available"]
      BY <2>1 DEF Publish, OutboxRow, Message
    <3>2. [bus[m] EXCEPT !.state = "available"] \in Delivery
      BY DEF TypeOK, Delivery
    <3> QED BY <2>1, <3>1, <3>2 DEF Publish, TypeOK
  <2> QED
    BY <1>3, <2>1 DEF DequeuerStep, DeleteOutboxRow, StopBeforeDelete, TypeOK
<1>4. ASSUME NEW m \in Message, BusStep(m) PROVE TypeOK'
  <2>1. CASE SkipStale(m)
    BY <2>1, DeliverEffect DEF SkipStale, TypeOK
  <2>2. CASE LoadFails(m)
    <3>1. [state |-> "leased", attempts |-> bus[m].attempts + 1] \in Delivery
      BY <2>2, DeliveryAssumption DEF LoadFails, TypeOK, MessagesFollowRows, Delivery
    <3> QED BY <2>2, <3>1, RequeuedTyped DEF LoadFails, TypeOK
  <2>3. CASE ExpireLease(m)
    BY <2>3, RequeuedTyped DEF ExpireLease, TypeOK
  <2>4. ASSUME NEW w \in Workers, StartWork(w, m) PROVE TypeOK'
    <3>1. NoRow \in Row
      BY DEF NoRow, Row
    <3> QED
      BY <2>4, <3>1, DeliverEffect DEF StartWork, TypeOK, Task, ScanPC, FinalizePC
  <2> QED BY <1>4, <2>1, <2>2, <2>3, <2>4 DEF BusStep
<1>5. ASSUME NEW w \in Workers, ScanStep(w) PROVE TypeOK'
  <2>1. CASE ScanObject(w) \/ ObjectMissing(w)
    BY <2>1, VerdictTyped DEF ScanObject, ObjectMissing
  <2>2. CASE ScanError(w)
    <3>1. CASE Decide(w, "failed")
      BY <2>2, <3>1, VerdictTyped DEF ScanError
    <3>2. CASE ~Decide(w, "failed")
      BY <2>2, <3>2, AnswerEffect DEF ScanError, TypeOK
    <3> QED BY <3>1, <3>2
  <2>3. CASE BeginScanCommand(w)
    BY <2>3, SeenTyped DEF BeginScanCommand, TypeOK, ScanPC
  <2>4. CASE CommitScanCommand(w) \/ CommitScanUnreported(w)
    <3>1. SaveScanned(w) /\ \E ack \in BOOLEAN : Answer(w, ack)
      BY <2>4 DEF CommitScanCommand, CommitScanUnreported
    <3>2. row' \in [Docs -> Row] /\ outbox' \subseteq OutboxRow
      BY <3>1, SaveScannedEffect
    <3> QED BY <3>1, <3>2, AnswerEffect DEF SaveScanned, TypeOK
  <2> QED BY <1>5, <2>1, <2>2, <2>3, <2>4 DEF ScanStep
<1>6. ASSUME NEW w \in Workers, FinalizeStep(w) PROVE TypeOK'
  <2>1. CASE Promote(w)
    BY <2>1, PcTyped, BusyTaskTyped
       DEF Promote, TypeOK, FinalizePC, BusyTask, Message
  <2>2. CASE PromoteFails(w)
    BY <2>2, AnswerEffect, BusyTaskTyped DEF PromoteFails, TypeOK, BusyTask, Message
  <2>3. CASE DeleteMismatched(w)
    BY <2>3, AnswerEffect DEF DeleteMismatched, TypeOK, Object
  <2>4. CASE BeginFinalizeCommand(w)
    BY <2>4, SeenTyped DEF BeginFinalizeCommand, TypeOK, FinalizePC
  <2>5. CASE CommitFinalizeCommand(w) \/ CommitFinalizeUnreported(w)
    <3>1. SaveFinalized(w)
      BY <2>5 DEF CommitFinalizeCommand, CommitFinalizeUnreported
    <3>2. row' \in [Docs -> Row]
      BY <3>1, SaveFinalizedEffect
    <3>3. bus' \in [Message -> Delivery] /\ task' \in [Workers -> Task]
      <4>1. CASE task' = [task EXCEPT ![w].pc = "finApplied"] /\ bus' = bus
        BY <3>1, <4>1, PcTyped DEF SaveFinalized, TypeOK, FinalizePC
      <4>2. CASE \E ack \in BOOLEAN : Answer(w, ack)
        BY <3>1, <4>2, AnswerEffect DEF SaveFinalized, TypeOK
      <4> QED
        BY <2>5, <4>1, <4>2 DEF CommitFinalizeCommand, CommitFinalizeUnreported
    <3> QED BY <3>1, <3>2, <3>3 DEF SaveFinalized, TypeOK
  <2>6. CASE DeleteQuarantined(w)
    BY <2>6, AnswerEffect DEF DeleteQuarantined, TypeOK, Object
  <2> QED BY <1>6, <2>1, <2>2, <2>3, <2>4, <2>5, <2>6 DEF FinalizeStep
<1>7. ASSUME NEW w \in Workers, CommandFails(w) \/ StopWorker(w) PROVE TypeOK'
  BY <1>7, AnswerEffect DEF CommandFails, StopWorker, TypeOK, Task
<1> QED BY <1>1, <1>2, <1>3, <1>4, <1>5, <1>6, <1>7 DEF Next

\* A worker step that ends in an answer and changes no row.
LEMMA EndingSteps ==
    ASSUME NEW w \in Workers, PipelineInv,
           \/ ScanError(w) /\ ~Decide(w, "failed")
           \/ CommandFails(w) \/ PromoteFails(w) \/ DeleteMismatched(w)
           \/ DeleteQuarantined(w) \/ StopWorker(w)
    PROVE  /\ row' = row /\ outbox' = outbox /\ upload' = upload
           /\ retired' = retired /\ archiving' = archiving /\ published' = published
           /\ task' = [task EXCEPT ![w] = Idle]
           /\ task[w].pc # "idle"
<1>1. CASE StopWorker(w)
  BY <1>1 DEF StopWorker, PipelineInv, TypeOK, Task, Idle, ScanPC, FinalizePC
<1>2. CASE ~StopWorker(w)
  <2>1. task[w].pc # "idle" /\ \E ack \in BOOLEAN : Answer(w, ack)
    BY <1>2 DEF ScanError, CommandFails, PromoteFails, DeleteMismatched, DeleteQuarantined
  <2>2. task' = [task EXCEPT ![w] = Idle]
    BY <2>1, AnswerEffect DEF PipelineInv
  <2> QED
    BY <1>2, <2>1, <2>2
       DEF ScanError, CommandFails, PromoteFails, DeleteMismatched, DeleteQuarantined
<1> QED BY <1>1, <1>2

\* Every step keeps the columns of each row consistent with one another.
LEMMA RowsStep == ASSUME PipelineInv, Next PROVE RowsConsistent'
<1> USE DEF PipelineInv
<1>1. ASSUME NEW d \in Docs, UploadStep(d) PROVE RowsConsistent'
  <2>1. CASE CommitCreate(d) \/ CommitCreateUnreported(d)
    <3>1. InsertDocument(d) /\ upload'[d] \in {"created", "cleanup"}
          /\ \A e \in Docs : e # d => upload'[e] = upload[e]
      BY <2>1 DEF CommitCreate, CommitCreateUnreported, TypeOK
    <3> QED BY <3>1, InsertEffect DEF RowsConsistent, Moved
  <2>2. CASE ArchiveDocument(d)
    BY <2>2, ArchiveEffect DEF ArchiveDocument, RowsConsistent
  <2>3. CASE ~(CommitCreate(d) \/ CommitCreateUnreported(d) \/ ArchiveDocument(d))
    BY <1>1, <2>3 DEF UploadStep, StageDocument, BeginCreate, RejectCreate, DeleteStaged,
                      AbandonUpload, OverwriteQuarantined, RowsConsistent, TypeOK
  <2> QED BY <2>1, <2>2, <2>3
<1>2. ASSUME NEW p \in Policies, PolicyStep(p) PROVE RowsConsistent'
  BY <1>2 DEF PolicyStep, BeginArchivePolicy, CommitArchivePolicy, RollBackArchivePolicy,
              RowsConsistent
<1>3. CASE DequeuerStep
  BY <1>3 DEF DequeuerStep, Publish, DeleteOutboxRow, StopBeforeDelete, RowsConsistent
<1>4. ASSUME NEW m \in Message, BusStep(m) PROVE RowsConsistent'
  BY <1>4 DEF BusStep, SkipStale, LoadFails, ExpireLease, StartWork, RowsConsistent
<1>5. ASSUME NEW w \in Workers, SaveScanned(w) PROVE RowsConsistent'
  <2>1. CASE Decided(w, task[w].msg.doc)
    <3>1. /\ task[w].verdict = "clean" => task[w].msg.doc \notin Malicious
          /\ upload' = upload
      BY <1>5 DEF SaveScanned, TasksFollowRows, ScanPC
    <3> QED BY <1>5, <2>1, <3>1, SaveScannedEffect DEF Decided, Moved, RowsConsistent
  <2>2. CASE row' = row
    BY <1>5, <2>2 DEF SaveScanned, RowsConsistent
  <2> QED BY <1>5, <2>1, <2>2, SaveScannedEffect
<1>6. ASSUME NEW w \in Workers, SaveFinalized(w) PROVE RowsConsistent'
  <2>1. CASE row' = row
    BY <1>6, <2>1 DEF SaveFinalized, RowsConsistent
  <2>2. CASE row' # row
    BY <1>6, <2>2, SaveFinalizedEffect DEF SaveFinalized, Moved, RowsConsistent
  <2> QED BY <2>1, <2>2
<1>7. ASSUME NEW w \in Workers, ScanStep(w) \/ FinalizeStep(w) \/ CommandFails(w) \/ StopWorker(w),
             ~SaveScanned(w), ~SaveFinalized(w)
      PROVE  RowsConsistent'
  BY <1>7 DEF ScanStep, FinalizeStep, ScanObject, ObjectMissing, ScanError, Decide,
              BeginScanCommand, CommitScanCommand, CommitScanUnreported, Promote,
              PromoteFails, DeleteMismatched, BeginFinalizeCommand, CommitFinalizeCommand,
              CommitFinalizeUnreported, DeleteQuarantined, CommandFails, StopWorker,
              RowsConsistent
<1> QED BY <1>1, <1>2, <1>3, <1>4, <1>5, <1>6, <1>7 DEF Next

\* Every step leaves at most one open command per document, its snapshot current.
LEMMA LocksStep == ASSUME PipelineInv, Next PROVE LocksExclusive'
<1> USE DEF PipelineInv
<1>1. ASSUME NEW d \in Docs, UploadStep(d) PROVE LocksExclusive'
  <2>1. CASE CommitCreate(d) \/ CommitCreateUnreported(d)
    <3>1. InsertDocument(d) /\ task' = task
      BY <2>1 DEF CommitCreate, CommitCreateUnreported
    <3>2. \A v \in Workers : Locked(v) => task[v].msg.doc # d
      BY <3>1, InsertEffect DEF Moved, Locked, TasksFollowRows, ScanPC, FinalizePC
    <3>3. \A v \in Workers : Locked(v) => task[v].msg.doc \in Docs
      BY BusyTaskTyped DEF Locked, BusyTask, Message
    <3> QED BY <3>1, <3>2, <3>3, InsertEffect DEF LocksExclusive, Locked, Moved
  <2>2. CASE ArchiveDocument(d)
    BY <2>2 DEF ArchiveDocument, DocumentLockFree, LocksExclusive, Locked, TypeOK
  <2>3. CASE row' = row /\ task' = task
    BY <2>3 DEF LocksExclusive, Locked
  <2> QED
    BY <1>1, <2>1, <2>2, <2>3 DEF UploadStep, StageDocument, BeginCreate, RejectCreate,
       DeleteStaged, AbandonUpload, OverwriteQuarantined
<1>2. ASSUME NEW p \in Policies, PolicyStep(p) PROVE LocksExclusive'
  BY <1>2 DEF PolicyStep, BeginArchivePolicy, CommitArchivePolicy, RollBackArchivePolicy,
              LocksExclusive, Locked
<1>3. CASE DequeuerStep
  BY <1>3 DEF DequeuerStep, Publish, DeleteOutboxRow, StopBeforeDelete, LocksExclusive, Locked
<1>4. ASSUME NEW m \in Message, BusStep(m) PROVE LocksExclusive'
  BY <1>4 DEF BusStep, SkipStale, LoadFails, ExpireLease, StartWork, LocksExclusive, Locked, TypeOK
<1>5. ASSUME NEW w \in Workers, SaveScanned(w) \/ SaveFinalized(w), \A v \in Workers \ {w} : task'[v] = task[v],
             task'[w].pc \in {"idle", "finApplied"}
      PROVE  LocksExclusive'
  <2>1. Locked(w) /\ \A d \in Docs : d # task[w].msg.doc => row'[d] = row[d]
    BY <1>5, SaveScannedEffect, SaveFinalizedEffect
       DEF SaveScanned, SaveFinalized, Locked, Decided, Moved
  <2>2. \A v \in Workers \ {w} : Locked(v) => task[v].msg.doc # task[w].msg.doc
    BY <2>1 DEF LocksExclusive
  <2>3. \A v \in Workers : Locked(v) => task[v].msg.doc \in Docs
    BY BusyTaskTyped DEF Locked, BusyTask, Message
  <2> QED
    BY <1>5, <2>1, <2>2, <2>3 DEF LocksExclusive, Locked
<1>6. ASSUME NEW w \in Workers, ScanStep(w) PROVE LocksExclusive'
  <2>1. CASE CommitScanCommand(w) \/ CommitScanUnreported(w)
    <3>1. task' = [task EXCEPT ![w] = Idle]
      BY <2>1, AnswerEffect DEF CommitScanCommand, CommitScanUnreported, SaveScanned
    <3> QED
      BY <1>5, <2>1, <3>1 DEF CommitScanCommand, CommitScanUnreported, Idle, TypeOK
  <2>2. CASE BeginScanCommand(w)
    BY <2>2 DEF BeginScanCommand, DocumentLockFree, LocksExclusive, Locked, TypeOK
  <2>3. CASE ScanError(w) /\ ~Decide(w, "failed")
    BY <2>3, EndingSteps DEF LocksExclusive, Locked, Idle, TypeOK
  <2>4. ASSUME NEW verdict, Decide(w, verdict) PROVE LocksExclusive'
    BY <2>4 DEF Decide, LocksExclusive, Locked, TypeOK
  <2> QED
    BY <1>6, <2>1, <2>2, <2>3, <2>4 DEF ScanStep, ScanObject, ObjectMissing, ScanError
<1>7. ASSUME NEW w \in Workers, FinalizeStep(w) PROVE LocksExclusive'
  <2>1. CASE CommitFinalizeCommand(w) \/ CommitFinalizeUnreported(w)
    <3>1. task' \in {[task EXCEPT ![w] = Idle], [task EXCEPT ![w].pc = "finApplied"]}
      BY <2>1, AnswerEffect DEF CommitFinalizeCommand, CommitFinalizeUnreported, SaveFinalized
    <3>2. SaveFinalized(w) /\ task[w] \in BusyTask
      BY <2>1, BusyTaskTyped DEF CommitFinalizeCommand, CommitFinalizeUnreported, SaveFinalized
    <3>3. /\ task'[w].pc \in {"idle", "finApplied"}
          /\ \A v \in Workers \ {w} : task'[v] = task[v]
      BY <3>1, <3>2 DEF Idle, TypeOK, BusyTask
    <3> QED BY <1>5, <3>2, <3>3
  <2>2. CASE BeginFinalizeCommand(w)
    BY <2>2 DEF BeginFinalizeCommand, DocumentLockFree, LocksExclusive, Locked, TypeOK
  <2>3. CASE PromoteFails(w) \/ DeleteMismatched(w) \/ DeleteQuarantined(w)
    BY <2>3, EndingSteps DEF LocksExclusive, Locked, Idle, TypeOK
  <2>4. CASE Promote(w)
    BY <2>4 DEF Promote, LocksExclusive, Locked, TypeOK
  <2> QED BY <1>7, <2>1, <2>2, <2>3, <2>4 DEF FinalizeStep
<1>8. ASSUME NEW w \in Workers, CommandFails(w) \/ StopWorker(w) PROVE LocksExclusive'
  BY <1>8, EndingSteps DEF LocksExclusive, Locked, Idle, TypeOK
<1> QED BY <1>1, <1>2, <1>3, <1>4, <1>6, <1>7, <1>8 DEF Next

-----------------------------------------------------------------------------
(* What any step does to a status, an evidence object, a message            *)

\* A status only moves forward, and a document enters a status that needs
\* work together with the outbox row that asks for it.
Forward(d) ==
    /\ row[d].status # "none" => row'[d].status # "none"
    /\ row[d].status \notin {"none", "pending"} => row'[d].status \notin {"none", "pending"}
    /\ row[d].status \in {"finalizing", "uploaded"} => row'[d].status \in {"finalizing", "uploaded"}
    /\ row[d].status = "uploaded" => row'[d].status = "uploaded"
    /\ row'[d].status = "pending" => \/ row[d].status = "pending"
                                     \/ [kind |-> "scan", doc |-> d] \in outbox'
    /\ row'[d].status = "finalizing" => \/ row[d].status = "finalizing"
                                        \/ [kind |-> "finalize", doc |-> d] \in outbox'

\* No step moves a document backwards or starts work without a request for it.
LEMMA StatusForward == ASSUME PipelineInv, Next PROVE \A d \in Docs : Forward(d)
<1>1. CASE row' = row
  BY <1>1 DEF Forward
<1>2. ASSUME NEW d \in Docs, InsertDocument(d) PROVE \A e \in Docs : Forward(e)
  BY <1>2, InsertEffect DEF Moved, Forward
<1>3. ASSUME NEW d \in Docs, ArchiveDocument(d) PROVE \A e \in Docs : Forward(e)
  BY <1>3, ArchiveEffect DEF Forward
<1>4. ASSUME NEW w \in Workers, SaveScanned(w) PROVE \A e \in Docs : Forward(e)
  BY <1>1, <1>4, SaveScannedEffect DEF Decided, Moved, Forward
<1>5. ASSUME NEW w \in Workers, SaveFinalized(w) PROVE \A e \in Docs : Forward(e)
  BY <1>1, <1>5, SaveFinalizedEffect DEF Moved, Forward
<1>6. ASSUME NEW d \in Docs, UploadStep(d) PROVE \A e \in Docs : Forward(e)
  BY <1>1, <1>2, <1>3, <1>6
     DEF UploadStep, StageDocument, BeginCreate, CommitCreate, CommitCreateUnreported,
         RejectCreate, DeleteStaged, AbandonUpload, OverwriteQuarantined
<1>7. ASSUME NEW w \in Workers, ScanStep(w) \/ FinalizeStep(w) \/ CommandFails(w) \/ StopWorker(w)
      PROVE  \A e \in Docs : Forward(e)
  BY <1>1, <1>4, <1>5, <1>7
     DEF ScanStep, FinalizeStep, ScanObject, ObjectMissing, ScanError, Decide,
         BeginScanCommand, CommitScanCommand, CommitScanUnreported, Promote,
         PromoteFails, DeleteMismatched, BeginFinalizeCommand, CommitFinalizeCommand,
         CommitFinalizeUnreported, DeleteQuarantined, CommandFails, StopWorker
<1> QED
  BY <1>1, <1>6, <1>7
     DEF Next, PolicyStep, BeginArchivePolicy, CommitArchivePolicy, RollBackArchivePolicy,
         DequeuerStep, Publish, DeleteOutboxRow, StopBeforeDelete,
         BusStep, SkipStale, LoadFails, ExpireLease, StartWork

\* An evidence object appears only for a document that is being finalized, and
\* one that nothing else writes to is never lost or changed.
Kept(d) ==
    /\ evidence'[d] # evidence[d] => row[d].status \in {"finalizing", "uploaded"}
    /\ evidence[d] = "intact" /\ d \notin Corruptible => evidence'[d] = "intact"
    /\ evidence'[d] = "altered" => d \in Corruptible

\* No step loses or alters an evidence object that only the pipeline writes.
LEMMA EvidenceKept == ASSUME PipelineInv, Next PROVE \A d \in Docs : Kept(d)
<1>1. CASE evidence' = evidence
  BY <1>1 DEF Kept, PipelineInv, ObjectsFollowRows
<1>2. ASSUME NEW w \in Workers, FinalizeStep(w) PROVE \A d \in Docs : Kept(d)
  <2> DEFINE a == task[w].msg.doc
  <2>1. CASE Promote(w) \/ PromoteFails(w) \/ DeleteMismatched(w)
    <3>1. task[w] \in BusyTask /\ a \in Docs /\ row[a].status \in {"finalizing", "uploaded"}
      BY <2>1, BusyTaskTyped DEF Promote, PromoteFails, DeleteMismatched, PipelineInv,
         TasksFollowRows, FinalizePC, BusyTask, Message
    <3>2. CASE Promote(w) \/ PromoteFails(w)
      <4>1. \/ evidence' = evidence
            \/ quarantine[a] # "none" /\ evidence' = [evidence EXCEPT ![a] = quarantine[a]]
        BY <3>2 DEF Promote, PromoteFails
      <4>2. quarantine[a] \in Object
        BY <3>1 DEF PipelineInv, TypeOK
      <4> QED
        BY <1>1, <3>1, <4>1, <4>2 DEF Kept, PipelineInv, TypeOK, ObjectsFollowRows, Object
    <3>3. CASE DeleteMismatched(w)
      BY <3>1, <3>3 DEF DeleteMismatched, Kept, PipelineInv, TypeOK, ObjectsFollowRows,
                        TasksFollowRows
    <3> QED BY <2>1, <3>2, <3>3
  <2>2. CASE ~(Promote(w) \/ PromoteFails(w) \/ DeleteMismatched(w))
    BY <1>1, <1>2, <2>2
       DEF FinalizeStep, BeginFinalizeCommand, CommitFinalizeCommand, SaveFinalized,
           CommitFinalizeUnreported, DeleteQuarantined
  <2> QED BY <2>1, <2>2
<1> QED
  BY <1>1, <1>2
     DEF Next, UploadStep, StageDocument, BeginCreate, CommitCreate, CommitCreateUnreported,
         RejectCreate, DeleteStaged, AbandonUpload, OverwriteQuarantined, ArchiveDocument,
         PolicyStep, BeginArchivePolicy, CommitArchivePolicy, RollBackArchivePolicy,
         DequeuerStep, Publish, DeleteOutboxRow, StopBeforeDelete,
         BusStep, SkipStale, LoadFails, ExpireLease, StartWork,
         ScanStep, ScanObject, ObjectMissing, ScanError, Decide, BeginScanCommand,
         CommitScanCommand, CommitScanUnreported, SaveScanned, CommandFails, StopWorker

\* A message is published from an outbox row, and acknowledged only when its
\* document is past the status the message asks to leave.
BusMove(m) ==
    \/ bus'[m] = bus[m]
    \/ /\ bus[m].state = "absent"
       /\ bus'[m].state = "available" /\ bus'[m].attempts = bus[m].attempts
       /\ [kind |-> m.kind, doc |-> m.doc] \in outbox
    \/ /\ bus[m].state \in {"available", "leased"}
       /\ bus'[m].state \in {"leased", "available", "dead"}
       /\ bus'[m].state = "leased" => bus'[m].attempts >= 1
       /\ bus'[m].state = "available" => bus'[m].attempts < MaxDeliveryAttempts
    \/ /\ bus[m].state \in {"available", "leased"}
       /\ bus'[m].state = "acked"
       /\ row'[m.doc].status \notin {"none", ExpectedStatus(m)}

\* Every step treats every message as BusMove says.
LEMMA BusSteps == ASSUME PipelineInv, Next PROVE \A m \in Message : BusMove(m)
<1> USE DEF PipelineInv
<1>1. CASE bus' = bus
  BY <1>1 DEF BusMove
<1>2. ASSUME NEW r \in OutboxRow, Publish(r) PROVE \A m \in Message : BusMove(m)
  <2>1. PICK c \in Copies :
          LET m == [kind |-> r.kind, doc |-> r.doc, copy |-> c]
          IN  bus[m].state = "absent" /\ bus' = [bus EXCEPT ![m].state = "available"]
    BY <1>2 DEF Publish
  <2> DEFINE n == [kind |-> r.kind, doc |-> r.doc, copy |-> c]
  <2>2. n \in Message /\ n.kind = r.kind /\ n.doc = r.doc /\ bus[n] \in Delivery
    BY DEF Message, OutboxRow, TypeOK
  <2>3. /\ bus'[n].state = "available" /\ bus'[n].attempts = bus[n].attempts
        /\ \A m \in Message : m # n => bus'[m] = bus[m]
    BY <2>1, <2>2 DEF TypeOK, Delivery
  <2>4. [kind |-> n.kind, doc |-> n.doc] = r
    BY <2>2 DEF OutboxRow
  <2> QED
    BY <1>2, <2>1, <2>2, <2>3, <2>4 DEF BusMove, Publish
<1>3. ASSUME NEW m \in Message, BusStep(m) PROVE \A n \in Message : BusMove(n)
  <2>1. CASE SkipStale(m)
    <3>1. bus[m].state = "available" /\ bus'[m].state = "acked" /\ row' = row
          /\ \A n \in Message : n # m => bus'[n] = bus[n]
      BY <2>1, DeliverEffect, "acked" \in {"leased", "acked"} DEF SkipStale
    <3>2. m.doc \in Docs /\ row[m.doc].status # "none"
      BY <3>1 DEF Message, MessagesFollowRows
    <3>3. row[m.doc].status # ExpectedStatus(m)
      <4>1. SUFFICES ASSUME row[m.doc].status = ExpectedStatus(m) PROVE FALSE
        OBVIOUS
      <4>2. row[m.doc].status \in InProgress
        BY <4>1 DEF ExpectedStatus, InProgress
      <4>3. ~row[m.doc].archived /\ row[m.doc].key = "quarantine"
        BY <3>2, <4>2 DEF RowsConsistent, InProgress, Terminal, TypeOK, Row
      <4>4. OwnerOf[m.doc] \notin retired
        BY <3>2, <4>2, <4>3 DEF OwnersExclusive, DocumentInProgress, Current, Rows
      <4> QED BY <2>1, <4>1, <4>3, <4>4 DEF SkipStale, HasWork
    <3> QED BY <3>1, <3>2, <3>3 DEF BusMove
  <2>2. CASE LoadFails(m)
    <3> DEFINE x == [state |-> "leased", attempts |-> bus[m].attempts + 1]
    <3>1. x \in Delivery
      BY <2>2, DeliveryAssumption DEF LoadFails, TypeOK, MessagesFollowRows, Delivery
    <3>2. bus'[m] = Requeued(x) /\ \A n \in Message : n # m => bus'[n] = bus[n]
      BY <2>2 DEF LoadFails, TypeOK
    <3> QED BY <2>2, <3>1, <3>2, RequeuedTyped DEF LoadFails, BusMove
  <2>3. CASE ExpireLease(m)
    <3>1. bus'[m] = Requeued(bus[m]) /\ bus[m] \in Delivery
          /\ \A n \in Message : n # m => bus'[n] = bus[n]
      BY <2>3 DEF ExpireLease, TypeOK
    <3> QED BY <2>3, <3>1, RequeuedTyped DEF ExpireLease, BusMove
  <2>4. ASSUME NEW w \in Workers, StartWork(w, m) PROVE \A n \in Message : BusMove(n)
    BY <2>4, DeliverEffect DEF StartWork, BusMove
  <2> QED BY <1>3, <2>1, <2>2, <2>3, <2>4 DEF BusStep
<1>4. ASSUME NEW w \in Workers, task[w].pc # "idle", Answer(w, FALSE)
      PROVE  \A m \in Message : BusMove(m)
  BY <1>4, AnswerEffect DEF Answered, BusMove
<1>5. ASSUME NEW w \in Workers, task[w].pc # "idle", Answer(w, TRUE),
             row'[task[w].msg.doc].status \notin {"none", ExpectedStatus(task[w].msg)}
      PROVE  \A m \in Message : BusMove(m)
  BY <1>5, AnswerEffect DEF Answered, BusMove
<1>6. ASSUME NEW w \in Workers, CommitScanCommand(w) PROVE \A m \in Message : BusMove(m)
  <2>1. task[w].msg.kind = "scan" /\ row[task[w].msg.doc].status # "none"
    BY <1>6 DEF CommitScanCommand, SaveScanned, TasksFollowRows, ScanPC
  <2>2. row'[task[w].msg.doc].status \notin {"none", "pending"}
    BY <1>6, <2>1, SaveScannedEffect DEF CommitScanCommand, Decided, Moved
  <2> QED BY <1>5, <1>6, <2>1, <2>2 DEF CommitScanCommand, SaveScanned, ExpectedStatus
<1>7. ASSUME NEW w \in Workers, CommitFinalizeCommand(w) PROVE \A m \in Message : BusMove(m)
  <2>1. task[w].msg.kind = "finalize"
    BY <1>7 DEF CommitFinalizeCommand, SaveFinalized, TasksFollowRows, FinalizePC
  <2>2. row'[task[w].msg.doc].status = "uploaded"
    BY <1>7, SaveFinalizedEffect DEF CommitFinalizeCommand, Moved
  <2> QED
    BY <1>1, <1>5, <1>7, <2>1, <2>2 DEF CommitFinalizeCommand, SaveFinalized, ExpectedStatus
<1>8. ASSUME NEW w \in Workers, DeleteQuarantined(w) PROVE \A m \in Message : BusMove(m)
  BY <1>5, <1>8 DEF DeleteQuarantined, TasksFollowRows, FinalizePC, ExpectedStatus
<1>9. ASSUME NEW w \in Workers, ScanStep(w) \/ FinalizeStep(w) \/ CommandFails(w) \/ StopWorker(w)
      PROVE  \A m \in Message : BusMove(m)
  BY <1>1, <1>4, <1>6, <1>7, <1>8, <1>9
     DEF ScanStep, FinalizeStep, ScanObject, ObjectMissing, ScanError, Decide,
         BeginScanCommand, CommitScanUnreported, SaveScanned, Promote, PromoteFails,
         DeleteMismatched, BeginFinalizeCommand, CommitFinalizeUnreported, SaveFinalized,
         CommandFails, StopWorker
<1> QED
  BY <1>1, <1>2, <1>3, <1>9
     DEF Next, UploadStep, StageDocument, BeginCreate, CommitCreate, CommitCreateUnreported,
         RejectCreate, DeleteStaged, AbandonUpload, OverwriteQuarantined, ArchiveDocument,
         PolicyStep, BeginArchivePolicy, CommitArchivePolicy, RollBackArchivePolicy,
         DequeuerStep, DeleteOutboxRow, StopBeforeDelete

-----------------------------------------------------------------------------
(* The remaining conjuncts                                                  *)

\* What a task says about its document survives any step that leaves the task
\* alone.
TaskFollows(w) ==
    LET d == task[w].msg.doc
    IN  /\ task[w].pc \in ScanPC => task[w].msg.kind = "scan" /\ row[d].status # "none"
        /\ task[w].pc \in FinalizePC => /\ task[w].msg.kind = "finalize"
                                        /\ row[d].status \in {"finalizing", "uploaded"}
        /\ task[w].pc = "finApplied" => row[d].status = "uploaded"
        /\ task[w].pc \in ScanPC => /\ task[w].verdict = "clean" => d \notin Malicious
                                    /\ task[w].verdict = "malicious" => d \in Malicious
        /\ task[w].pc = "finMismatch" => d \in Corruptible
        /\ task[w].pc \in {"promoted", "finTx"} /\ d \notin Corruptible
              => evidence[d] = "intact"

\* Every step keeps the running handlers in line with their rows and objects.
LEMMA TasksStep == ASSUME PipelineInv, Next PROVE TasksFollowRows'
<1> USE DEF PipelineInv
<1>1. SUFFICES ASSUME NEW v \in Workers PROVE TaskFollows(v)'
  BY DEF TasksFollowRows, TaskFollows
<1>2. TaskFollows(v)
  BY DEF TasksFollowRows, TaskFollows
<1>3. CASE task'[v] = Idle
  BY <1>3 DEF TaskFollows, Idle, ScanPC, FinalizePC
<1>4. CASE task'[v] = task[v]
  <2>1. CASE task[v].pc = "idle"
    BY <1>4, <2>1 DEF TaskFollows, ScanPC, FinalizePC
  <2>2. CASE task[v].pc # "idle"
    <3>1. task[v].msg.doc \in Docs
      BY <2>2, BusyTaskTyped DEF BusyTask, Message
    <3> QED
      BY <1>2, <1>4, <3>1, StatusForward, EvidenceKept DEF TaskFollows, Forward, Kept
  <2> QED BY <2>1, <2>2
<1>5. ASSUME NEW m \in Message, NEW w \in Workers, StartWork(w, m) PROVE TaskFollows(v)'
  <2>1. CASE v = w
    BY <1>5, <2>1 DEF StartWork, HasWork, ExpectedStatus, TaskFollows, ScanPC, FinalizePC,
                      TypeOK, Message
  <2>2. CASE v # w
    BY <1>4, <1>5, <2>2 DEF StartWork, TypeOK
  <2> QED BY <2>1, <2>2
<1>6. ASSUME NEW w \in Workers, NEW verdict, Decide(w, verdict), task[w].pc = "scanLoaded",
             verdict = "clean" => task[w].msg.doc \notin Malicious,
             verdict = "malicious" => task[w].msg.doc \in Malicious
      PROVE  TaskFollows(v)'
  <2>1. CASE v = w
    BY <1>2, <1>6, <2>1, BusyTaskTyped DEF Decide, TaskFollows, ScanPC, FinalizePC, TypeOK, BusyTask
  <2>2. CASE v # w
    BY <1>4, <1>6, <2>2 DEF Decide, TypeOK
  <2> QED BY <2>1, <2>2
<1>7. ASSUME NEW w \in Workers, BeginScanCommand(w) \/ BeginFinalizeCommand(w)
      PROVE  TaskFollows(v)'
  <2>1. CASE v = w
    BY <1>2, <1>7, <2>1, BusyTaskTyped
       DEF BeginScanCommand, BeginFinalizeCommand, TaskFollows, ScanPC, FinalizePC, TypeOK, BusyTask
  <2>2. CASE v # w
    BY <1>4, <1>7, <2>2 DEF BeginScanCommand, BeginFinalizeCommand, TypeOK
  <2> QED BY <2>1, <2>2
<1>8. ASSUME NEW w \in Workers, Promote(w) PROVE TaskFollows(v)'
  <2>1. CASE v = w
    <3> DEFINE d == task[w].msg.doc
    <3>1. task[w] \in BusyTask /\ d \in Docs /\ quarantine[d] \in Object
      BY <1>8, BusyTaskTyped DEF Promote, BusyTask, Message, TypeOK
    <3>2. /\ task'[w].msg = task[w].msg
          /\ task'[w].pc = IF quarantine[d] = "intact" THEN "promoted" ELSE "finMismatch"
      BY <1>8, <3>1 DEF Promote, TypeOK, BusyTask
    <3>3. evidence'[d] = quarantine[d] /\ row' = row
      BY <1>8, <3>1 DEF Promote, TypeOK
    <3> QED
      BY <1>2, <1>8, <2>1, <3>1, <3>2, <3>3
         DEF Promote, TaskFollows, ScanPC, FinalizePC, Object, ObjectsFollowRows
  <2>2. CASE v # w
    BY <1>4, <1>8, <2>2 DEF Promote, TypeOK
  <2> QED BY <2>1, <2>2
<1>9. ASSUME NEW w \in Workers, task[w].pc # "idle", NEW ack \in BOOLEAN, Answer(w, ack)
      PROVE  TaskFollows(v)'
  <2>1. task'[v] = Idle \/ task'[v] = task[v]
    BY <1>9, AnswerEffect DEF TypeOK
  <2> QED BY <1>3, <1>4, <2>1
<1>10. ASSUME NEW w \in Workers, CommitFinalizeCommand(w) PROVE TaskFollows(v)'
  <2>1. CASE Finalizable(task[w].seen) /\ v = w
    <3>1. task'[w].pc = "finApplied" /\ task'[w].msg = task[w].msg
      BY <1>10, <2>1, BusyTaskTyped DEF CommitFinalizeCommand, SaveFinalized, TypeOK, BusyTask
    <3>2. row'[task[w].msg.doc].status = "uploaded" /\ task[w].msg.kind = "finalize"
      BY <1>2, <1>10, <2>1, SaveFinalizedEffect
         DEF CommitFinalizeCommand, SaveFinalized, Moved, TaskFollows, FinalizePC
    <3> QED BY <2>1, <3>1, <3>2 DEF TaskFollows, ScanPC
  <2>2. CASE Finalizable(task[w].seen) /\ v # w
    BY <1>4, <1>10, <2>2 DEF CommitFinalizeCommand, TypeOK
  <2>3. CASE ~Finalizable(task[w].seen)
    BY <1>9, <1>10, <2>3 DEF CommitFinalizeCommand, SaveFinalized
  <2> QED BY <2>1, <2>2, <2>3
<1>11. ASSUME NEW w \in Workers, ScanStep(w) PROVE TaskFollows(v)'
  BY <1>6, <1>7, <1>9, <1>11
     DEF ScanStep, ScanObject, ObjectMissing, ScanError, CommitScanCommand,
         CommitScanUnreported, SaveScanned
<1>12. ASSUME NEW w \in Workers, FinalizeStep(w) \/ CommandFails(w) PROVE TaskFollows(v)'
  BY <1>7, <1>8, <1>9, <1>10, <1>12
     DEF FinalizeStep, PromoteFails, DeleteMismatched, CommitFinalizeUnreported,
         SaveFinalized, DeleteQuarantined, CommandFails
<1>13. ASSUME NEW w \in Workers, StopWorker(w) PROVE TaskFollows(v)'
  BY <1>3, <1>4, <1>13 DEF StopWorker, TypeOK
<1> QED
  BY <1>4, <1>5, <1>11, <1>12, <1>13
     DEF Next, UploadStep, StageDocument, BeginCreate, CommitCreate, CommitCreateUnreported,
         RejectCreate, DeleteStaged, AbandonUpload, OverwriteQuarantined, ArchiveDocument,
         PolicyStep, BeginArchivePolicy, CommitArchivePolicy, RollBackArchivePolicy,
         DequeuerStep, Publish, DeleteOutboxRow, StopBeforeDelete,
         BusStep, SkipStale, LoadFails, ExpireLease

\* What any step does to the outbox.
OutboxMove(r) ==
    \/ r \in outbox
    \/ r.kind = "scan" /\ row'[r.doc].status = "pending"
    \/ r.kind = "finalize" /\ row'[r.doc].status = "finalizing"

\* Requests enter the outbox with their rows and leave it once published.
LEMMA OutboxSteps ==
    ASSUME PipelineInv, Next
    PROVE  /\ \A r \in outbox' : OutboxMove(r)
           /\ outbox \subseteq outbox' \/ (DeleteOutboxRow /\ outbox' = outbox \ published)
<1>1. CASE outbox' = outbox
  BY <1>1 DEF OutboxMove
<1>2. ASSUME NEW d \in Docs, InsertDocument(d)
      PROVE  (\A r \in outbox' : OutboxMove(r)) /\ outbox \subseteq outbox'
  BY <1>2, InsertEffect DEF Moved, OutboxMove
<1>3. ASSUME NEW w \in Workers, SaveScanned(w)
      PROVE  (\A r \in outbox' : OutboxMove(r)) /\ outbox \subseteq outbox'
  BY <1>1, <1>3, SaveScannedEffect DEF Decided, Moved, OutboxMove
<1>4. CASE DeleteOutboxRow
  BY <1>4 DEF DeleteOutboxRow, OutboxMove
<1>5. ASSUME NEW d \in Docs, UploadStep(d)
      PROVE  (\A r \in outbox' : OutboxMove(r)) /\ outbox \subseteq outbox'
  BY <1>1, <1>2, <1>5
     DEF UploadStep, StageDocument, BeginCreate, CommitCreate, CommitCreateUnreported,
         RejectCreate, DeleteStaged, AbandonUpload, OverwriteQuarantined, ArchiveDocument
<1>6. ASSUME NEW w \in Workers, ScanStep(w) \/ FinalizeStep(w) \/ CommandFails(w) \/ StopWorker(w)
      PROVE  (\A r \in outbox' : OutboxMove(r)) /\ outbox \subseteq outbox'
  BY <1>1, <1>3, <1>6
     DEF ScanStep, FinalizeStep, ScanObject, ObjectMissing, ScanError, Decide,
         BeginScanCommand, CommitScanCommand, CommitScanUnreported, Promote, PromoteFails,
         DeleteMismatched, BeginFinalizeCommand, CommitFinalizeCommand, SaveFinalized,
         CommitFinalizeUnreported, DeleteQuarantined, CommandFails, StopWorker
<1> QED
  BY <1>1, <1>4, <1>5, <1>6
     DEF Next, PolicyStep, BeginArchivePolicy, CommitArchivePolicy, RollBackArchivePolicy,
         DequeuerStep, Publish, StopBeforeDelete, BusStep, SkipStale, LoadFails, ExpireLease,
         StartWork

\* Every step keeps messages in line with the rows they are about.
LEMMA MessagesStep == ASSUME PipelineInv, Next, TypeOK' PROVE MessagesFollowRows'
<1> USE DEF PipelineInv
<1>1. ASSUME NEW r \in outbox'
      PROVE  /\ row'[r.doc].status # "none"
             /\ r.kind = "finalize" => row'[r.doc].status \in {"finalizing", "uploaded"}
  <2>1. r \in OutboxRow /\ r.doc \in Docs /\ OutboxMove(r)
    BY <1>1, OutboxSteps DEF TypeOK, OutboxRow
  <2>2. CASE r \in outbox
    BY <2>1, <2>2, StatusForward DEF MessagesFollowRows, Forward
  <2> QED BY <2>1, <2>2 DEF OutboxMove
<1>2. ASSUME NEW m \in Message
      PROVE  /\ bus'[m].state # "absent" =>
                  /\ row'[m.doc].status # "none"
                  /\ m.kind = "finalize" => row'[m.doc].status \in {"finalizing", "uploaded"}
             /\ bus'[m].state = "acked" => row'[m.doc].status \notin {"none", ExpectedStatus(m)}
             /\ bus'[m].state = "leased" => bus'[m].attempts >= 1
             /\ bus'[m].state = "available" => bus'[m].attempts < MaxDeliveryAttempts
             /\ bus'[m].state = "absent" => bus'[m].attempts = 0
  <2>1. m.doc \in Docs /\ BusMove(m) /\ Forward(m.doc)
    BY BusSteps, StatusForward DEF Message
  <2>2. CASE bus'[m] = bus[m]
    <3>1. m.kind \in {"scan", "finalize"}
      BY DEF Message
    <3>2. CASE bus[m].state # "acked"
      BY <2>1, <2>2, <3>2 DEF Forward, MessagesFollowRows
    <3>3. CASE bus[m].state = "acked" /\ m.kind = "scan"
      <4>1. row[m.doc].status \notin {"none", "pending"}
        BY <3>3 DEF MessagesFollowRows, ExpectedStatus
      <4> QED BY <2>1, <2>2, <3>3, <4>1 DEF Forward, ExpectedStatus
    <3>4. CASE bus[m].state = "acked" /\ m.kind = "finalize"
      <4>1. row[m.doc].status = "uploaded"
        BY <3>4 DEF MessagesFollowRows, ExpectedStatus
      <4> QED BY <2>1, <2>2, <3>4, <4>1 DEF Forward, ExpectedStatus
    <3> QED BY <3>1, <3>2, <3>3, <3>4
  <2>3. CASE bus[m].state = "absent" /\ [kind |-> m.kind, doc |-> m.doc] \in outbox
    <3>1. /\ row[m.doc].status # "none"
          /\ m.kind = "finalize" => row[m.doc].status \in {"finalizing", "uploaded"}
      BY <2>3 DEF MessagesFollowRows
    <3> QED
      BY <2>1, <2>2, <2>3, <3>1, DeliveryAssumption DEF BusMove, Forward, MessagesFollowRows
  <2>4. CASE bus[m].state \in {"available", "leased"} /\ bus'[m] # bus[m]
    BY <2>1, <2>4 DEF BusMove, Forward, MessagesFollowRows
  <2> QED BY <2>1, <2>2, <2>3, <2>4 DEF BusMove
<1>3. ASSUME NEW r \in published'
      PROVE  \E c \in Copies : bus'[[kind |-> r.kind, doc |-> r.doc, copy |-> c]].state # "absent"
  <2>1. CASE r \in published
    <3>1. r \in OutboxRow
      BY <1>3 DEF TypeOK
    <3>2. PICK c \in Copies : bus[[kind |-> r.kind, doc |-> r.doc, copy |-> c]].state # "absent"
      BY <2>1 DEF MessagesFollowRows
    <3>3. [kind |-> r.kind, doc |-> r.doc, copy |-> c] \in Message
      BY <3>1 DEF OutboxRow, Message
    <3> QED BY <3>2, <3>3, BusSteps DEF BusMove
  <2>2. CASE r \notin published
    <3>1. PICK x \in OutboxRow : Publish(x)
      BY <1>3, <2>2
         DEF Next, UploadStep, StageDocument, BeginCreate, CommitCreate, CommitCreateUnreported,
             RejectCreate, DeleteStaged, AbandonUpload, OverwriteQuarantined, ArchiveDocument,
             PolicyStep, BeginArchivePolicy, CommitArchivePolicy, RollBackArchivePolicy,
             DequeuerStep, DeleteOutboxRow, StopBeforeDelete,
             BusStep, SkipStale, LoadFails, ExpireLease, StartWork,
             ScanStep, FinalizeStep, ScanObject, ObjectMissing, ScanError, Decide,
             BeginScanCommand, CommitScanCommand, CommitScanUnreported, SaveScanned, Promote,
             PromoteFails, DeleteMismatched, BeginFinalizeCommand, CommitFinalizeCommand,
             CommitFinalizeUnreported, SaveFinalized, DeleteQuarantined, CommandFails, StopWorker
    <3>2. r = x
      BY <1>3, <3>1 DEF Publish
    <3>3. PICK c \in Copies :
            LET m == [kind |-> r.kind, doc |-> r.doc, copy |-> c]
            IN  bus' = [bus EXCEPT ![m].state = "available"]
      BY <3>1, <3>2 DEF Publish
    <3>4. [kind |-> r.kind, doc |-> r.doc, copy |-> c] \in Message
      BY <3>1, <3>2 DEF OutboxRow, Message
    <3> QED BY <3>3, <3>4 DEF TypeOK, Delivery
  <2> QED BY <2>1, <2>2
<1> QED BY <1>1, <1>2, <1>3 DEF MessagesFollowRows, ExpectedStatus

\* No step drops the last request of a document in progress.
LEMMA WorkStep == ASSUME PipelineInv, Next, TypeOK' PROVE WorkIsNeverLost'
<1> USE DEF PipelineInv
<1> SUFFICES ASSUME NEW d \in Docs, NEW m0 \in {"scan", "finalize"},
                    row'[d].status = IF m0 = "scan" THEN "pending" ELSE "finalizing"
             PROVE  Requested(d, m0)'
  BY DEF WorkIsNeverLost
<1> DEFINE r == [kind |-> m0, doc |-> d]
           n(c) == [kind |-> m0, doc |-> d, copy |-> c]
<1>1. \A c \in Copies : /\ n(c) \in Message /\ n(c).doc = d
                        /\ ExpectedStatus(n(c)) = row'[d].status
  BY DEF Message, ExpectedStatus
<1>2. r \in outbox' \/ row[d].status = row'[d].status
  BY StatusForward DEF Forward
<1>3. CASE r \in outbox'
  BY <1>3 DEF Requested
<1>4. CASE r \notin outbox' /\ \E c \in Copies : bus[n(c)].state \notin {"absent", "acked"}
  <2>1. PICK c \in Copies : bus[n(c)].state \notin {"absent", "acked"}
    BY <1>4
  <2>2. n(c) \in Message /\ BusMove(n(c)) /\ bus[n(c)] \in Delivery /\ bus'[n(c)] \in Delivery
    BY <1>1, BusSteps DEF TypeOK
  <2>3. bus'[n(c)].state \in {"available", "leased", "dead"}
    BY <1>1, <2>1, <2>2 DEF BusMove, Delivery
  <2> QED BY <2>3 DEF Requested
<1>5. CASE r \in outbox \ outbox'
  <2>1. DeleteOutboxRow /\ r \in published /\ r.kind = m0 /\ r.doc = d
    BY <1>5, OutboxSteps
  <2>2. PICK c \in Copies : bus[n(c)].state # "absent"
    BY <2>1 DEF MessagesFollowRows
  <2>3. bus[n(c)].state # "acked"
    <3>1. row' = row
      BY <2>1 DEF DeleteOutboxRow
    <3> QED BY <1>1, <3>1 DEF MessagesFollowRows
  <2> QED BY <1>4, <1>5, <2>2, <2>3
<1>6. CASE r \notin outbox /\ r \notin outbox'
  <2>1. Requested(d, m0)
    BY <1>2, <1>6 DEF WorkIsNeverLost
  <2> QED BY <1>4, <1>6, <2>1 DEF Requested
<1> QED BY <1>3, <1>5, <1>6

\* No step removes the quarantined object of a document in progress.
LEMMA ObjectsStep == ASSUME PipelineInv, Next, TypeOK' PROVE ObjectsFollowRows'
<1> USE DEF PipelineInv
<1>1. SUFFICES ASSUME NEW e \in Docs
      PROVE  /\ upload'[e] \in {"staged", "eligible"} => quarantine'[e] # "none"
             /\ row'[e].status \in InProgress /\ upload'[e] # "discarded" => quarantine'[e] # "none"
             /\ quarantine'[e] = "altered" => e \in Corruptible
  BY EvidenceKept DEF ObjectsFollowRows, Kept
<1>2. ASSUME NEW d \in Docs, InsertDocument(d), quarantine' = quarantine,
             upload' \in {[upload EXCEPT ![d] = "created"], [upload EXCEPT ![d] = "cleanup"]}
      PROVE  /\ upload'[e] \in {"staged", "eligible"} => quarantine'[e] # "none"
             /\ row'[e].status \in InProgress /\ upload'[e] # "discarded" => quarantine'[e] # "none"
             /\ quarantine'[e] = "altered" => e \in Corruptible
  BY <1>2, InsertEffect DEF InsertDocument, Moved, ObjectsFollowRows, TypeOK
<1>3. ASSUME row'[e].status \in InProgress => row[e].status \in InProgress,
             upload' = upload, quarantine' = quarantine
      PROVE  /\ upload'[e] \in {"staged", "eligible"} => quarantine'[e] # "none"
             /\ row'[e].status \in InProgress /\ upload'[e] # "discarded" => quarantine'[e] # "none"
             /\ quarantine'[e] = "altered" => e \in Corruptible
  BY <1>3 DEF ObjectsFollowRows
<1>4. ASSUME NEW d \in Docs, UploadStep(d)
      PROVE  /\ upload'[e] \in {"staged", "eligible"} => quarantine'[e] # "none"
             /\ row'[e].status \in InProgress /\ upload'[e] # "discarded" => quarantine'[e] # "none"
             /\ quarantine'[e] = "altered" => e \in Corruptible
  <2>1. CASE CommitCreate(d) \/ CommitCreateUnreported(d)
    BY <1>2, <2>1 DEF CommitCreate, CommitCreateUnreported
  <2>2. CASE ArchiveDocument(d)
    BY <1>3, <2>2, ArchiveEffect DEF ArchiveDocument
  <2>3. CASE StageDocument(d)
    BY <2>3 DEF StageDocument, ObjectsFollowRows, RowsConsistent, TypeOK, InProgress
  <2>4. CASE DeleteStaged(d)
    BY <2>4 DEF DeleteStaged, ObjectsFollowRows, TypeOK
  <2>5. CASE OverwriteQuarantined(d)
    BY <2>5 DEF OverwriteQuarantined, ObjectsFollowRows, TypeOK
  <2>6. CASE BeginCreate(d) \/ RejectCreate(d) \/ AbandonUpload(d)
    BY <2>6 DEF BeginCreate, RejectCreate, AbandonUpload, ObjectsFollowRows, TypeOK
  <2> QED BY <1>4, <2>1, <2>2, <2>3, <2>4, <2>5, <2>6 DEF UploadStep
<1>5. ASSUME NEW w \in Workers, SaveScanned(w) \/ SaveFinalized(w)
      PROVE  row'[e].status \in InProgress => row[e].status \in InProgress
  BY <1>5, SaveScannedEffect, SaveFinalizedEffect DEF Decided, Moved, InProgress
<1>6. ASSUME NEW w \in Workers, DeleteQuarantined(w)
      PROVE  /\ upload'[e] \in {"staged", "eligible"} => quarantine'[e] # "none"
             /\ row'[e].status \in InProgress /\ upload'[e] # "discarded" => quarantine'[e] # "none"
             /\ quarantine'[e] = "altered" => e \in Corruptible
  <2>1. row[task[w].msg.doc].status = "uploaded" /\ task[w].msg.doc \in Docs
    BY <1>6, BusyTaskTyped DEF DeleteQuarantined, TasksFollowRows, FinalizePC, BusyTask, Message
  <2>2. upload[task[w].msg.doc] \notin {"staged", "eligible"}
    BY <2>1 DEF RowsConsistent
  <2> QED
    BY <1>6, <2>1, <2>2 DEF DeleteQuarantined, ObjectsFollowRows, TypeOK, InProgress
<1>7. ASSUME NEW w \in Workers, ScanStep(w) \/ FinalizeStep(w) \/ CommandFails(w) \/ StopWorker(w)
      PROVE  /\ upload'[e] \in {"staged", "eligible"} => quarantine'[e] # "none"
             /\ row'[e].status \in InProgress /\ upload'[e] # "discarded" => quarantine'[e] # "none"
             /\ quarantine'[e] = "altered" => e \in Corruptible
  BY <1>3, <1>5, <1>6, <1>7
     DEF ScanStep, FinalizeStep, ScanObject, ObjectMissing, ScanError, Decide,
         BeginScanCommand, CommitScanCommand, CommitScanUnreported, SaveScanned, Promote,
         PromoteFails, DeleteMismatched, BeginFinalizeCommand, CommitFinalizeCommand,
         CommitFinalizeUnreported, SaveFinalized, CommandFails, StopWorker
<1> QED
  BY <1>3, <1>4, <1>7
     DEF Next, PolicyStep, BeginArchivePolicy, CommitArchivePolicy, RollBackArchivePolicy,
         DequeuerStep, Publish, DeleteOutboxRow, StopBeforeDelete,
         BusStep, SkipStale, LoadFails, ExpireLease, StartWork

\* No step puts an unscanned object into the evidence store.
LEMMA EvidenceStep == ASSUME PipelineInv, Next PROVE EvidenceWasScanned'
<1> SUFFICES ASSUME NEW d \in Docs, evidence'[d] # "none"
             PROVE  d \notin Malicious /\ row'[d].status \in {"finalizing", "uploaded"}
  BY DEF EvidenceWasScanned
<1>1. row[d].status \in {"finalizing", "uploaded"} /\ d \notin Malicious
  BY EvidenceKept DEF Kept, PipelineInv, EvidenceWasScanned, RowsConsistent
<1> QED BY <1>1, StatusForward DEF Forward

\* A document becomes uploaded only behind its promoted object, and stays stored.
LEMMA UploadedStep == ASSUME PipelineInv, Next, RowsConsistent' PROVE UploadedIsStored'
<1> SUFFICES ASSUME NEW d \in Docs \ Corruptible, row'[d].status = "uploaded"
             PROVE  row'[d].key = "final" /\ evidence'[d] = "intact"
  BY DEF UploadedIsStored
<1>1. row'[d].key = "final"
  BY DEF RowsConsistent
<1>2. CASE row[d].status = "uploaded"
  BY <1>1, <1>2, EvidenceKept DEF Kept, PipelineInv, UploadedIsStored
<1>3. CASE row[d].status # "uploaded"
  <2>1. PICK w \in Workers : SaveFinalized(w)
    <3>1. row'[d] # row[d] /\ row' # row
      BY <1>3
    <3>2. ASSUME NEW e \in Docs, InsertDocument(e) PROVE FALSE
      BY <1>3, <3>2, InsertEffect DEF Moved
    <3>3. ASSUME NEW e \in Docs, ArchiveDocument(e) PROVE FALSE
      BY <1>3, <3>3, ArchiveEffect
    <3>4. ASSUME NEW w \in Workers, SaveScanned(w) PROVE FALSE
      BY <1>3, <3>4, SaveScannedEffect DEF Decided, Moved
    <3>5. ASSUME NEW e \in Docs, UploadStep(e) PROVE FALSE
      BY <3>1, <3>2, <3>3, <3>5
         DEF UploadStep, StageDocument, BeginCreate, CommitCreate, CommitCreateUnreported,
             RejectCreate, DeleteStaged, AbandonUpload, OverwriteQuarantined
    <3> QED
      BY <3>1, <3>4, <3>5
         DEF Next, PolicyStep, BeginArchivePolicy, CommitArchivePolicy, RollBackArchivePolicy,
             DequeuerStep, Publish, DeleteOutboxRow, StopBeforeDelete,
             BusStep, SkipStale, LoadFails, ExpireLease, StartWork,
             ScanStep, FinalizeStep, ScanObject, ObjectMissing, ScanError, Decide,
             BeginScanCommand, CommitScanCommand, CommitScanUnreported, Promote,
             PromoteFails, DeleteMismatched, BeginFinalizeCommand, CommitFinalizeCommand,
             CommitFinalizeUnreported, DeleteQuarantined, CommandFails, StopWorker
  <2>2. d = task[w].msg.doc
    BY <1>3, <2>1, SaveFinalizedEffect DEF Moved
  <2>3. evidence[d] = "intact" /\ evidence' = evidence
    BY <2>1, <2>2 DEF SaveFinalized, PipelineInv, TasksFollowRows
  <2> QED BY <1>1, <2>3
<1> QED BY <1>2, <1>3

-----------------------------------------------------------------------------
(* Owners                                                                   *)

\* What any step does to the rows, uploads and policies.
LEMMA OwnerSteps ==
    ASSUME PipelineInv, Next
    PROVE  \/ /\ row' = row /\ retired' = retired /\ archiving' = archiving
              /\ \A e \in Docs : upload'[e] = "eligible" => upload[e] = "eligible"
           \/ \E d \in Docs : BeginCreate(d)
           \/ \E d \in Docs : /\ InsertDocument(d)
                              /\ upload'[d] # "eligible"
                              /\ \A e \in Docs : e # d => upload'[e] = upload[e]
                              /\ retired' = retired /\ archiving' = archiving
           \/ \E d \in Docs : ArchiveDocument(d)
           \/ \E p \in Policies : PolicyStep(p)
           \/ \E w \in Workers : SaveScanned(w) \/ SaveFinalized(w)
<1>1. ASSUME NEW d \in Docs, CommitCreate(d) \/ CommitCreateUnreported(d)
      PROVE  /\ InsertDocument(d)
             /\ upload'[d] # "eligible"
             /\ \A e \in Docs : e # d => upload'[e] = upload[e]
             /\ retired' = retired /\ archiving' = archiving
  BY <1>1 DEF CommitCreate, CommitCreateUnreported, PipelineInv, TypeOK
<1>2. ASSUME NEW d \in Docs,
             \/ StageDocument(d) \/ RejectCreate(d) \/ DeleteStaged(d)
             \/ AbandonUpload(d) \/ OverwriteQuarantined(d)
      PROVE  /\ row' = row /\ retired' = retired /\ archiving' = archiving
             /\ \A e \in Docs : upload'[e] = "eligible" => upload[e] = "eligible"
  BY <1>2 DEF StageDocument, RejectCreate, DeleteStaged, AbandonUpload,
              OverwriteQuarantined, PipelineInv, TypeOK
<1> QED
  BY <1>1, <1>2
     DEF Next, UploadStep,
         DequeuerStep, Publish, DeleteOutboxRow, StopBeforeDelete,
         BusStep, SkipStale, LoadFails, ExpireLease, StartWork,
         ScanStep, FinalizeStep, ScanObject, ObjectMissing, ScanError, Decide,
         BeginScanCommand, CommitScanCommand, CommitScanUnreported, Promote,
         PromoteFails, DeleteMismatched, BeginFinalizeCommand, CommitFinalizeCommand,
         CommitFinalizeUnreported, DeleteQuarantined, CommandFails, StopWorker

\* A step that creates no row and unarchives none adds nothing to an owner.
LEMMA NoNewRows ==
    ASSUME PipelineInv,
           \A d \in Docs : /\ row'[d].status # "none" => row[d].status # "none"
                           /\ row'[d].status \in InProgress => row[d].status \in InProgress
                           /\ row[d].archived => row'[d].archived
    PROVE  \A o : /\ Rows(o)' \subseteq Rows(o)
                  /\ Current(o)' \subseteq Current(o)
                  /\ DocumentInProgress(o)' => DocumentInProgress(o)
BY DEF Rows, Current, DocumentInProgress

\* Archiving a document and the worker commands add nothing to an owner.
LEMMA CommandRows ==
    ASSUME PipelineInv,
           \/ \E d \in Docs : ArchiveDocument(d)
           \/ \E w \in Workers : SaveScanned(w) \/ SaveFinalized(w)
    PROVE  /\ \A o : /\ Rows(o)' \subseteq Rows(o)
                     /\ Current(o)' \subseteq Current(o)
                     /\ DocumentInProgress(o)' => DocumentInProgress(o)
           /\ upload' = upload /\ retired' = retired /\ archiving' = archiving
<1>1. ASSUME NEW d \in Docs, ArchiveDocument(d), NEW e \in Docs
      PROVE  /\ row'[e].status # "none" => row[e].status # "none"
             /\ row'[e].status \in InProgress => row[e].status \in InProgress
             /\ row[e].archived => row'[e].archived
  BY <1>1, ArchiveEffect
<1>2. ASSUME NEW w \in Workers, SaveScanned(w), NEW e \in Docs
      PROVE  /\ row'[e].status # "none" => row[e].status # "none"
             /\ row'[e].status \in InProgress => row[e].status \in InProgress
             /\ row[e].archived => row'[e].archived
  BY <1>2, SaveScannedEffect DEF Decided, Moved, InProgress
<1>3. ASSUME NEW w \in Workers, SaveFinalized(w), NEW e \in Docs
      PROVE  /\ row'[e].status # "none" => row[e].status # "none"
             /\ row'[e].status \in InProgress => row[e].status \in InProgress
             /\ row[e].archived => row'[e].archived
  BY <1>3, SaveFinalizedEffect DEF Moved, InProgress
<1>4. upload' = upload /\ retired' = retired /\ archiving' = archiving
  BY DEF ArchiveDocument, SaveScanned, SaveFinalized
<1> QED BY <1>1, <1>2, <1>3, <1>4, NoNewRows

\* An inserted row is the only new one of its owner.
LEMMA InsertRows ==
    ASSUME NEW d \in Docs, PipelineInv, InsertDocument(d)
    PROVE  /\ Rows(OwnerOf[d])' = Rows(OwnerOf[d]) \cup {d}
           /\ \A o : o # OwnerOf[d] => /\ Rows(o)' = Rows(o)
                                       /\ Current(o)' = Current(o)
                                       /\ DocumentInProgress(o)' => DocumentInProgress(o)
<1>1. /\ row'[d].status # "none"
      /\ \A e \in Docs : e # d => row'[e] = row[e]
  BY InsertEffect DEF Moved
<1>2. Rows(OwnerOf[d])' = Rows(OwnerOf[d]) \cup {d}
  BY <1>1 DEF Rows
<1>3. ASSUME NEW o, o # OwnerOf[d]
      PROVE  Rows(o)' = Rows(o) /\ Current(o)' = Current(o)
             /\ (DocumentInProgress(o)' => DocumentInProgress(o))
  BY <1>1, <1>3 DEF Rows, Current, DocumentInProgress
<1> QED BY <1>2, <1>3


\* OwnersExclusive and EligibilityIsFresh need each other.
LEMMA OwnersStep == ASSUME PipelineInv, Next PROVE OwnersExclusive' /\ EligibilityIsFresh'
<1> USE DEF PipelineInv
<1>1. CASE /\ row' = row /\ retired' = retired /\ archiving' = archiving
           /\ \A e \in Docs : upload'[e] = "eligible" => upload[e] = "eligible"
  BY <1>1 DEF OwnersExclusive, EligibilityIsFresh, DocumentInProgress, Current, Rows
<1>2. ASSUME NEW d \in Docs, BeginCreate(d)
      PROVE  OwnersExclusive' /\ EligibilityIsFresh'
  <2>1. /\ upload'[d] = "eligible" /\ \A e \in Docs : e # d => upload'[e] = upload[e]
        /\ row' = row /\ retired' = retired /\ archiving' = archiving
    BY <1>2 DEF BeginCreate, TypeOK
  <2>2. OwnerOf[d] \in Policies => /\ OwnerOf[d] \notin archiving
                                   /\ OwnerOf[d] \notin retired
                                   /\ Current(OwnerOf[d]) = {}
                                   /\ \A e \in Docs : OwnerOf[e] = OwnerOf[d] => upload[e] # "eligible"
    BY <1>2 DEF BeginCreate, MayTake, PolicyLockFree
  <2>3. \A o : /\ Current(o)' = Current(o)
               /\ DocumentInProgress(o)' = DocumentInProgress(o)
    BY <2>1 DEF Current, Rows, DocumentInProgress
  <2>4. OwnersExclusive'
    BY <2>1, <2>2, <2>3 DEF OwnersExclusive
  <2>5. EligibilityIsFresh'
    BY <2>1, <2>2, <2>3 DEF EligibilityIsFresh
  <2> QED BY <2>4, <2>5
<1>3. ASSUME NEW d \in Docs, InsertDocument(d), upload'[d] # "eligible",
             \A e \in Docs : e # d => upload'[e] = upload[e],
             retired' = retired, archiving' = archiving
      PROVE  OwnersExclusive' /\ EligibilityIsFresh'
  <2>1. upload[d] = "eligible"
    BY <1>3 DEF InsertDocument
  <2>2. OwnerOf[d] \in Policies => /\ OwnerOf[d] \notin archiving \cup retired
                                   /\ \A e \in Docs : upload'[e] = "eligible" => OwnerOf[e] # OwnerOf[d]
    BY <1>3, <2>1 DEF OwnersExclusive, EligibilityIsFresh
  <2>3. archiving \cup retired \subseteq Policies
    BY DEF TypeOK
  <2>4. \A o : o # OwnerOf[d] => /\ Current(o)' = Current(o)
                                 /\ DocumentInProgress(o)' => DocumentInProgress(o)
    BY <1>3, InsertRows
  <2>5. \A p \in (archiving \cup retired)' : ~DocumentInProgress(p)'
    BY <1>3, <2>2, <2>3, <2>4 DEF OwnersExclusive
  <2>6. OwnersExclusive'
    BY <1>3, <2>5 DEF OwnersExclusive
  <2>7. EligibilityIsFresh'
    BY <1>3, <2>2, <2>4 DEF EligibilityIsFresh
  <2> QED BY <2>6, <2>7
<1>4. CASE \/ \E d \in Docs : ArchiveDocument(d)
           \/ \E w \in Workers : SaveScanned(w) \/ SaveFinalized(w)
  <2>1. /\ \A o : /\ Current(o)' \subseteq Current(o)
                  /\ DocumentInProgress(o)' => DocumentInProgress(o)
        /\ upload' = upload /\ retired' = retired /\ archiving' = archiving
    BY <1>4, CommandRows
  <2>2. OwnersExclusive'
    BY <2>1 DEF OwnersExclusive
  <2>3. EligibilityIsFresh'
    BY <2>1 DEF EligibilityIsFresh
  <2> QED BY <2>2, <2>3
<1>5. ASSUME NEW p \in Policies, PolicyStep(p)
      PROVE  OwnersExclusive' /\ EligibilityIsFresh'
  <2>1. row' = row /\ upload' = upload
    BY <1>5 DEF PolicyStep, BeginArchivePolicy, CommitArchivePolicy, RollBackArchivePolicy
  <2>2. \A o : /\ Current(o)' = Current(o)
               /\ DocumentInProgress(o)' = DocumentInProgress(o)
    BY <2>1 DEF Current, Rows, DocumentInProgress
  <2>3. CASE BeginArchivePolicy(p)
    BY <2>1, <2>2, <2>3
       DEF BeginArchivePolicy, PolicyLockFree, OwnersExclusive, EligibilityIsFresh
  <2>4. CASE CommitArchivePolicy(p)
    BY <2>1, <2>2, <2>4 DEF CommitArchivePolicy, OwnersExclusive, EligibilityIsFresh
  <2>5. CASE RollBackArchivePolicy(p)
    BY <2>1, <2>2, <2>5 DEF RollBackArchivePolicy, OwnersExclusive, EligibilityIsFresh
  <2> QED BY <1>5, <2>3, <2>4, <2>5 DEF PolicyStep
<1> QED BY <1>1, <1>2, <1>3, <1>4, <1>5, OwnerSteps

\* No step gives a submission a second document.
LEMMA OneDocumentStep == ASSUME PipelineInv, Next PROVE OneDocumentPerSubmission'
<1>1. CASE row' = row
  BY <1>1 DEF PipelineInv, OneDocumentPerSubmission, Rows
<1>2. ASSUME NEW d \in Docs, InsertDocument(d) PROVE OneDocumentPerSubmission'
  <2>1. OwnerOf[d] \in Submissions => Rows(OwnerOf[d])' = {d}
    BY <1>2, InsertRows, OwnersAssumption DEF InsertDocument, UniqueOwner
  <2> QED BY <1>2, <2>1, InsertRows DEF PipelineInv, OneDocumentPerSubmission
<1>3. CASE \/ \E d \in Docs : ArchiveDocument(d)
           \/ \E w \in Workers : SaveScanned(w) \/ SaveFinalized(w)
  BY <1>3, CommandRows DEF PipelineInv, OneDocumentPerSubmission
<1> QED
  BY <1>1, <1>2, <1>3, OwnerSteps
     DEF BeginCreate, PolicyStep, BeginArchivePolicy, CommitArchivePolicy,
         RollBackArchivePolicy

-----------------------------------------------------------------------------
\* The empty system satisfies the invariant.
LEMMA InitiallyInv == Init => PipelineInv
<1> SUFFICES ASSUME Init PROVE PipelineInv
  OBVIOUS
<1>1. TypeOK
  BY DeliveryAssumption DEF Init, TypeOK, NoRow, Row, Object, Delivery, Task
<1>2. \A d \in Docs : /\ row[d].status = "none" /\ row[d].key = "quarantine" /\ ~row[d].archived
                      /\ upload[d] = "idle" /\ quarantine[d] = "none" /\ evidence[d] = "none"
  BY DEF Init, NoRow
<1>3. \A w \in Workers : task[w].pc = "idle"
  BY DEF Init, Idle
<1>4. \A m \in Message : bus[m].state = "absent" /\ bus[m].attempts = 0
  BY DEF Init
<1>5. \A o : Rows(o) = {} /\ Current(o) = {} /\ ~DocumentInProgress(o)
  BY <1>2 DEF Rows, Current, DocumentInProgress
<1>6. RowsConsistent /\ ObjectsFollowRows /\ EvidenceWasScanned /\ UploadedIsStored /\ WorkIsNeverLost
  BY <1>2 DEF RowsConsistent, ObjectsFollowRows, EvidenceWasScanned, UploadedIsStored,
              WorkIsNeverLost, InProgress, Terminal
<1>7. LocksExclusive /\ TasksFollowRows
  BY <1>3 DEF LocksExclusive, Locked, TasksFollowRows, ScanPC, FinalizePC
<1>8. MessagesFollowRows
  BY <1>4 DEF Init, MessagesFollowRows
<1>9. OwnersExclusive /\ EligibilityIsFresh /\ OneDocumentPerSubmission
  BY <1>2, <1>5 DEF Init, OwnersExclusive, EligibilityIsFresh, OneDocumentPerSubmission
<1> QED BY <1>1, <1>6, <1>7, <1>8, <1>9 DEF PipelineInv

\* A step that changes nothing keeps the invariant.
LEMMA StutterInv == PipelineInv /\ UNCHANGED vars => PipelineInv'
<1> SUFFICES ASSUME PipelineInv, UNCHANGED vars PROVE PipelineInv'
  OBVIOUS
<1> USE DEF PipelineInv, vars
<1>1. TypeOK' /\ RowsConsistent' /\ ObjectsFollowRows' /\ EvidenceWasScanned' /\ UploadedIsStored'
  BY DEF TypeOK, RowsConsistent, ObjectsFollowRows, EvidenceWasScanned, UploadedIsStored
<1>2. LocksExclusive' /\ TasksFollowRows'
  BY DEF LocksExclusive, Locked, TasksFollowRows
<1>3. MessagesFollowRows' /\ WorkIsNeverLost'
  BY DEF MessagesFollowRows, WorkIsNeverLost, Requested
<1>4. OwnersExclusive' /\ EligibilityIsFresh' /\ OneDocumentPerSubmission'
  BY DEF OwnersExclusive, EligibilityIsFresh, OneDocumentPerSubmission, DocumentInProgress,
         Current, Rows
<1> QED BY <1>1, <1>2, <1>3, <1>4

\* The invariant is inductive.
LEMMA InductiveInv == PipelineInv /\ [Next]_vars => PipelineInv'
<1>1. ASSUME PipelineInv, Next PROVE PipelineInv'
  <2>1. TypeOK' /\ RowsConsistent'
    BY <1>1, TypeStep, RowsStep
  <2>2. LocksExclusive' /\ TasksFollowRows'
    BY <1>1, LocksStep, TasksStep
  <2>3. MessagesFollowRows' /\ WorkIsNeverLost' /\ ObjectsFollowRows'
    BY <1>1, <2>1, MessagesStep, WorkStep, ObjectsStep
  <2>4. EvidenceWasScanned' /\ UploadedIsStored'
    BY <1>1, <2>1, EvidenceStep, UploadedStep
  <2>5. OwnersExclusive' /\ EligibilityIsFresh' /\ OneDocumentPerSubmission'
    BY <1>1, OwnersStep, OneDocumentStep
  <2> QED BY <2>1, <2>2, <2>3, <2>4, <2>5 DEF PipelineInv
<1> QED BY <1>1, StutterInv

\* The inductive invariant holds of every reachable state, for every instance.
THEOREM PipelineInvariant == Spec => []PipelineInv
BY InitiallyInv, InductiveInv, PTL DEF Spec

\* Type correctness, including that no message is delivered more often than the
\* delivery limit the subscription and the worker share.
THEOREM TypeCorrect == Spec => []TypeOK
<1>1. PipelineInv => TypeOK
  BY DEF PipelineInv
<1> QED BY <1>1, PipelineInvariant, PTL

\* A document the API reports as uploaded is stored intact under its final key,
\* whatever late finalization deliveries do.
THEOREM UploadedAreStored == Spec => []UploadedIsStored
<1>1. PipelineInv => UploadedIsStored
  BY DEF PipelineInv
<1> QED BY <1>1, PipelineInvariant, PTL

\* handle_finalization_requested never copies a file to the evidence store whose
\* clean verdict was not committed first.
THEOREM MalwareStaysOut == Spec => []EvidenceWasScanned
<1>1. PipelineInv => EvidenceWasScanned
  BY DEF PipelineInv
<1> QED BY <1>1, PipelineInvariant, PTL

\* The transactional outbox, the dequeuer's publish-then-delete and the handlers'
\* acknowledgements together never lose the request of a document in progress.
THEOREM RequestsSurvive == Spec => []WorkIsNeverLost
<1>1. PipelineInv => WorkIsNeverLost
  BY DEF PipelineInv
<1> QED BY <1>1, PipelineInvariant, PTL

\* Finalization can be retried: its source object is deleted only after the
\* finalizing commit, or by a creating request that was told its commit failed.
THEOREM SourcesSurvive == Spec => []SourceIsKept
<1>1. PipelineInv => SourceIsKept
  BY DEF PipelineInv, ObjectsFollowRows, SourceIsKept, InProgress
<1> QED BY <1>1, PipelineInvariant, PTL

\* ArchivePolicyHandler never archives a policy around a document in progress.
THEOREM ArchivedPoliciesAreQuiet == Spec => []ArchivedPolicyIsQuiet
<1>1. PipelineInv => ArchivedPolicyIsQuiet
  BY DEF PipelineInv, OwnersExclusive, ArchivedPolicyIsQuiet
<1> QED BY <1>1, PipelineInvariant, PTL

\* What CreatePolicyDocumentHandler read about its policy holds until it commits.
THEOREM LockedReadsStayTrue == Spec => []EligibilityIsFresh
<1>1. PipelineInv => EligibilityIsFresh
  BY DEF PipelineInv
<1> QED BY <1>1, PipelineInvariant, PTL

\* The unique index on submissions leaves racing uploads one document.
THEOREM SubmissionsHaveOneDocument == Spec => []OneDocumentPerSubmission
<1>1. PipelineInv => OneDocumentPerSubmission
  BY DEF PipelineInv
<1> QED BY <1>1, PipelineInvariant, PTL


-----------------------------------------------------------------------------
(* The pipeline implements the lifecycle                                    *)

\* The refinement mapping.
StatusOf   == [d \in Docs |-> row[d].status]
ArchivedOf == [d \in Docs |-> row[d].archived]

\* The lifecycle sees the same rows of an owner as the pipeline.
LEMMA LifecycleRows ==
    \A o : Lifecycle!Rows(o) = Rows(o) /\ Lifecycle!Current(o) = Current(o)
BY DEF Lifecycle!Rows, Lifecycle!Current, Rows, Current

\* A row that moves is a move of the lifecycle.
LEMMA LifecycleMove ==
    ASSUME NEW d \in Docs, NEW from, NEW to, NEW key, PipelineInv,
           row' \in [Docs -> Row], Moved(d, from, to, key), retired' = retired
    PROVE  Lifecycle!Move(d, from, to)
<1>1. StatusOf[d] = from /\ ~ArchivedOf[d]
  BY DEF Moved, StatusOf, ArchivedOf
<1>2. StatusOf' = [StatusOf EXCEPT ![d] = to]
  BY DEF Moved, StatusOf
<1>3. ArchivedOf' = ArchivedOf
  <2>1. \A e \in Docs : row'[e].archived = row[e].archived
    BY DEF Moved, PipelineInv, TypeOK, Row
  <2> QED BY <2>1 DEF ArchivedOf
<1> QED BY <1>1, <1>2, <1>3 DEF Lifecycle!Move, StatusOf, ArchivedOf

\* Every step of the pipeline is a step of the lifecycle or invisible to it.
LEMMA LifecycleStep ==
    ASSUME PipelineInv, Next PROVE Lifecycle!Next \/ UNCHANGED Lifecycle!vars
<1> USE DEF PipelineInv
<1>0. \A d \in Docs : \/ Lifecycle!Accept(d) \/ Lifecycle!ScanClean(d) \/ Lifecycle!ScanMalicious(d)
                     \/ Lifecycle!ScanFailed(d) \/ Lifecycle!Finalize(d) \/ Lifecycle!Archive(d)
                     => Lifecycle!Next
  BY DEF Lifecycle!Next
<1>1. CASE row' = row /\ retired' = retired
  BY <1>1 DEF Lifecycle!vars
<1>2. ASSUME NEW d \in Docs, InsertDocument(d), retired' = retired PROVE Lifecycle!Accept(d)
  <2>1. Lifecycle!MayTake(OwnerOf[d])
    <3>1. CASE OwnerOf[d] \in Policies
      BY <1>2, <3>1, LifecycleRows
         DEF InsertDocument, EligibilityIsFresh, Lifecycle!MayTake
    <3>2. CASE OwnerOf[d] \notin Policies
      BY <1>2, <3>2, LifecycleRows DEF InsertDocument, UniqueOwner, Lifecycle!MayTake
    <3> QED BY <3>1, <3>2
  <2> QED BY <1>2, <2>1, InsertEffect, LifecycleMove DEF Lifecycle!Accept
<1>3. ASSUME NEW d \in Docs, ArchiveDocument(d) PROVE Lifecycle!Archive(d)
  <2>1. StatusOf' = StatusOf /\ retired' = retired
    BY <1>3, ArchiveEffect DEF StatusOf, ArchiveDocument
  <2>2. ArchivedOf' = [ArchivedOf EXCEPT ![d] = TRUE]
    <3>1. row'[d].archived = TRUE
      BY <1>3 DEF ArchiveDocument, TypeOK, Row
    <3> QED BY <1>3, <3>1, ArchiveEffect DEF ArchivedOf
  <2>3. StatusOf[d] \in Terminal /\ ~ArchivedOf[d]
    BY <1>3 DEF ArchiveDocument, StatusOf, ArchivedOf
  <2> QED
    BY <2>1, <2>2, <2>3 DEF Lifecycle!Archive, Lifecycle!Terminal, Terminal, StatusOf, ArchivedOf
<1>4. ASSUME NEW p \in Policies, PolicyStep(p) PROVE Lifecycle!Next \/ UNCHANGED Lifecycle!vars
  <2>1. CASE retired' = retired
    BY <1>1, <1>4, <2>1
       DEF PolicyStep, BeginArchivePolicy, CommitArchivePolicy, RollBackArchivePolicy
  <2>2. CASE retired' # retired
    <3>1. CommitArchivePolicy(p)
      BY <1>4, <2>2 DEF PolicyStep, BeginArchivePolicy, RollBackArchivePolicy
    <3>2. p \notin retired /\ retired' = retired \cup {p} /\ row' = row
      BY <2>2, <3>1 DEF CommitArchivePolicy
    <3>3. \A d \in Current(p) : row[d].status \in Terminal
      <4>1. ~DocumentInProgress(p)
        BY <3>1 DEF CommitArchivePolicy, OwnersExclusive
      <4>2. ASSUME NEW d \in Current(p) PROVE row[d].status \in Terminal
        BY <4>1 DEF DocumentInProgress, Current, Rows, TypeOK, Row
      <4> QED BY <4>2
    <3>4. \A d \in Current(p) : StatusOf[d] \in Terminal
      BY <3>3 DEF Current, Rows, StatusOf
    <3>5. Lifecycle!Retire(p)
      BY <3>2, <3>4, LifecycleRows DEF Lifecycle!Retire, Lifecycle!Terminal, Terminal, StatusOf
    <3> QED BY <3>5 DEF Lifecycle!Next
  <2> QED BY <2>1, <2>2
<1>5. ASSUME NEW w \in Workers, SaveScanned(w) PROVE Lifecycle!Next \/ UNCHANGED Lifecycle!vars
  <2>1. PICK d \in Docs : d = task[w].msg.doc
    BY <1>5, SaveScannedEffect
  <2>2. retired' = retired
    BY <1>5 DEF SaveScanned
  <2>3. CASE row' = row
    BY <1>1, <2>2, <2>3
  <2>4. CASE Decided(w, d)
    <3>1. /\ task[w].verdict = "clean" => d \notin Malicious
          /\ task[w].verdict = "malicious" => d \in Malicious
      BY <1>5, <2>1 DEF SaveScanned, TasksFollowRows, ScanPC
    <3>2. PICK s \in {"finalizing", "contains_virus", "failed"} :
             /\ Moved(d, "pending", s, "quarantine")
             /\ s = "finalizing" => d \notin Malicious
             /\ s = "contains_virus" => d \in Malicious
      BY <2>4, <3>1 DEF Decided
    <3>3. Lifecycle!Move(d, "pending", s)
      BY <1>5, <2>2, <3>2, LifecycleMove, SaveScannedEffect
    <3>4. Lifecycle!ScanClean(d) \/ Lifecycle!ScanMalicious(d) \/ Lifecycle!ScanFailed(d)
      BY <3>2, <3>3 DEF Lifecycle!ScanClean, Lifecycle!ScanMalicious, Lifecycle!ScanFailed
    <3> QED BY <3>4, <1>0
  <2> QED BY <1>5, <2>1, <2>3, <2>4, SaveScannedEffect
<1>6. ASSUME NEW w \in Workers, SaveFinalized(w) PROVE Lifecycle!Next \/ UNCHANGED Lifecycle!vars
  <2>1. PICK d \in Docs : d = task[w].msg.doc
    BY <1>6, SaveFinalizedEffect
  <2>2. retired' = retired
    BY <1>6 DEF SaveFinalized
  <2>3. CASE row' = row
    BY <1>1, <2>2, <2>3
  <2>4. CASE Moved(d, "finalizing", "uploaded", "final")
    <3>1. Lifecycle!Finalize(d)
      BY <1>6, <2>2, <2>4, LifecycleMove, SaveFinalizedEffect DEF Lifecycle!Finalize
    <3> QED BY <3>1, <1>0
  <2> QED BY <1>6, <2>1, <2>3, <2>4, SaveFinalizedEffect
<1>7. \A d \in Docs : BeginCreate(d) => row' = row /\ retired' = retired
  BY DEF BeginCreate
<1> QED BY <1>1, <1>2, <1>3, <1>4, <1>5, <1>6, <1>7, <1>0, OwnerSteps

\* The pipeline's rows follow the document lifecycle: no stale snapshot is ever
\* written over a newer one.
THEOREM Refinement == Spec => ImplementsLifecycle
<1>1. Init => Lifecycle!Init
  BY DEF Init, NoRow, Lifecycle!Init
<1>2. PipelineInv /\ [Next]_vars => [Lifecycle!Next]_(Lifecycle!vars)
  <2>1. ASSUME UNCHANGED vars PROVE UNCHANGED Lifecycle!vars
    BY <2>1 DEF vars, Lifecycle!vars
  <2> QED BY <2>1, LifecycleStep
<1> QED BY <1>1, <1>2, PipelineInvariant, PTL DEF Spec, ImplementsLifecycle, Lifecycle!Spec

=============================================================================
