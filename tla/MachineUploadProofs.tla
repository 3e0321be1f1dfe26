------------------------ MODULE MachineUploadProofs ------------------------
(***************************************************************************)
(* Proofs about MachineUpload for any grants, attempts, targets, lifetime   *)
(* and clock: UploadInv is inductive, and the safety properties the runs    *)
(* check follow from it.                                                    *)
(***************************************************************************)
EXTENDS MachineUpload, TLAPS

\* An open completing transaction, as seen by the server.
InTransaction(a) == attempt[a].pc \in {"grantTx", "policyTx"} \/ a \in inDoubt

\* The row lock of a grant has one holder, and what the holder read stands.
LocksExclusive ==
    \A a \in Attempts : InTransaction(a) =>
        /\ attempt[a].seen = grant[GrantOf[a]]
        /\ \A b \in Attempts : InTransaction(b) /\ GrantOf[a] = GrantOf[b] => a = b

\* What the steps before have established for an attempt on its way.
AttemptsFollowGrants ==
    \A a \in Attempts :
        /\ a \in inDoubt => attempt[a].pc \in {"failed", "cleanup", "done"}
        /\ attempt[a].pc \in {"admitted", "streaming", "completing"} \/ InTransaction(a) =>
              grant[GrantOf[a]].state # "none"
        /\ attempt[a].pc = "completing" \/ InTransaction(a) =>
              grant[GrantOf[a]].issued <= attempt[a].at
        /\ attempt[a].pc \in {"idle", "admitted", "streaming", "completing"} \/ InTransaction(a) =>
              doc[a] = "none"
        /\ attempt[a].pc = "policyTx" \/ a \in inDoubt =>
              attempt[a].seen.state = "pending" /\ InTime(attempt[a].seen, attempt[a].at)

\* A grant is dated in the past, and a completed one has a document of its own.
GrantsFollowDocuments ==
    \A g \in Grants :
        /\ grant[g].issued <= now
        /\ grant[g].state = "completed" =>
              GrantOf[grant[g].by] = g /\ doc[grant[g].by] # "none"

UploadInv == /\ TypeOK /\ LocksExclusive /\ AttemptsFollowGrants /\ GrantsFollowDocuments
             /\ AtMostOneCompletes /\ AnswersAgree

\* Where the server decides before the request looks, a policy upload keeps its
\* object while it may still become a document and while the document is
\* pending, and an attempt that will delete its object can get no document.
KeepsObject(a) ==
    ForPolicy(GrantOf[a]) =>
        /\ doc[a] = "pending" => a \in staged
        /\ /\ attempt[a].pc \in {"completing", "grantTx", "policyTx", "failed"} \/ a \in inDoubt
           /\ doc[a] = "none"
           => a \in staged
        /\ attempt[a].pc = "cleanup" => a \notin inDoubt /\ doc[a] = "none"

ObjectsKept == \A a \in Attempts : KeepsObject(a)

-----------------------------------------------------------------------------
(* What the steps of an attempt do to it.                                  *)

\* Only attempt a changes, to these values.
Becomes(a, pc, at, seen, answer, names) ==
    /\ attempt' \in [Attempts -> Attempt]
    /\ \A b \in Attempts : b # a => attempt'[b] = attempt[b]
    /\ attempt'[a].pc = pc /\ attempt'[a].at = at /\ attempt'[a].seen = seen
    /\ attempt'[a].answer = answer /\ attempt'[a].names = names

\* An attempt that goes on keeps its time and its snapshot.
LEMMA GotoEffect ==
    ASSUME TypeOK, NEW a \in Attempts, NEW pc \in PC, Goto(a, pc)
    PROVE  Becomes(a, pc, attempt[a].at, attempt[a].seen, attempt[a].answer, attempt[a].names)
BY DEF TypeOK, Attempt, Goto, Becomes

\* Replacing one attempt by a record with these fields.
LEMMA ReplaceEffect ==
    ASSUME TypeOK, NEW a \in Attempts, NEW new \in Attempt,
           attempt' = [attempt EXCEPT ![a] = new]
    PROVE  Becomes(a, new.pc, new.at, new.seen, new.answer, new.names)
BY DEF TypeOK, Becomes

\* Finish answers the attempt and keeps what it has read.
LEMMA FinishEffect ==
    ASSUME TypeOK, NEW a \in Attempts, NEW named \in Attempts \cup {NoAttempt},
           NEW answer \in {"none", "created", "replayed", "refused", "error"},
           Finish(a, answer, named)
    PROVE  Becomes(a, "done", attempt[a].at, attempt[a].seen, answer, named)
<1> DEFINE old == attempt[a]
           new == [old EXCEPT !.pc = "done", !.answer = answer, !.names = named]
<1>1. old \in Attempt
  BY DEF TypeOK
<1>2. attempt' = [attempt EXCEPT ![a] = new]
  BY DEF Finish
<1> HIDE DEF old
<1>3. new \in Attempt
  BY <1>1 DEF Attempt, PC
<1>4. /\ new.pc = "done" /\ new.at = old.at /\ new.seen = old.seen
      /\ new.answer = answer /\ new.names = named
  BY <1>1 DEF Attempt
<1> HIDE DEF new
<1>5. Becomes(a, new.pc, new.at, new.seen, new.answer, new.names)
  BY <1>2, <1>3, ReplaceEffect
<1> QED BY <1>4, <1>5 DEF old

\* FinishAfterCleanup records the answer and sends the attempt to its cleanup.
LEMMA CleanupEffect ==
    ASSUME TypeOK, NEW a \in Attempts, NEW named \in Attempts \cup {NoAttempt},
           NEW answer \in {"none", "created", "replayed", "refused", "error"},
           FinishAfterCleanup(a, answer, named)
    PROVE  Becomes(a, "cleanup", attempt[a].at, attempt[a].seen, answer, named)
<1> DEFINE old == attempt[a]
           new == [old EXCEPT !.pc = "cleanup", !.answer = answer, !.names = named]
<1>1. old \in Attempt
  BY DEF TypeOK
<1>2. attempt' = [attempt EXCEPT ![a] = new]
  BY DEF FinishAfterCleanup
<1> HIDE DEF old
<1>3. new \in Attempt
  BY <1>1 DEF Attempt, PC
<1>4. /\ new.pc = "cleanup" /\ new.at = old.at /\ new.seen = old.seen
      /\ new.answer = answer /\ new.names = named
  BY <1>1 DEF Attempt
<1> HIDE DEF new
<1>5. Becomes(a, new.pc, new.at, new.seen, new.answer, new.names)
  BY <1>2, <1>3, ReplaceEffect
<1> QED BY <1>4, <1>5 DEF old

\* An attempt is over, but for its cleanup: an answer that names a document
\* names the one its grant was completed with.
Ends(a) ==
    /\ attempt' \in [Attempts -> Attempt]
    /\ \A b \in Attempts : b # a => attempt'[b] = attempt[b]
    /\ attempt'[a].pc \in {"cleanup", "done"}
    /\ attempt'[a].at = attempt[a].at /\ attempt'[a].seen = attempt[a].seen
    /\ attempt'[a].names # NoAttempt =>
          /\ grant[GrantOf[a]].state = "completed"
          /\ attempt'[a].names = grant[GrantOf[a]].by
    /\ UNCHANGED <<now, grant, doc, inDoubt, retired>>

\* The steps that only end an attempt.
LEMMA EndingSteps ==
    ASSUME UploadInv, NEW a \in Attempts,
           \/ ReplayAtOnce(a) \/ Refuse(a) \/ LoseRace(a) \/ RefuseInTransaction(a)
           \/ GiveUpEvidence(a) \/ Reconcile(a) \/ ReconcileFails(a) \/ Cleanup(a) \/ Stop(a)
           \/ CheckPolicy(a) /\ ~Eligible(Target(a))
           \/ LockPolicy(a) /\ ~Eligible(Target(a))
           \/ Stage(a) /\ a \in Faulty
    PROVE  Ends(a)
<1> USE DEF UploadInv
<1>1. attempt[a] \in Attempt /\ GrantOf[a] \in Grants /\ grant[GrantOf[a]] \in Grant
  BY GrantsAssumption DEF TypeOK
<1>2. ASSUME NEW named \in Attempts \cup {NoAttempt},
             NEW answer \in {"none", "created", "replayed", "refused", "error"},
             Finish(a, answer, named) \/ FinishAfterCleanup(a, answer, named),
             UNCHANGED <<now, grant, doc, inDoubt, retired>>,
             named # NoAttempt => grant[GrantOf[a]].state = "completed" /\ named = grant[GrantOf[a]].by
      PROVE  Ends(a)
  <2>1. \E pc \in {"done", "cleanup"} :
            Becomes(a, pc, attempt[a].at, attempt[a].seen, answer, named)
    BY <1>2, FinishEffect, CleanupEffect
  <2> QED BY <1>2, <2>1 DEF Becomes, Ends
<1>3. grant[GrantOf[a]].by \in Attempts \cup {NoAttempt}
  BY <1>1 DEF Grant
<1>4. CASE ReplayAtOnce(a)
  BY <1>2, <1>3, <1>4 DEF ReplayAtOnce
<1>5. CASE Refuse(a)
  BY <1>2, <1>5 DEF Refuse
<1>6. CASE LoseRace(a)
  <2>1. attempt[a].seen = grant[GrantOf[a]]
    BY <1>6 DEF LoseRace, LocksExclusive, InTransaction
  <2> QED BY <1>2, <1>3, <1>6, <2>1 DEF LoseRace
<1>7. CASE RefuseInTransaction(a)
  BY <1>2, <1>7 DEF RefuseInTransaction
<1>8. CASE GiveUpEvidence(a)
  BY <1>2, <1>8 DEF GiveUpEvidence
<1>9. CASE Reconcile(a)
  <2> DEFINE row == grant[GrantOf[a]]
  <2>1. UNCHANGED <<now, grant, doc, inDoubt, retired>>
    BY <1>9 DEF Reconcile
  <2>2. CASE row.state # "completed"
    <3>1. FinishAfterCleanup(a, "error", NoAttempt)
      BY <1>1, <1>9, <2>2, GrantsAssumption DEF Reconcile, FinishAfterCleanup, Finish, TypeOK
    <3> QED BY <1>2, <2>1, <3>1
  <2>3. CASE row.state = "completed" /\ row.by = a
    <3>1. Finish(a, "created", a)
      BY <1>9, <2>3 DEF Reconcile, FinishAfterCleanup, Finish
    <3> QED BY <1>2, <2>1, <2>3, <3>1
  <2>4. CASE row.state = "completed" /\ row.by # a
    <3>1. FinishAfterCleanup(a, "replayed", row.by)
      BY <1>9, <2>4 DEF Reconcile, FinishAfterCleanup, Finish
    <3> QED BY <1>2, <1>3, <2>1, <2>4, <3>1
  <2> QED BY <2>2, <2>3, <2>4
<1>10. CASE ReconcileFails(a)
  BY <1>2, <1>10 DEF ReconcileFails
<1>11. CASE Cleanup(a)
  <2>1. Becomes(a, "done", attempt[a].at, attempt[a].seen, attempt[a].answer, attempt[a].names)
    BY <1>11, GotoEffect DEF Cleanup, PC
  <2> QED BY <1>11, <2>1 DEF Becomes, Ends, Cleanup, AnswersAgree
<1>12. CASE Stop(a)
  BY <1>2, <1>12 DEF Stop
<1>13. CASE CheckPolicy(a) /\ ~Eligible(Target(a))
  BY <1>2, <1>13 DEF CheckPolicy
<1>14. CASE LockPolicy(a) /\ ~Eligible(Target(a))
  BY <1>2, <1>14 DEF LockPolicy
<1>15. CASE Stage(a) /\ a \in Faulty
  BY <1>2, <1>15 DEF Stage
<1> QED BY <1>4, <1>5, <1>6, <1>7, <1>8, <1>9, <1>10, <1>11, <1>12, <1>13, <1>14, <1>15

\* Ending an attempt releases its locks and leaves the rows alone.
LEMMA EndsKeepsInv ==
    ASSUME UploadInv, NEW a \in Attempts, Ends(a), staged' \subseteq Attempts
    PROVE  UploadInv'
<1> USE DEF UploadInv
<1>1. TypeOK'
  BY DEF Ends, TypeOK
<1>2. \A b \in Attempts : InTransaction(b)' => InTransaction(b)
  BY DEF InTransaction, Ends
<1>3. LocksExclusive'
  BY <1>2, GrantsAssumption DEF LocksExclusive, Ends
<1>4. AttemptsFollowGrants'
  BY <1>2, GrantsAssumption DEF AttemptsFollowGrants, Ends, InTime
<1>5. GrantsFollowDocuments' /\ AtMostOneCompletes'
  BY DEF GrantsFollowDocuments, AtMostOneCompletes, Ends
<1>6. AnswersAgree'
  BY GrantsAssumption DEF AnswersAgree, GrantsFollowDocuments, Ends
<1> QED BY <1>1, <1>3, <1>4, <1>5, <1>6

\* An attempt that goes on changes nothing else.
Goes(a, pc, at, seen) ==
    /\ Becomes(a, pc, at, seen, attempt[a].answer, attempt[a].names)
    /\ UNCHANGED <<now, grant, doc, retired>>
    /\ staged' \subseteq Attempts

\* Up to its staged object an attempt holds no lock.
LEMMA ApproachKeepsInv ==
    ASSUME UploadInv, NEW a \in Attempts, NEW pc \in {"admitted", "streaming", "completing"},
           NEW at \in Nat, Goes(a, pc, at, attempt[a].seen), UNCHANGED inDoubt,
           attempt[a].pc \in {"idle", "admitted", "streaming"},
           grant[GrantOf[a]].state # "none",
           grant[GrantOf[a]].issued <= at \/ pc # "completing"
    PROVE  UploadInv'
<1> USE DEF UploadInv
<1>1. TypeOK'
  BY DEF Goes, Becomes, TypeOK
<1>2. a \notin inDoubt
  BY DEF AttemptsFollowGrants
<1>3. \A b \in Attempts : InTransaction(b)' <=> InTransaction(b) /\ b # a
  BY <1>2 DEF InTransaction, Goes, Becomes
<1>4. LocksExclusive'
  BY <1>3 DEF LocksExclusive, Goes, Becomes
<1>5. AttemptsFollowGrants'
  BY <1>2, <1>3 DEF AttemptsFollowGrants, Goes, Becomes, InTime
<1>6. GrantsFollowDocuments' /\ AtMostOneCompletes'
  BY DEF GrantsFollowDocuments, AtMostOneCompletes, Goes
<1>7. AnswersAgree'
  BY DEF AnswersAgree, Goes, Becomes
<1> QED BY <1>1, <1>4, <1>5, <1>6, <1>7

\* Locking the grant row: no other transaction holds it, and the snapshot is fresh.
LEMMA LockGrantKeepsInv ==
    ASSUME UploadInv, NEW a \in Attempts, LockGrant(a)
    PROVE  UploadInv'
<1> USE DEF UploadInv
<1> DEFINE old == attempt[a]
           row == grant[GrantOf[a]]
           new == [old EXCEPT !.pc = "grantTx", !.seen = row]
<1>1. old \in Attempt /\ row \in Grant
  BY GrantsAssumption DEF TypeOK
<1>2. attempt' = [attempt EXCEPT ![a] = new]
  BY DEF LockGrant
<1> HIDE DEF old, row
<1>3. new \in Attempt
  BY <1>1 DEF Attempt, PC
<1>4. /\ new.pc = "grantTx" /\ new.seen = row /\ new.at = old.at
      /\ new.answer = old.answer /\ new.names = old.names
  BY <1>1 DEF Attempt
<1> HIDE DEF new
<1>5. Becomes(a, new.pc, new.at, new.seen, new.answer, new.names)
  BY <1>2, <1>3, ReplaceEffect
<1>6. Goes(a, "grantTx", attempt[a].at, grant[GrantOf[a]]) /\ UNCHANGED inDoubt
  BY <1>4, <1>5 DEF Goes, LockGrant, TypeOK, old, row
<1>7. TypeOK'
  BY <1>6 DEF Goes, Becomes, TypeOK
<1>8. a \notin inDoubt /\ attempt[a].pc = "completing"
  BY DEF AttemptsFollowGrants, LockGrant
<1>9. \A b \in Attempts : InTransaction(b) => GrantOf[b] # GrantOf[a]
  BY DEF LockGrant, GrantLockFree, InTransaction
<1>10. \A b \in Attempts : InTransaction(b)' <=> InTransaction(b) \/ b = a
  BY <1>6 DEF InTransaction, Goes, Becomes
<1>11. LocksExclusive'
  BY <1>6, <1>9, <1>10 DEF LocksExclusive, Goes, Becomes
<1>12. AttemptsFollowGrants'
  BY <1>6, <1>8, <1>10 DEF AttemptsFollowGrants, Goes, Becomes, InTime
<1>13. GrantsFollowDocuments' /\ AtMostOneCompletes'
  BY <1>6 DEF GrantsFollowDocuments, AtMostOneCompletes, Goes
<1>14. AnswersAgree'
  BY <1>6 DEF AnswersAgree, Goes, Becomes
<1> QED BY <1>7, <1>11, <1>12, <1>13, <1>14

\* A transaction goes on to the policy's lock, is left in doubt, or fails.
LEMMA TransactionKeepsInv ==
    ASSUME UploadInv, NEW a \in Attempts, NEW pc \in {"policyTx", "failed"},
           Goes(a, pc, attempt[a].at, attempt[a].seen),
           attempt[a].pc \in {"completing", "grantTx", "policyTx"},
           \/ pc = "failed" /\ UNCHANGED inDoubt
           \/ /\ inDoubt' = inDoubt \cup (IF pc = "failed" THEN {a} ELSE {})
              /\ attempt[a].pc # "completing"
              /\ attempt[a].seen.state = "pending" /\ InTime(attempt[a].seen, attempt[a].at)
    PROVE  UploadInv'
<1> USE DEF UploadInv
<1>1. TypeOK'
  BY DEF Goes, Becomes, TypeOK
<1>2. a \notin inDoubt
  BY DEF AttemptsFollowGrants
<1>3. \A b \in Attempts : InTransaction(b)' => InTransaction(b)
  BY <1>2 DEF InTransaction, Goes, Becomes
<1>4. LocksExclusive'
  BY <1>3 DEF LocksExclusive, Goes, Becomes
<1>5. AttemptsFollowGrants'
  BY <1>2, <1>3 DEF AttemptsFollowGrants, Goes, Becomes, InTime, InTransaction
<1>6. GrantsFollowDocuments' /\ AtMostOneCompletes'
  BY DEF GrantsFollowDocuments, AtMostOneCompletes, Goes
<1>7. AnswersAgree'
  BY DEF AnswersAgree, Goes, Becomes
<1> QED BY <1>1, <1>4, <1>5, <1>6, <1>7

\* The grant of an attempt is completed with that attempt's document.
Completes(a) ==
    LET g == GrantOf[a]
    IN  /\ grant' \in [Grants -> Grant]
        /\ \A h \in Grants : h # g => grant'[h] = grant[h]
        /\ grant'[g].state = "completed" /\ grant'[g].by = a /\ grant'[g].at = attempt[a].at
        /\ grant'[g].issued = grant[g].issued /\ grant'[g].expires = grant[g].expires
        /\ doc' = [doc EXCEPT ![a] = "pending"]

\* The holder of the lock completes the row it read, which is still the row.
LEMMA SaveCompletionEffect ==
    ASSUME UploadInv, NEW a \in Attempts, InTransaction(a), SaveCompletion(a)
    PROVE  Completes(a)
<1> USE DEF UploadInv
<1> DEFINE row == grant[GrantOf[a]]
           time == attempt[a].at
           new == [row EXCEPT !.state = "completed", !.by = a, !.at = time]
<1>1. row \in Grant /\ time \in Nat /\ GrantOf[a] \in Grants
  BY GrantsAssumption DEF TypeOK, Attempt
<1>2. grant' = [grant EXCEPT ![GrantOf[a]] = new]
  BY DEF SaveCompletion, LocksExclusive
<1> HIDE DEF row, time
<1>3. new \in Grant
  BY <1>1 DEF Grant
<1>4. /\ new.state = "completed" /\ new.by = a /\ new.at = time
      /\ new.issued = row.issued /\ new.expires = row.expires
  BY <1>1 DEF Grant
<1> HIDE DEF new
<1>5. grant'[GrantOf[a]] = new /\ \A h \in Grants : h # GrantOf[a] => grant'[h] = grant[h]
  BY <1>1, <1>2 DEF TypeOK
<1>6. grant' \in [Grants -> Grant]
  BY <1>2, <1>3 DEF TypeOK
<1>7. doc' = [doc EXCEPT ![a] = "pending"]
  BY DEF SaveCompletion
<1> QED BY <1>4, <1>5, <1>6, <1>7 DEF Completes, row, time

\* Completing a pending grant under its lock keeps the invariant: no other
\* attempt of the grant has a document, an open transaction or a named answer.
LEMMA CompletesKeepsInv ==
    ASSUME UploadInv, NEW a \in Attempts, InTransaction(a), Completes(a),
           attempt[a].seen.state = "pending", InTime(attempt[a].seen, attempt[a].at),
           \/ a \in inDoubt /\ UNCHANGED attempt
           \/ Becomes(a, "done", attempt[a].at, attempt[a].seen, "created", a),
           inDoubt' = inDoubt \ {a}, UNCHANGED <<now, staged, retired>>
    PROVE  UploadInv'
<1> USE DEF UploadInv
<1> DEFINE g == GrantOf[a]
<1>1. g \in Grants /\ grant[g] \in Grant /\ attempt[a] \in Attempt
  BY GrantsAssumption DEF TypeOK
<1>2. attempt[a].seen = grant[g] /\ grant[g].state = "pending" /\ doc[a] = "none"
  BY DEF LocksExclusive, AttemptsFollowGrants
<1>3. grant[g].issued <= attempt[a].at /\ attempt[a].at < grant[g].expires
  BY <1>2 DEF AttemptsFollowGrants, InTime
<1>4. attempt' \in [Attempts -> Attempt] /\ \A b \in Attempts : b # a => attempt'[b] = attempt[b]
  BY DEF Becomes, TypeOK
<1>5. TypeOK'
  <2>1. doc' \in [Attempts -> {"none", "pending", "decided", "failed", "archived"}]
    BY DEF TypeOK, Completes
  <2>2. \A h \in Grants : /\ grant'[h].state = "completed" <=> grant'[h].by # NoAttempt
                          /\ grant'[h].state = "completed" =>
                                grant'[h].issued <= grant'[h].at /\ grant'[h].at < grant'[h].expires
    BY <1>1, <1>3, GrantsAssumption DEF TypeOK, Completes
  <2> QED BY <1>4, <2>1, <2>2 DEF TypeOK, Completes
<1>6. ~InTransaction(a)' /\ \A b \in Attempts : InTransaction(b)' => InTransaction(b) /\ GrantOf[b] # g
  BY <1>4 DEF InTransaction, Becomes, LocksExclusive, AttemptsFollowGrants
<1>7. \A b \in Attempts : doc'[b] = IF b = a THEN "pending" ELSE doc[b]
  BY DEF TypeOK, Completes
<1>8. LocksExclusive'
  BY <1>4, <1>6, GrantsAssumption DEF LocksExclusive, Completes
<1>9. AttemptsFollowGrants'
  <2>1. \A h \in Grants : grant'[h].issued = grant[h].issued /\ (grant'[h].state = "none" => grant[h].state = "none")
    BY DEF Completes
  <2>2. attempt'[a].pc \in {"failed", "cleanup", "done"}
    BY DEF Becomes, AttemptsFollowGrants
  <2> QED BY <1>4, <1>6, <1>7, <2>1, <2>2, GrantsAssumption DEF AttemptsFollowGrants, InTransaction, InTime
<1>10. GrantsFollowDocuments'
  BY <1>1, <1>7 DEF GrantsFollowDocuments, Completes
<1>11. AtMostOneCompletes'
  BY <1>1, <1>2, <1>7, GrantsAssumption DEF AtMostOneCompletes, Completes
<1>12. AnswersAgree'
  <2>1. ASSUME NEW b \in Attempts, attempt[b].names # NoAttempt
        PROVE  GrantOf[b] # g /\ attempt[b].names \in Attempts
    BY <2>1, <1>2 DEF AnswersAgree, TypeOK, Attempt
  <2>2. ASSUME NEW b \in Attempts, b # a, attempt'[b].names # NoAttempt
        PROVE  /\ grant'[GrantOf[b]] = grant[GrantOf[b]]
               /\ attempt'[b].names = attempt[b].names /\ doc'[attempt[b].names] # "none"
    BY <1>4, <1>7, <2>1, <2>2, GrantsAssumption DEF AnswersAgree, Completes
  <2>3. attempt'[a].names # NoAttempt => attempt'[a].names = a
    BY <2>1 DEF Becomes
  <2> QED BY <1>1, <1>4, <1>7, <2>2, <2>3 DEF AnswersAgree, Completes
<1> QED BY <1>5, <1>8, <1>9, <1>10, <1>11, <1>12

-----------------------------------------------------------------------------
(* The invariant, action by action.                                        *)

\* Nothing is issued, attempted or staged at first.
LEMMA InitUploadInv == Init => UploadInv
<1> SUFFICES ASSUME Init PROVE UploadInv
  OBVIOUS
<1>1. NoGrant \in Grant
  BY DEF NoGrant, Grant
<1>2. [pc |-> "idle", at |-> 0, seen |-> NoGrant, answer |-> "none", names |-> NoAttempt] \in Attempt
  BY <1>1 DEF Attempt, PC
<1>3. TypeOK
  BY <1>1, <1>2, GrantsAssumption DEF Init, TypeOK, NoGrant
<1>4. \A a \in Attempts : ~InTransaction(a) /\ attempt[a].pc = "idle" /\ attempt[a].names = NoAttempt
  BY DEF Init, InTransaction
<1> QED
  BY <1>3, <1>4 DEF Init, UploadInv, LocksExclusive, AttemptsFollowGrants, GrantsFollowDocuments,
                    AtMostOneCompletes, AnswersAgree, NoGrant

\* Steps outside the attempts: the clock, the grants, the pipeline and the policies.
LEMMA OutsideKeepsInv ==
    ASSUME UploadInv,
           \/ Tick \/ \E g \in Grants : Issue(g)
           \/ \E p \in Policies : ArchivePolicy(p)
           \/ \E a \in Attempts : Process(a) \/ ArchiveDocument(a) \/ CommitVanishes(a)
           \/ UNCHANGED vars
    PROVE  UploadInv'
<1> USE DEF UploadInv
<1>1. CASE Tick
  BY <1>1, GrantsAssumption
     DEF Tick, TypeOK, LocksExclusive, InTransaction, AttemptsFollowGrants, InTime,
         GrantsFollowDocuments, AtMostOneCompletes, AnswersAgree, Grant
<1>2. ASSUME NEW g \in Grants, Issue(g) PROVE UploadInv'
  <2>1. PICK t \in 0 .. now :
            grant' = [grant EXCEPT ![g] = [NoGrant EXCEPT !.state = "pending", !.issued = t,
                                                          !.expires = t + Ttl]]
    BY <1>2 DEF Issue
  <2> DEFINE end == t + Ttl
             new == [NoGrant EXCEPT !.state = "pending", !.issued = t, !.expires = end]
  <2>2. /\ NoGrant \in Grant /\ NoGrant.by = NoAttempt
        /\ t \in Nat /\ t <= now /\ end \in Nat
    BY GrantsAssumption DEF NoGrant, Grant, TypeOK
  <2> HIDE DEF end
  <2>3. new \in Grant /\ new.state = "pending" /\ new.issued = t /\ new.by = NoAttempt
    BY <2>2 DEF Grant
  <2> HIDE DEF new
  <2>4. grant' = [grant EXCEPT ![g] = new]
    BY <2>1 DEF new, end
  <2>5. TypeOK'
    BY <1>2, <2>3, <2>4 DEF TypeOK, Issue
  <2>6. \A h \in Grants : h # g => grant'[h] = grant[h]
    BY <2>4 DEF TypeOK
  <2>7. /\ grant'[g].state = "pending" /\ grant'[g].issued = t /\ grant[g].state = "none"
    BY <1>2, <2>3, <2>4 DEF TypeOK, Issue
  <2>8. \A a \in Attempts : InTransaction(a)' = InTransaction(a)
    BY <1>2 DEF InTransaction, Issue
  <2>9. \A a \in Attempts : attempt[a].pc \in {"admitted", "streaming", "completing"} \/ InTransaction(a)
            => GrantOf[a] # g
    BY <2>7 DEF AttemptsFollowGrants
  <2>10. LocksExclusive' /\ AttemptsFollowGrants'
    BY <1>2, <2>6, <2>8, <2>9, GrantsAssumption DEF LocksExclusive, AttemptsFollowGrants, Issue, InTime
  <2>11. GrantsFollowDocuments'
    BY <1>2, <2>2, <2>6, <2>7 DEF GrantsFollowDocuments, Issue
  <2>12. \A a \in Attempts : doc[a] # "none" \/ attempt[a].names # NoAttempt => GrantOf[a] # g
    BY <2>7 DEF AtMostOneCompletes, AnswersAgree
  <2>13. AtMostOneCompletes' /\ AnswersAgree'
    BY <1>2, <2>6, <2>12, GrantsAssumption DEF AtMostOneCompletes, AnswersAgree, Issue
  <2> QED BY <2>5, <2>10, <2>11, <2>13
<1>3. ASSUME NEW p \in Policies, ArchivePolicy(p) PROVE UploadInv'
  BY <1>3 DEF ArchivePolicy, TypeOK, LocksExclusive, InTransaction, AttemptsFollowGrants, InTime,
              GrantsFollowDocuments, AtMostOneCompletes, AnswersAgree
<1>4. ASSUME NEW a \in Attempts, Process(a) \/ ArchiveDocument(a) PROVE UploadInv'
  <2>1. /\ doc[a] # "none" /\ doc' \in [Attempts -> {"none", "pending", "decided", "failed", "archived"}]
        /\ \A b \in Attempts : doc'[b] = "none" <=> doc[b] = "none"
        /\ staged' \subseteq Attempts /\ UNCHANGED <<now, grant, attempt, inDoubt, retired>>
    BY <1>4 DEF Process, ArchiveDocument, TypeOK
  <2>2. TypeOK'
    BY <2>1 DEF TypeOK
  <2>3. LocksExclusive' /\ AttemptsFollowGrants'
    BY <2>1 DEF LocksExclusive, AttemptsFollowGrants, InTransaction, InTime
  <2>4. GrantsFollowDocuments'
    BY <2>1 DEF GrantsFollowDocuments, TypeOK, Grant
  <2>5. AtMostOneCompletes' /\ AnswersAgree'
    BY <2>1 DEF AtMostOneCompletes, AnswersAgree, TypeOK, Attempt
  <2> QED BY <2>2, <2>3, <2>4, <2>5
<1>5. ASSUME NEW a \in Attempts, CommitVanishes(a) PROVE UploadInv'
  <2>1. \A b \in Attempts : InTransaction(b)' => InTransaction(b)
    BY <1>5 DEF CommitVanishes, InTransaction
  <2>2. LocksExclusive' /\ AttemptsFollowGrants'
    BY <1>5, <2>1 DEF LocksExclusive, AttemptsFollowGrants, InTime, CommitVanishes
  <2> QED
    BY <1>5, <2>2 DEF CommitVanishes, TypeOK, GrantsFollowDocuments, AtMostOneCompletes, AnswersAgree
<1>6. CASE UNCHANGED vars
  BY <1>6 DEF vars, TypeOK, LocksExclusive, InTransaction, AttemptsFollowGrants, InTime,
              GrantsFollowDocuments, AtMostOneCompletes, AnswersAgree
<1> QED BY <1>1, <1>2, <1>3, <1>4, <1>5, <1>6

\* The steps of an attempt on its way to its transaction.
LEMMA ApproachingSteps ==
    ASSUME UploadInv, NEW a \in Attempts,
           \/ Admit(a)
           \/ CheckPolicy(a) /\ Eligible(Target(a))
           \/ Stage(a) /\ a \notin Faulty
    PROVE  UploadInv'
<1> USE DEF UploadInv
<1>1. attempt[a] \in Attempt /\ attempt[a].at \in Nat /\ now \in Nat /\ GrantOf[a] \in Grants
  BY GrantsAssumption DEF TypeOK, Attempt
<1>2. CASE Admit(a)
  <2> DEFINE pc == IF ForPolicy(GrantOf[a]) THEN "admitted" ELSE "streaming"
  <2>1. Goes(a, pc, attempt[a].at, attempt[a].seen)
    BY <1>2, GotoEffect DEF Admit, Goes, PC, TypeOK
  <2> QED BY <1>1, <1>2, <2>1, ApproachKeepsInv DEF Admit
<1>3. CASE CheckPolicy(a) /\ Eligible(Target(a))
  <2>1. Goes(a, "streaming", attempt[a].at, attempt[a].seen)
    BY <1>3, GotoEffect DEF CheckPolicy, Goes, PC, TypeOK
  <2>2. grant[GrantOf[a]].state # "none"
    BY <1>3 DEF CheckPolicy, AttemptsFollowGrants
  <2> QED BY <1>1, <1>3, <2>1, <2>2, ApproachKeepsInv DEF CheckPolicy
<1>4. CASE Stage(a) /\ a \notin Faulty
  <2> DEFINE old == attempt[a]
             new == [old EXCEPT !.pc = "completing", !.at = now]
  <2>1. attempt' = [attempt EXCEPT ![a] = new]
    BY <1>4 DEF Stage
  <2> HIDE DEF old
  <2>2. /\ new \in Attempt
        /\ new.pc = "completing" /\ new.at = now /\ new.seen = old.seen
        /\ new.answer = old.answer /\ new.names = old.names
    BY <1>1 DEF Attempt, PC, old
  <2> HIDE DEF new
  <2>3. Becomes(a, new.pc, new.at, new.seen, new.answer, new.names)
    BY <2>1, <2>2, ReplaceEffect
  <2>4. Goes(a, "completing", now, attempt[a].seen)
    BY <1>4, <2>2, <2>3 DEF Goes, Stage, TypeOK, old
  <2>5. grant[GrantOf[a]].state # "none" /\ grant[GrantOf[a]].issued <= now
    BY <1>1, <1>4 DEF Stage, AttemptsFollowGrants, GrantsFollowDocuments
  <2> QED BY <1>1, <1>4, <2>4, <2>5, ApproachKeepsInv DEF Stage
<1> QED BY <1>2, <1>3, <1>4

\* The steps that write the completion, or lose it.
LEMMA CompletingSteps ==
    ASSUME UploadInv, NEW a \in Attempts,
           \/ LockPolicy(a) /\ Eligible(Target(a))
           \/ CommitCompletion(a) \/ LoseConnection(a) \/ AbortCompletion(a) \/ CommitLands(a)
    PROVE  UploadInv'
<1> USE DEF UploadInv
<1>1. ASSUME ReadyToComplete(a)
      PROVE  /\ attempt[a].pc \in {"grantTx", "policyTx"} /\ a \notin inDoubt
             /\ attempt[a].seen.state = "pending" /\ InTime(attempt[a].seen, attempt[a].at)
  BY <1>1 DEF ReadyToComplete, AttemptsFollowGrants, InTransaction
<1>2. CASE LockPolicy(a) /\ Eligible(Target(a))
  <2>1. Goes(a, "policyTx", attempt[a].at, attempt[a].seen)
    BY <1>2, GotoEffect DEF LockPolicy, Goes, PC, TypeOK
  <2> QED BY <1>2, <2>1, TransactionKeepsInv DEF LockPolicy
<1>3. CASE CommitCompletion(a)
  <2>1. Becomes(a, "done", attempt[a].at, attempt[a].seen, "created", a)
    BY <1>3, FinishEffect DEF CommitCompletion
  <2>2. Completes(a) /\ InTransaction(a)
    BY <1>1, <1>3, SaveCompletionEffect DEF CommitCompletion, InTransaction
  <2> QED BY <1>1, <1>3, <2>1, <2>2, CompletesKeepsInv DEF CommitCompletion
<1>4. CASE LoseConnection(a)
  <2>1. Goes(a, "failed", attempt[a].at, attempt[a].seen)
    BY <1>4, GotoEffect DEF LoseConnection, Goes, PC, TypeOK
  <2> QED BY <1>1, <1>4, <2>1, TransactionKeepsInv DEF LoseConnection
<1>5. CASE AbortCompletion(a)
  <2>1. Goes(a, "failed", attempt[a].at, attempt[a].seen)
    BY <1>5, GotoEffect DEF AbortCompletion, Goes, PC, TypeOK
  <2> QED BY <1>5, <2>1, TransactionKeepsInv DEF AbortCompletion
<1>6. CASE CommitLands(a)
  <2>1. Completes(a) /\ InTransaction(a) /\ a \in inDoubt
    BY <1>6, SaveCompletionEffect DEF CommitLands, InTransaction
  <2>2. attempt[a].seen.state = "pending" /\ InTime(attempt[a].seen, attempt[a].at)
    BY <2>1 DEF AttemptsFollowGrants
  <2> QED BY <1>6, <2>1, <2>2, CompletesKeepsInv DEF CommitLands
<1> QED BY <1>2, <1>3, <1>4, <1>5, <1>6

\* Every step of the uploads keeps the invariant.
LEMMA NextUploadInv ==
    ASSUME UploadInv, [Next]_vars
    PROVE  UploadInv'
<1>1. ASSUME NEW a \in Attempts, Ends(a), staged' \subseteq Attempts PROVE UploadInv'
  BY <1>1, EndsKeepsInv
<1>2. ASSUME NEW a \in Attempts, AttemptStep(a) \/ Stop(a) PROVE UploadInv'
  <2>1. staged' \subseteq Attempts
    BY <1>2 DEF UploadInv, TypeOK, AttemptStep, Admit, ReplayAtOnce, CheckPolicy, Refuse, Stage,
                LockGrant, LoseRace, RefuseInTransaction, LockPolicy, CommitCompletion, LoseConnection,
                AbortCompletion, GiveUpEvidence, Reconcile, ReconcileFails, Cleanup, Stop
  <2>2. CASE \/ Admit(a)
             \/ CheckPolicy(a) /\ Eligible(Target(a))
             \/ Stage(a) /\ a \notin Faulty
    BY <2>2, ApproachingSteps
  <2>3. CASE \/ LockPolicy(a) /\ Eligible(Target(a))
             \/ CommitCompletion(a) \/ LoseConnection(a) \/ AbortCompletion(a)
    BY <2>3, CompletingSteps
  <2>4. CASE LockGrant(a)
    BY <2>4, LockGrantKeepsInv
  <2>5. CASE \/ ReplayAtOnce(a) \/ Refuse(a) \/ LoseRace(a) \/ RefuseInTransaction(a)
             \/ GiveUpEvidence(a) \/ Reconcile(a) \/ ReconcileFails(a) \/ Cleanup(a) \/ Stop(a)
             \/ CheckPolicy(a) /\ ~Eligible(Target(a))
             \/ LockPolicy(a) /\ ~Eligible(Target(a))
             \/ Stage(a) /\ a \in Faulty
    <3>1. Ends(a)
      BY <2>5, EndingSteps
    <3> QED BY <1>1, <2>1, <3>1
  <2> QED BY <1>2, <2>2, <2>3, <2>4, <2>5 DEF AttemptStep
<1> QED
  BY <1>2, OutsideKeepsInv, CompletingSteps DEF Next

-----------------------------------------------------------------------------
(* The theorems.                                                           *)

\* UploadInv holds in every state of the uploads.
THEOREM UploadsCorrect == Spec => []UploadInv
<1>1. Init => UploadInv
  BY InitUploadInv
<1>2. UploadInv /\ [Next]_vars => UploadInv'
  BY NextUploadInv
<1> QED BY <1>1, <1>2, PTL DEF Spec

\* Types, and every completed grant row can be read back: its completion names
\* a document and lies within the grant's lifetime, whenever the commit landed.
THEOREM UploadsTyped == Spec => []TypeOK
<1>1. UploadInv => TypeOK
  BY DEF UploadInv
<1> QED BY <1>1, UploadsCorrect, PTL

\* However attempts race, retry, stop or lose their connection during the
\* commit, a grant gets one document.
THEOREM OneDocumentPerGrant == Spec => []AtMostOneCompletes
<1>1. UploadInv => AtMostOneCompletes
  BY DEF UploadInv
<1> QED BY <1>1, UploadsCorrect, PTL

\* Every answer that names a document names the one the grant has.
THEOREM RetriesAgree == Spec => []AnswersAgree
<1>1. UploadInv => AnswersAgree
  BY DEF UploadInv
<1> QED BY <1>1, UploadsCorrect, PTL

-----------------------------------------------------------------------------
(* The objects of policy documents, where no commit is late.               *)

\* The steps of one attempt leave the objects of the others alone.
LEMMA OthersKeepObjects ==
    ASSUME ObjectsKept, NEW a \in Attempts, KeepsObject(a)',
           \A b \in Attempts : b # a => /\ attempt'[b] = attempt[b] /\ doc'[b] = doc[b]
                                        /\ b \in staged' <=> b \in staged
                                        /\ b \in inDoubt' <=> b \in inDoubt
    PROVE  ObjectsKept'
BY DEF ObjectsKept, KeepsObject, ForPolicy

\* Where an attempt goes.
Went(a, pc) ==
    attempt'[a].pc = pc /\ \A b \in Attempts : b # a => attempt'[b] = attempt[b]

\* Goto only moves the attempt.
LEMMA GoesWent ==
    ASSUME TypeOK, NEW a \in Attempts, NEW pc \in PC, Goto(a, pc)
    PROVE  Went(a, pc)
BY GotoEffect DEF Becomes, Went

\* Finish only moves the attempt and records its answer.
LEMMA FinishWent ==
    ASSUME TypeOK, NEW a \in Attempts, NEW named \in Attempts \cup {NoAttempt},
           NEW answer \in {"none", "created", "replayed", "refused", "error"},
           Finish(a, answer, named)
    PROVE  Went(a, "done")
BY FinishEffect DEF Becomes, Went

\* FinishAfterCleanup only moves the attempt and records its answer.
LEMMA CleanupWent ==
    ASSUME TypeOK, NEW a \in Attempts, NEW named \in Attempts \cup {NoAttempt},
           NEW answer \in {"none", "created", "replayed", "refused", "error"},
           FinishAfterCleanup(a, answer, named)
    PROVE  Went(a, "cleanup")
BY CleanupEffect DEF Becomes, Went

\* An attempt whose answer is known keeps its object as long as it must.
LEMMA EndingKeepsObject ==
    ASSUME UploadInv, ~LateCommits, NEW a \in Attempts, KeepsObject(a),
           \/ ReplayAtOnce(a) \/ Refuse(a) \/ LoseRace(a) \/ RefuseInTransaction(a)
           \/ GiveUpEvidence(a) \/ Reconcile(a) \/ ReconcileFails(a) \/ Cleanup(a) \/ Stop(a)
    PROVE  KeepsObject(a)' /\ \E pc \in PC : Went(a, pc)
<1> USE DEF UploadInv
<1>1. attempt[a] \in Attempt /\ GrantOf[a] \in Grants /\ grant[GrantOf[a]] \in Grant
  BY GrantsAssumption DEF TypeOK
<1>2. grant[GrantOf[a]].by \in Attempts \cup {NoAttempt} /\ {"done", "cleanup"} \subseteq PC
  BY <1>1 DEF Grant, PC
<1>3. attempt[a].pc \in {"idle", "admitted", "streaming", "grantTx"} => a \notin inDoubt /\ doc[a] = "none"
  BY DEF AttemptsFollowGrants, InTransaction
<1>4. CASE ReplayAtOnce(a)
  <2>1. Went(a, "done")
    BY <1>2, <1>4, FinishWent DEF ReplayAtOnce
  <2> QED BY <1>2, <1>3, <1>4, <2>1 DEF ReplayAtOnce, Went, KeepsObject, ForPolicy
<1>5. CASE Refuse(a)
  <2>1. Went(a, "done")
    BY <1>5, FinishWent DEF Refuse
  <2> QED BY <1>2, <1>3, <1>5, <2>1 DEF Refuse, Went, KeepsObject, ForPolicy
<1>6. CASE LoseRace(a)
  <2>1. attempt[a].seen = grant[GrantOf[a]]
    BY <1>6 DEF LoseRace, LocksExclusive, InTransaction
  <2>2. Went(a, "cleanup")
    BY <1>2, <1>6, <2>1, CleanupWent DEF LoseRace
  <2> QED BY <1>2, <1>3, <1>6, <2>2 DEF LoseRace, Went, KeepsObject, ForPolicy
<1>7. CASE RefuseInTransaction(a)
  <2>1. Went(a, "cleanup")
    BY <1>7, CleanupWent DEF RefuseInTransaction
  <2> QED BY <1>2, <1>3, <1>7, <2>1 DEF RefuseInTransaction, Went, KeepsObject, ForPolicy
<1>8. CASE GiveUpEvidence(a)
  <2>1. Went(a, "cleanup")
    BY <1>8, CleanupWent DEF GiveUpEvidence
  <2> QED BY <1>2, <1>8, <2>1 DEF GiveUpEvidence, Went, KeepsObject, ForPolicy
<1>9. CASE Reconcile(a)
  <2> DEFINE row == grant[GrantOf[a]]
  <2>1. a \notin inDoubt /\ UNCHANGED <<staged, doc, inDoubt>>
    BY <1>9 DEF Reconcile, Settled
  <2>2. CASE row.state = "completed" /\ row.by = a
    <3>1. Finish(a, "created", a)
      BY <1>9, <2>2 DEF Reconcile, FinishAfterCleanup, Finish
    <3>2. Went(a, "done")
      BY <3>1, FinishWent
    <3> QED BY <1>2, <2>1, <3>2 DEF Went, KeepsObject, ForPolicy
  <2>3. CASE ~(row.state = "completed" /\ row.by = a)
    <3>1. doc[a] = "none"
      BY <2>3 DEF AtMostOneCompletes
    <3>2. \/ FinishAfterCleanup(a, "error", NoAttempt)
          \/ FinishAfterCleanup(a, "replayed", row.by)
      BY <1>1, <1>9, <2>3, GrantsAssumption DEF Reconcile, FinishAfterCleanup, Finish, TypeOK
    <3>3. Went(a, "cleanup")
      BY <1>2, <3>2, CleanupWent
    <3> QED BY <1>2, <2>1, <3>1, <3>3 DEF Went, KeepsObject, ForPolicy
  <2> QED BY <2>2, <2>3
<1>10. CASE ReconcileFails(a)
  <2>1. Went(a, "done")
    BY <1>10, FinishWent DEF ReconcileFails
  <2> QED BY <1>2, <1>10, <2>1 DEF ReconcileFails, Went, KeepsObject, ForPolicy
<1>11. CASE Cleanup(a)
  <2>1. Went(a, "done")
    BY <1>2, <1>11, GoesWent DEF Cleanup
  <2> QED BY <1>2, <1>11, <2>1 DEF Cleanup, Went, KeepsObject, ForPolicy
<1>12. CASE Stop(a)
  <2>1. Went(a, "done")
    BY <1>12, FinishWent DEF Stop
  <2> QED BY <1>2, <1>12, <2>1 DEF Stop, Went, KeepsObject, ForPolicy
<1> QED BY <1>4, <1>5, <1>6, <1>7, <1>8, <1>9, <1>10, <1>11, <1>12

\* An attempt on its way stages its object before it can become a document.
LEMMA GoingKeepsObject ==
    ASSUME UploadInv, NEW a \in Attempts, KeepsObject(a),
           \/ Admit(a) \/ CheckPolicy(a) \/ Stage(a) \/ LockGrant(a) \/ LockPolicy(a)
           \/ CommitCompletion(a) \/ LoseConnection(a) \/ AbortCompletion(a)
    PROVE  KeepsObject(a)' /\ \E pc \in PC : Went(a, pc)
<1> USE DEF UploadInv
<1>1. attempt[a] \in Attempt /\ doc \in [Attempts -> {"none", "pending", "decided", "failed", "archived"}]
  BY DEF TypeOK
<1>2. /\ attempt[a].pc \in {"idle", "admitted", "streaming", "completing", "grantTx", "policyTx"}
         => a \notin inDoubt /\ doc[a] = "none"
      /\ {"admitted", "streaming", "completing", "grantTx", "policyTx", "failed", "cleanup", "done"}
         \subseteq PC
  BY DEF AttemptsFollowGrants, InTransaction, PC
<1>3. CASE Admit(a)
  <2>1. Went(a, "admitted") \/ Went(a, "streaming")
    BY <1>2, <1>3, GoesWent DEF Admit
  <2> QED BY <1>2, <1>3, <2>1 DEF Admit, Went, KeepsObject, ForPolicy
<1>4. CASE CheckPolicy(a)
  <2>1. Went(a, "streaming") \/ Went(a, "done")
    BY <1>2, <1>4, GoesWent, FinishWent DEF CheckPolicy
  <2> QED BY <1>2, <1>4, <2>1 DEF CheckPolicy, Went, KeepsObject, ForPolicy
<1>5. CASE Stage(a)
  <2>1. Went(a, "cleanup") \/ Went(a, "completing")
    <3>1. CASE a \in Faulty
      BY <1>5, <3>1, CleanupWent DEF Stage
    <3>2. CASE a \notin Faulty
      BY <1>1, <1>5, <3>2 DEF Stage, Went, TypeOK, Attempt
    <3> QED BY <3>1, <3>2
  <2> QED BY <1>2, <1>5, <2>1 DEF Stage, Went, KeepsObject, ForPolicy
<1>6. CASE LockGrant(a)
  <2>1. Went(a, "grantTx")
    BY <1>1, <1>6 DEF LockGrant, Went, TypeOK, Attempt
  <2> QED BY <1>2, <1>6, <2>1 DEF LockGrant, Went, KeepsObject, ForPolicy
<1>7. CASE LockPolicy(a)
  <2>1. Went(a, "policyTx") \/ Went(a, "cleanup")
    BY <1>2, <1>7, GoesWent, CleanupWent DEF LockPolicy
  <2> QED BY <1>2, <1>7, <2>1 DEF LockPolicy, Went, KeepsObject, ForPolicy
<1>8. CASE CommitCompletion(a)
  <2>1. Went(a, "done")
    BY <1>8, FinishWent DEF CommitCompletion
  <2>2. attempt[a].pc \in {"grantTx", "policyTx"} /\ doc' = [doc EXCEPT ![a] = "pending"]
    BY <1>8 DEF CommitCompletion, ReadyToComplete, SaveCompletion
  <2> QED BY <1>1, <1>2, <1>8, <2>1, <2>2 DEF CommitCompletion, Went, KeepsObject, ForPolicy
<1>9. CASE LoseConnection(a)
  <2>1. Went(a, "failed") /\ attempt[a].pc \in {"grantTx", "policyTx"}
    BY <1>2, <1>9, GoesWent DEF LoseConnection, ReadyToComplete
  <2> QED BY <1>2, <1>9, <2>1 DEF LoseConnection, Went, KeepsObject, ForPolicy
<1>10. CASE AbortCompletion(a)
  <2>1. Went(a, "failed")
    BY <1>2, <1>10, GoesWent DEF AbortCompletion
  <2> QED BY <1>2, <1>10, <2>1 DEF AbortCompletion, Went, KeepsObject, ForPolicy
<1> QED BY <1>3, <1>4, <1>5, <1>6, <1>7, <1>8, <1>9, <1>10

\* Every step keeps the objects of policy documents.
LEMMA NextObjectsKept ==
    ASSUME UploadInv, ~LateCommits, ObjectsKept, [Next]_vars
    PROVE  ObjectsKept'
<1> USE DEF UploadInv
<1>1. ASSUME NEW a \in Attempts, AttemptStep(a) \/ Stop(a) PROVE ObjectsKept'
  <2>1. KeepsObject(a)' /\ \E pc \in PC : Went(a, pc)
    BY <1>1, EndingKeepsObject, GoingKeepsObject DEF AttemptStep, ObjectsKept
  <2>2. \A b \in Attempts : b # a => /\ doc'[b] = doc[b]
                                     /\ b \in staged' <=> b \in staged
                                     /\ b \in inDoubt' <=> b \in inDoubt
    BY <1>1 DEF TypeOK, AttemptStep, Admit, ReplayAtOnce, CheckPolicy, Refuse, Stage,
                LockGrant, LoseRace, RefuseInTransaction, LockPolicy, CommitCompletion, LoseConnection,
                AbortCompletion, GiveUpEvidence, Reconcile, ReconcileFails, Cleanup, Stop, SaveCompletion
  <2> QED BY <2>1, <2>2, OthersKeepObjects DEF Went
<1>2. ASSUME NEW a \in Attempts, CommitLands(a) PROVE ObjectsKept'
  <2>1. doc[a] = "none" /\ a \in inDoubt
    BY <1>2 DEF CommitLands, AttemptsFollowGrants, InTransaction
  <2>2. KeepsObject(a)'
    BY <1>2, <2>1 DEF ObjectsKept, KeepsObject, CommitLands, SaveCompletion, ForPolicy, TypeOK
  <2> QED BY <1>2, <2>2, OthersKeepObjects DEF CommitLands, SaveCompletion, TypeOK
<1>3. ASSUME NEW a \in Attempts, CommitVanishes(a) PROVE ObjectsKept'
  BY <1>3 DEF CommitVanishes, ObjectsKept, KeepsObject, ForPolicy
<1>4. ASSUME NEW a \in Attempts, Process(a) PROVE ObjectsKept'
  BY <1>4 DEF Process, ObjectsKept, KeepsObject, ForPolicy, TypeOK
<1>5. ASSUME NEW a \in Attempts, ArchiveDocument(a) PROVE ObjectsKept'
  BY <1>5 DEF ArchiveDocument, ObjectsKept, KeepsObject, ForPolicy, TypeOK
<1>6. CASE \/ Tick \/ \E g \in Grants : Issue(g)
           \/ \E p \in Policies : ArchivePolicy(p)
           \/ UNCHANGED vars
  BY <1>6 DEF Tick, Issue, ArchivePolicy, vars, ObjectsKept, KeepsObject, ForPolicy
<1> QED BY <1>1, <1>2, <1>3, <1>4, <1>5, <1>6 DEF Next

\* Where the service reads the grant again after a failed completion, and the
\* server has decided by then, no cleanup deletes the object of an accepted
\* policy document.
THEOREM PolicyObjectsKept ==
    ASSUME ~LateCommits
    PROVE  Spec => []PolicyKeepsObject
<1>1. Init => ObjectsKept
  BY DEF Init, ObjectsKept, KeepsObject
<1>2. UploadInv /\ ObjectsKept /\ [Next]_vars => ObjectsKept'
  BY NextObjectsKept
<1>3. ObjectsKept => PolicyKeepsObject
  BY DEF ObjectsKept, KeepsObject, PolicyKeepsObject
<1> QED BY <1>1, <1>2, <1>3, UploadsCorrect, PTL DEF Spec

=============================================================================
