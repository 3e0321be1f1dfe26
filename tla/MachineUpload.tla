--------------------------- MODULE MachineUpload ---------------------------
(***************************************************************************)
(* Machine upload grants: an agent asks for a short-lived grant for one     *)
(* declared file, for a policy or for a preallocated evidence submission,   *)
(* and its runtime transfers the file, retrying as it likes.  Attempts of   *)
(* one grant run concurrently; the grant row is read without a lock when an *)
(* attempt starts and under its lock when it completes.                     *)
(*                                                                         *)
(* The connection may break while the server commits.  For evidence the     *)
(* service then deletes what the attempt staged; for policies it first      *)
(* reads the grant again to find out who completed it.                      *)
(*                                                                         *)
(* What happens to an accepted document afterwards is DocumentPipeline;     *)
(* here it is one step that needs the staged object.                        *)
(***************************************************************************)
EXTENDS Naturals

CONSTANTS Grants, Policies, Submissions,
          TargetOf,    \* the policy or submission each grant is for
          Attempts, GrantOf,
          Faulty,      \* attempts whose bytes differ from the declaration
          Ttl,         \* GRANT_TTL
          MaxTime,     \* bound on the clock
          LateCommits, \* whether a commit may land after its request gave up
          NoAttempt

ASSUME GrantsAssumption ==
          /\ TargetOf \in [Grants -> Policies \cup Submissions]
          /\ Policies \cap Submissions = {}
          /\ \A g, h \in Grants : TargetOf[g] = TargetOf[h] /\ TargetOf[g] \in Submissions => g = h
          /\ GrantOf \in [Attempts -> Grants]
          /\ Faulty \subseteq Attempts
          /\ NoAttempt \notin Attempts
          /\ Ttl \in Nat \ {0} /\ MaxTime \in Nat /\ LateCommits \in BOOLEAN

VARIABLES now,      \* the clock
          grant,    \* the grant rows
          attempt,  \* the requests that transfer the file
          staged,   \* attempts whose object is in quarantine; keys are never shared
          doc,      \* the document each attempt created, if any
          inDoubt,  \* attempts whose transaction the server has yet to end
          retired   \* policies with archived_at set

vars == <<now, grant, attempt, staged, doc, inDoubt, retired>>

-----------------------------------------------------------------------------
Grant == [state : {"none", "pending", "completed"}, issued : Nat, expires : Nat,
          by : Attempts \cup {NoAttempt}, at : Nat]
NoGrant == [state |-> "none", issued |-> 0, expires |-> 0, by |-> NoAttempt, at |-> 0]

PC == {"idle", "admitted", "streaming", "completing", "grantTx", "policyTx",
       "failed", "cleanup", "done"}
Attempt == [pc : PC, at : Nat, seen : Grant,
            answer : {"none", "created", "replayed", "refused", "error"},
            names : Attempts \cup {NoAttempt}]

\* Types, and every grant row can be read back: rehydrate refuses one whose
\* completion lacks its document or lies outside its lifetime, although the time
\* was taken before the transaction waited for its lock.
TypeOK ==
    /\ now \in 0 .. MaxTime
    /\ grant \in [Grants -> Grant]
    /\ attempt \in [Attempts -> Attempt]
    /\ staged \subseteq Attempts
    /\ doc \in [Attempts -> {"none", "pending", "decided", "failed", "archived"}]
    /\ inDoubt \subseteq Attempts
    /\ retired \subseteq Policies
    /\ \A g \in Grants :
          /\ grant[g].state = "completed" <=> grant[g].by # NoAttempt
          /\ grant[g].state = "completed" =>
                grant[g].issued <= grant[g].at /\ grant[g].at < grant[g].expires

Init ==
    /\ now = 0
    /\ grant = [g \in Grants |-> NoGrant]
    /\ attempt = [a \in Attempts |-> [pc |-> "idle", at |-> 0, seen |-> NoGrant,
                                      answer |-> "none", names |-> NoAttempt]]
    /\ staged = {}
    /\ doc = [a \in Attempts |-> "none"]
    /\ inDoubt = {}
    /\ retired = {}

-----------------------------------------------------------------------------
ForPolicy(g) == TargetOf[g] \in Policies
Target(a)    == TargetOf[GrantOf[a]]

\* Mutant: the completing transaction reads the grant without FOR UPDATE.
GrantReadUnlocked(g) == TRUE

\* Mutant: a request that is dropped leaves its transaction open.
LockedByDropped(g) ==
    \A a \in Attempts :
        \/ attempt[a].pc \in {"grantTx", "policyTx"}
        \/ a \in inDoubt
        \/ attempt[a].pc = "done" /\ attempt[a].answer = "none"
        => GrantOf[a] # g

\* The row locks of open completing transactions; one in doubt keeps its locks.
GrantLockFree(g) ==
    \A a \in Attempts :
        attempt[a].pc \in {"grantTx", "policyTx"} \/ a \in inDoubt => GrantOf[a] # g
PolicyLockFree(p) ==
    \A a \in Attempts : attempt[a].pc = "policyTx" \/ a \in inDoubt => Target(a) # p

\* lock_document_upload_eligibility: the policy is active, without a current document.
Eligible(p) ==
    /\ p \notin retired
    /\ \A a \in Attempts : Target(a) = p => doc[a] \in {"none", "archived"}

\* Mutant: a grant still completes at the instant it expires.
InTimeOrAtExpiry(row, time) == time <= row.expires

\* completed_document_at refuses a grant once the clock reaches expires_at.
InTime(row, time) == time < row.expires

Tick == /\ now < MaxTime
        /\ now' = now + 1
        /\ UNCHANGED <<grant, attempt, staged, doc, inDoubt, retired>>

-----------------------------------------------------------------------------
(* The grant, the policy and the document outside an attempt                *)

\* The grant is dated before its transaction waits for the policy and commits.
Issue(g) ==
    /\ grant[g].state = "none"
    /\ ForPolicy(g) => PolicyLockFree(TargetOf[g]) /\ Eligible(TargetOf[g])
    /\ \E t \in 0 .. now :
           grant' = [grant EXCEPT ![g] = [NoGrant EXCEPT !.state = "pending", !.issued = t,
                                                         !.expires = t + Ttl]]
    /\ UNCHANGED <<now, attempt, staged, doc, inDoubt, retired>>

\* The pipeline decides the document: it needs the staged object, and removes
\* it after a successful finalization.
Process(a) ==
    /\ doc[a] = "pending"
    /\ doc' = [doc EXCEPT ![a] = IF a \in staged THEN "decided" ELSE "failed"]
    /\ staged' \in {staged, staged \ {a}}
    /\ UNCHANGED <<now, grant, attempt, inDoubt, retired>>

ArchiveDocument(a) ==
    /\ doc[a] \in {"decided", "failed"}
    /\ doc' = [doc EXCEPT ![a] = "archived"]
    /\ UNCHANGED <<now, grant, attempt, staged, inDoubt, retired>>

ArchivePolicy(p) ==
    /\ PolicyLockFree(p)
    /\ \A a \in Attempts : Target(a) = p => doc[a] # "pending"
    /\ retired' = retired \cup {p}
    /\ UNCHANGED <<now, grant, attempt, staged, doc, inDoubt>>

-----------------------------------------------------------------------------
(* An attempt up to its staged object                                       *)

Goto(a, pc) == attempt' = [attempt EXCEPT ![a].pc = pc]

\* The request is answered, naming a document or none.
Finish(a, answer, named) ==
    attempt' = [attempt EXCEPT ![a] = [@ EXCEPT !.pc = "done", !.answer = answer, !.names = named]]

\* The answer is known; the staged object is removed before it is given.
FinishAfterCleanup(a, answer, named) ==
    attempt' = [attempt EXCEPT ![a] = [@ EXCEPT !.pc = "cleanup", !.answer = answer, !.names = named]]

\* The credential names the grant, the grant is pending and in time.
Admit(a) ==
    /\ attempt[a].pc = "idle"
    /\ grant[GrantOf[a]].state = "pending"
    /\ InTime(grant[GrantOf[a]], now)
    /\ Goto(a, IF ForPolicy(GrantOf[a]) THEN "admitted" ELSE "streaming")
    /\ UNCHANGED <<now, grant, staged, doc, inDoubt, retired>>

\* The grant is completed already: the stored result is loaded and returned.
ReplayAtOnce(a) ==
    /\ attempt[a].pc = "idle"
    /\ grant[GrantOf[a]].state = "completed"
    /\ InTime(grant[GrantOf[a]], now)
    /\ Finish(a, "replayed", grant[GrantOf[a]].by)
    /\ UNCHANGED <<now, grant, staged, doc, inDoubt, retired>>

\* ensure_policy_eligible, in a transaction of its own.
CheckPolicy(a) ==
    /\ attempt[a].pc = "admitted"
    /\ PolicyLockFree(Target(a))
    /\ IF Eligible(Target(a)) THEN Goto(a, "streaming") ELSE Finish(a, "refused", NoAttempt)
    /\ UNCHANGED <<now, grant, staged, doc, inDoubt, retired>>

\* The grant is unknown or expired, the request does not match its
\* declaration, or the database or the stream failed before anything stayed.
Refuse(a) ==
    /\ attempt[a].pc \in {"idle", "admitted", "streaming"}
    /\ Finish(a, "refused", NoAttempt)
    /\ UNCHANGED <<now, grant, staged, doc, inDoubt, retired>>

\* The bytes are in quarantine.  The completion time is taken here, before
\* the transaction waits for its connection and its locks.
Stage(a) ==
    /\ attempt[a].pc = "streaming"
    /\ staged' = staged \cup {a}
    /\ IF a \in Faulty
       THEN FinishAfterCleanup(a, "refused", NoAttempt)
       ELSE attempt' = [attempt EXCEPT ![a] = [@ EXCEPT !.pc = "completing", !.at = now]]
    /\ UNCHANGED <<now, grant, doc, inDoubt, retired>>

-----------------------------------------------------------------------------
(* The completing transaction                                               *)

LockGrant(a) ==
    /\ attempt[a].pc = "completing"
    /\ GrantLockFree(GrantOf[a])
    /\ attempt' = [attempt EXCEPT ![a] = [@ EXCEPT !.pc = "grantTx", !.seen = grant[GrantOf[a]]]]
    /\ UNCHANGED <<now, grant, staged, doc, inDoubt, retired>>

\* Another attempt was faster; its document is loaded after the transaction.
LoseRace(a) ==
    LET seen == attempt[a].seen
    IN  /\ attempt[a].pc = "grantTx"
        /\ InTime(seen, attempt[a].at)
        /\ seen.state = "completed"
        /\ \/ FinishAfterCleanup(a, "replayed", seen.by)
           \/ FinishAfterCleanup(a, "error", NoAttempt)
        /\ UNCHANGED <<now, grant, staged, doc, inDoubt, retired>>

SubmissionFree(a) == \A b \in Attempts : Target(b) = Target(a) => doc[b] = "none"

\* The grant has expired, or its submission exists already.
RefuseInTransaction(a) ==
    LET seen == attempt[a].seen
    IN  /\ attempt[a].pc = "grantTx"
        /\ ~ /\ InTime(seen, attempt[a].at)
             /\ seen.state = "pending" /\ ~ForPolicy(GrantOf[a]) => SubmissionFree(a)
        /\ FinishAfterCleanup(a, "refused", NoAttempt)
        /\ UNCHANGED <<now, grant, staged, doc, inDoubt, retired>>

LockPolicy(a) ==
    LET seen == attempt[a].seen
    IN  /\ attempt[a].pc = "grantTx" /\ ForPolicy(GrantOf[a])
        /\ InTime(seen, attempt[a].at) /\ seen.state = "pending"
        /\ PolicyLockFree(Target(a))
        /\ IF Eligible(Target(a)) THEN Goto(a, "policyTx")
                                  ELSE FinishAfterCleanup(a, "refused", NoAttempt)
        /\ UNCHANGED <<now, grant, staged, doc, inDoubt, retired>>

\* The handler has only its writes and the commit left.
ReadyToComplete(a) ==
    LET seen == attempt[a].seen
    IN  \/ attempt[a].pc = "policyTx"
        \/ /\ attempt[a].pc = "grantTx" /\ ~ForPolicy(GrantOf[a])
           /\ InTime(seen, attempt[a].at) /\ seen.state = "pending"
           /\ SubmissionFree(a)

\* AgentEvidenceUploadGrant::complete on the snapshot, saved with the document.
SaveCompletion(a) ==
    /\ grant' = [grant EXCEPT ![GrantOf[a]] =
                   [attempt[a].seen EXCEPT !.state = "completed", !.by = a, !.at = attempt[a].at]]
    /\ doc' = [doc EXCEPT ![a] = "pending"]

CommitCompletion(a) ==
    /\ ReadyToComplete(a)
    /\ SaveCompletion(a)
    /\ Finish(a, "created", a)
    /\ UNCHANGED <<now, staged, inDoubt, retired>>

\* The connection breaks during the commit: the request sees an error, the
\* server ends the transaction one way or the other.
LoseConnection(a) ==
    /\ ReadyToComplete(a)
    /\ Goto(a, "failed")
    /\ inDoubt' = inDoubt \cup {a}
    /\ UNCHANGED <<now, grant, staged, doc, retired>>

CommitLands(a) ==
    /\ a \in inDoubt
    /\ SaveCompletion(a)
    /\ inDoubt' = inDoubt \ {a}
    /\ UNCHANGED <<now, attempt, staged, retired>>

CommitVanishes(a) ==
    /\ a \in inDoubt
    /\ inDoubt' = inDoubt \ {a}
    /\ UNCHANGED <<now, grant, attempt, staged, doc, retired>>

AbortCompletion(a) ==
    /\ attempt[a].pc \in {"completing", "grantTx", "policyTx"}
    /\ Goto(a, "failed")
    /\ UNCHANGED <<now, grant, staged, doc, inDoubt, retired>>

-----------------------------------------------------------------------------
(* After the transaction                                                    *)

\* Unless commits may be late, the server has decided before the request looks.
Settled(a) == LateCommits \/ a \notin inDoubt

\* The evidence service takes a database error for a rollback.
GiveUpEvidence(a) ==
    /\ Settled(a)
    /\ attempt[a].pc = "failed" /\ ~ForPolicy(GrantOf[a])
    /\ FinishAfterCleanup(a, "error", NoAttempt)
    /\ UNCHANGED <<now, grant, staged, doc, inDoubt, retired>>

\* Mutant: the policy service does the same.
GiveUpPolicy(a) ==
    /\ Settled(a)
    /\ attempt[a].pc = "failed" /\ ForPolicy(GrantOf[a])
    /\ FinishAfterCleanup(a, "error", NoAttempt)
    /\ UNCHANGED <<now, grant, staged, doc, inDoubt, retired>>

\* Mutant: whoever completed the grant, this attempt claims the document.
ClaimCompletion(a) ==
    /\ Settled(a)
    /\ attempt[a].pc = "failed" /\ ForPolicy(GrantOf[a])
    /\ IF grant[GrantOf[a]].state = "completed"
       THEN Finish(a, "created", a) ELSE FinishAfterCleanup(a, "error", NoAttempt)
    /\ UNCHANGED <<now, grant, staged, doc, inDoubt, retired>>

\* reconcile_failed_completion: who, if anyone, completed the grant?  The read
\* takes no lock and does not wait for a transaction in doubt.
Reconcile(a) ==
    LET row == grant[GrantOf[a]]
    IN  /\ attempt[a].pc = "failed" /\ ForPolicy(GrantOf[a])
        /\ Settled(a)
        /\ CASE row.state # "completed" -> FinishAfterCleanup(a, "error", NoAttempt)
             [] row.by = a              -> Finish(a, "created", a)
             [] OTHER                   -> FinishAfterCleanup(a, "replayed", row.by)
        /\ UNCHANGED <<now, grant, staged, doc, inDoubt, retired>>

\* The reconciling read fails too: the staged object is preserved.
ReconcileFails(a) ==
    /\ attempt[a].pc = "failed" /\ ForPolicy(GrantOf[a])
    /\ Finish(a, "error", NoAttempt)
    /\ UNCHANGED <<now, grant, staged, doc, inDoubt, retired>>

\* delete_staged: a failure is only recorded.
Cleanup(a) ==
    /\ attempt[a].pc = "cleanup"
    /\ Goto(a, "done")
    /\ staged' \in {staged, staged \ {a}}
    /\ UNCHANGED <<now, grant, doc, inDoubt, retired>>

\* The client goes away or the process stops: the request ends where it is.
Stop(a) ==
    /\ attempt[a].pc \notin {"idle", "done"}
    /\ Finish(a, "none", NoAttempt)
    /\ UNCHANGED <<now, grant, staged, doc, inDoubt, retired>>

-----------------------------------------------------------------------------
AttemptStep(a) == \/ Admit(a) \/ ReplayAtOnce(a) \/ CheckPolicy(a) \/ Refuse(a) \/ Stage(a)
                  \/ LockGrant(a) \/ LoseRace(a) \/ RefuseInTransaction(a) \/ LockPolicy(a)
                  \/ CommitCompletion(a) \/ LoseConnection(a) \/ AbortCompletion(a)
                  \/ GiveUpEvidence(a) \/ Reconcile(a) \/ ReconcileFails(a) \/ Cleanup(a)

Next == \/ Tick
        \/ \E g \in Grants : Issue(g)
        \/ \E p \in Policies : ArchivePolicy(p)
        \/ \E a \in Attempts : \/ Process(a)
                               \/ ArchiveDocument(a)
                               \/ CommitLands(a)
                               \/ CommitVanishes(a)
                               \/ AttemptStep(a)
                               \/ Stop(a)

Spec == Init /\ [][Next]_vars

\* A request that owes nothing to its client runs on: it gets a lock once the
\* holder is done, and the server ends every transaction.  No step of a client
\* is forced, and no failure: nothing times out a wait for a lock.
Running(a) == \/ CheckPolicy(a) \/ LockGrant(a) \/ LoseRace(a) \/ RefuseInTransaction(a)
              \/ LockPolicy(a) \/ CommitCompletion(a) \/ GiveUpEvidence(a) \/ Reconcile(a)
              \/ Cleanup(a)

FairSpec == Spec /\ \A a \in Attempts : /\ WF_vars(Running(a))
                                        /\ WF_vars(CommitLands(a) \/ CommitVanishes(a))

-----------------------------------------------------------------------------
(* Properties                                                               *)

\* "Attempts may fail or race, but at most one completes the grant": the grant
\* has one document, whichever attempts wait for its lock, and names it.
AtMostOneCompletes ==
    \A a \in Attempts : doc[a] # "none" =>
        /\ grant[GrantOf[a]].state = "completed"
        /\ grant[GrantOf[a]].by = a

\* A retry is told about the document that exists: every answer that names a
\* document, created, replayed or reconciled, names the grant's own.
AnswersAgree ==
    \A a \in Attempts : attempt[a].names # NoAttempt =>
        /\ grant[GrantOf[a]].state = "completed"
        /\ attempt[a].names = grant[GrantOf[a]].by
        /\ doc[attempt[a].names] # "none"

\* No cleanup deletes the object of a document that was accepted, whatever the
\* attempt was told about its commit.
AcceptedKeepsObject == \A a \in Attempts : doc[a] = "pending" => a \in staged

\* Where the service asks again after a failure, that is so.
PolicyKeepsObject ==
    \A a \in Attempts : ForPolicy(GrantOf[a]) /\ doc[a] = "pending" => a \in staged

\* Waiting for the locks of other attempts ends: a request that is not waiting
\* for its client is answered, or gets to its client's bytes.
AttemptsEnd == \A a \in Attempts :
    attempt[a].pc # "idle" ~> attempt[a].pc \in {"streaming", "done"}

=============================================================================
