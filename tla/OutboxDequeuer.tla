--------------------------- MODULE OutboxDequeuer ---------------------------
(***************************************************************************)
(* The outbox dequeuer: every poll lists a batch of due rows, oldest first, *)
(* publishes them one after the other and deletes each one the bus took; a  *)
(* row it did not take comes up again after a growing delay, for ever.      *)
(* A database error ends the process, which is started again.              *)
(*                                                                         *)
(* One dequeuer is deployed; two overlap while a deployment replaces it.    *)
(* Times are kept relative to the clock: due[r] is next_available_at - now, *)
(* negative once the row waits.  What the bus does with a message is        *)
(* DocumentPipeline.                                                        *)
(***************************************************************************)
EXTENDS Integers, FiniteSets, Sequences

CONSTANTS Rows,          \* the ids of the messages that are ever appended
          Failing,       \* rows the bus never takes
          Dequeuers,
          BatchSize, MaxAttempts, InitialDelay, MaxDelay,   \* OutboxDequeuerConfig
          Period,        \* a dequeuer polls again within this many ticks
          MaxExits,      \* bound on the times a dequeuer ends
          MaxLag         \* bound on how late a row is counted to be

ASSUME OutboxAssumption ==
    /\ Rows \subseteq Nat /\ IsFiniteSet(Rows) /\ Failing \subseteq Rows
    /\ IsFiniteSet(Dequeuers) /\ Dequeuers # {}
    /\ {BatchSize, InitialDelay, MaxDelay, Period} \subseteq Nat \ {0}
    /\ MaxAttempts \in Nat /\ MaxExits \in Nat /\ MaxLag \in Nat

\* The factors of RetryDelay; TLC evaluates it in full, the provers know no powers.
ASSUME PowersOfTwo == \A k \in 0 .. 30 : 2 ^ k \in Nat \ {0}

VARIABLES row,      \* whether each message is yet to come, in the table, or deleted
          due,      \* next_available_at, relative to now
          attempts, \* attempt_count, up to MaxAttempts: no more is told apart
          phase, batch, \* what each dequeuer does, and the rows it has left
          age,      \* ticks since each dequeuer's last poll
          acked,    \* how often the bus took each message
          exits

vars == <<row, due, attempts, phase, batch, age, acked, exits>>

-----------------------------------------------------------------------------
Snapshot == [id : Rows, attempts : 0 .. MaxAttempts]

TypeOK ==
    /\ row \in [Rows -> {"new", "queued", "deleted"}]
    /\ due \in [Rows -> Int]
    /\ attempts \in [Rows -> 0 .. MaxAttempts]
    /\ phase \in [Dequeuers -> {"idle", "publishing", "deleting", "recording", "down"}]
    /\ batch \in [Dequeuers -> Seq(Snapshot)]
    /\ \A d \in Dequeuers : /\ Len(batch[d]) <= BatchSize
                            /\ batch[d] = <<>> <=> phase[d] \in {"idle", "down"}
    /\ age \in [Dequeuers -> 0 .. Period]
    /\ acked \in [Rows -> Nat]
    /\ exits \in 0 .. MaxExits

Init ==
    /\ row = [r \in Rows |-> "new"]
    /\ due = [r \in Rows |-> 0]
    /\ attempts = [r \in Rows |-> 0]
    /\ phase = [d \in Dequeuers |-> "idle"]
    /\ batch = [d \in Dequeuers |-> <<>>]
    /\ age = [d \in Dequeuers |-> 0]
    /\ acked = [r \in Rows |-> 0]
    /\ exits = 0

-----------------------------------------------------------------------------
Least(a, b) == IF a <= b THEN a ELSE b

\* retry_delay: the exponent is clamped so that the factor fits 32 bits.
RetryDelay(n) == Least(InitialDelay * 2 ^ Least(n, 30), MaxDelay)

\* The delay after a failure of a row that had failed n times before.
NextDelay(n) == IF n + 1 >= MaxAttempts THEN MaxDelay ELSE RetryDelay(n)

\* Mutant: ORDER BY id.
BeforeById(r, q) == r < q

\* ORDER BY next_available_at, id
Before(r, q) == due[r] < due[q] \/ (due[r] = due[q] /\ r < q)

\* Mutant: rows that used up their attempts are no longer listed.
DueWithAttemptsLeft ==
    {r \in Rows : row[r] = "queued" /\ due[r] <= 0 /\ attempts[r] < MaxAttempts}

DueRows == {r \in Rows : row[r] = "queued" /\ due[r] <= 0}

\* list_due_outbox_messages: the first BatchSize due rows, in that order.
Listed(rows) ==
    /\ \A i, j \in DOMAIN rows : i < j => Before(rows[i], rows[j])
    /\ \A r \in DueRows : \A i \in DOMAIN rows :
          Before(r, rows[i]) => \E j \in DOMAIN rows : rows[j] = r

-----------------------------------------------------------------------------
\* append_outbox_message, in the transaction of the command.
AppendMessage(r) ==
    /\ row[r] = "new"
    /\ row' = [row EXCEPT ![r] = "queued"]
    /\ due' = [due EXCEPT ![r] = 0]
    /\ UNCHANGED <<attempts, phase, batch, age, acked, exits>>

\* Time passes, for a dequeuer never longer than Period without a poll.
Tick ==
    /\ \A d \in Dequeuers : age[d] < Period
    /\ age' = [d \in Dequeuers |-> age[d] + 1]
    /\ due' = [r \in Rows |-> IF row[r] = "queued" /\ due[r] > -MaxLag
                               THEN due[r] - 1 ELSE due[r]]
    /\ UNCHANGED <<row, attempts, phase, batch, acked, exits>>

Poll(d) ==
    /\ phase[d] = "idle"
    /\ \E rows \in [1 .. Least(BatchSize, Cardinality(DueRows)) -> DueRows] :
          /\ Listed(rows)
          /\ batch' = [batch EXCEPT ![d] =
                         [i \in DOMAIN rows |-> [id |-> rows[i], attempts |-> attempts[rows[i]]]]]
    /\ phase' = [phase EXCEPT ![d] = IF DueRows = {} THEN "idle" ELSE "publishing"]
    /\ age' = [age EXCEPT ![d] = 0]
    /\ UNCHANGED <<row, due, attempts, acked, exits>>

Current(d) == Head(batch[d])

PublishSucceeds(d) ==
    /\ phase[d] = "publishing"
    /\ Current(d).id \notin Failing
    /\ acked' = [acked EXCEPT ![Current(d).id] = @ + 1]
    /\ phase' = [phase EXCEPT ![d] = "deleting"]
    /\ UNCHANGED <<row, due, attempts, batch, age, exits>>

PublishFails(d) ==
    /\ phase[d] = "publishing"
    /\ phase' = [phase EXCEPT ![d] = "recording"]
    /\ UNCHANGED <<row, due, attempts, batch, age, acked, exits>>

\* The for loop goes on to the next row of the batch.
NextRow(d) ==
    /\ batch' = [batch EXCEPT ![d] = Tail(@)]
    /\ phase' = [phase EXCEPT ![d] = IF Len(batch[d]) = 1 THEN "idle" ELSE "publishing"]

\* Mutant: a delete that fails is logged and the loop goes on.
DeleteIgnored(d) ==
    /\ phase[d] = "deleting"
    /\ NextRow(d)
    /\ UNCHANGED <<row, due, attempts, age, acked, exits>>

\* delete_outbox_message: the row may be gone already.
Delete(d) ==
    /\ phase[d] = "deleting"
    /\ row' = [row EXCEPT ![Current(d).id] = "deleted"]
    /\ NextRow(d)
    /\ UNCHANGED <<due, attempts, age, acked, exits>>

\* Mutant: a row that used up its attempts is given up.
DropExhausted(d) ==
    LET r == Current(d).id
    IN  /\ phase[d] = "recording"
        /\ row' = [row EXCEPT ![r] = IF Current(d).attempts + 1 >= MaxAttempts THEN "deleted" ELSE @]
        /\ attempts' = [attempts EXCEPT ![r] = Least(@ + 1, MaxAttempts)]
        /\ due' = [due EXCEPT ![r] = NextDelay(Current(d).attempts) - age[d]]
        /\ NextRow(d)
        /\ UNCHANGED <<age, acked, exits>>

\* record_outbox_publish_failure: the delay counts from the poll and from the
\* snapshot's attempts, the increment from the row, if it is still there.
RecordFailure(d) ==
    LET r == Current(d).id
    IN  /\ phase[d] = "recording"
        /\ IF row[r] = "queued"
           THEN /\ attempts' = [attempts EXCEPT ![r] = Least(@ + 1, MaxAttempts)]
                /\ due' = [due EXCEPT ![r] = NextDelay(Current(d).attempts) - age[d]]
           ELSE UNCHANGED <<attempts, due>>
        /\ NextRow(d)
        /\ UNCHANGED <<row, age, acked, exits>>

\* A database error ends the run and the process, and so does a shutdown.
Exit(d) ==
    /\ phase[d] # "down"
    /\ exits < MaxExits
    /\ exits' = exits + 1
    /\ phase' = [phase EXCEPT ![d] = "down"]
    /\ batch' = [batch EXCEPT ![d] = <<>>]
    /\ UNCHANGED <<row, due, attempts, age, acked>>

Restart(d) ==
    /\ phase[d] = "down"
    /\ phase' = [phase EXCEPT ![d] = "idle"]
    /\ UNCHANGED <<row, due, attempts, batch, age, acked, exits>>

Work(d) == \/ Poll(d) \/ PublishSucceeds(d) \/ PublishFails(d)
           \/ Delete(d) \/ RecordFailure(d) \/ Restart(d)

Next == \/ \E r \in Rows : AppendMessage(r)
        \/ Tick
        \/ \E d \in Dequeuers : Work(d) \/ Exit(d)

Spec == Init /\ [][Next]_vars

\* The interval keeps firing and the process is restarted; the bus takes a
\* message it is asked to take again and again, unless it never takes it.
FairSpec == /\ Spec
            /\ WF_vars(Tick)
            /\ \A d \in Dequeuers : WF_vars(Work(d))
            /\ \A d \in Dequeuers, r \in Rows \ Failing :
                  SF_vars(PublishSucceeds(d) /\ Current(d).id = r)

-----------------------------------------------------------------------------
(* Properties                                                               *)

\* Only what the bus took is deleted, whatever was tried how often, by whom.
DeletedWasPublished == \A r \in Rows : row[r] = "deleted" => acked[r] > 0

\* A message is a duplicate only because dequeuers overlap or one ended
\* between the publish and the delete.
DuplicatesAreBounded ==
    \A r \in Rows : acked[r] <= Cardinality(Dequeuers) + exits

\* The polls of one dequeuer that give every row a turn.
Polls == (Cardinality(Rows) + BatchSize - 1) \div BatchSize

\* Rows that keep failing hold up nobody, however many dequeuers overlap: a due
\* row waits a period for a poll, then for one turn of every row, batch by batch,
\* and a period for its own batch to be worked off; an exit costs one poll more.
WaitIsBounded ==
    \A r \in Rows : row[r] = "queued" => - due[r] <= (Polls + 2 + exits) * Period

\* A message the bus can take gets out, next to ones it never takes.
MessagesGetOut == \A r \in Rows \ Failing : row[r] = "queued" ~> row[r] = "deleted"

=============================================================================
