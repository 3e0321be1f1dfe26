------------------------ MODULE OutboxDequeuerProofs ------------------------
(***************************************************************************)
(* Proofs about OutboxDequeuer for any rows, dequeuers, batch size, delays  *)
(* and number of exits: OutboxInv is inductive, what is deleted was         *)
(* published, duplicates are bounded, and so is the wait of a due row.      *)
(*                                                                         *)
(* The argument for duplicates counts dequeuers.  While a row is in the     *)
(* table, every publish of it belongs to a dequeuer about to delete it or   *)
(* to one that ended; once it is deleted no dequeuer lists it any more, so  *)
(* only those that hold it in their batch can publish it again, once each.  *)
(*                                                                         *)
(* The argument for the wait counts the rows ahead of a row.  Once it has   *)
(* waited a period nothing gets ahead of it any more, and each poll of a    *)
(* dequeuer either lists it or lists a full batch of the rows ahead of it.  *)
(***************************************************************************)
EXTENDS OutboxDequeuer, FiniteSetTheorems, SequenceTheorems, TLAPS

\* The dequeuer holds the row in its batch.
Holds(d, r) == \E i \in DOMAIN batch[d] : batch[d][i].id = r

\* Dequeuers that published the row and have yet to delete it.
Publishers(r) == {d \in Dequeuers : phase[d] = "deleting" /\ Current(d).id = r}

\* Dequeuers that may yet publish the row they hold.
Pending(r) == {d \in Dequeuers : Holds(d, r)} \ Publishers(r)

\* A batch lists no row twice.
BatchesDistinct ==
    \A d \in Dequeuers : \A i, j \in DOMAIN batch[d] : batch[d][i].id = batch[d][j].id => i = j

\* A row that is yet to come is held by nobody and was never published.
NewRowsUntouched ==
    \A r \in Rows : row[r] = "new" => acked[r] = 0 /\ \A d \in Dequeuers : ~Holds(d, r)

\* A dequeuer deletes what it published.
DeletesPublished == \A d \in Dequeuers : phase[d] = "deleting" => acked[Current(d).id] > 0

\* Publishes of a row in the table, and of a deleted one.
PublishesCounted ==
    \A r \in Rows :
        /\ row[r] = "queued" => acked[r] <= exits + Cardinality(Publishers(r))
        /\ row[r] = "deleted" =>
              acked[r] + Cardinality(Pending(r)) <= exits + Cardinality(Dequeuers)

OutboxInv == /\ TypeOK /\ BatchesDistinct /\ NewRowsUntouched /\ DeletesPublished
             /\ PublishesCounted /\ DeletedWasPublished

-----------------------------------------------------------------------------
(* Arithmetic, batches and sets of dequeuers.                               *)

\* A delay is at least one tick.
LEMMA DelayTyped ==
    ASSUME NEW n \in 0 .. MaxAttempts
    PROVE  NextDelay(n) \in Nat \ {0}
<1> DEFINE power == 2 ^ Least(n, 30)
<1>1. Least(n, 30) \in 0 .. 30
  BY OutboxAssumption DEF Least
<1>2. power \in Nat \ {0}
  BY <1>1, PowersOfTwo
<1> HIDE DEF power
<1>3. Least(InitialDelay * power, MaxDelay) \in Nat \ {0}
  BY <1>2, OutboxAssumption DEF Least
<1> QED BY <1>3, OutboxAssumption DEF NextDelay, RetryDelay, power

\* The sets of dequeuers that are counted are finite.
LEMMA CountsFinite ==
    ASSUME NEW r
    PROVE  /\ IsFiniteSet(Publishers(r)) /\ Cardinality(Publishers(r)) \in Nat
           /\ IsFiniteSet(Pending(r)) /\ Cardinality(Pending(r)) \in Nat
           /\ Cardinality(Dequeuers) \in Nat
           /\ Cardinality(Publishers(r)) + Cardinality(Pending(r)) <= Cardinality(Dequeuers)
<1>1. IsFiniteSet(Dequeuers) /\ Publishers(r) \subseteq Dequeuers /\ Pending(r) \subseteq Dequeuers
  BY OutboxAssumption DEF Publishers, Pending
<1>2. IsFiniteSet(Publishers(r)) /\ IsFiniteSet(Pending(r))
  BY <1>1, FS_Subset
<1>3. Cardinality(Publishers(r) \cup Pending(r)) = Cardinality(Publishers(r)) + Cardinality(Pending(r))
  <2>1. Publishers(r) \cap Pending(r) = {}
    BY DEF Pending
  <2>2. Cardinality(Publishers(r) \cap Pending(r)) = 0
    BY <2>1, FS_EmptySet
  <2>3. Cardinality(Publishers(r)) \in Nat /\ Cardinality(Pending(r)) \in Nat
    BY <1>2, FS_CardinalityType
  <2>4. Cardinality(Publishers(r) \cup Pending(r)) =
            Cardinality(Publishers(r)) + Cardinality(Pending(r)) - Cardinality(Publishers(r) \cap Pending(r))
    BY <1>2, FS_Union
  <2> QED BY <2>2, <2>3, <2>4
<1>4. Cardinality(Publishers(r) \cup Pending(r)) <= Cardinality(Dequeuers)
  BY <1>1, FS_Subset
<1> QED BY <1>1, <1>2, <1>3, <1>4, FS_CardinalityType

\* The loop drops the first row of the batch and holds the others.
LEMMA NextRowEffect ==
    ASSUME TypeOK, BatchesDistinct, NEW d \in Dequeuers, NextRow(d),
           phase[d] \in {"deleting", "recording"}
    PROVE  /\ Current(d) \in Snapshot /\ Current(d).id \in Rows /\ Holds(d, Current(d).id)
           /\ batch' \in [Dequeuers -> Seq(Snapshot)]
           /\ phase' \in [Dequeuers -> {"idle", "publishing", "deleting", "recording", "down"}]
           /\ \A e \in Dequeuers : e # d => batch'[e] = batch[e] /\ phase'[e] = phase[e]
           /\ phase'[d] \in {"idle", "publishing"}
           /\ Len(batch'[d]) <= BatchSize /\ (batch'[d] = <<>> <=> phase'[d] = "idle")
           /\ \A i, j \in DOMAIN batch'[d] : batch'[d][i].id = batch'[d][j].id => i = j
           /\ \A r \in Rows : Holds(d, r)' <=> Holds(d, r) /\ r # Current(d).id
<1> DEFINE s == batch[d]
<1>1. s \in Seq(Snapshot) /\ s # <<>> /\ Len(s) <= BatchSize /\ Len(s) \in Nat
  <2>1. s \in Seq(Snapshot) /\ Len(s) <= BatchSize
    BY DEF TypeOK
  <2>2. s = <<>> <=> phase[d] \in {"idle", "down"}
    BY DEF TypeOK
  <2> QED BY <2>1, <2>2, LenProperties
<1>2. batch'[d] = Tail(s) /\ phase'[d] = IF Len(s) = 1 THEN "idle" ELSE "publishing"
  BY DEF NextRow, TypeOK
<1>3. \A i, j \in 1 .. Len(s) : s[i].id = s[j].id => i = j
  BY <1>1 DEF BatchesDistinct
<1> HIDE DEF s
<1>4. /\ Len(s) >= 1 /\ Head(s) = s[1] /\ s[1] \in Snapshot
      /\ Tail(s) \in Seq(Snapshot) /\ Len(Tail(s)) = Len(s) - 1
      /\ \A i \in 1 .. Len(s) - 1 : Tail(s)[i] = s[i + 1]
  BY <1>1
<1>5. DOMAIN Tail(s) = 1 .. Len(s) - 1 /\ DOMAIN s = 1 .. Len(s)
  BY <1>1, <1>4
<1>6. /\ Current(d) \in Snapshot /\ Current(d).id \in Rows /\ Holds(d, Current(d).id)
  BY <1>1, <1>4, <1>5 DEF Current, Holds, s, Snapshot
<1>7. /\ batch' \in [Dequeuers -> Seq(Snapshot)]
      /\ phase' \in [Dequeuers -> {"idle", "publishing", "deleting", "recording", "down"}]
      /\ \A e \in Dequeuers : e # d => batch'[e] = batch[e] /\ phase'[e] = phase[e]
  BY <1>4 DEF NextRow, TypeOK, s
<1>8. Len(batch'[d]) <= BatchSize /\ (batch'[d] = <<>> <=> phase'[d] = "idle")
  <2>1. Tail(s) = <<>> <=> Len(s) = 1
    <3>1. Tail(s) = <<>> <=> Len(Tail(s)) = 0
      BY <1>4, EmptySeq
    <3> QED BY <1>1, <1>4, <3>1
  <2> QED BY <1>1, <1>2, <1>4, <2>1, OutboxAssumption
<1>9. \A i, j \in DOMAIN batch'[d] : batch'[d][i].id = batch'[d][j].id => i = j
  BY <1>1, <1>2, <1>3, <1>4, <1>5
<1>10. ASSUME NEW r \in Rows
       PROVE  Holds(d, r)' <=> Holds(d, r) /\ r # Current(d).id
  <2>1. Holds(d, r)' <=> \E i \in 1 .. Len(s) - 1 : s[i + 1].id = r
    BY <1>2, <1>4, <1>5 DEF Holds
  <2>2. Holds(d, r) <=> \E i \in 1 .. Len(s) : s[i].id = r
    BY <1>5 DEF Holds, s
  <2>3. Current(d).id = s[1].id
    BY <1>4 DEF Current, s
  <2>4. ASSUME NEW i \in 1 .. Len(s) - 1, s[i + 1].id = r
        PROVE  (\E k \in 1 .. Len(s) : s[k].id = r) /\ r # s[1].id
    BY <1>1, <1>3, <2>4
  <2>5. ASSUME NEW k \in 1 .. Len(s), s[k].id = r, r # s[1].id
        PROVE  \E i \in 1 .. Len(s) - 1 : s[i + 1].id = r
    <3>1. k - 1 \in 1 .. Len(s) - 1 /\ (k - 1) + 1 = k
      BY <1>1, <2>5
    <3> QED BY <2>5, <3>1
  <2> QED BY <2>1, <2>2, <2>3, <2>4, <2>5
<1> QED BY <1>2, <1>6, <1>7, <1>8, <1>9, <1>10

\* What a step that touches only dequeuer d does to the counts of a row: the
\* other dequeuers stay in the sets they are in.
LEMMA CountsOfOthers ==
    ASSUME NEW d \in Dequeuers, NEW r,
           \A e \in Dequeuers : e # d => batch'[e] = batch[e] /\ phase'[e] = phase[e]
    PROVE  /\ Publishers(r)' \ {d} = Publishers(r) \ {d}
           /\ Pending(r)' \ {d} = Pending(r) \ {d}
BY DEF Publishers, Pending, Current, Holds

\* Adding or removing one element changes a count by at most one.
LEMMA CountByOne ==
    ASSUME NEW S, NEW T, NEW x, IsFiniteSet(S), IsFiniteSet(T), T \ {x} = S \ {x}
    PROVE  /\ Cardinality(S) \in Nat /\ Cardinality(T) \in Nat
           /\ (x \in T <=> x \in S) => Cardinality(T) = Cardinality(S)
           /\ x \in T /\ x \notin S => Cardinality(T) = Cardinality(S) + 1
           /\ x \notin T /\ x \in S => Cardinality(T) = Cardinality(S) - 1
<1>1. Cardinality(S) \in Nat /\ Cardinality(T) \in Nat
  BY FS_CardinalityType
<1>2. (x \in T <=> x \in S) => T = S
  OBVIOUS
<1>3. ASSUME x \in T, x \notin S PROVE Cardinality(T) = Cardinality(S) + 1
  <2>1. T = S \cup {x}
    BY <1>3
  <2> QED BY <1>3, <2>1, FS_AddElement
<1>4. ASSUME x \notin T, x \in S PROVE Cardinality(T) = Cardinality(S) - 1
  <2>1. T = S \ {x}
    BY <1>4
  <2> QED BY <1>4, <2>1, FS_RemoveElement
<1> QED BY <1>1, <1>2, <1>3, <1>4

\* How a step of dequeuer d changes the counts of a row.
LEMMA CountsStep ==
    ASSUME NEW d \in Dequeuers, NEW r,
           \A e \in Dequeuers : e # d => batch'[e] = batch[e] /\ phase'[e] = phase[e]
    PROVE  LET deletes == phase[d] = "deleting" /\ Current(d).id = r
               pubs == Cardinality(Publishers(r))
               pends == Cardinality(Pending(r))
           IN  /\ pubs \in Nat /\ pubs' \in Nat /\ pends \in Nat /\ pends' \in Nat
               /\ pubs' = IF deletes' = deletes THEN pubs ELSE IF deletes THEN pubs - 1 ELSE pubs + 1
               /\ pends' = IF (Holds(d, r) /\ ~deletes)' = (Holds(d, r) /\ ~deletes) THEN pends
                           ELSE IF Holds(d, r) /\ ~deletes THEN pends - 1 ELSE pends + 1
<1> DEFINE deletes == phase[d] = "deleting" /\ Current(d).id = r
<1>1. /\ Publishers(r)' \ {d} = Publishers(r) \ {d}
      /\ Pending(r)' \ {d} = Pending(r) \ {d}
  BY CountsOfOthers
<1>2. /\ Publishers(r) \subseteq Dequeuers /\ Publishers(r)' \subseteq Dequeuers
      /\ Pending(r) \subseteq Dequeuers /\ Pending(r)' \subseteq Dequeuers
  BY DEF Publishers, Pending
<1>3. /\ IsFiniteSet(Publishers(r)) /\ IsFiniteSet(Publishers(r)')
      /\ IsFiniteSet(Pending(r)) /\ IsFiniteSet(Pending(r)')
  BY <1>2, OutboxAssumption, FS_Subset
<1>4. /\ d \in Publishers(r) <=> deletes
      /\ d \in Publishers(r)' <=> deletes'
      /\ d \in Pending(r) <=> Holds(d, r) /\ ~deletes
      /\ d \in Pending(r)' <=> (Holds(d, r) /\ ~deletes)'
  BY DEF Publishers, Pending
<1> DEFINE pubs == Cardinality(Publishers(r))
           pends == Cardinality(Pending(r))
<1>5. /\ pubs \in Nat /\ pubs' \in Nat
      /\ (d \in Publishers(r)' <=> d \in Publishers(r)) => pubs' = pubs
      /\ d \in Publishers(r)' /\ d \notin Publishers(r) => pubs' = pubs + 1
      /\ d \notin Publishers(r)' /\ d \in Publishers(r) => pubs' = pubs - 1
  BY <1>1, <1>3, CountByOne
<1>6. /\ pends \in Nat /\ pends' \in Nat
      /\ (d \in Pending(r)' <=> d \in Pending(r)) => pends' = pends
      /\ d \in Pending(r)' /\ d \notin Pending(r) => pends' = pends + 1
      /\ d \notin Pending(r)' /\ d \in Pending(r) => pends' = pends - 1
  BY <1>1, <1>3, CountByOne
<1> HIDE DEF deletes, pubs, pends
<1>7. /\ deletes \in BOOLEAN /\ deletes' \in BOOLEAN
      /\ Holds(d, r) \in BOOLEAN /\ Holds(d, r)' \in BOOLEAN
  BY DEF deletes, Holds
<1>8. pubs' = IF deletes' = deletes THEN pubs ELSE IF deletes THEN pubs - 1 ELSE pubs + 1
  BY <1>4, <1>5, <1>7
<1>9. pends' = IF (Holds(d, r) /\ ~deletes)' = (Holds(d, r) /\ ~deletes) THEN pends
               ELSE IF Holds(d, r) /\ ~deletes THEN pends - 1 ELSE pends + 1
  BY <1>4, <1>6, <1>7
<1> QED BY <1>5, <1>6, <1>8, <1>9 DEF deletes, pubs, pends

-----------------------------------------------------------------------------
(* The invariant, action by action.                                        *)

\* A poll lists queued rows, each once, and none that is new or deleted.
LEMMA PollKeepsInv ==
    ASSUME OutboxInv, NEW d \in Dequeuers, Poll(d)
    PROVE  OutboxInv'
<1> USE DEF OutboxInv
<1> DEFINE size == Least(BatchSize, Cardinality(DueRows))
<1>1. DueRows \subseteq Rows /\ \A r \in DueRows : row[r] = "queued"
  BY DEF DueRows
<1>2. IsFiniteSet(DueRows) /\ Cardinality(DueRows) \in Nat
  BY <1>1, OutboxAssumption, FS_Subset, FS_CardinalityType
<1>3. Cardinality(DueRows) = 0 <=> DueRows = {}
  BY <1>2, FS_EmptySet
<1>4. size \in Nat /\ size <= BatchSize /\ (size = 0 <=> DueRows = {})
  BY <1>2, <1>3, OutboxAssumption DEF Least
<1>5. PICK rows \in [1 .. size -> DueRows] :
         /\ Listed(rows)
         /\ batch' = [batch EXCEPT ![d] =
                        [i \in DOMAIN rows |-> [id |-> rows[i], attempts |-> attempts[rows[i]]]]]
  BY DEF Poll
<1> DEFINE new == [i \in 1 .. size |-> [id |-> rows[i], attempts |-> attempts[rows[i]]]]
<1> HIDE DEF size
<1>6. \A i \in 1 .. size : rows[i] \in Rows /\ row[rows[i]] = "queued" /\ attempts[rows[i]] \in 0 .. MaxAttempts
  BY <1>1, <1>5 DEF TypeOK
<1>7. \A i \in 1 .. size : [id |-> rows[i], attempts |-> attempts[rows[i]]] \in Snapshot
  BY <1>6 DEF Snapshot
<1>8. /\ new \in Seq(Snapshot) /\ Len(new) = size /\ DOMAIN new = 1 .. size
      /\ \A i \in 1 .. size : new[i].id = rows[i]
  BY <1>4, <1>7
<1>9. batch'[d] = new /\ batch' = [batch EXCEPT ![d] = new]
  BY <1>5 DEF TypeOK
<1>10. new = <<>> <=> DueRows = {}
  BY <1>4, <1>8, EmptySeq
<1>11. \A i, j \in 1 .. size : rows[i] = rows[j] => i = j
  <2> SUFFICES ASSUME NEW i \in 1 .. size, NEW j \in 1 .. size, i < j PROVE rows[i] # rows[j]
    BY <1>4
  <2>1. Before(rows[i], rows[j])
    BY <1>5 DEF Listed
  <2>2. rows[i] \in Nat /\ due[rows[i]] \in Int
    BY <1>6, OutboxAssumption DEF TypeOK
  <2> QED BY <2>1, <2>2 DEF Before
<1> HIDE DEF new
<1>12. /\ \A e \in Dequeuers : e # d => batch'[e] = batch[e] /\ phase'[e] = phase[e]
       /\ phase'[d] = IF DueRows = {} THEN "idle" ELSE "publishing"
       /\ phase[d] = "idle"
       /\ UNCHANGED <<row, due, attempts, acked, exits>>
  BY <1>9 DEF Poll, TypeOK
<1>13. TypeOK'
  <2>1. batch' \in [Dequeuers -> Seq(Snapshot)]
    BY <1>8, <1>9 DEF TypeOK
  <2>2. \A e \in Dequeuers : /\ Len(batch'[e]) <= BatchSize
                             /\ batch'[e] = <<>> <=> phase'[e] \in {"idle", "down"}
    BY <1>4, <1>8, <1>9, <1>10, <1>12 DEF TypeOK
  <2>3. phase' \in [Dequeuers -> {"idle", "publishing", "deleting", "recording", "down"}]
    BY DEF TypeOK, Poll
  <2>4. age' \in [Dequeuers -> 0 .. Period]
    BY OutboxAssumption DEF TypeOK, Poll
  <2> QED BY <1>12, <2>1, <2>2, <2>3, <2>4 DEF TypeOK
<1>14. BatchesDistinct'
  BY <1>8, <1>9, <1>11, <1>12 DEF BatchesDistinct
<1>15. \A r \in Rows : Holds(d, r)' => row[r] = "queued"
  BY <1>6, <1>8, <1>9 DEF Holds
<1>16. NewRowsUntouched'
  BY <1>12, <1>15 DEF NewRowsUntouched, Holds
<1>17. DeletesPublished' /\ DeletedWasPublished'
  BY <1>12 DEF DeletesPublished, DeletedWasPublished, Current
<1>18. PublishesCounted'
  <2> SUFFICES ASSUME NEW r \in Rows
               PROVE  /\ row[r] = "queued" => acked[r] <= exits + Cardinality(Publishers(r)')
                      /\ row[r] = "deleted" =>
                            acked[r] + Cardinality(Pending(r)') <= exits + Cardinality(Dequeuers)
    BY <1>12 DEF PublishesCounted
  <2>1. ~Holds(d, r)
    <3>1. batch[d] = <<>>
      BY <1>12 DEF TypeOK
    <3> QED BY <3>1 DEF Holds
  <2>2. Cardinality(Publishers(r)') = Cardinality(Publishers(r))
    BY <1>12, CountsStep
  <2>3. row[r] = "deleted" => Cardinality(Pending(r)') = Cardinality(Pending(r))
    BY <1>12, <1>15, <2>1, CountsStep
  <2> QED BY <2>2, <2>3 DEF PublishesCounted
<1> QED BY <1>13, <1>14, <1>16, <1>17, <1>18

\* Publishing: the dequeuer no longer waits to publish its row, and is about
\* to delete it.
LEMMA PublishKeepsInv ==
    ASSUME OutboxInv, NEW d \in Dequeuers, PublishSucceeds(d) \/ PublishFails(d)
    PROVE  OutboxInv'
<1> USE DEF OutboxInv
<1> DEFINE c == Current(d).id
<1>1. Current(d) \in Snapshot /\ c \in Rows /\ Holds(d, c)
  <2>1. batch[d] \in Seq(Snapshot) /\ batch[d] # <<>>
    BY DEF TypeOK, PublishSucceeds, PublishFails
  <2>2. 1 \in DOMAIN batch[d] /\ Head(batch[d]) = batch[d][1] /\ batch[d][1] \in Snapshot
    BY <2>1
  <2> QED BY <2>2 DEF Current, Holds, Snapshot
<1>2. /\ phase[d] = "publishing" /\ UNCHANGED <<row, due, attempts, batch, age, exits>>
      /\ phase' \in [Dequeuers -> {"idle", "publishing", "deleting", "recording", "down"}]
      /\ \A e \in Dequeuers : e # d => phase'[e] = phase[e]
      /\ \/ phase'[d] = "deleting" /\ acked' = [acked EXCEPT ![c] = @ + 1]
         \/ phase'[d] = "recording" /\ acked' = acked
  BY DEF PublishSucceeds, PublishFails, TypeOK
<1>3. /\ acked' \in [Rows -> Nat]
      /\ \A r \in Rows : acked'[r] = IF r = c /\ phase'[d] = "deleting" THEN acked[r] + 1 ELSE acked[r]
  <2>1. acked \in [Rows -> Nat]
    BY DEF TypeOK
  <2>2. CASE phase'[d] = "deleting" /\ acked' = [acked EXCEPT ![c] = @ + 1]
    BY <1>1, <2>1, <2>2
  <2>3. CASE phase'[d] = "recording" /\ acked' = acked
    BY <2>1, <2>3
  <2> QED BY <1>2, <2>2, <2>3
<1>4. \A e \in Dequeuers : Current(e)' = Current(e) /\ \A r : Holds(e, r)' = Holds(e, r)
  BY <1>2 DEF Current, Holds
<1>5. TypeOK'
  BY <1>2, <1>3 DEF TypeOK
<1>6. BatchesDistinct'
  BY <1>2 DEF BatchesDistinct
<1>7. row[c] # "new"
  BY <1>1 DEF NewRowsUntouched
<1>8. NewRowsUntouched'
  BY <1>2, <1>3, <1>4, <1>7 DEF NewRowsUntouched
<1>9. \A e \in Dequeuers : phase[e] = "deleting" => Current(e).id \in Rows
  <2> SUFFICES ASSUME NEW e \in Dequeuers, phase[e] = "deleting" PROVE Current(e).id \in Rows
    OBVIOUS
  <2>1. batch[e] \in Seq(Snapshot) /\ batch[e] # <<>>
    BY DEF TypeOK
  <2>2. Head(batch[e]) \in Snapshot
    BY <2>1
  <2> QED BY <2>2 DEF Current, Snapshot
<1>10. DeletesPublished'
  <2> SUFFICES ASSUME NEW e \in Dequeuers, phase'[e] = "deleting" PROVE acked'[Current(e).id] > 0
    BY <1>4 DEF DeletesPublished
  <2>1. CASE e = d
    BY <1>1, <1>3, <2>1 DEF TypeOK
  <2>2. CASE e # d
    <3>1. Current(e).id \in Rows /\ acked[Current(e).id] > 0
      BY <1>2, <1>9, <2>2 DEF DeletesPublished
    <3>2. acked[Current(e).id] \in Nat
      BY <3>1 DEF TypeOK
    <3>3. acked'[Current(e).id] >= acked[Current(e).id]
      BY <1>3, <3>1, <3>2
    <3> QED BY <1>3, <3>1, <3>2, <3>3
  <2> QED BY <2>1, <2>2
<1>11. DeletedWasPublished'
  BY <1>2, <1>3 DEF DeletedWasPublished, TypeOK
<1>12. PublishesCounted'
  <2> SUFFICES ASSUME NEW r \in Rows
               PROVE  /\ row[r] = "queued" => acked'[r] <= exits + Cardinality(Publishers(r)')
                      /\ row[r] = "deleted" =>
                            acked'[r] + Cardinality(Pending(r)') <= exits + Cardinality(Dequeuers)
    BY <1>2 DEF PublishesCounted
  <2> DEFINE pubs == Cardinality(Publishers(r))
             pends == Cardinality(Pending(r))
             now == phase'[d] = "deleting" /\ c = r
  <2>1. /\ pubs \in Nat /\ pubs' \in Nat /\ pends \in Nat /\ pends' \in Nat
        /\ pubs' = IF now THEN pubs + 1 ELSE pubs
        /\ pends' = IF now THEN pends - 1 ELSE pends
    BY <1>1, <1>2, <1>4, CountsStep
  <2>2. acked[r] \in Nat /\ exits \in Nat /\ acked'[r] = IF now THEN acked[r] + 1 ELSE acked[r]
    BY <1>3, OutboxAssumption DEF TypeOK
  <2>3. Cardinality(Dequeuers) \in Nat
    BY OutboxAssumption, FS_CardinalityType
  <2>4. /\ row[r] = "queued" => acked[r] <= exits + pubs
        /\ row[r] = "deleted" => acked[r] + pends <= exits + Cardinality(Dequeuers)
    BY DEF PublishesCounted
  <2> HIDE DEF pubs, pends, now
  <2>5. /\ row[r] = "queued" => acked'[r] <= exits + pubs'
        /\ row[r] = "deleted" => acked'[r] + pends' <= exits + Cardinality(Dequeuers)
    BY <2>1, <2>2, <2>3, <2>4
  <2> QED BY <2>5 DEF pubs, pends
<1> QED BY <1>5, <1>6, <1>8, <1>10, <1>11, <1>12

\* Deleting the row that was published, or recording the failure, and going on.
LEMMA NextRowKeepsInv ==
    ASSUME OutboxInv, NEW d \in Dequeuers, Delete(d) \/ RecordFailure(d)
    PROVE  OutboxInv'
<1> USE DEF OutboxInv
<1> DEFINE c == Current(d).id
<1>1. /\ NextRow(d) /\ phase[d] \in {"deleting", "recording"}
      /\ UNCHANGED <<age, acked, exits>>
      /\ \/ phase[d] = "deleting" /\ row' = [row EXCEPT ![c] = "deleted"] /\ UNCHANGED <<due, attempts>>
         \/ phase[d] = "recording" /\ row' = row
  BY DEF Delete, RecordFailure
<1>2. /\ Current(d) \in Snapshot /\ c \in Rows /\ Holds(d, c)
      /\ batch' \in [Dequeuers -> Seq(Snapshot)]
      /\ phase' \in [Dequeuers -> {"idle", "publishing", "deleting", "recording", "down"}]
      /\ \A e \in Dequeuers : e # d => batch'[e] = batch[e] /\ phase'[e] = phase[e]
      /\ phase'[d] \in {"idle", "publishing"}
      /\ Len(batch'[d]) <= BatchSize /\ (batch'[d] = <<>> <=> phase'[d] = "idle")
      /\ \A i, j \in DOMAIN batch'[d] : batch'[d][i].id = batch'[d][j].id => i = j
      /\ \A r \in Rows : Holds(d, r)' <=> Holds(d, r) /\ r # c
  BY <1>1, NextRowEffect
<1>3. /\ row' \in [Rows -> {"new", "queued", "deleted"}]
      /\ \A r \in Rows : row'[r] = IF phase[d] = "deleting" /\ r = c THEN "deleted" ELSE row[r]
  BY <1>1, <1>2 DEF TypeOK
<1>4. due' \in [Rows -> Int] /\ attempts' \in [Rows -> 0 .. MaxAttempts]
  <2>1. CASE Delete(d)
    BY <2>1 DEF Delete, TypeOK
  <2>2. CASE RecordFailure(d)
    <3> DEFINE delay == NextDelay(Current(d).attempts) - age[d]
    <3>1. Current(d).attempts \in 0 .. MaxAttempts /\ age[d] \in Int
      BY <1>2, OutboxAssumption DEF Snapshot, TypeOK
    <3>2. delay \in Int
      BY <3>1, DelayTyped
    <3>3. Least(attempts[c] + 1, MaxAttempts) \in 0 .. MaxAttempts
      <4>1. attempts[c] \in 0 .. MaxAttempts
        BY <1>2 DEF TypeOK
      <4> QED BY <4>1, OutboxAssumption DEF Least
    <3>4. \/ /\ attempts' = [attempts EXCEPT ![c] = Least(attempts[c] + 1, MaxAttempts)]
             /\ due' = [due EXCEPT ![c] = delay]
          \/ UNCHANGED <<attempts, due>>
      BY <1>2, <2>2 DEF RecordFailure, TypeOK
    <3> HIDE DEF delay
    <3>5. attempts \in [Rows -> 0 .. MaxAttempts] /\ due \in [Rows -> Int]
      BY DEF TypeOK
    <3>6. CASE /\ attempts' = [attempts EXCEPT ![c] = Least(attempts[c] + 1, MaxAttempts)]
               /\ due' = [due EXCEPT ![c] = delay]
      BY <3>2, <3>3, <3>5, <3>6
    <3> QED BY <3>4, <3>5, <3>6
  <2> QED BY <2>1, <2>2
<1>5. TypeOK'
  BY <1>1, <1>2, <1>3, <1>4 DEF TypeOK
<1>6. BatchesDistinct'
  BY <1>2 DEF BatchesDistinct
<1>7. \A e \in Dequeuers : e # d => Current(e)' = Current(e) /\ \A r \in Rows : Holds(e, r)' = Holds(e, r)
  BY <1>2 DEF Current, Holds
<1>8. NewRowsUntouched'
  BY <1>1, <1>2, <1>3, <1>7 DEF NewRowsUntouched
<1>9. DeletesPublished'
  BY <1>1, <1>2, <1>7 DEF DeletesPublished
<1>10. DeletedWasPublished'
  BY <1>1, <1>2, <1>3 DEF DeletedWasPublished, DeletesPublished
<1>11. PublishesCounted'
  <2> SUFFICES ASSUME NEW r \in Rows
               PROVE  /\ row'[r] = "queued" => acked[r] <= exits + Cardinality(Publishers(r)')
                      /\ row'[r] = "deleted" =>
                            acked[r] + Cardinality(Pending(r)') <= exits + Cardinality(Dequeuers)
    BY <1>1 DEF PublishesCounted
  <2> DEFINE pubs == Cardinality(Publishers(r))
             pends == Cardinality(Pending(r))
             gone == phase[d] = "deleting" /\ r = c
  <2>1. /\ pubs \in Nat /\ pubs' \in Nat /\ pends \in Nat /\ pends' \in Nat
        /\ pubs' = IF gone THEN pubs - 1 ELSE pubs
        /\ pends' = IF phase[d] = "recording" /\ r = c THEN pends - 1 ELSE pends
    BY <1>1, <1>2, CountsStep
  <2>2. acked[r] \in Nat /\ exits \in Nat
    BY OutboxAssumption DEF TypeOK
  <2>3. Cardinality(Dequeuers) \in Nat /\ pubs + pends <= Cardinality(Dequeuers)
    BY CountsFinite
  <2>4. /\ row[r] = "queued" => acked[r] <= exits + pubs
        /\ row[r] = "deleted" => acked[r] + pends <= exits + Cardinality(Dequeuers)
    BY DEF PublishesCounted
  <2>5. gone => row[r] # "new"
    BY <1>2 DEF NewRowsUntouched
  <2>6. row[r] \in {"new", "queued", "deleted"} /\ row'[r] = IF gone THEN "deleted" ELSE row[r]
    BY <1>3 DEF TypeOK
  <2> HIDE DEF pubs, pends, gone
  <2>7. /\ row'[r] = "queued" => acked[r] <= exits + pubs'
        /\ row'[r] = "deleted" => acked[r] + pends' <= exits + Cardinality(Dequeuers)
    BY <2>1, <2>2, <2>3, <2>4, <2>5, <2>6
  <2> QED BY <2>7 DEF pubs, pends
<1> QED BY <1>5, <1>6, <1>8, <1>9, <1>10, <1>11

\* A dequeuer that ends forgets its batch: at most one publish loses its
\* publisher, and one exit accounts for it.
LEMMA ExitKeepsInv ==
    ASSUME OutboxInv, NEW d \in Dequeuers, Exit(d) \/ Restart(d)
    PROVE  OutboxInv'
<1> USE DEF OutboxInv
<1>1. /\ batch'[d] = <<>> /\ batch' \in [Dequeuers -> Seq(Snapshot)]
      /\ phase'[d] \in {"idle", "down"}
      /\ phase' \in [Dequeuers -> {"idle", "publishing", "deleting", "recording", "down"}]
      /\ \A e \in Dequeuers : e # d => batch'[e] = batch[e] /\ phase'[e] = phase[e]
      /\ exits' \in 0 .. MaxExits
      /\ UNCHANGED <<row, due, attempts, age, acked>>
      /\ \/ exits' = exits + 1
         \/ exits' = exits /\ phase[d] = "down"
  <2>1. exits \in 0 .. MaxExits /\ (phase[d] = "down" => batch[d] = <<>>)
    BY DEF TypeOK
  <2>2. CASE Exit(d)
    <3>1. batch' = [batch EXCEPT ![d] = <<>>] /\ batch' \in [Dequeuers -> Seq(Snapshot)]
      BY <2>2, EmptySeq DEF Exit, TypeOK
    <3>2. exits' = exits + 1 /\ exits' \in 0 .. MaxExits
      BY <2>1, <2>2, OutboxAssumption DEF Exit
    <3> QED BY <2>2, <3>1, <3>2 DEF Exit, TypeOK
  <2>3. CASE Restart(d)
    BY <2>1, <2>3 DEF Restart, TypeOK
  <2> QED BY <2>2, <2>3
<1>2. TypeOK'
  <2>1. \A e \in Dequeuers : /\ Len(batch'[e]) <= BatchSize
                             /\ batch'[e] = <<>> <=> phase'[e] \in {"idle", "down"}
    <3>1. Len(batch'[d]) <= BatchSize
      BY <1>1, OutboxAssumption
    <3> QED BY <1>1, <3>1 DEF TypeOK
  <2> QED BY <1>1, <2>1 DEF TypeOK
<1>3. \A r : ~Holds(d, r)'
  BY <1>1 DEF Holds
<1>4. \A e \in Dequeuers : e # d => Current(e)' = Current(e) /\ \A r \in Rows : Holds(e, r)' = Holds(e, r)
  BY <1>1 DEF Current, Holds
<1>5. BatchesDistinct'
  BY <1>1 DEF BatchesDistinct
<1>6. NewRowsUntouched'
  BY <1>1, <1>3, <1>4 DEF NewRowsUntouched
<1>7. DeletesPublished' /\ DeletedWasPublished'
  BY <1>1, <1>4 DEF DeletesPublished, DeletedWasPublished
<1>8. PublishesCounted'
  <2> SUFFICES ASSUME NEW r \in Rows
               PROVE  /\ row[r] = "queued" => acked[r] <= exits' + Cardinality(Publishers(r)')
                      /\ row[r] = "deleted" =>
                            acked[r] + Cardinality(Pending(r)') <= exits' + Cardinality(Dequeuers)
    BY <1>1 DEF PublishesCounted
  <2> DEFINE pubs == Cardinality(Publishers(r))
             pends == Cardinality(Pending(r))
  <2>1. /\ pubs \in Nat /\ pubs' \in Nat /\ pends \in Nat /\ pends' \in Nat
        /\ pubs' = IF phase[d] = "deleting" /\ Current(d).id = r THEN pubs - 1 ELSE pubs
        /\ pends' <= pends
    BY <1>1, <1>3, CountsStep
  <2>2. acked[r] \in Nat /\ exits \in Nat /\ exits' \in Nat
    BY <1>1, OutboxAssumption DEF TypeOK
  <2>3. Cardinality(Dequeuers) \in Nat
    BY CountsFinite
  <2>4. /\ row[r] = "queued" => acked[r] <= exits + pubs
        /\ row[r] = "deleted" => acked[r] + pends <= exits + Cardinality(Dequeuers)
    BY DEF PublishesCounted
  <2> HIDE DEF pubs, pends
  <2>5. /\ row[r] = "queued" => acked[r] <= exits' + pubs'
        /\ row[r] = "deleted" => acked[r] + pends' <= exits' + Cardinality(Dequeuers)
    BY <1>1, <2>1, <2>2, <2>3, <2>4
  <2> QED BY <2>5 DEF pubs, pends
<1> QED BY <1>2, <1>5, <1>6, <1>7, <1>8

\* Appending a message and the clock leave the dequeuers alone.
LEMMA OutsideKeepsInv ==
    ASSUME OutboxInv, Tick \/ (\E r \in Rows : AppendMessage(r)) \/ UNCHANGED vars
    PROVE  OutboxInv'
<1> USE DEF OutboxInv
<1>1. UNCHANGED <<phase, batch, acked, exits, attempts>>
  BY DEF Tick, AppendMessage, vars
<1>2. \A r \in Rows : row'[r] = row[r] \/ (row[r] = "new" /\ row'[r] = "queued")
  BY DEF Tick, AppendMessage, vars, TypeOK
<1>3. TypeOK'
  <2>1. CASE Tick
    BY <2>1, OutboxAssumption DEF Tick, TypeOK
  <2>2. CASE \E r \in Rows : AppendMessage(r)
    BY <2>2 DEF AppendMessage, TypeOK
  <2>3. CASE UNCHANGED vars
    BY <2>3 DEF vars, TypeOK
  <2> QED BY <2>1, <2>2, <2>3
<1>4. /\ \A d : Current(d)' = Current(d) /\ \A r : Holds(d, r)' = Holds(d, r)
      /\ \A r : Publishers(r)' = Publishers(r) /\ Pending(r)' = Pending(r)
  BY <1>1 DEF Current, Holds, Publishers, Pending
<1>5. BatchesDistinct' /\ DeletesPublished'
  BY <1>1, <1>4 DEF BatchesDistinct, DeletesPublished
<1>6. NewRowsUntouched' /\ DeletedWasPublished'
  BY <1>1, <1>2, <1>4 DEF NewRowsUntouched, DeletedWasPublished
<1>7. PublishesCounted'
  <2>1. \A r \in Rows : row[r] = "new" => acked[r] <= exits + Cardinality(Publishers(r))
    BY CountsFinite, OutboxAssumption DEF NewRowsUntouched, TypeOK
  <2> QED BY <1>1, <1>2, <1>4, <2>1 DEF PublishesCounted
<1> QED BY <1>3, <1>5, <1>6, <1>7

\* At first no message is appended and no dequeuer holds one.
LEMMA InitOutboxInv == Init => OutboxInv
<1> SUFFICES ASSUME Init PROVE OutboxInv
  OBVIOUS
<1>1. TypeOK
  BY OutboxAssumption, EmptySeq DEF Init, TypeOK
<1>2. \A d \in Dequeuers : phase[d] = "idle" /\ \A r : ~Holds(d, r)
  BY DEF Init, Holds
<1> QED
  BY <1>1, <1>2 DEF Init, OutboxInv, BatchesDistinct, NewRowsUntouched, DeletesPublished,
                    PublishesCounted, DeletedWasPublished

-----------------------------------------------------------------------------
(* The theorems.                                                           *)

\* OutboxInv holds in every state of the outbox and its dequeuers.
THEOREM OutboxCorrect == Spec => []OutboxInv
<1>1. Init => OutboxInv
  BY InitOutboxInv
<1>2. OutboxInv /\ [Next]_vars => OutboxInv'
  BY PollKeepsInv, PublishKeepsInv, NextRowKeepsInv, ExitKeepsInv, OutsideKeepsInv DEF Next, Work
<1> QED BY <1>1, <1>2, PTL DEF Spec

\* Types: batches respect BatchSize, and a dequeuer has one exactly while it works.
THEOREM OutboxTyped == Spec => []TypeOK
<1>1. OutboxInv => TypeOK
  BY DEF OutboxInv
<1> QED BY <1>1, OutboxCorrect, PTL

\* Whatever the dequeuers try how often and wherever they end, only what the
\* bus took is deleted: no message is lost between the table and the bus.
THEOREM NothingLost == Spec => []DeletedWasPublished
<1>1. OutboxInv => DeletedWasPublished
  BY DEF OutboxInv
<1> QED BY <1>1, OutboxCorrect, PTL

\* The bus takes a message at most once for every dequeuer and once more for
\* every exit: retries, batches and delays add no duplicates.
THEOREM FewDuplicates == Spec => []DuplicatesAreBounded
<1>1. OutboxInv => DuplicatesAreBounded
  <2> SUFFICES ASSUME OutboxInv, NEW r \in Rows PROVE acked[r] <= Cardinality(Dequeuers) + exits
    BY DEF DuplicatesAreBounded
  <2> DEFINE pubs == Cardinality(Publishers(r))
             pends == Cardinality(Pending(r))
             all == Cardinality(Dequeuers)
  <2>1. pubs \in Nat /\ pends \in Nat /\ all \in Nat /\ pubs + pends <= all
    BY CountsFinite
  <2>2. acked[r] \in Nat /\ exits \in Nat /\ row[r] \in {"new", "queued", "deleted"}
    BY OutboxAssumption DEF OutboxInv, TypeOK
  <2>3. /\ row[r] = "new" => acked[r] = 0
        /\ row[r] = "queued" => acked[r] <= exits + pubs
        /\ row[r] = "deleted" => acked[r] + pends <= exits + all
    BY DEF OutboxInv, NewRowsUntouched, PublishesCounted
  <2> HIDE DEF pubs, pends, all
  <2>4. acked[r] <= all + exits
    BY <2>1, <2>2, <2>3
  <2> QED BY <2>4 DEF all
<1> QED BY <1>1, OutboxCorrect, PTL

-----------------------------------------------------------------------------
(* The wait of a row.                                                      *)

\* Rows that are listed before this one.
Ahead(r) == {q \in Rows \ {r} : row[q] = "queued" /\ Before(q, r)}

\* Those of them the dequeuer has still to list.
AheadOf(d, r) == {q \in Ahead(r) : ~Holds(d, q)}

\* The turns a row has to wait for with a dequeuer.  One that holds the row would
\* list the others ahead of it again if it ended, but is a whole batch further.
Backlog(d, r) == IF Holds(d, r) THEN Cardinality(Ahead(r)) - BatchSize
                 ELSE Cardinality(AheadOf(d, r))

\* A row that waited this long at a dequeuer's last poll has seen k polls, which
\* took a batch each off the backlog, but for one batch for every exit.
Reached(wait, backlog, ended) ==
    \E k \in Nat : /\ wait < (k + 1) * Period
                   /\ backlog + k * BatchSize <= Cardinality(Rows) - 1 + ended * BatchSize

\* That, for a row and a dequeuer.
OnTime(d, r) == Reached(- due[r] - age[d], Backlog(d, r), exits)

\* Every dequeuer works towards every row, unless MaxLag hides how late a row is.
BacklogsShrink ==
    \/ MaxLag <= (Polls + 2 + exits) * Period
    \/ \A d \in Dequeuers, r \in Rows : row[r] = "queued" => OnTime(d, r)

\* Lateness is counted up to MaxLag; a recorded failure may start within a period.
LagBounded == \A r \in Rows : row[r] = "queued" => - due[r] <= MaxLag \/ - due[r] < Period

WaitInv == OutboxInv /\ LagBounded /\ BacklogsShrink


-----------------------------------------------------------------------------
(* How a wait and a backlog change together.                               *)

\* A young row waits for at most every other row.
LEMMA ReachedAtFirst ==
    ASSUME NEW w \in Int, NEW b \in Int, NEW e \in Nat,
           w < Period, b <= Cardinality(Rows) - 1
    PROVE  Reached(w, b, e)
<1>1. Cardinality(Rows) \in Nat /\ Period \in Nat /\ BatchSize \in Nat
  BY OutboxAssumption, FS_CardinalityType
<1>2. e * BatchSize \in Nat
  BY <1>1
<1>3. w < (0 + 1) * Period /\ b + 0 * BatchSize <= Cardinality(Rows) - 1 + e * BatchSize
  BY <1>1, <1>2
<1> QED BY <1>3 DEF Reached

\* Products of the numbers involved.
LEMMA Products ==
    ASSUME NEW x \in Int, NEW y \in Int, NEW n \in Nat
    PROVE  /\ x * n \in Int /\ (x + 1) * n = x * n + n
           /\ (x + y) * n = x * n + y * n
           /\ x <= y => x * n <= y * n
<1>1. x * n \in Int /\ (x + 1) * n = x * n + n /\ (x + y) * n = x * n + y * n
  OBVIOUS
<1>2. ASSUME x <= y PROVE x * n <= y * n
  <2>1. PICK z \in Nat : y = x + z
    <3>1. y - x \in Nat /\ y = x + (y - x)
      BY <1>2
    <3> QED BY <3>1
  <2>2. y * n = x * n + z * n /\ z * n \in Nat /\ x * n \in Int
    BY <2>1
  <2> QED BY <2>2
<1> QED BY <1>1, <1>2

\* A step that neither ages the row nor adds to its backlog.
LEMMA ReachedStays ==
    ASSUME NEW w \in Int, NEW b \in Int, NEW e \in Nat, NEW w2 \in Int, NEW b2 \in Int,
           Reached(w, b, e), w2 <= w, b2 <= b
    PROVE  Reached(w2, b2, e)
<1>1. PICK k \in Nat : /\ w < (k + 1) * Period
                       /\ b + k * BatchSize <= Cardinality(Rows) - 1 + e * BatchSize
  BY DEF Reached
<1>2. /\ (k + 1) * Period \in Int /\ k * BatchSize \in Int /\ e * BatchSize \in Int
      /\ Cardinality(Rows) \in Nat
  BY OutboxAssumption, FS_CardinalityType
<1>3. w2 < (k + 1) * Period /\ b2 + k * BatchSize <= Cardinality(Rows) - 1 + e * BatchSize
  BY <1>1, <1>2
<1> QED BY <1>3 DEF Reached

\* A poll: a period went by and a batch was taken.
LEMMA ReachedByPoll ==
    ASSUME NEW w \in Int, NEW b \in Int, NEW e \in Nat, NEW w2 \in Int, NEW b2 \in Int,
           Reached(w, b, e), w2 <= w + Period, b2 + BatchSize <= b
    PROVE  Reached(w2, b2, e)
<1>1. PICK k \in Nat : /\ w < (k + 1) * Period
                       /\ b + k * BatchSize <= Cardinality(Rows) - 1 + e * BatchSize
  BY DEF Reached
<1>2. Period \in Nat /\ BatchSize \in Nat /\ Cardinality(Rows) \in Nat
  BY OutboxAssumption, FS_CardinalityType
<1>3. /\ ((k + 1) + 1) * Period = (k + 1) * Period + Period /\ (k + 1) * Period \in Int
      /\ (k + 1) * BatchSize = k * BatchSize + BatchSize /\ k * BatchSize \in Int
      /\ e * BatchSize \in Int
  BY <1>2, Products
<1>4. /\ w2 < ((k + 1) + 1) * Period
      /\ b2 + (k + 1) * BatchSize <= Cardinality(Rows) - 1 + e * BatchSize
  BY <1>1, <1>2, <1>3
<1>5. k + 1 \in Nat
  OBVIOUS
<1> QED BY <1>4, <1>5 DEF Reached

\* An exit: a batch is to be listed again.
LEMMA ReachedAfterExit ==
    ASSUME NEW w \in Int, NEW b \in Int, NEW e \in Nat, NEW b2 \in Int,
           Reached(w, b, e), b2 <= b + BatchSize
    PROVE  Reached(w, b2, e + 1)
<1>1. PICK k \in Nat : /\ w < (k + 1) * Period
                       /\ b + k * BatchSize <= Cardinality(Rows) - 1 + e * BatchSize
  BY DEF Reached
<1>2. BatchSize \in Nat /\ Cardinality(Rows) \in Nat
  BY OutboxAssumption, FS_CardinalityType
<1>3. /\ (e + 1) * BatchSize = e * BatchSize + BatchSize /\ e * BatchSize \in Int
      /\ k * BatchSize \in Int
  BY <1>2, Products
<1>4. b2 + k * BatchSize <= Cardinality(Rows) - 1 + (e + 1) * BatchSize
  BY <1>1, <1>2, <1>3
<1> QED BY <1>1, <1>4 DEF Reached

\* Polls batches hold every row.
LEMMA PollsSuffice == Polls \in Nat /\ Cardinality(Rows) <= Polls * BatchSize
<1>1. PICK n \in Nat : n = Cardinality(Rows)
  BY OutboxAssumption, FS_CardinalityType
<1>2. PICK p : p = (n + BatchSize - 1) \div BatchSize
  OBVIOUS
<1>3. n + BatchSize - 1 \in Nat /\ BatchSize \in Nat \ {0}
  BY OutboxAssumption
<1>4. p \in Int /\ p * BatchSize <= n + BatchSize - 1 /\ n + BatchSize - 1 < (p + 1) * BatchSize
  BY <1>2, <1>3
<1>5. (p + 1) * BatchSize = p * BatchSize + BatchSize /\ p * BatchSize \in Int
  BY <1>3, <1>4, Products
<1>6. n <= p * BatchSize
  BY <1>3, <1>4, <1>5
<1>7. p \in Nat
  <2> SUFFICES ASSUME p <= -1 PROVE FALSE
    BY <1>4
  <2>1. p * BatchSize <= (-1) * BatchSize
    BY <1>3, <1>4, Products
  <2> QED BY <1>3, <1>4, <1>6, <2>1
<1> QED BY <1>1, <1>2, <1>6, <1>7 DEF Polls

\* A dequeuer that polled at most a period ago bounds the wait.
LEMMA ReachedBounds ==
    ASSUME NEW w \in Int, NEW b \in Int, NEW e \in Nat, NEW a \in 0 .. Period,
           Reached(w, b, e), - BatchSize <= b
    PROVE  w + a <= (Polls + 2 + e) * Period
<1>1. PICK k \in Nat : /\ w < (k + 1) * Period
                       /\ b + k * BatchSize <= Cardinality(Rows) - 1 + e * BatchSize
  BY DEF Reached
<1>2. /\ Period \in Nat /\ BatchSize \in Nat \ {0} /\ Cardinality(Rows) \in Nat
      /\ Polls \in Nat /\ Cardinality(Rows) <= Polls * BatchSize
  BY OutboxAssumption, FS_CardinalityType, PollsSuffice
<1>3. k <= Polls + e
  <2> SUFFICES ASSUME Polls + e + 1 <= k PROVE FALSE
    BY <1>2
  <2>1. (Polls + e + 1) * BatchSize <= k * BatchSize
    <3>1. Polls + e + 1 \in Int
      BY <1>2
    <3> QED BY <1>2, <3>1, Products
  <2>2. /\ (Polls + e + 1) * BatchSize = (Polls + e) * BatchSize + BatchSize
        /\ (Polls + e) * BatchSize = Polls * BatchSize + e * BatchSize
    <3>1. Polls + e \in Int
      BY <1>2
    <3> QED BY <1>2, <3>1, Products
  <2>3. Polls * BatchSize \in Int /\ e * BatchSize \in Int /\ k * BatchSize \in Int
    BY <1>2, Products
  <2> QED BY <1>1, <1>2, <2>1, <2>2, <2>3
<1>4. (k + 1) * Period + Period <= (Polls + 2 + e) * Period
  <2>1. (k + 1) * Period + Period = (k + 2) * Period
    BY <1>2
  <2>2. k + 2 \in Int /\ Polls + 2 + e \in Int /\ k + 2 <= Polls + 2 + e
    BY <1>2, <1>3
  <2>3. (k + 2) * Period <= (Polls + 2 + e) * Period
    BY <1>2, <2>2, Products
  <2> QED BY <2>1, <2>3
<1>5. (k + 1) * Period \in Int /\ (Polls + 2 + e) * Period \in Int
  BY <1>2
<1> QED BY <1>1, <1>2, <1>4, <1>5

-----------------------------------------------------------------------------
(* Every action keeps every row on time with every dequeuer.               *)

\* Sets of other rows.
LEMMA OthersCounted ==
    ASSUME NEW r \in Rows, NEW S, S \subseteq Rows \ {r}
    PROVE  IsFiniteSet(S) /\ Cardinality(S) \in Nat /\ Cardinality(S) <= Cardinality(Rows) - 1
<1>1. /\ IsFiniteSet(Rows \ {r}) /\ Cardinality(Rows \ {r}) = Cardinality(Rows) - 1
  BY OutboxAssumption, FS_RemoveElement
<1>2. IsFiniteSet(S) /\ Cardinality(S) <= Cardinality(Rows \ {r})
  BY <1>1, FS_Subset
<1> QED BY <1>1, <1>2, FS_CardinalityType

\* A backlog is at most the other rows, and at least minus one batch.
LEMMA BacklogTyped ==
    ASSUME NEW d, NEW r \in Rows
    PROVE  /\ Backlog(d, r) \in - BatchSize .. Cardinality(Rows) - 1
           /\ Backlog(d, r)' \in - BatchSize .. Cardinality(Rows) - 1
<1>1. /\ Ahead(r) \subseteq Rows \ {r} /\ AheadOf(d, r) \subseteq Rows \ {r}
      /\ Ahead(r)' \subseteq Rows \ {r} /\ AheadOf(d, r)' \subseteq Rows \ {r}
  BY DEF Ahead, AheadOf
<1>2. /\ Cardinality(Ahead(r)) \in 0 .. Cardinality(Rows) - 1
      /\ Cardinality(AheadOf(d, r)) \in 0 .. Cardinality(Rows) - 1
      /\ Cardinality(Ahead(r)') \in 0 .. Cardinality(Rows) - 1
      /\ Cardinality(AheadOf(d, r)') \in 0 .. Cardinality(Rows) - 1
  <2>1. Cardinality(Rows) - 1 \in Int
    BY OutboxAssumption, FS_CardinalityType
  <2> QED BY <1>1, <2>1, OthersCounted
<1>3. BatchSize \in Nat /\ Cardinality(Rows) \in Nat
  BY OutboxAssumption, FS_CardinalityType
<1>4. /\ Backlog(d, r) = IF Holds(d, r) THEN Cardinality(Ahead(r)) - BatchSize
                         ELSE Cardinality(AheadOf(d, r))
      /\ Backlog(d, r)' = IF Holds(d, r)' THEN Cardinality(Ahead(r)') - BatchSize
                          ELSE Cardinality(AheadOf(d, r)')
  BY DEF Backlog
<1> QED BY <1>2, <1>3, <1>4

\* The numbers of a wait.
LEMMA WaitTyped ==
    ASSUME TypeOK, TypeOK', NEW d \in Dequeuers, NEW r \in Rows
    PROVE  /\ - due[r] - age[d] \in Int /\ - due'[r] - age'[d] \in Int
           /\ age[d] \in 0 .. Period /\ age'[d] \in 0 .. Period
           /\ due[r] \in Int /\ due'[r] \in Int /\ exits \in Nat /\ exits' \in Nat
           /\ Backlog(d, r) \in Int /\ Backlog(d, r)' \in Int
           /\ Backlog(d, r)' <= Cardinality(Rows) - 1
           /\ BatchSize \in Nat \ {0} /\ Period \in Nat \ {0} /\ Cardinality(Rows) \in Nat
<1>1. /\ age[d] \in 0 .. Period /\ age'[d] \in 0 .. Period
      /\ due[r] \in Int /\ due'[r] \in Int
      /\ exits \in 0 .. MaxExits /\ exits' \in 0 .. MaxExits
  BY DEF TypeOK
<1>2. BatchSize \in Nat \ {0} /\ Period \in Nat \ {0} /\ Cardinality(Rows) \in Nat /\ MaxExits \in Nat
  BY OutboxAssumption, FS_CardinalityType
<1>3. /\ Backlog(d, r) \in - BatchSize .. Cardinality(Rows) - 1
      /\ Backlog(d, r)' \in - BatchSize .. Cardinality(Rows) - 1
  BY BacklogTyped
<1> QED BY <1>1, <1>2, <1>3

\* A row that was not yet due for a whole period at a dequeuer's last poll.
LEMMA YoungRow ==
    ASSUME TypeOK, TypeOK', NEW d \in Dequeuers, NEW r \in Rows,
           - due'[r] - age'[d] < Period
    PROVE  OnTime(d, r)'
<1>1. Reached(- due'[r] - age'[d], Backlog(d, r)', exits')
  BY WaitTyped, ReachedAtFirst
<1> QED BY <1>1 DEF OnTime

\* Nothing got between the dequeuer and the row.
LEMMA QuietStep ==
    ASSUME TypeOK, TypeOK', NEW d \in Dequeuers, NEW r \in Rows, OnTime(d, r),
           exits' = exits, - due'[r] - age'[d] <= - due[r] - age[d],
           Ahead(r)' \subseteq Ahead(r), Holds(d, r)' <=> Holds(d, r),
           \A q \in Ahead(r)' : Holds(d, q) => Holds(d, q)'
    PROVE  OnTime(d, r)'
<1>1. AheadOf(d, r)' \subseteq AheadOf(d, r)
  BY DEF AheadOf
<1>2. Ahead(r) \subseteq Rows \ {r} /\ AheadOf(d, r) \subseteq Rows \ {r}
  BY DEF Ahead, AheadOf
<1>3. IsFiniteSet(Ahead(r)) /\ IsFiniteSet(AheadOf(d, r))
  BY <1>2, OthersCounted
<1>4. /\ Cardinality(Ahead(r)') <= Cardinality(Ahead(r))
      /\ Cardinality(AheadOf(d, r)') <= Cardinality(AheadOf(d, r))
  BY <1>1, <1>3, FS_Subset
<1>5. /\ Cardinality(Ahead(r)) \in Nat /\ Cardinality(Ahead(r)') \in Nat /\ BatchSize \in Nat
  BY <1>3, OutboxAssumption, FS_Subset, FS_CardinalityType
<1>6. Backlog(d, r)' <= Backlog(d, r)
  <2>1. CASE Holds(d, r)
    <3>1. Backlog(d, r) = Cardinality(Ahead(r)) - BatchSize
      BY <2>1 DEF Backlog
    <3>2. Backlog(d, r)' = Cardinality(Ahead(r)') - BatchSize
      BY <2>1 DEF Backlog
    <3> QED BY <1>4, <1>5, <3>1, <3>2
  <2>2. CASE ~Holds(d, r)
    BY <1>4, <2>2 DEF Backlog
  <2> QED BY <2>1, <2>2
<1>7. Reached(- due'[r] - age'[d], Backlog(d, r)', exits)
  <2>1. Reached(- due[r] - age[d], Backlog(d, r), exits)
    BY DEF OnTime
  <2> QED BY <1>6, <2>1, WaitTyped, ReachedStays
<1> QED BY <1>7 DEF OnTime

\* A new row is listed behind every row that is due.
LEMMA AppendOnTime ==
    ASSUME TypeOK, TypeOK', NEW q \in Rows, AppendMessage(q), NEW d \in Dequeuers, NEW r \in Rows,
           row'[r] = "queued", row[r] = "queued" => OnTime(d, r)
    PROVE  OnTime(d, r)'
<1>1. /\ row' = [row EXCEPT ![q] = "queued"] /\ due' = [due EXCEPT ![q] = 0]
      /\ UNCHANGED <<batch, age, exits>>
  BY DEF AppendMessage
<1>2. /\ \A p \in Rows : due'[p] = IF p = q THEN 0 ELSE due[p]
      /\ \A p \in Rows : p # q => row'[p] = row[p]
      /\ \A p \in Rows : due[p] \in Int
  BY <1>1 DEF TypeOK
<1>3. /\ age[d] \in 0 .. Period /\ due[r] \in Int /\ Period \in Nat \ {0}
  BY WaitTyped
<1>4. CASE - due'[r] - age'[d] < Period
  BY <1>4, YoungRow
<1>5. CASE ~(- due'[r] - age'[d] < Period)
  <2>1. r # q /\ due'[r] = due[r] /\ due[r] < 0
    BY <1>1, <1>2, <1>3, <1>5
  <2>2. OnTime(d, r)
    BY <1>2, <2>1
  <2>3. Ahead(r)' \subseteq Ahead(r)
    BY <1>2, <2>1 DEF Ahead, Before
  <2>4. \A p : Holds(d, p)' <=> Holds(d, p)
    BY <1>1 DEF Holds
  <2>5. - due'[r] - age'[d] <= - due[r] - age[d]
    BY <1>1, <1>3, <2>1
  <2> QED BY <1>1, <2>2, <2>3, <2>4, <2>5, QuietStep
<1> QED BY <1>4, <1>5

\* Time passes for every row and every dequeuer alike.
LEMMA TickOnTime ==
    ASSUME TypeOK, TypeOK', Tick, NEW d \in Dequeuers, NEW r \in Rows,
           row[r] = "queued", OnTime(d, r),
           \A p \in Rows : row[p] = "queued" => due[p] > - MaxLag
    PROVE  OnTime(d, r)'
<1>1. /\ age'[d] = age[d] + 1 /\ UNCHANGED <<row, batch, exits>>
      /\ \A p \in Rows : due'[p] = IF row[p] = "queued" /\ due[p] > - MaxLag THEN due[p] - 1 ELSE due[p]
  BY DEF Tick
<1>2. \A p \in Rows : row[p] = "queued" => due'[p] = due[p] - 1
  BY <1>1
<1>3. \A p \in Rows : due[p] \in Int
  BY DEF TypeOK
<1>4. Ahead(r)' \subseteq Ahead(r)
  BY <1>1, <1>2, <1>3 DEF Ahead, Before
<1>5. \A p : Holds(d, p)' <=> Holds(d, p)
  BY <1>1 DEF Holds
<1>6. - due'[r] - age'[d] <= - due[r] - age[d]
  BY <1>1, <1>2, WaitTyped
<1> QED BY <1>1, <1>4, <1>5, <1>6, QuietStep

\* Publishing, a restart and a stutter leave the rows and the batches alone.
LEMMA StillOnTime ==
    ASSUME TypeOK, TypeOK', NEW d \in Dequeuers, NEW r \in Rows, OnTime(d, r),
           UNCHANGED <<row, due, batch, age, exits>>
    PROVE  OnTime(d, r)'
<1>1. Ahead(r)' = Ahead(r) /\ \A p : Holds(d, p)' <=> Holds(d, p)
  BY DEF Ahead, Before, Holds
<1>2. - due'[r] - age'[d] <= - due[r] - age[d]
  BY WaitTyped
<1> QED BY <1>1, <1>2, QuietStep

\* A row is deleted: it is ahead of nobody any more.
LEMMA DeleteOnTime ==
    ASSUME OutboxInv, TypeOK', NEW e \in Dequeuers, Delete(e), NEW d \in Dequeuers, NEW r \in Rows,
           row'[r] = "queued", row[r] = "queued" => OnTime(d, r)
    PROVE  OnTime(d, r)'
<1> DEFINE c == Current(e).id
<1>1. /\ NextRow(e) /\ phase[e] = "deleting" /\ row' = [row EXCEPT ![c] = "deleted"]
      /\ UNCHANGED <<due, age, exits>>
  BY DEF Delete
<1>2. /\ c \in Rows
      /\ \A p \in Dequeuers : p # e => batch'[p] = batch[p]
      /\ \A p \in Rows : Holds(e, p)' <=> Holds(e, p) /\ p # c
  BY <1>1, NextRowEffect DEF OutboxInv
<1>3. \A p \in Rows : row'[p] = IF p = c THEN "deleted" ELSE row[p]
  BY <1>1, <1>2 DEF OutboxInv, TypeOK
<1> HIDE DEF c
<1>4. r # c /\ OnTime(d, r)
  BY <1>3
<1>5. Ahead(r)' \subseteq Ahead(r) /\ \A p \in Ahead(r)' : p \in Rows /\ p # c
  BY <1>1, <1>3 DEF Ahead, Before
<1>6. \A p \in Rows \ {c} : Holds(d, p)' <=> Holds(d, p)
  <2>1. CASE d = e
    BY <1>2, <2>1
  <2>2. CASE d # e
    BY <1>2, <2>2 DEF Holds
  <2> QED BY <2>1, <2>2
<1>7. - due'[r] - age'[d] <= - due[r] - age[d]
  BY <1>1, WaitTyped DEF OutboxInv
<1> QED BY <1>1, <1>4, <1>5, <1>6, <1>7, QuietStep DEF OutboxInv

\* A failure is recorded: the row is listed behind every row that waited a
\* period, because the delay is counted from a poll at most a period ago.
LEMMA RecordOnTime ==
    ASSUME OutboxInv, TypeOK', NEW e \in Dequeuers, RecordFailure(e), NEW d \in Dequeuers, NEW r \in Rows,
           row'[r] = "queued", row[r] = "queued" => OnTime(d, r)
    PROVE  OnTime(d, r)'
<1> DEFINE c == Current(e).id
           delay == NextDelay(Current(e).attempts)
<1>1. /\ NextRow(e) /\ phase[e] = "recording" /\ UNCHANGED <<row, age, exits>>
      /\ IF row[c] = "queued" THEN due' = [due EXCEPT ![c] = delay - age[e]] ELSE due' = due
  BY DEF RecordFailure
<1>2. /\ Current(e) \in Snapshot /\ c \in Rows
      /\ \A p \in Dequeuers : p # e => batch'[p] = batch[p]
      /\ \A p \in Rows : Holds(e, p)' <=> Holds(e, p) /\ p # c
  BY <1>1, NextRowEffect DEF OutboxInv
<1>3. delay \in Nat \ {0}
  <2>1. Current(e).attempts \in 0 .. MaxAttempts
    BY <1>2 DEF Snapshot
  <2> QED BY <2>1, DelayTyped
<1>4. /\ \A p \in Rows : due'[p] = IF p = c /\ row[p] = "queued" THEN delay - age[e] ELSE due[p]
      /\ \A p \in Rows : due[p] \in Int
  BY <1>1, <1>2 DEF OutboxInv, TypeOK
<1> HIDE DEF c, delay
<1>5. /\ age[d] \in 0 .. Period /\ age[e] \in 0 .. Period /\ Period \in Nat \ {0} /\ age' = age
  BY <1>1, WaitTyped DEF OutboxInv
<1>6. CASE - due'[r] - age'[d] < Period
  BY <1>6, YoungRow DEF OutboxInv
<1>7. CASE ~(- due'[r] - age'[d] < Period)
  <2>1. r # c /\ due'[r] = due[r] /\ due[r] <= - Period
    BY <1>1, <1>3, <1>4, <1>5, <1>7
  <2>2. OnTime(d, r)
    BY <1>1
  <2>3. ASSUME NEW p \in Ahead(r)' PROVE p \in Ahead(r) /\ p # c
    <3>1. p \in Rows \ {r} /\ row[p] = "queued"
      BY <1>1, <2>3 DEF Ahead
    <3>2. due'[p] < due'[r] \/ (due'[p] = due'[r] /\ p < r)
      BY <2>3 DEF Ahead, Before
    <3>3. p # c
      BY <1>3, <1>4, <1>5, <2>1, <3>1, <3>2
    <3> QED BY <1>4, <2>1, <3>1, <3>2, <3>3 DEF Ahead, Before
  <2>4. \A p \in Rows \ {c} : Holds(d, p)' <=> Holds(d, p)
    <3>1. CASE d = e
      BY <1>2, <3>1
    <3>2. CASE d # e
      BY <1>2, <3>2 DEF Holds
    <3> QED BY <3>1, <3>2
  <2>5. - due'[r] - age'[d] <= - due[r] - age[d]
    BY <1>4, <1>5, <2>1
  <2>6. Ahead(r)' \subseteq Ahead(r) /\ \A p \in Ahead(r)' : p \in Rows \ {c}
    BY <2>3 DEF Ahead
  <2> QED BY <1>1, <2>1, <2>2, <2>4, <2>5, <2>6, QuietStep DEF OutboxInv
<1> QED BY <1>6, <1>7

\* The values of a list: no more than its length, and that many if none repeats.
LEMMA ListCounted ==
    ASSUME NEW n \in Nat, NEW S, NEW f \in [1 .. n -> S], \A s \in S : \E i \in 1 .. n : f[i] = s
    PROVE  /\ IsFiniteSet(S) /\ Cardinality(S) \in Nat /\ Cardinality(S) <= n
           /\ (\A i, j \in 1 .. n : f[i] = f[j] => i = j) => Cardinality(S) = n
<1>1. IsFiniteSet(1 .. n) /\ Cardinality(1 .. n) = n
  BY FS_Interval
<1>2. f \in Surjection(1 .. n, S)
  BY DEF Surjection
<1>3. /\ IsFiniteSet(S) /\ Cardinality(S) <= n
      /\ Cardinality(S) = n <=> f \in Injection(1 .. n, S)
  BY <1>1, <1>2, FS_Surjection
<1>4. (\A i, j \in 1 .. n : f[i] = f[j] => i = j) => f \in Injection(1 .. n, S)
  BY <1>2 DEF Surjection, Injection, IsInjective
<1> QED BY <1>3, <1>4, FS_CardinalityType

\* An exit: the dequeuer has to list its batch again.
LEMMA ExitOnTime ==
    ASSUME TypeOK, TypeOK', NEW e \in Dequeuers, Exit(e), NEW d \in Dequeuers, NEW r \in Rows,
           OnTime(d, r)
    PROVE  OnTime(d, r)'
<1>1. /\ UNCHANGED <<row, due, age>> /\ exits' = exits + 1
      /\ batch' = [batch EXCEPT ![e] = <<>>]
  BY DEF Exit
<1>2. Ahead(r)' = Ahead(r)
  BY <1>1 DEF Ahead, Before
<1>3. /\ Ahead(r) \subseteq Rows \ {r} /\ AheadOf(d, r) \subseteq Rows \ {r}
  BY DEF Ahead, AheadOf
<1>4. /\ IsFiniteSet(Ahead(r)) /\ Cardinality(Ahead(r)) \in Nat
      /\ IsFiniteSet(AheadOf(d, r)) /\ Cardinality(AheadOf(d, r)) \in Nat
      /\ BatchSize \in Nat
  BY <1>3, OthersCounted, OutboxAssumption
<1>5. Backlog(d, r)' <= Backlog(d, r) + BatchSize
  <2>1. CASE d # e
    <3>1. batch'[d] = batch[d]
      BY <1>1, <2>1 DEF TypeOK
    <3>2. \A p : Holds(d, p)' <=> Holds(d, p)
      BY <3>1 DEF Holds
    <3>3. AheadOf(d, r)' = AheadOf(d, r)
      BY <1>2, <3>2 DEF AheadOf
    <3>4. Backlog(d, r)' = Backlog(d, r)
      BY <1>2, <3>2, <3>3 DEF Backlog
    <3> QED BY <1>4, <3>4, WaitTyped
  <2>2. CASE d = e
    <3>1. batch'[d] = <<>>
      BY <1>1, <2>2 DEF TypeOK
    <3>2. \A p : ~Holds(d, p)'
      BY <3>1 DEF Holds
    <3>3. AheadOf(d, r)' = Ahead(r)
      BY <1>2, <3>2 DEF AheadOf
    <3>4. Backlog(d, r)' = Cardinality(Ahead(r))
      BY <3>2, <3>3 DEF Backlog
    <3>5. CASE Holds(d, r)
      BY <1>4, <3>4, <3>5 DEF Backlog
    <3>6. CASE ~Holds(d, r)
      <4>1. PICK n : n = Len(batch[d])
        OBVIOUS
      <4>2. n \in Nat /\ n <= BatchSize /\ DOMAIN batch[d] = 1 .. n
        BY <4>1 DEF TypeOK
      <4>3. PICK ids : ids = [i \in 1 .. n |-> batch[d][i].id]
        OBVIOUS
      <4>4. PICK held : held = {ids[i] : i \in 1 .. n}
        OBVIOUS
      <4>5. ids \in [1 .. n -> held]
        BY <4>3, <4>4
      <4>6. IsFiniteSet(held) /\ Cardinality(held) \in Nat /\ Cardinality(held) <= n
        <5>1. \A s \in held : \E i \in 1 .. n : ids[i] = s
          BY <4>4
        <5> QED BY <4>2, <4>5, <5>1, ListCounted
      <4>7. Ahead(r) \ held \subseteq AheadOf(d, r)
        BY <4>2, <4>3, <4>4 DEF AheadOf, Holds
      <4>8. /\ Cardinality(Ahead(r) \ held) = Cardinality(Ahead(r)) - Cardinality(Ahead(r) \cap held)
            /\ Cardinality(Ahead(r) \ held) <= Cardinality(AheadOf(d, r))
        BY <1>4, <4>7, FS_Difference, FS_Subset
      <4>9. Cardinality(Ahead(r) \cap held) \in Nat /\ Cardinality(Ahead(r) \cap held) <= Cardinality(held)
        BY <4>6, FS_Subset, FS_CardinalityType
      <4>10. Backlog(d, r) = Cardinality(AheadOf(d, r))
        BY <3>6 DEF Backlog
      <4> QED BY <1>4, <3>4, <4>2, <4>6, <4>8, <4>9, <4>10
    <3> QED BY <3>5, <3>6
  <2> QED BY <2>1, <2>2
<1>6. Reached(- due[r] - age[d], Backlog(d, r)', exits + 1)
  <2>1. Reached(- due[r] - age[d], Backlog(d, r), exits)
    BY DEF OnTime
  <2> QED BY <1>5, <2>1, WaitTyped, ReachedAfterExit
<1> QED BY <1>1, <1>6 DEF OnTime

\* What a poll lists: either the row itself, or a full batch of rows ahead of it.
LEMMA PollLists ==
    ASSUME OutboxInv, NEW d \in Dequeuers, Poll(d), NEW r \in DueRows, ~Holds(d, r)'
    PROVE  \E listed \in SUBSET Ahead(r) :
              /\ Cardinality(listed) = BatchSize
              /\ \A q \in listed : Holds(d, q)'
<1> USE DEF OutboxInv
<1>1. DueRows \subseteq Rows /\ \A q \in DueRows : row[q] = "queued"
  BY DEF DueRows
<1>2. IsFiniteSet(DueRows) /\ Cardinality(DueRows) \in Nat
  BY <1>1, OutboxAssumption, FS_Subset, FS_CardinalityType
<1>3. PICK size : size = Least(BatchSize, Cardinality(DueRows))
  OBVIOUS
<1>4. size \in Nat /\ (size = BatchSize \/ size = Cardinality(DueRows))
  BY <1>2, <1>3, OutboxAssumption DEF Least
<1>5. PICK rows \in [1 .. size -> DueRows] :
         /\ Listed(rows)
         /\ batch' = [batch EXCEPT ![d] =
                        [i \in DOMAIN rows |-> [id |-> rows[i], attempts |-> attempts[rows[i]]]]]
  BY <1>3 DEF Poll
<1>6. \A i \in 1 .. size : rows[i] \in DueRows /\ Holds(d, rows[i])'
  <2>1. batch'[d] = [i \in 1 .. size |-> [id |-> rows[i], attempts |-> attempts[rows[i]]]]
    BY <1>5 DEF TypeOK
  <2>2. DOMAIN batch'[d] = 1 .. size /\ \A i \in 1 .. size : batch'[d][i].id = rows[i]
    BY <2>1
  <2>3. \A i \in 1 .. size : Holds(d, rows[i])'
    BY <2>2 DEF Holds
  <2> QED BY <1>5, <2>3
<1>7. \A i \in 1 .. size : rows[i] # r
  BY <1>6
<1>8. \A i, j \in 1 .. size : rows[i] = rows[j] => i = j
  <2> SUFFICES ASSUME NEW i \in 1 .. size, NEW j \in 1 .. size, i < j PROVE rows[i] # rows[j]
    BY <1>4
  <2>1. Before(rows[i], rows[j])
    BY <1>5 DEF Listed
  <2>2. rows[i] \in Nat /\ due[rows[i]] \in Int
    BY <1>1, <1>6, OutboxAssumption DEF TypeOK
  <2> QED BY <2>1, <2>2 DEF Before
<1>9. PICK listed : listed = {rows[i] : i \in 1 .. size}
  OBVIOUS
<1>10. Cardinality(listed) = size
  <2>1. rows \in [1 .. size -> listed] /\ \A s \in listed : \E i \in 1 .. size : rows[i] = s
    BY <1>5, <1>9
  <2> QED BY <1>4, <1>8, <2>1, ListCounted
<1>11. size = BatchSize
  <2>1. listed \subseteq DueRows \ {r}
    BY <1>6, <1>7, <1>9
  <2>2. IsFiniteSet(DueRows \ {r}) /\ Cardinality(DueRows \ {r}) = Cardinality(DueRows) - 1
    BY <1>2, FS_RemoveElement
  <2>3. Cardinality(listed) <= Cardinality(DueRows \ {r})
    BY <2>1, <2>2, FS_Subset
  <2> QED BY <1>2, <1>4, <1>10, <2>2, <2>3
<1>12. ASSUME NEW q \in listed PROVE q \in Ahead(r) /\ Holds(d, q)'
  <2>1. PICK i \in 1 .. size : q = rows[i]
    BY <1>9
  <2>2. q \in DueRows /\ q # r /\ Holds(d, q)'
    BY <1>6, <1>7, <2>1
  <2>3. ~Before(r, q)
    <3>1. Before(r, rows[i]) => \E j \in 1 .. size : rows[j] = r
      BY <1>5 DEF Listed
    <3> QED BY <1>7, <2>1, <3>1
  <2>4. q \in Nat /\ r \in Nat /\ due[q] \in Int /\ due[r] \in Int
    BY <1>1, <2>2, OutboxAssumption DEF TypeOK
  <2>5. Before(q, r)
    BY <2>2, <2>3, <2>4 DEF Before
  <2> QED BY <1>1, <2>2, <2>5 DEF Ahead
<1>13. listed \in SUBSET Ahead(r)
  BY <1>12
<1> QED BY <1>10, <1>11, <1>12, <1>13

\* A poll takes a batch off the backlog of every row that waited a period.
LEMMA PollOnTime ==
    ASSUME OutboxInv, TypeOK', NEW e \in Dequeuers, Poll(e), NEW d \in Dequeuers, NEW r \in Rows,
           row[r] = "queued", OnTime(d, r)
    PROVE  OnTime(d, r)'
<1>1. /\ phase[e] = "idle" /\ age' = [age EXCEPT ![e] = 0] /\ UNCHANGED <<row, due, exits>>
  BY DEF Poll
<1>2. Ahead(r)' = Ahead(r)
  BY <1>1 DEF Ahead, Before
<1>3. CASE d # e
  <2>1. batch'[d] = batch[d]
    BY <1>3 DEF Poll, OutboxInv, TypeOK
  <2>2. age'[d] = age[d]
    BY <1>1, <1>3 DEF OutboxInv, TypeOK
  <2>3. \A p : Holds(d, p)' <=> Holds(d, p)
    BY <2>1 DEF Holds
  <2>4. - due'[r] - age'[d] <= - due[r] - age[d]
    BY <1>1, <2>2, WaitTyped DEF OutboxInv
  <2> QED BY <1>1, <1>2, <2>3, <2>4, QuietStep DEF OutboxInv
<1>4. CASE d = e
  <2>1. age'[d] = 0 /\ batch[d] = <<>>
    BY <1>1, <1>4 DEF OutboxInv, TypeOK
  <2>2. \A p : ~Holds(d, p)
    BY <2>1 DEF Holds
  <2>3. Backlog(d, r) = Cardinality(Ahead(r))
    <3>1. AheadOf(d, r) = Ahead(r)
      BY <2>2 DEF AheadOf
    <3> QED BY <2>2, <3>1 DEF Backlog
  <2>4. CASE - due'[r] - age'[d] < Period
    BY <2>4, YoungRow DEF OutboxInv
  <2>5. CASE ~(- due'[r] - age'[d] < Period)
    <3>1. /\ age[d] \in 0 .. Period /\ due[r] \in Int /\ Period \in Nat \ {0}
          /\ BatchSize \in Nat
      BY WaitTyped DEF OutboxInv
    <3>2. due[r] <= 0 /\ - due'[r] - age'[d] <= - due[r] - age[d] + Period
      BY <1>1, <2>1, <2>5, <3>1
    <3>3. IsFiniteSet(Ahead(r)) /\ Cardinality(Ahead(r)) \in Nat
      <4>1. Ahead(r) \subseteq Rows \ {r}
        BY DEF Ahead
      <4> QED BY <4>1, OthersCounted
    <3>4. Backlog(d, r)' + BatchSize <= Backlog(d, r)
      <4>1. CASE Holds(d, r)'
        <5>1. Backlog(d, r)' = Cardinality(Ahead(r)) - BatchSize
          BY <1>2, <4>1 DEF Backlog
        <5> QED BY <2>3, <3>1, <3>3, <5>1
      <4>2. CASE ~Holds(d, r)'
        <5>1. r \in DueRows
          BY <3>2 DEF DueRows
        <5>2. PICK listed \in SUBSET Ahead(r) : /\ Cardinality(listed) = BatchSize
                                                /\ \A q \in listed : Holds(d, q)'
          BY <1>4, <4>2, <5>1, PollLists
        <5>3. Backlog(d, r)' = Cardinality(AheadOf(d, r)')
          BY <4>2 DEF Backlog
        <5>4. AheadOf(d, r)' \subseteq Ahead(r) \ listed
          BY <1>2, <5>2 DEF AheadOf
        <5>5. Ahead(r) \cap listed = listed
          BY <5>2
        <5>6. /\ IsFiniteSet(Ahead(r) \ listed)
              /\ Cardinality(Ahead(r) \ listed) = Cardinality(Ahead(r)) - BatchSize
          BY <3>3, <5>2, <5>5, FS_Difference
        <5>7. /\ Cardinality(AheadOf(d, r)') <= Cardinality(Ahead(r) \ listed)
              /\ Cardinality(AheadOf(d, r)') \in Nat
          BY <5>4, <5>6, FS_Subset, FS_CardinalityType
        <5> QED BY <2>3, <3>1, <3>3, <5>3, <5>6, <5>7
      <4> QED BY <4>1, <4>2
    <3>5. Reached(- due'[r] - age'[d], Backlog(d, r)', exits)
      <4>1. Reached(- due[r] - age[d], Backlog(d, r), exits)
        BY DEF OnTime
      <4>2. /\ - due[r] - age[d] \in Int /\ - due'[r] - age'[d] \in Int /\ exits \in Nat
            /\ Backlog(d, r) \in Int /\ Backlog(d, r)' \in Int
        BY WaitTyped DEF OutboxInv
      <4> QED BY <3>2, <3>4, <4>1, <4>2, ReachedByPoll
    <3> QED BY <1>1, <3>5 DEF OnTime
  <2> QED BY <2>4, <2>5
<1> QED BY <1>3, <1>4

-----------------------------------------------------------------------------
(* The invariant and the bound.                                            *)

\* Rows are counted to be late up to MaxLag.
LEMMA LagKept ==
    ASSUME OutboxInv, LagBounded, [Next]_vars
    PROVE  LagBounded'
<1> SUFFICES ASSUME NEW r \in Rows, row'[r] = "queued"
             PROVE  - due'[r] <= MaxLag \/ - due'[r] < Period
  BY DEF LagBounded
<1> USE DEF OutboxInv
<1>1. /\ due[r] \in Int /\ MaxLag \in Nat /\ Period \in Nat \ {0}
      /\ row[r] = "queued" => - due[r] <= MaxLag \/ - due[r] < Period
  BY OutboxAssumption DEF TypeOK, LagBounded
<1>2. CASE Tick
  BY <1>1, <1>2 DEF Tick
<1>3. ASSUME NEW q \in Rows, AppendMessage(q) PROVE - due'[r] <= MaxLag \/ - due'[r] < Period
  <2>1. due'[r] = IF r = q THEN 0 ELSE due[r]
    BY <1>3 DEF AppendMessage, TypeOK
  <2>2. r # q => row'[r] = row[r]
    BY <1>3 DEF AppendMessage, TypeOK
  <2> QED BY <1>1, <2>1, <2>2
<1>4. ASSUME NEW d \in Dequeuers, RecordFailure(d) PROVE - due'[r] <= MaxLag \/ - due'[r] < Period
  <2> DEFINE c == Current(d).id
             delay == NextDelay(Current(d).attempts)
  <2>1. /\ NextRow(d) /\ phase[d] = "recording" /\ row' = row
        /\ IF row[c] = "queued" THEN due' = [due EXCEPT ![c] = delay - age[d]] ELSE due' = due
    BY <1>4 DEF RecordFailure
  <2>2. Current(d) \in Snapshot /\ c \in Rows
    BY <2>1, NextRowEffect
  <2>3. delay \in Nat \ {0}
    BY <2>2, DelayTyped DEF Snapshot
  <2>4. due'[r] = due[r] \/ due'[r] = delay - age[d]
    BY <2>1, <2>2 DEF TypeOK
  <2>5. age[d] \in 0 .. Period
    BY DEF TypeOK
  <2> HIDE DEF c, delay
  <2> QED BY <1>1, <2>1, <2>3, <2>4, <2>5
<1>5. ASSUME NEW d \in Dequeuers, Delete(d) PROVE - due'[r] <= MaxLag \/ - due'[r] < Period
  <2>1. Current(d).id \in Rows
    BY <1>5, NextRowEffect DEF Delete
  <2>2. due' = due /\ row[r] = "queued"
    BY <1>5, <2>1 DEF Delete, TypeOK
  <2> QED BY <1>1, <2>2
<1>6. CASE UNCHANGED <<row, due>>
  BY <1>1, <1>6
<1> QED
  BY <1>2, <1>3, <1>4, <1>5, <1>6
  DEF Next, Work, Poll, PublishSucceeds, PublishFails, Restart, Exit, vars

\* Every step keeps every row on time, while MaxLag does not hide its lateness.
LEMMA StepOnTime ==
    ASSUME OutboxInv, OutboxInv', [Next]_vars, NEW d \in Dequeuers, NEW r \in Rows,
           row'[r] = "queued", row[r] = "queued" => OnTime(d, r),
           \A p \in Rows : row[p] = "queued" => due[p] > - MaxLag
    PROVE  OnTime(d, r)'
<1> USE DEF OutboxInv
<1>1. CASE Tick
  <2>1. row[r] = "queued"
    BY <1>1 DEF Tick
  <2> QED BY <1>1, <2>1, TickOnTime
<1>2. ASSUME NEW q \in Rows, AppendMessage(q) PROVE OnTime(d, r)'
  BY <1>2, AppendOnTime
<1>3. ASSUME NEW e \in Dequeuers, Poll(e) PROVE OnTime(d, r)'
  BY <1>3, PollOnTime DEF Poll
<1>4. ASSUME NEW e \in Dequeuers, Delete(e) PROVE OnTime(d, r)'
  BY <1>4, DeleteOnTime
<1>5. ASSUME NEW e \in Dequeuers, RecordFailure(e) PROVE OnTime(d, r)'
  BY <1>5, RecordOnTime
<1>6. ASSUME NEW e \in Dequeuers, Exit(e) PROVE OnTime(d, r)'
  BY <1>6, ExitOnTime DEF Exit
<1>7. CASE UNCHANGED <<row, due, batch, age, exits>>
  BY <1>7, StillOnTime
<1> QED
  BY <1>1, <1>2, <1>3, <1>4, <1>5, <1>6, <1>7
  DEF Next, Work, PublishSucceeds, PublishFails, Restart, vars

\* A row on time with some dequeuer waits no longer than the bound.
LEMMA OnTimeBounds ==
    ASSUME TypeOK, NEW d \in Dequeuers, NEW r \in Rows, OnTime(d, r)
    PROVE  - due[r] <= (Polls + 2 + exits) * Period
<1>1. age[d] \in 0 .. Period /\ due[r] \in Int /\ exits \in Nat /\ Period \in Nat
  BY OutboxAssumption DEF TypeOK
<1>2. Backlog(d, r) \in Int /\ - BatchSize <= Backlog(d, r)
  <2>1. Backlog(d, r) \in - BatchSize .. Cardinality(Rows) - 1
    BY BacklogTyped
  <2>2. BatchSize \in Nat /\ Cardinality(Rows) \in Nat
    BY OutboxAssumption, FS_CardinalityType
  <2> QED BY <2>1, <2>2
<1>3. PICK w \in Int : w = - due[r] - age[d]
  BY <1>1
<1>4. Reached(w, Backlog(d, r), exits)
  BY <1>3 DEF OnTime
<1>5. w + age[d] <= (Polls + 2 + exits) * Period
  BY <1>1, <1>2, <1>4, ReachedBounds
<1>6. w + age[d] = - due[r]
  BY <1>1, <1>3
<1> QED BY <1>5, <1>6

\* The bound grows with the exits.
LEMMA BoundGrows ==
    ASSUME NEW x \in Nat, NEW y \in Nat, x <= y
    PROVE  /\ (Polls + 2 + x) * Period <= (Polls + 2 + y) * Period
           /\ (Polls + 2 + x) * Period \in Int /\ (Polls + 2 + y) * Period \in Int
<1>1. Polls \in Nat /\ Period \in Nat
  BY PollsSuffice, OutboxAssumption
<1>2. Polls + 2 + x \in Int /\ Polls + 2 + y \in Int /\ Polls + 2 + x <= Polls + 2 + y
  BY <1>1
<1> QED BY <1>1, <1>2, Products

\* WaitInv is kept by every step.
LEMMA WaitInvStep ==
    ASSUME WaitInv, OutboxInv', [Next]_vars
    PROVE  WaitInv'
<1>1. OutboxInv /\ LagBounded /\ BacklogsShrink
  BY DEF WaitInv
<1>2. LagBounded'
  BY <1>1, LagKept
<1>3. BacklogsShrink'
  <2> SUFFICES ASSUME ~(MaxLag <= (Polls + 2 + exits') * Period),
                      NEW d \in Dequeuers, NEW r \in Rows, row'[r] = "queued"
               PROVE  OnTime(d, r)'
    BY DEF BacklogsShrink
  <2>1. exits \in Nat /\ exits' \in Nat /\ exits <= exits' /\ MaxLag \in Nat /\ Period \in Nat
    <3>1. exits \in 0 .. MaxExits /\ exits' \in 0 .. MaxExits /\ MaxLag \in Nat /\ MaxExits \in Nat /\ Period \in Nat
      BY <1>1, OutboxAssumption DEF OutboxInv, TypeOK
    <3>2. exits' = exits \/ exits' = exits + 1
      BY DEF Next, AppendMessage, Tick, Work, Poll, PublishSucceeds, PublishFails, Delete,
             RecordFailure, Exit, Restart, vars
    <3> QED BY <3>1, <3>2
  <2>2. (Polls + 2 + exits) * Period < MaxLag
    <3>1. /\ (Polls + 2 + exits) * Period <= (Polls + 2 + exits') * Period
          /\ (Polls + 2 + exits) * Period \in Int /\ (Polls + 2 + exits') * Period \in Int
      BY <2>1, BoundGrows
    <3> QED BY <2>1, <3>1
  <2>3. (Polls + 2 + exits) * Period \in Int
    BY <2>1, PollsSuffice
  <2>4. \A p \in Rows : row[p] = "queued" => OnTime(d, p)
    BY <1>1, <2>1, <2>2, <2>3 DEF BacklogsShrink
  <2>5. \A p \in Rows : row[p] = "queued" => due[p] > - MaxLag
    <3> SUFFICES ASSUME NEW p \in Rows, row[p] = "queued" PROVE due[p] > - MaxLag
      OBVIOUS
    <3>1. - due[p] <= (Polls + 2 + exits) * Period
      BY <1>1, <2>4, OnTimeBounds DEF OutboxInv
    <3>2. due[p] \in Int
      BY <1>1 DEF OutboxInv, TypeOK
    <3> QED BY <2>1, <2>2, <2>3, <3>1, <3>2
  <2> QED BY <1>1, <2>4, <2>5, StepOnTime
<1> QED BY <1>2, <1>3 DEF WaitInv

\* However many rows keep failing and however the dequeuers overlap, a due row
\* waits for a period, one turn of every row, a period, and a poll for every exit.
THEOREM WaitsAreBounded == Spec => []WaitIsBounded
<1>1. Init => WaitInv
  <2> SUFFICES ASSUME Init PROVE WaitInv
    OBVIOUS
  <2>1. \A r \in Rows : row[r] = "new"
    BY DEF Init
  <2> QED BY <2>1, InitOutboxInv DEF WaitInv, LagBounded, BacklogsShrink
<1>2. WaitInv /\ OutboxInv' /\ [Next]_vars => WaitInv'
  BY WaitInvStep
<1>3. WaitInv => WaitIsBounded
  <2> SUFFICES ASSUME WaitInv, NEW r \in Rows, row[r] = "queued"
               PROVE  - due[r] <= (Polls + 2 + exits) * Period
    BY DEF WaitIsBounded
  <2>1. TypeOK /\ LagBounded /\ BacklogsShrink
    BY DEF WaitInv, OutboxInv
  <2>2. CASE MaxLag <= (Polls + 2 + exits) * Period
    <3>1. PICK t : t = Polls + 1 + exits
      OBVIOUS
    <3>2. t \in Nat /\ Period \in Nat /\ Polls + 2 + exits = t + 1
      BY <2>1, <3>1, OutboxAssumption, PollsSuffice DEF TypeOK
    <3>3. (t + 1) * Period = t * Period + Period /\ t * Period \in Nat
      BY <3>2
    <3>4. - due[r] <= MaxLag \/ - due[r] < Period
      BY <2>1 DEF LagBounded
    <3>5. due[r] \in Int /\ MaxLag \in Nat
      BY <2>1, OutboxAssumption DEF TypeOK
    <3> QED BY <2>2, <3>2, <3>3, <3>4, <3>5
  <2>3. CASE \A d \in Dequeuers, q \in Rows : row[q] = "queued" => OnTime(d, q)
    <3>1. PICK d \in Dequeuers : TRUE
      BY OutboxAssumption
    <3> QED BY <2>1, <2>3, <3>1, OnTimeBounds
  <2> QED BY <2>1, <2>2, <2>3 DEF BacklogsShrink
<1> QED BY <1>1, <1>2, <1>3, OutboxCorrect, PTL DEF Spec

=============================================================================
