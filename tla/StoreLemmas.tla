----------------------------- MODULE StoreLemmas -----------------------------
(***************************************************************************)
(* What the proofs about the stores share: the rows of an order that have  *)
(* fewer than so many before them are so many at most, and so many at      *)
(* least when one row was left out.                                        *)
(***************************************************************************)
EXTENDS Store, FiniteSetTheorems, WellFoundedInduction, TLAPS

(* A strict order of a set, given as the pairs it puts in order. *)
StrictOrder(S, before) ==
  /\ \A q \in S : <<q, q>> \notin before
  /\ \A p, q, r \in S : <<p, q>> \in before /\ <<q, r>> \in before => <<p, r>> \in before
  /\ \A q, r \in S : q = r \/ <<q, r>> \in before \/ <<r, q>> \in before

Preceding(S, before, r) == {q \in S : <<q, r>> \in before}

Leading(S, before, limit) == {r \in S : Cardinality(Preceding(S, before, r)) < limit}

(* What stands before a row has fewer before it than the row has. *)
LEMMA PlacesGrow ==
  ASSUME NEW S, IsFiniteSet(S), NEW before, StrictOrder(S, before),
         NEW q \in S, NEW r \in S, <<q, r>> \in before
  PROVE  /\ IsFiniteSet(Preceding(S, before, r))
         /\ Preceding(S, before, q) \in SUBSET Preceding(S, before, r)
         /\ Cardinality(Preceding(S, before, q)) \in Nat
         /\ Cardinality(Preceding(S, before, r)) \in Nat
         /\ Cardinality(Preceding(S, before, q)) < Cardinality(Preceding(S, before, r))
<1>. DEFINE Q == Preceding(S, before, q)
            R == Preceding(S, before, r)
<1>1. Q \in SUBSET R /\ q \in R /\ q \notin Q
  BY DEF StrictOrder, Preceding
<1>2. R \in SUBSET S
  BY DEF Preceding
<1>. HIDE DEF Q, R
<1>3. IsFiniteSet(R) /\ IsFiniteSet(Q)
  BY <1>1, <1>2, FS_Subset
<1>4. Cardinality(Q) \in Nat /\ Cardinality(R) \in Nat
  BY <1>3, FS_CardinalityType
<1>5. Cardinality(Q) <= Cardinality(R) /\ Cardinality(Q) # Cardinality(R)
  BY <1>1, <1>3, FS_Subset
<1>6. Cardinality(Q) < Cardinality(R)
  BY <1>4, <1>5
<1>. QED  BY <1>1, <1>3, <1>4, <1>6 DEF Q, R

(* No two rows have as many before them, so no more than `limit' have fewer than `limit'. *)
LEMMA LeadingIsBounded ==
  ASSUME NEW S, IsFiniteSet(S), NEW before, StrictOrder(S, before), NEW limit \in Nat
  PROVE  /\ Leading(S, before, limit) \in SUBSET S
         /\ IsFiniteSet(Leading(S, before, limit))
         /\ Cardinality(Leading(S, before, limit)) \in Nat
         /\ Cardinality(Leading(S, before, limit)) <= limit
<1>. DEFINE O == Leading(S, before, limit)
            Place == [r \in O |-> Cardinality(Preceding(S, before, r))]
            Places == 0 .. limit - 1
<1>1. O \in SUBSET S
  BY DEF Leading
<1>2. IsFiniteSet(O)
  BY <1>1, FS_Subset
<1>3. Cardinality(O) \in Nat
  BY <1>2, FS_CardinalityType
<1>4. ASSUME NEW r \in O
      PROVE  Cardinality(Preceding(S, before, r)) \in Places
  <2>1. Preceding(S, before, r) \in SUBSET S
    BY DEF Preceding
  <2>2. Cardinality(Preceding(S, before, r)) \in Nat
    BY <2>1, FS_Subset, FS_CardinalityType
  <2>3. Cardinality(Preceding(S, before, r)) < limit
    BY DEF Leading
  <2>. QED  BY <2>2, <2>3
<1>5. Place \in [O -> Places]
  BY <1>4
<1>6. ASSUME NEW q \in O, NEW r \in O, q # r
      PROVE  Place[q] # Place[r]
  <2>1. q \in S /\ r \in S
    BY <1>1
  <2>2. <<q, r>> \in before \/ <<r, q>> \in before
    BY <1>6, <2>1 DEF StrictOrder
  <2>3. CASE <<q, r>> \in before
    <3>1. Place[q] \in Nat /\ Place[r] \in Nat /\ Place[q] < Place[r]
      BY <2>1, <2>3, PlacesGrow
    <3>. QED  BY <3>1
  <2>4. CASE <<r, q>> \in before
    <3>1. Place[q] \in Nat /\ Place[r] \in Nat /\ Place[r] < Place[q]
      BY <2>1, <2>4, PlacesGrow
    <3>. QED  BY <3>1
  <2>. QED  BY <2>2, <2>3, <2>4
<1>7. IsFiniteSet(Places) /\ Cardinality(Places) = limit
  BY FS_Interval
<1>8. ~(Cardinality(Places) < Cardinality(O))
  <2>. HIDE DEF Place, Places, O
  <2>. QED  BY <1>2, <1>5, <1>6, <1>7, FS_PigeonHole
<1>. QED  BY <1>1, <1>2, <1>3, <1>7, <1>8

LEMMA LeastNatural ==
  ASSUME NEW T \in SUBSET Nat, T # {}
  PROVE  \E n \in T : \A m \in T : n <= m
<1>1. \E n \in T : \A m \in T : <<m, n>> \notin OpToRel(<, Nat)
  BY NatLessThanWellFounded, WFMin
<1>2. \A m, n \in Nat : m < n => <<m, n>> \in OpToRel(<, Nat)
  BY DEF OpToRel
<1>3. \A m, n \in Nat : m < n \/ n <= m
  OBVIOUS
<1>. QED  BY <1>1, <1>2, <1>3

(* A row is left out only when `limit' others lead, all of them before it: of the rows left out, *)
(* what stands before the first of them leads.                                                  *)
LEMMA LeadingFillsUp ==
  ASSUME NEW S, IsFiniteSet(S), NEW before, StrictOrder(S, before), NEW limit \in Nat,
         NEW r \in S, r \notin Leading(S, before, limit)
  PROVE  /\ Cardinality(Leading(S, before, limit)) >= limit
         /\ \A p \in Leading(S, before, limit) : <<p, r>> \in before
<1>. DEFINE O == Leading(S, before, limit)
            Place(q) == Cardinality(Preceding(S, before, q))
            Behind == {Place(q) : q \in S \ O}
<1>1. ASSUME NEW q \in S
      PROVE  /\ IsFiniteSet(Preceding(S, before, q)) /\ Place(q) \in Nat
             /\ q \in O <=> Place(q) < limit
  <2>1. Preceding(S, before, q) \in SUBSET S
    BY DEF Preceding
  <2>2. IsFiniteSet(Preceding(S, before, q)) /\ Place(q) \in Nat
    BY <2>1, FS_Subset, FS_CardinalityType
  <2>. QED  BY <2>2 DEF Leading
<1>2. Behind \in SUBSET Nat /\ Behind # {}
  BY <1>1
<1>3. PICK x \in S \ O : \A q \in S \ O : Place(x) <= Place(q)
  <2>1. PICK n \in Behind : \A m \in Behind : n <= m
    <3>. HIDE DEF Behind
    <3>. QED  BY <1>2, LeastNatural
  <2>2. PICK x \in S \ O : n = Place(x)
    BY <2>1
  <2>3. \A q \in S \ O : Place(x) <= Place(q)
    BY <2>1, <2>2
  <2>. QED  BY <2>3
<1>4. Preceding(S, before, x) \in SUBSET O
  <2>. SUFFICES ASSUME NEW q \in S, <<q, x>> \in before
                PROVE  q \in O
    BY DEF Preceding
  <2>1. Place(q) \in Nat /\ Place(x) \in Nat /\ Place(q) < Place(x)
    BY PlacesGrow
  <2>2. ~(Place(x) <= Place(q))
    BY <2>1
  <2>. QED  BY <1>3, <2>2
<1>5. IsFiniteSet(O) /\ Cardinality(O) \in Nat
  BY LeadingIsBounded
<1>6. Place(x) <= Cardinality(O)
  BY <1>4, <1>5, FS_Subset
<1>7. Place(x) \in Nat /\ ~(Place(x) < limit)
  BY <1>1, <1>3
<1>8. ASSUME NEW p \in O
      PROVE  <<p, r>> \in before
  <2>1. p \in S /\ p # r
    BY DEF Leading
  <2>2. <<r, p>> \notin before
    <3>. SUFFICES ASSUME <<r, p>> \in before
                  PROVE  FALSE
      OBVIOUS
    <3>1. Place(r) \in Nat /\ Place(p) \in Nat /\ Place(r) < Place(p)
      BY <2>1, PlacesGrow
    <3>2. Place(p) < limit /\ ~(Place(r) < limit)
      BY <1>1, <2>1
    <3>. QED  BY <3>1, <3>2
  <2>. QED  BY <2>1, <2>2 DEF StrictOrder
<1>. QED  BY <1>5, <1>6, <1>7, <1>8

-----------------------------------------------------------------------------
(* The rows of a batch, oldest first, are the leading ones in the order of their ids. *)

Older(S) == {pair \in S \X S : pair[1] < pair[2]}

LEMMA OldestLeads ==
  ASSUME NEW S \in SUBSET Ids, NEW limit
  PROVE  /\ IsFiniteSet(S)
         /\ StrictOrder(S, Older(S))
         /\ Oldest(S, limit) = Leading(S, Older(S), limit)
<1>1. MaxRuns \in Nat /\ IsFiniteSet(Ids)
  BY StoreAssumption, FS_Interval DEF Ids
<1>2. IsFiniteSet(S) /\ \A r \in S : r \in Int
  <2>1. IsFiniteSet(S)
    BY <1>1, FS_Subset
  <2>2. \A r \in S : r \in Int
    BY <1>1 DEF Ids
  <2>. QED  BY <2>1, <2>2
<1>3. \A q, r \in S : <<q, r>> \in Older(S) <=> q < r
  BY DEF Older
<1>4. StrictOrder(S, Older(S))
  BY <1>2, <1>3 DEF StrictOrder
<1>5. \A r \in S : Preceding(S, Older(S), r) = {q \in S : q < r}
  BY <1>3 DEF Preceding
<1>6. Oldest(S, limit) = Leading(S, Older(S), limit)
  BY <1>5 DEF Oldest, Leading
<1>. QED  BY <1>2, <1>4, <1>6

(* A batch of the oldest is no larger than its limit. *)
LEMMA OldestIsBounded ==
  ASSUME NEW S \in SUBSET Ids, NEW limit \in Nat
  PROVE  /\ Oldest(S, limit) \in SUBSET S
         /\ IsFiniteSet(Oldest(S, limit))
         /\ Cardinality(Oldest(S, limit)) \in Nat
         /\ Cardinality(Oldest(S, limit)) <= limit
BY OldestLeads, LeadingIsBounded

(* And it is no smaller either when it leaves a row out. *)
LEMMA OldestFillsUp ==
  ASSUME NEW S \in SUBSET Ids, NEW limit \in Nat, NEW r \in S, r \notin Oldest(S, limit)
  PROVE  Cardinality(Oldest(S, limit)) = limit
<1>1. Cardinality(Oldest(S, limit)) >= limit
  BY OldestLeads, LeadingFillsUp
<1>. QED  BY <1>1, OldestIsBounded

(* One claim wins no more than it asked for. *)
LEMMA WonIsBounded ==
  ASSUME StoreType, \A r \in Ids : Present(r) => asked[r] \in Orders,
         NEW queues, NEW limit \in Nat, NEW moment
  PROVE  /\ Won(queues, limit, moment) \in SUBSET {r \in Ids : Claimable(r, queues, moment)}
         /\ IsFiniteSet(Won(queues, limit, moment))
         /\ Cardinality(Won(queues, limit, moment)) \in Nat
         /\ Cardinality(Won(queues, limit, moment)) <= limit
<1>. DEFINE S == {r \in Ids : Claimable(r, queues, moment)}
            before == {pair \in S \X S : Ahead(pair[1], pair[2])}
<1>1. MaxRuns \in Nat /\ IsFiniteSet(Ids)
  BY StoreAssumption, FS_Interval DEF Ids
<1>2. IsFiniteSet(S)
  BY <1>1, FS_Subset
<1>3. \A r \in S : r \in Int /\ runs[r].due_at \in Int /\ asked[r].priority \in Int
  <2>. SUFFICES ASSUME NEW r \in S
                PROVE  r \in Int /\ runs[r].due_at \in Int /\ asked[r].priority \in Int
    OBVIOUS
  <2>1. r \in Ids /\ r \in Int /\ runs[r] \in RowType
    BY <1>1 DEF Ids, StoreType
  <2>2. asked[r] \in Orders
    BY DEF Present, Claimable
  <2>. QED  BY <2>1, <2>2, StoreAssumption DEF RowType, OrderType
<1>4. \A q, r \in S : <<q, r>> \in before <=> Ahead(q, r)
  OBVIOUS
<1>5. Won(queues, limit, moment) = {r \in S : Cardinality({q \in S : Ahead(q, r)}) < limit}
  BY DEF Won
<1>. HIDE DEF S, before
<1>6. StrictOrder(S, before)
  BY <1>3, <1>4 DEF StrictOrder, Ahead
<1>7. \A r \in S : Preceding(S, before, r) = {q \in S : Ahead(q, r)}
  BY <1>4 DEF Preceding
<1>8. Won(queues, limit, moment) = Leading(S, before, limit)
  BY <1>5, <1>7 DEF Leading
<1>9. /\ Won(queues, limit, moment) \in SUBSET S
      /\ IsFiniteSet(Won(queues, limit, moment))
      /\ Cardinality(Won(queues, limit, moment)) \in Nat
      /\ Cardinality(Won(queues, limit, moment)) <= limit
  BY <1>2, <1>6, <1>8, LeadingIsBounded
<1>. QED  BY <1>9 DEF S

-----------------------------------------------------------------------------
(* What the calls write is a row, and what they leave alone stays as it was. *)

LEMMA RowsAre ==
  ASSUME NEW row \in RowType, NEW worker \in Workers, NEW moment \in Int, NEW counted \in Int,
         NEW status \in Settled
  PROVE  /\ Absent \in RowType
         /\ Written(moment) \in RowType
         /\ ClaimedBy(row, worker, moment) \in RowType
         /\ Closed(row, status, moment) \in RowType
         /\ Requeued(row, moment, counted) \in RowType
         /\ [row EXCEPT !.lease_until = moment + Lease] \in RowType
<1>1. /\ status \in Statuses \union {"absent"} /\ "running" \in Statuses /\ "pending" \in Statuses
      /\ NoInstant \in Int /\ moment + Lease \in Int /\ row.attempts \in Int
      /\ row.attempts + 1 \in Int /\ row.attempts + counted \in Int
  BY StoreAssumption DEF Statuses, NoInstant, RowType
<1>2. Absent \in RowType /\ Written(moment) \in RowType
  BY <1>1 DEF RowType, Absent, Written
<1>3. ClaimedBy(row, worker, moment) \in RowType
  BY <1>1 DEF RowType, ClaimedBy
<1>4. Closed(row, status, moment) \in RowType
  BY <1>1 DEF RowType, Closed
<1>5. Requeued(row, moment, counted) \in RowType
  BY <1>1 DEF RowType, Requeued
<1>6. [row EXCEPT !.lease_until = moment + Lease] \in RowType
  BY <1>1 DEF RowType
<1>. QED  BY <1>2, <1>3, <1>4, <1>5, <1>6

LEMMA FieldsAre ==
  ASSUME NEW row \in RowType, NEW worker, NEW moment, NEW counted, NEW status
  PROVE  /\ Absent.status = "absent" /\ Written(moment).status = "pending"
         /\ ClaimedBy(row, worker, moment).status = "running"
         /\ ClaimedBy(row, worker, moment).worker = worker
         /\ ClaimedBy(row, worker, moment).attempts = row.attempts + 1
         /\ ClaimedBy(row, worker, moment).lease_until = moment + Lease
         /\ Closed(row, status, moment).status = status
         /\ Closed(row, status, moment).finished_at = moment
         /\ Requeued(row, moment, counted).status = "pending"
         /\ Requeued(row, moment, counted).due_at = moment
         /\ [row EXCEPT !.lease_until = moment + Lease].status = row.status
         /\ [row EXCEPT !.lease_until = moment + Lease].worker = row.worker
         /\ [row EXCEPT !.lease_until = moment + Lease].attempts = row.attempts
         /\ [row EXCEPT !.lease_until = moment + Lease].lease_until = moment + Lease
BY DEF RowType, Absent, Written, ClaimedBy, Closed, Requeued

LEMMA WriteStores ==
  ASSUME StoreType, NEW r \in Ids, NEW row \in RowType, Write(r, row)
  PROVE  /\ StoreType'
         /\ \A q \in Ids : runs'[q] = IF q = r THEN row ELSE runs[q]
         /\ UNCHANGED <<asked, sequence>>
BY DEF StoreType, Write

LEMMA AddStores ==
  ASSUME StoreType, NEW order \in Orders, NEW due_at \in Int, Add(order, due_at)
  PROVE  /\ StoreType'
         /\ sequence \in Ids /\ sequence' = sequence + 1
         /\ \A q \in Ids : /\ runs'[q] = IF q = sequence THEN Written(due_at) ELSE runs[q]
                           /\ asked'[q] = IF q = sequence THEN order ELSE asked[q]
<1>1. MaxRuns \in Nat
  BY StoreAssumption
<1>2. sequence \in 1 .. MaxRuns /\ sequence + 1 \in 1 .. MaxRuns + 1
  BY <1>1 DEF StoreType, Add
<1>3. Written(due_at) \in RowType
  BY StoreAssumption DEF Written, RowType, Statuses, NoInstant
<1>. QED  BY <1>2, <1>3 DEF StoreType, Add, Ids

(* What the holder of a row writes into it keeps it a row, and it stays running under the same  *)
(* attempt or is running no more.                                                               *)
LEMMA EndingStores ==
  ASSUME StoreType, NEW r \in Ids, NEW worker, NEW attempt, NEW moment \in Int,
         \/ Complete(r, worker, attempt, moment)
         \/ Fail(r, worker, attempt, moment)
         \/ RetryLater(r, worker, attempt, moment)
         \/ Release(r, worker, attempt, moment)
  PROVE  /\ Held(r, worker, attempt)
         /\ StoreType'
         /\ \A q \in Ids \ {r} : runs'[q] = runs[q]
         /\ runs'[r].status \in {"done", "failed", "pending"}
         /\ UNCHANGED <<asked, sequence>>
<1>0. runs[r] \in RowType /\ "done" \in Settled /\ "failed" \in Settled
  BY DEF StoreType, Settled
<1>1. ASSUME NEW row \in RowType, Write(r, row), Held(r, worker, attempt),
             row.status \in {"done", "failed", "pending"}
      PROVE  /\ StoreType'
             /\ \A q \in Ids \ {r} : runs'[q] = runs[q]
             /\ runs'[r].status \in {"done", "failed", "pending"}
             /\ UNCHANGED <<asked, sequence>>
  BY <1>1, WriteStores
<1>2. \A status \in {"done", "failed"} :
        /\ Closed(runs[r], status, moment) \in RowType
        /\ Closed(runs[r], status, moment).status = status
  <2>1. /\ NoInstant \in Int
        /\ {"done", "failed"} \subseteq Statuses \union {"absent"}
    BY DEF NoInstant, Statuses, Settled
  <2>. QED  BY <1>0, <2>1 DEF RowType, Closed
<1>3. \A counted \in {0, -1} :
        /\ Requeued(runs[r], moment, counted) \in RowType
        /\ Requeued(runs[r], moment, counted).status = "pending"
  <2>1. /\ NoInstant \in Int
        /\ "pending" \in Statuses \union {"absent"}
        /\ \A counted \in {0, -1} : runs[r].attempts + counted \in Int
    BY <1>0 DEF NoInstant, Statuses, Settled, RowType
  <2>. QED  BY <1>0, <2>1 DEF RowType, Requeued
<1>. QED  BY <1>1, <1>2, <1>3 DEF Complete, Fail, RetryLater, Release

LEMMA HeartbeatStores ==
  ASSUME StoreType, NEW r \in Ids, NEW worker, NEW attempt, NEW moment \in Int,
         Heartbeat(r, worker, attempt, moment)
  PROVE  /\ StoreType'
         /\ \A q \in Ids \ {r} : runs'[q] = runs[q]
         /\ runs'[r] = [runs[r] EXCEPT !.lease_until = moment + Lease]
         /\ runs'[r].status = runs[r].status /\ runs'[r].worker = runs[r].worker
         /\ runs'[r].attempts = runs[r].attempts
         /\ UNCHANGED <<asked, sequence>>
<1>. DEFINE row == [runs[r] EXCEPT !.lease_until = moment + Lease]
<1>0. runs[r] \in RowType /\ moment + Lease \in Int
  BY StoreAssumption DEF StoreType
<1>1. row \in RowType
  BY <1>0 DEF RowType
<1>2. row.status = runs[r].status /\ row.worker = runs[r].worker /\ row.attempts = runs[r].attempts
  BY <1>0 DEF RowType
<1>. HIDE DEF row
<1>3. Write(r, row)
  BY DEF Heartbeat, row
<1>. QED  BY <1>1, <1>2, <1>3, WriteStores DEF row

LEMMA CancelStores ==
  ASSUME StoreType, NEW r \in Ids, NEW moment \in Int, Cancel(r, moment)
  PROVE  /\ StoreType'
         /\ \A q \in Ids \ {r} : runs'[q] = runs[q]
         /\ runs[r].status = "pending" /\ runs'[r].status = "canceled"
         /\ runs'[r].finished_at = moment
         /\ UNCHANGED <<asked, sequence>>
<1>. DEFINE row == Closed(runs[r], "canceled", moment)
<1>0. /\ runs[r] \in RowType /\ NoInstant \in Int
      /\ "canceled" \in Statuses \union {"absent"}
  BY DEF StoreType, NoInstant, Statuses, Settled
<1>1. row \in RowType /\ row.status = "canceled" /\ row.finished_at = moment
  BY <1>0 DEF RowType, Closed
<1>. HIDE DEF row
<1>2. Write(r, row) /\ runs[r].status = "pending"
  BY DEF Cancel, row
<1>. QED  BY <1>1, <1>2, WriteStores
=============================================================================
