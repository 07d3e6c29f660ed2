----------------------------- MODULE RedisProofs -----------------------------
(***************************************************************************)
(* That the store in redis keeps its hashes, its sorted sets and its       *)
(* reservations together, for every number of runs, callers and workers,   *)
(* every order of the ids' texts and every run of evictions, and what      *)
(* follows: its claims leave nothing more urgent behind, its rows move as  *)
(* a store may move them, and store_once answers with what it should.      *)
(***************************************************************************)
EXTENDS RedisStore, StoreLemmas

-----------------------------------------------------------------------------
(* What a sorted set answers with, cut short. *)

LEMMA FirstIs ==
  ASSUME NEW set \in Scores, NEW S \in SUBSET Ids, NEW limit \in Nat
  PROVE  /\ First(set, S, limit) \in SUBSET S
         /\ IsFiniteSet(First(set, S, limit))
         /\ Cardinality(First(set, S, limit)) \in Nat
         /\ Cardinality(First(set, S, limit)) <= limit
         /\ \A r \in S \ First(set, S, limit) :
              /\ Cardinality(First(set, S, limit)) >= limit
              /\ \A p \in First(set, S, limit) : SortedBefore(set, p, r)
<1>. DEFINE before == {pair \in S \X S : SortedBefore(set, pair[1], pair[2])}
<1>1. IsFiniteSet(Ids)
  BY FS_Interval, StoreAssumption DEF Ids
<1>2. IsFiniteSet(S)
  BY <1>1, FS_Subset
<1>3. \A q, r \in S : <<q, r>> \in before <=> SortedBefore(set, q, r)
  OBVIOUS
<1>4. \A r \in S : set[r] \in Int /\ TextOf(r) \in Nat
  BY RedisAssumption DEF Scores, Out, NoInstant
<1>5. \A q, r \in S : TextOf(q) = TextOf(r) => q = r
  BY RedisAssumption
<1>. HIDE DEF before
<1>6. StrictOrder(S, before)
  <2>1. \A q \in S : ~SortedBefore(set, q, q)
    BY <1>4 DEF SortedBefore
  <2>2. \A p, q, r \in S : SortedBefore(set, p, q) /\ SortedBefore(set, q, r) => SortedBefore(set, p, r)
    BY <1>4 DEF SortedBefore
  <2>3. \A q, r \in S : q = r \/ SortedBefore(set, q, r) \/ SortedBefore(set, r, q)
    BY <1>4, <1>5 DEF SortedBefore
  <2>. QED  BY <1>3, <2>1, <2>2, <2>3 DEF StrictOrder
<1>7. \A r \in S : Preceding(S, before, r) = {q \in S : SortedBefore(set, q, r)}
  BY <1>3 DEF Preceding
<1>8. First(set, S, limit) = Leading(S, before, limit)
  BY <1>7 DEF First, Leading
<1>9. \A r \in S \ Leading(S, before, limit) :
        /\ Cardinality(Leading(S, before, limit)) >= limit
        /\ \A p \in Leading(S, before, limit) : <<p, r>> \in before
  BY <1>2, <1>6, LeadingFillsUp
<1>10. /\ Leading(S, before, limit) \in SUBSET S /\ IsFiniteSet(Leading(S, before, limit))
       /\ Cardinality(Leading(S, before, limit)) \in Nat
       /\ Cardinality(Leading(S, before, limit)) <= limit
  BY <1>2, <1>6, LeadingIsBounded
<1>11. \A r \in S, p \in Leading(S, before, limit) : <<p, r>> \in before => SortedBefore(set, p, r)
  BY <1>3, <1>10
<1>. QED  BY <1>8, <1>9, <1>10, <1>11

-----------------------------------------------------------------------------
(* The invariant, row by row and key by key. *)

(* Where a row sits: in the set its status names, under the instant it holds, and in no other;  *)
(* and a row that is gone only where an eviction left it.                                       *)
Sits(row, ready, lease, over, gone) ==
  IF row.status = "absent"
    THEN /\ row = Absent
         /\ ~gone => ready = Out /\ lease = Out /\ over = Out
    ELSE /\ ~gone
         /\ IF row.status = "pending" THEN ready = row.due_at /\ ready # Out ELSE ready = Out
         /\ IF row.status = "running" THEN lease = row.lease_until /\ lease # Out ELSE lease = Out
         /\ IF row.status \in Settled THEN over = row.finished_at /\ over # Out ELSE over = Out

SitsWell(r) == Sits(runs[r], lane[r], leased[r], settled[r], r \in evicted)

RowKept(r) ==
  /\ SitsWell(r)
  /\ r < sequence => asked[r] \in Orders
  /\ r >= sequence => asked[r] = NoOrder /\ ~Present(r)
  /\ r \in evicted => r < sequence
  /\ Present(r) => <<asked[r].queue, asked[r].priority>> \in listed
  /\ Present(r) /\ asked[r].key # NoKey => reserved[asked[r].key] = r

KeyKept(k) ==
  reserved[k] # Free => asked[reserved[k]].key = k /\ (Present(reserved[k]) \/ reserved[k] \in evicted)

LEMMA InvIs ==
  RedisInv <=> /\ TypeOK
               /\ \A r \in Ids : RowKept(r)
               /\ \A k \in Keys : KeyKept(k)
               /\ \A c \in Callers : Owed(c)
BY DEF RedisInv, WrittenOnce, Indexed, Waits, WaitsWhere, RowKept, KeyKept, SitsWell, Sits,
       Present, Absent, Settled, Out, NoInstant

LEMMA InvIsNext ==
  RedisInv' <=> /\ TypeOK'
                /\ \A r \in Ids : RowKept(r)'
                /\ \A k \in Keys : KeyKept(k)'
                /\ \A c \in Callers : Owed(c)'
BY DEF RedisInv, WrittenOnce, Indexed, Waits, WaitsWhere, RowKept, KeyKept, SitsWell, Sits,
       Present, Absent, Settled, Out, NoInstant

-----------------------------------------------------------------------------
(* What a caller of store_once is owed, whatever the others do. *)

(* Ids are given once, what is gone stays gone, and a reservation stays while its run does. *)
Going ==
  /\ sequence' \in Int /\ sequence <= sequence' /\ evicted \subseteq evicted'
  /\ \A r \in Ids : r < sequence => asked'[r] = asked[r] /\ (~Present(r) => ~Present(r)')
  /\ \A k \in Keys :
       /\ reserved'[k] \in {reserved[k], Free, sequence}
       /\ \A r \in Ids : reserved[k] = r /\ Present(r) /\ Present(r)' => reserved'[k] = r

LEMMA Numbers ==
  ASSUME RedisInv
  PROVE  /\ TypeOK /\ StoreType /\ WrittenOnce /\ Indexed
         /\ sequence \in Nat /\ sequence >= 1 /\ MaxRuns \in Nat /\ IsFiniteSet(Ids)
         /\ Ids \subseteq Nat \ {0} /\ Rewrites \in Nat
         /\ \A c \in Callers : call[c] \in Call
         /\ \A o \in Orders : o.key # NoKey => o.key \in Keys
         /\ now \in 0 .. MaxNow /\ now \in Nat
<1>1. MaxRuns \in Nat /\ IsFiniteSet(Ids) /\ Ids \subseteq Nat \ {0}
  BY StoreAssumption, FS_Interval DEF Ids
<1>. QED  BY <1>1, RedisAssumption DEF RedisInv, TypeOK, StoreType, Keys

(* What held the key was written, and the ids are finitely many. *)
LEMMA HeldIs ==
  ASSUME RedisInv, NEW c \in Callers
  PROVE  /\ HeldMeanwhile(c) \in SUBSET Ids /\ \A r \in HeldMeanwhile(c) : r < sequence
         /\ Vacated(c) \in SUBSET HeldMeanwhile(c)
         /\ IsFiniteSet(Vacated(c)) /\ Cardinality(Vacated(c)) \in Nat
<1>1. HeldMeanwhile(c) \in SUBSET Ids /\ Vacated(c) \in SUBSET HeldMeanwhile(c)
  BY DEF HeldMeanwhile, Vacated
<1>2. IsFiniteSet(Vacated(c)) /\ Cardinality(Vacated(c)) \in Nat
  <2>1. Vacated(c) \in SUBSET Ids
    BY <1>1
  <2>. QED  BY <2>1, Numbers, FS_Subset, FS_CardinalityType
<1>3. \A r \in HeldMeanwhile(c) : r < sequence
  <2>1. \A r \in Ids : r \in Int /\ (~(r >= sequence) => r < sequence)
    BY Numbers
  <2>. QED  BY <2>1, Numbers DEF HeldMeanwhile, WrittenOnce
<1>. QED  BY <1>1, <1>2, <1>3

LEMMA HeldGoes ==
  ASSUME RedisInv, Going, TypeOK', NEW c \in Callers,
         call'[c].order = call[c].order, call'[c].from = call[c].from
  PROVE  /\ HeldMeanwhile(c) \subseteq HeldMeanwhile(c)'
         /\ Vacated(c) \subseteq Vacated(c)'
         /\ IsFiniteSet(Vacated(c)') /\ Cardinality(Vacated(c)') \in Nat
         /\ Cardinality(Vacated(c)) <= Cardinality(Vacated(c)')
         /\ \A r \in HeldMeanwhile(c) : Present(r) /\ ~Present(r)' =>
              Cardinality(Vacated(c)) < Cardinality(Vacated(c)')
<1>. DEFINE V == Vacated(c)
            W == Vacated(c)'
<1>1. HeldMeanwhile(c) \subseteq HeldMeanwhile(c)'
  BY HeldIs DEF HeldMeanwhile, Going
<1>2. V \in SUBSET W
  BY <1>1, HeldIs DEF Vacated, Going
<1>3. W \in SUBSET Ids
  BY DEF Vacated, HeldMeanwhile
<1>4. \A r \in HeldMeanwhile(c) : Present(r) /\ ~Present(r)' => r \in W /\ r \notin V
  BY <1>1 DEF Vacated
<1>5. V \in SUBSET Ids
  BY HeldIs
<1>. HIDE DEF V, W
<1>6. IsFiniteSet(W) /\ IsFiniteSet(V)
  BY <1>3, <1>5, Numbers, FS_Subset
<1>7. /\ Cardinality(W) \in Nat /\ Cardinality(V) \in Nat /\ Cardinality(V) <= Cardinality(W)
      /\ Cardinality(V) = Cardinality(W) => V = W
  BY <1>2, <1>6, FS_Subset, FS_CardinalityType
<1>8. \A r \in HeldMeanwhile(c) : Present(r) /\ ~Present(r)' => Cardinality(V) < Cardinality(W)
  BY <1>4, <1>7
<1>. QED  BY <1>1, <1>2, <1>6, <1>7, <1>8 DEF V, W

(* What a caller can account for it still can, and what stood and stands no more went away.     *)
LEMMA SpentGoes ==
  ASSUME RedisInv, Going, TypeOK', NEW c \in Callers, call'[c] = call[c],
         NEW before \in BOOLEAN, NEW after \in BOOLEAN, Spent(c, before),
         before => \/ after
                   \/ \E r \in HeldMeanwhile(c) : Present(r) /\ ~Present(r)'
  PROVE  Spent(c, after)'
<1>. DEFINE asks == Rewrites - call[c].left
            v == Cardinality(Vacated(c))
            w == Cardinality(Vacated(c)')
<1>1. /\ HeldMeanwhile(c) \subseteq HeldMeanwhile(c)' /\ w \in Nat /\ v \in Nat /\ v <= w
      /\ \A r \in HeldMeanwhile(c) : Present(r) /\ ~Present(r)' => v < w
  BY HeldGoes, HeldIs
<1>2. asks \in Int
  BY Numbers, RedisAssumption DEF Call
<1>3. CASE HeldMeanwhile(c) \intersect evicted # {}
  <2>1. (HeldMeanwhile(c) \intersect evicted # {})'
    BY <1>1, <1>3 DEF Going
  <2>. QED  BY <2>1 DEF Spent
<1>4. CASE v > asks
  <2>1. w > asks
    <3>. HIDE DEF v, w, asks
    <3>. QED  BY <1>1, <1>2, <1>4
  <2>. QED  BY <2>1 DEF Spent
<1>5. CASE v = asks /\ before
  <2>1. CASE after
    <3>1. w = asks \/ w > asks
      <4>. HIDE DEF v, w, asks
      <4>. QED  BY <1>1, <1>2, <1>5
    <3>. QED  BY <2>1, <3>1 DEF Spent
  <2>2. CASE \E r \in HeldMeanwhile(c) : Present(r) /\ ~Present(r)'
    <3>0. v < w
      BY <1>1, <2>2
    <3>1. w > asks
      <4>. HIDE DEF v, w, asks
      <4>. QED  BY <1>1, <1>2, <1>5, <3>0
    <3>. QED  BY <3>1 DEF Spent
  <2>. QED  BY <1>5, <2>1, <2>2
<1>. QED  BY <1>3, <1>4, <1>5 DEF Spent

(* The run a key names was written with it, and held it while a caller that met it asked. *)
LEMMA NamedHeld ==
  ASSUME RedisInv, NEW c \in Callers, call[c].pc # "idle", call[c].order.key # NoKey,
         reserved[call[c].order.key] # Free
  PROVE  /\ call[c].order.key \in Keys
         /\ reserved[call[c].order.key] \in HeldMeanwhile(c)
         /\ Present(reserved[call[c].order.key]) \/ reserved[call[c].order.key] \in evicted
<1>. DEFINE k == call[c].order.key
            r == reserved[k]
<1>1. Owed(c)
  BY DEF RedisInv
<1>2. call[c].order \in Orders /\ r >= call[c].from
  BY <1>1 DEF Owed
<1>3. k \in Keys
  BY <1>2, Numbers
<1>4. r \in Ids /\ asked[r].key = k /\ (Present(r) \/ r \in evicted)
  BY <1>3, Numbers DEF TypeOK, Indexed
<1>5. asked[r] # NoOrder
  <2>1. r < sequence
    <3>1. ~(r >= sequence) \/ r < sequence
      BY <1>4, Numbers DEF WrittenOnce
    <3>. QED  BY <1>4, <3>1, Numbers
  <2>2. asked[r] \in Orders
    BY <1>4, <2>1, Numbers DEF WrittenOnce
  <2>. QED  BY <2>2, StoreAssumption
<1>. QED  BY <1>2, <1>3, <1>4, <1>5 DEF HeldMeanwhile

LEMMA StepOwed ==
  ASSUME RedisInv, Going, TypeOK', NEW c \in Callers, call'[c] = call[c]
  PROVE  Owed(c)'
<1>. DEFINE k == call[c].order.key
<1>0. Owed(c)
  BY DEF RedisInv
<1>. SUFFICES ASSUME call[c].pc # "idle"
              PROVE  Owed(c)'
  BY DEF Owed
<1>1. /\ call[c].order \in Orders /\ call[c].from \in 1 .. sequence
      /\ call[c].from \in Int /\ call[c].from <= sequence'
  BY <1>0, Numbers DEF Owed, Going
<1>2. call'[c].from \in 1 .. sequence'
  BY <1>1 DEF Going
<1>3. k # NoKey /\ reserved'[k] # Free => reserved'[k] >= call[c].from
  <2>. SUFFICES ASSUME k # NoKey, reserved'[k] # Free
                PROVE  reserved'[k] >= call[c].from
    OBVIOUS
  <2>1. k \in Keys
    BY <1>1, Numbers
  <2>2. reserved'[k] = sequence \/ (reserved'[k] = reserved[k] /\ reserved[k] # Free)
    BY <2>1 DEF Going
  <2>3. reserved[k] # Free => reserved[k] >= call[c].from
    BY <1>0 DEF Owed
  <2>4. sequence >= call[c].from
    BY <1>1, Numbers
  <2>. QED  BY <2>2, <2>3, <2>4
<1>4. call[c].pc = "adding" => Spent(c, TRUE)'
  BY <1>0, SpentGoes DEF Owed
<1>5. call[c].pc = "finding" => Spent(c, reserved[k] # Free /\ Present(reserved[k]))'
  <2>. SUFFICES ASSUME call[c].pc = "finding"
                PROVE  Spent(c, reserved[k] # Free /\ Present(reserved[k]))'
    OBVIOUS
  <2>. DEFINE stood == reserved[k] # Free /\ Present(reserved[k])
  <2>1. Spent(c, stood) /\ k # NoKey /\ k \in Keys
    BY <1>0, <1>1, Numbers DEF Owed
  <2>2. PICK before \in BOOLEAN : before = stood
    OBVIOUS
  <2>3. PICK after \in BOOLEAN : after = (reserved[k] # Free /\ Present(reserved[k]))'
    OBVIOUS
  <2>4. before => after \/ \E r \in HeldMeanwhile(c) : Present(r) /\ ~Present(r)'
    <3>. SUFFICES ASSUME before, NEW r \in Ids, r = reserved[k], r # Free, Present(r),
                         r \in HeldMeanwhile(c), Present(r)'
                  PROVE  after
      <4>1. before => reserved[k] \in HeldMeanwhile(c) /\ reserved[k] \in Ids
        BY <2>1, <2>2, NamedHeld, HeldIs
      <4>2. before => reserved[k] # Free /\ Present(reserved[k])
        BY <2>2
      <4>. QED  BY <4>1, <4>2
    <3>1. reserved'[k] = r
      BY <2>1 DEF Going
    <3>. QED  BY <2>3, <3>1 DEF Present
  <2>5. Spent(c, before)
    BY <2>1, <2>2
  <2>6. Spent(c, after)'
    BY <2>4, <2>5, SpentGoes
  <2>. QED  BY <2>3, <2>6 DEF Spent
<1>6. call[c].pc = "reading" =>
        call[c].run \in HeldMeanwhile(c)' /\ Spent(c, Present(call[c].run))'
  <2>. SUFFICES ASSUME call[c].pc = "reading"
                PROVE  call[c].run \in HeldMeanwhile(c)' /\ Spent(c, Present(call[c].run))'
    OBVIOUS
  <2>1. call[c].run \in HeldMeanwhile(c) /\ Spent(c, Present(call[c].run))
    BY <1>0 DEF Owed
  <2>2. PICK before \in BOOLEAN : before = Present(call[c].run)
    BY DEF Present
  <2>3. PICK after \in BOOLEAN : after = Present(call[c].run)'
    BY DEF Present
  <2>4. before => after \/ \E r \in HeldMeanwhile(c) : Present(r) /\ ~Present(r)'
    BY <2>1, <2>2, <2>3 DEF Present
  <2>5. Spent(c, before)
    BY <2>1, <2>2
  <2>6. Spent(c, after)'
    BY <2>4, <2>5, SpentGoes
  <2>7. call[c].run \in HeldMeanwhile(c)'
    BY <2>1, HeldGoes
  <2>. QED  BY <2>3, <2>6, <2>7 DEF Spent
<1>7. call[c].pc = "answered" => call[c].run \in HeldMeanwhile(c)'
  <2>. SUFFICES ASSUME call[c].pc = "answered"
                PROVE  call[c].run \in HeldMeanwhile(c)'
    OBVIOUS
  <2>1. call[c].run \in HeldMeanwhile(c)
    BY <1>0 DEF Owed
  <2>. QED  BY <2>1, HeldGoes
<1>8. call[c].pc = "raised" => Spent(c, TRUE)'
  BY <1>0, SpentGoes DEF Owed
<1>. QED  BY <1>0, <1>1, <1>2, <1>3, <1>4, <1>5, <1>6, <1>7, <1>8 DEF Owed

-----------------------------------------------------------------------------
(* Steps that change rows and the sets they sit in, and no reservation. *)

LEMMA RowsKeepInv ==
  ASSUME RedisInv, TypeOK', UNCHANGED <<asked, sequence, listed, reserved, call>>,
         evicted \subseteq evicted',
         \A r \in Ids : SitsWell(r)',
         \A r \in Ids : /\ Present(r)' => Present(r)
                        /\ Present(r) /\ ~Present(r)' => r \in evicted'
                        /\ r \in evicted' => r \in evicted \/ Present(r)
  PROVE  RedisInv'
<1>0. /\ \A r \in Ids : RowKept(r)
      /\ \A k \in Keys : KeyKept(k)
  BY InvIs
<1>1. ASSUME NEW r \in Ids
      PROVE  RowKept(r)'
  <2>1. r \in evicted' => r < sequence
    <3>1. Present(r) => r < sequence
      <4>1. ~(r >= sequence) => r < sequence
        BY Numbers
      <4>. QED  BY <1>0, <4>1 DEF RowKept
    <3>. QED  BY <1>0, <3>1 DEF RowKept
  <2>. QED  BY <1>0, <2>1 DEF RowKept
<1>2. ASSUME NEW k \in Keys
      PROVE  KeyKept(k)'
  <2>. SUFFICES ASSUME reserved[k] # Free
                PROVE  asked[reserved[k]].key = k /\ (Present(reserved[k])' \/ reserved[k] \in evicted')
    BY DEF KeyKept, Present
  <2>1. reserved[k] \in Ids
    BY Numbers DEF TypeOK
  <2>2. asked[reserved[k]].key = k /\ (Present(reserved[k]) \/ reserved[k] \in evicted)
    BY <1>0 DEF KeyKept
  <2>. QED  BY <2>1, <2>2
<1>3. Going
  <2>1. sequence' = sequence /\ sequence \in Nat /\ reserved' = reserved /\ asked' = asked
    BY Numbers
  <2>. QED  BY <2>1 DEF Going
<1>4. \A c \in Callers : Owed(c)'
  <2>1. call' = call
    OBVIOUS
  <2>. QED  BY <1>3, <2>1, StepOwed
<1>. QED  BY <1>1, <1>2, <1>4, InvIsNext

(* The types of a step that writes rows and scores. *)
LEMMA RowsTyped ==
  ASSUME RedisInv, StoreType', now' \in 0 .. MaxNow,
         lane' \in Scores, leased' \in Scores, settled' \in Scores,
         UNCHANGED <<listed, reserved, call>>, evicted' \in SUBSET Ids
  PROVE  TypeOK'
BY Numbers DEF TypeOK

(* One row and where it sits. *)
LEMMA OneRowKeepsInv ==
  ASSUME RedisInv, NEW r \in Ids, NEW row \in RowType, NEW ready \in Nat \union {Out},
         NEW lease \in Nat \union {Out}, NEW over \in Nat \union {Out}, NEW gone \in BOOLEAN,
         Write(r, row), Present(r),
         lane' = [lane EXCEPT ![r] = ready], leased' = [leased EXCEPT ![r] = lease],
         settled' = [settled EXCEPT ![r] = over],
         evicted' = IF gone THEN evicted \union {r} ELSE evicted,
         gone <=> row.status = "absent",
         Sits(row, ready, lease, over, gone),
         UNCHANGED <<listed, reserved, call, now>>
  PROVE  RedisInv'
<1>0. /\ TypeOK /\ StoreType /\ evicted \in SUBSET Ids
      /\ \A q \in Ids : SitsWell(q)
  BY InvIs DEF TypeOK, RowKept
<1>1. /\ StoreType' /\ UNCHANGED <<asked, sequence>>
      /\ \A q \in Ids : runs'[q] = IF q = r THEN row ELSE runs[q]
  BY <1>0, WriteStores
<1>2. /\ lane' \in Scores /\ leased' \in Scores /\ settled' \in Scores
      /\ \A q \in Ids : /\ lane'[q] = IF q = r THEN ready ELSE lane[q]
                        /\ leased'[q] = IF q = r THEN lease ELSE leased[q]
                        /\ settled'[q] = IF q = r THEN over ELSE settled[q]
  BY <1>0 DEF TypeOK, Scores
<1>3. evicted' \in SUBSET Ids /\ evicted \subseteq evicted'
  BY <1>0
<1>4. TypeOK'
  <2>1. now' \in 0 .. MaxNow
    BY <1>0 DEF TypeOK
  <2>. QED  BY <1>1, <1>2, <1>3, <2>1, RowsTyped
<1>5. r \notin evicted
  BY Numbers DEF WrittenOnce
<1>6. \A q \in Ids : SitsWell(q)'
  <2>. SUFFICES ASSUME NEW q \in Ids
                PROVE  SitsWell(q)'
    OBVIOUS
  <2>1. CASE q # r
    <3>1. (q \in evicted') = (q \in evicted)
      BY <2>1
    <3>. QED  BY <1>0, <1>1, <1>2, <2>1, <3>1 DEF SitsWell
  <2>2. CASE q = r
    <3>1. (r \in evicted') = gone
      BY <1>5
    <3>. QED  BY <1>1, <1>2, <2>2, <3>1 DEF SitsWell
  <2>. QED  BY <2>1, <2>2
<1>7. \A q \in Ids : /\ Present(q)' => Present(q)
                     /\ Present(q) /\ ~Present(q)' => q \in evicted'
                     /\ q \in evicted' => q \in evicted \/ Present(q)
  BY <1>1 DEF Present
<1>. QED  BY <1>1, <1>3, <1>4, <1>6, <1>7, RowsKeepInv

(* A row that ends and a row that is tried again are rows, and hold the instant they are given. *)
LEMMA EndsAndReturns ==
  ASSUME NEW row \in RowType, NEW moment \in Nat
  PROVE  /\ \A status \in Settled :
              /\ Closed(row, status, moment) \in RowType
              /\ Closed(row, status, moment).status = status
              /\ Closed(row, status, moment).finished_at = moment
         /\ \A counted \in {0, -1} :
              /\ Requeued(row, moment, counted) \in RowType
              /\ Requeued(row, moment, counted).status = "pending"
              /\ Requeued(row, moment, counted).due_at = moment
<1>1. /\ NoInstant \in Int /\ moment \in Int /\ "pending" \in Statuses \union {"absent"}
      /\ \A status \in Settled : status \in Statuses \union {"absent"}
      /\ \A counted \in {0, -1} : row.attempts + counted \in Int
  BY DEF NoInstant, Statuses, Settled, RowType
<1>2. ASSUME NEW status \in Settled
      PROVE  /\ Closed(row, status, moment) \in RowType
             /\ Closed(row, status, moment).status = status
             /\ Closed(row, status, moment).finished_at = moment
  BY <1>1 DEF RowType, Closed
<1>3. ASSUME NEW counted \in {0, -1}
      PROVE  /\ Requeued(row, moment, counted) \in RowType
             /\ Requeued(row, moment, counted).status = "pending"
             /\ Requeued(row, moment, counted).due_at = moment
  BY <1>1 DEF RowType, Requeued
<1>. QED  BY <1>2, <1>3

(* A row that waits nowhere else. *)
LEMMA WaitsOnce ==
  ASSUME RedisInv, NEW r \in Ids, Present(r)
  PROVE  /\ runs[r] \in RowType /\ r \notin evicted
         /\ lane = [lane EXCEPT ![r] = lane[r]] /\ lane[r] \in Nat \union {Out}
         /\ leased = [leased EXCEPT ![r] = leased[r]] /\ leased[r] \in Nat \union {Out}
         /\ settled = [settled EXCEPT ![r] = settled[r]] /\ settled[r] \in Nat \union {Out}
         /\ runs[r].status = "pending" => leased[r] = Out /\ settled[r] = Out
         /\ runs[r].status = "running" => lane[r] = Out /\ settled[r] = Out
<1>1. SitsWell(r)
  BY InvIs DEF RowKept
<1>2. /\ runs[r] \in RowType /\ lane \in Scores /\ leased \in Scores /\ settled \in Scores
  BY Numbers DEF TypeOK, StoreType
<1>3. \A set \in Scores : set = [set EXCEPT ![r] = set[r]] /\ set[r] \in Nat \union {Out}
  BY DEF Scores
<1>4. r \notin evicted
  BY Numbers DEF WrittenOnce
<1>5. /\ runs[r].status = "pending" => leased[r] = Out /\ settled[r] = Out
      /\ runs[r].status = "running" => lane[r] = Out /\ settled[r] = Out
  BY <1>1 DEF SitsWell, Sits, Settled
<1>. QED  BY <1>2, <1>3, <1>4, <1>5

LEMMA OverKeepsInv ==
  ASSUME RedisInv, NEW r \in Ids, NEW status \in {"done", "failed"},
         Over(r, runs[r].worker, runs[r].attempts, status, now),
         UNCHANGED <<now, evicted, call>>
  PROVE  RedisInv'
<1>1. PICK row : row = Closed(runs[r], status, now)
  OBVIOUS
<1>2. Write(r, row) /\ runs[r].status = "running" /\ Present(r)
  BY <1>1 DEF Over, Held, Present
<1>3. /\ lane' = [lane EXCEPT ![r] = lane[r]] /\ lane[r] = Out
      /\ leased' = [leased EXCEPT ![r] = Out] /\ settled' = [settled EXCEPT ![r] = now]
      /\ UNCHANGED <<listed, reserved, call, now>> /\ runs[r] \in RowType
  BY <1>2, WaitsOnce DEF Over
<1>4. now \in Nat /\ Out \in Int /\ Out \notin Nat /\ status \in Settled
  BY Numbers DEF Out, NoInstant, Settled
<1>5. row \in RowType /\ row.status = status /\ row.finished_at = now
  BY <1>1, <1>3, <1>4, EndsAndReturns
<1>6. Sits(row, Out, Out, now, FALSE)
  BY <1>4, <1>5 DEF Sits, Settled
<1>7. status # "absent" /\ evicted' = IF FALSE THEN evicted \union {r} ELSE evicted
  BY <1>4
<1>. QED  BY <1>2, <1>3, <1>4, <1>5, <1>6, <1>7, OneRowKeepsInv

LEMMA AgainKeepsInv ==
  ASSUME RedisInv, NEW r \in Ids, NEW delay \in Delays, NEW counted \in {0, -1},
         Again(r, runs[r].worker, runs[r].attempts, now + delay, counted),
         UNCHANGED <<now, evicted, call>>
  PROVE  RedisInv'
<1>1. PICK row : row = Requeued(runs[r], now + delay, counted)
  OBVIOUS
<1>2. Write(r, row) /\ runs[r].status = "running" /\ Present(r)
  BY <1>1 DEF Again, Held, Present
<1>3. /\ settled' = [settled EXCEPT ![r] = settled[r]] /\ settled[r] = Out
      /\ leased' = [leased EXCEPT ![r] = Out] /\ lane' = [lane EXCEPT ![r] = now + delay]
      /\ UNCHANGED <<listed, reserved, call, now>> /\ runs[r] \in RowType
  BY <1>2, WaitsOnce DEF Again
<1>4. now + delay \in Nat /\ Out \in Int /\ Out \notin Nat
  BY Numbers, RedisAssumption DEF Out, NoInstant
<1>5. row \in RowType /\ row.status = "pending" /\ row.due_at = now + delay
  BY <1>1, <1>3, <1>4, EndsAndReturns
<1>6. Sits(row, now + delay, Out, Out, FALSE)
  BY <1>4, <1>5 DEF Sits, Settled
<1>7. evicted' = IF FALSE THEN evicted \union {r} ELSE evicted
  OBVIOUS
<1>. QED  BY <1>2, <1>3, <1>4, <1>5, <1>6, <1>7, OneRowKeepsInv

LEMMA BeatKeepsInv ==
  ASSUME RedisInv, NEW r \in Ids, Beat(r, runs[r].worker, runs[r].attempts, now),
         UNCHANGED <<now, evicted, call>>
  PROVE  RedisInv'
<1>1. PICK row : row = [runs[r] EXCEPT !.lease_until = now + Lease]
  OBVIOUS
<1>2. Write(r, row) /\ runs[r].status = "running" /\ Present(r)
  BY <1>1 DEF Beat, Heartbeat, Held, Present
<1>3. /\ lane' = [lane EXCEPT ![r] = lane[r]] /\ lane[r] = Out
      /\ settled' = [settled EXCEPT ![r] = settled[r]] /\ settled[r] = Out
      /\ leased' = [leased EXCEPT ![r] = now + Lease]
      /\ UNCHANGED <<listed, reserved, call, now>> /\ runs[r] \in RowType
  BY <1>2, WaitsOnce DEF Beat
<1>4. now + Lease \in Nat /\ Out \in Int /\ Out \notin Nat
  BY Numbers, StoreAssumption DEF Out, NoInstant
<1>5. row \in RowType /\ row.status = "running" /\ row.lease_until = now + Lease
  BY <1>1, <1>2, <1>3, <1>4 DEF RowType
<1>6. Sits(row, Out, now + Lease, Out, FALSE)
  BY <1>4, <1>5 DEF Sits, Settled
<1>7. evicted' = IF FALSE THEN evicted \union {r} ELSE evicted
  OBVIOUS
<1>. QED  BY <1>2, <1>3, <1>4, <1>5, <1>6, <1>7, OneRowKeepsInv

LEMMA CancelKeepsInv ==
  ASSUME RedisInv, NEW r \in Ids, CancelRun(r, now), UNCHANGED <<now, evicted, call>>
  PROVE  RedisInv'
<1>1. PICK row : row = Closed(runs[r], "canceled", now)
  OBVIOUS
<1>2. Write(r, row) /\ runs[r].status = "pending" /\ Present(r)
  BY <1>1 DEF CancelRun, Cancel, Present
<1>3. /\ leased' = [leased EXCEPT ![r] = leased[r]] /\ leased[r] = Out
      /\ lane' = [lane EXCEPT ![r] = Out] /\ settled' = [settled EXCEPT ![r] = now]
      /\ UNCHANGED <<listed, reserved, call, now>> /\ runs[r] \in RowType
  BY <1>2, WaitsOnce DEF CancelRun
<1>4. now \in Nat /\ Out \in Int /\ Out \notin Nat /\ "canceled" \in Settled
  BY Numbers DEF Out, NoInstant, Settled
<1>5. row \in RowType /\ row.status = "canceled" /\ row.finished_at = now
  BY <1>1, <1>3, <1>4, EndsAndReturns
<1>6. Sits(row, Out, Out, now, FALSE)
  BY <1>4, <1>5 DEF Sits, Settled
<1>7. evicted' = IF FALSE THEN evicted \union {r} ELSE evicted
  OBVIOUS
<1>. QED  BY <1>2, <1>3, <1>4, <1>5, <1>6, <1>7, OneRowKeepsInv

(* What an eviction leaves in the sets is known to be of nobody. *)
LEMMA EvictKeepsInv ==
  ASSUME RedisInv, NEW r \in Ids, Evict(r)
  PROVE  RedisInv'
<1>1. Write(r, Absent) /\ Present(r) /\ evicted' = IF TRUE THEN evicted \union {r} ELSE evicted
  BY DEF Evict
<1>2. /\ lane' = [lane EXCEPT ![r] = lane[r]] /\ lane[r] \in Nat \union {Out}
      /\ leased' = [leased EXCEPT ![r] = leased[r]] /\ leased[r] \in Nat \union {Out}
      /\ settled' = [settled EXCEPT ![r] = settled[r]] /\ settled[r] \in Nat \union {Out}
      /\ UNCHANGED <<listed, reserved, call, now>>
  BY <1>1, WaitsOnce DEF Evict, setVars
<1>3. Absent \in RowType /\ Absent.status = "absent"
  BY StoreAssumption DEF Absent, RowType, NoInstant
<1>4. Sits(Absent, lane[r], leased[r], settled[r], TRUE)
  BY <1>3 DEF Sits
<1>. QED  BY <1>1, <1>2, <1>3, <1>4, OneRowKeepsInv

-----------------------------------------------------------------------------
(* What a claim walks was in a lane, and what it takes was waiting and due. *)

LEMMA WalkedIs ==
  ASSUME RedisInv, NEW queues, NEW limit, NEW moment \in Int
  PROVE  /\ Walked(queues, limit, moment) \in SUBSET Ids
         /\ \A r \in Walked(queues, limit, moment) :
              lane[r] # Out /\ lane[r] <= moment /\ asked[r].queue \in queues
         /\ TakenOf(Walked(queues, limit, moment)) \in SUBSET Walked(queues, limit, moment)
         /\ \A r \in TakenOf(Walked(queues, limit, moment)) :
              /\ Present(r) /\ runs[r].status = "pending" /\ lane[r] = runs[r].due_at
              /\ Claimable(r, queues, moment)
         /\ \A r \in Walked(queues, limit, moment) \ TakenOf(Walked(queues, limit, moment)) :
              ~Present(r) /\ runs[r] = Absent /\ r \in evicted
<1>. DEFINE walked == Walked(queues, limit, moment)
<1>1. \A r \in walked :
        r \in Ids /\ lane[r] # Out /\ lane[r] <= moment /\ asked[r].queue \in queues
  BY DEF Walked, Ready, First, Due
<1>2. TakenOf(walked) \in SUBSET walked /\ \A r \in walked : r \in TakenOf(walked) <=> Present(r)
  BY DEF TakenOf
<1>3. \A r \in Ids : SitsWell(r)
  BY InvIs DEF RowKept
<1>. HIDE DEF walked
<1>4. \A r \in TakenOf(walked) :
        Present(r) /\ runs[r].status = "pending" /\ lane[r] = runs[r].due_at
  BY <1>1, <1>2, <1>3 DEF SitsWell, Sits, Present
<1>5. \A r \in walked \ TakenOf(walked) : ~Present(r) /\ runs[r] = Absent /\ r \in evicted
  BY <1>1, <1>2, <1>3 DEF SitsWell, Sits, Present
<1>6. \A r \in TakenOf(walked) : Claimable(r, queues, moment)
  <2>. SUFFICES ASSUME NEW r \in TakenOf(walked)
                PROVE  Claimable(r, queues, moment)
    OBVIOUS
  <2>1. r \in walked
    BY <1>2
  <2>2. lane[r] <= moment /\ asked[r].queue \in queues
    BY <1>1, <2>1
  <2>3. runs[r].status = "pending" /\ runs[r].due_at <= moment
    BY <1>4, <2>2
  <2>. QED  BY <2>2, <2>3 DEF Claimable
<1>. QED  BY <1>1, <1>2, <1>4, <1>5, <1>6 DEF walked

LEMMA ClaimKeepsInv ==
  ASSUME RedisInv, NEW w \in Workers, NEW queues, NEW limit, ClaimDue(w, queues, limit)
  PROVE  RedisInv'
<1>. DEFINE walked == Walked(queues, limit, now)
            taken == TakenOf(walked)
<1>0. /\ TypeOK /\ StoreType /\ now + Lease \in Nat /\ now \in Int /\ Out \notin Nat
      /\ \A r \in Ids : SitsWell(r) /\ runs[r] \in RowType
  <2>1. now + Lease \in Nat /\ now \in Int
    BY Numbers, StoreAssumption
  <2>2. \A r \in Ids : SitsWell(r)
    BY InvIs DEF RowKept
  <2>. QED  BY <2>1, <2>2, Numbers DEF StoreType, Out, NoInstant
<1>1. /\ walked \in SUBSET Ids /\ taken \in SUBSET walked
      /\ \A r \in taken : Present(r) /\ runs[r].status = "pending"
      /\ \A r \in walked \ taken : ~Present(r) /\ runs[r] = Absent /\ r \in evicted
  BY <1>0, WalkedIs
<1>2. /\ runs' = [r \in Ids |-> IF r \in taken THEN ClaimedBy(runs[r], w, now) ELSE runs[r]]
      /\ lane' = [r \in Ids |-> IF r \in walked THEN Out ELSE lane[r]]
      /\ leased' = [r \in Ids |-> IF r \in taken THEN now + Lease ELSE leased[r]]
      /\ UNCHANGED <<asked, sequence, settled, listed, reserved, now, evicted, call>>
  BY DEF ClaimDue, ClaimRuns
<1>. HIDE DEF walked, taken
<1>3. \A r \in Ids : ClaimedBy(runs[r], w, now) \in RowType
  BY <1>0, RowsAre, 0 \in Int, "done" \in Settled DEF Settled
<1>4. StoreType'
  BY <1>0, <1>2, <1>3 DEF StoreType
<1>5. lane' \in Scores /\ leased' \in Scores /\ settled' \in Scores
  BY <1>0, <1>2 DEF TypeOK, Scores
<1>6. TypeOK'
  <2>1. now' \in 0 .. MaxNow /\ evicted' \in SUBSET Ids
    BY <1>0, <1>2 DEF TypeOK
  <2>. QED  BY <1>2, <1>4, <1>5, <2>1, RowsTyped
<1>7. ASSUME NEW r \in Ids
      PROVE  /\ SitsWell(r)'
             /\ Present(r)' => Present(r)
             /\ Present(r) /\ ~Present(r)' => r \in evicted'
             /\ r \in evicted' => r \in evicted \/ Present(r)
  <2>1. CASE r \in taken
    <3>1. PICK row : row = ClaimedBy(runs[r], w, now)
      OBVIOUS
    <3>2. row.status = "running" /\ row.lease_until = now + Lease
      BY <1>0, <3>1, FieldsAre
    <3>3. /\ runs'[r] = row /\ lane'[r] = Out /\ leased'[r] = now + Lease
          /\ settled'[r] = settled[r] /\ (r \in evicted') = (r \in evicted)
      BY <1>1, <1>2, <2>1, <3>1
    <3>4. settled[r] = Out /\ r \notin evicted /\ Present(r)
      BY <1>1, <2>1, WaitsOnce
    <3>5. Sits(row, Out, now + Lease, Out, r \in evicted')
      BY <1>0, <3>2, <3>3, <3>4 DEF Sits, Settled
    <3>6. SitsWell(r)'
      BY <3>3, <3>4, <3>5 DEF SitsWell
    <3>. QED  BY <1>2, <3>2, <3>3, <3>4, <3>6 DEF Present
  <2>2. CASE r \in walked \ taken
    <3>1. runs'[r] = Absent /\ r \in evicted' /\ ~Present(r)
      BY <1>1, <1>2, <2>2
    <3>. QED  BY <1>2, <3>1 DEF SitsWell, Sits, Present, Absent
  <2>3. CASE r \notin walked
    <3>1. /\ runs'[r] = runs[r] /\ lane'[r] = lane[r] /\ leased'[r] = leased[r]
          /\ settled'[r] = settled[r] /\ (r \in evicted') = (r \in evicted)
      BY <1>1, <1>2, <2>3
    <3>. QED  BY <1>0, <1>2, <3>1 DEF SitsWell, Present
  <2>. QED  BY <2>1, <2>2, <2>3
<1>8. evicted \subseteq evicted'
  BY <1>2
<1>. QED  BY <1>2, <1>6, <1>7, <1>8, RowsKeepInv

-----------------------------------------------------------------------------
(* What a reclaim takes back was running and is over, and what it meets beside it is a ghost. *)

Lapsed(moment) == {r \in Ids : leased[r] # Out /\ leased[r] < moment}
LapsedBatch(moment) == First(leased, Lapsed(moment), ReclaimBatch)
LapsedRuns(moment) == {r \in LapsedBatch(moment) : Present(r)}

LEMMA LapsedIs ==
  ASSUME RedisInv, NEW moment \in Int
  PROVE  /\ LapsedBatch(moment) \in SUBSET Ids
         /\ LapsedRuns(moment) \in SUBSET LapsedBatch(moment)
         /\ Cardinality(LapsedRuns(moment)) <= ReclaimBatch
         /\ \A r \in LapsedRuns(moment) : Present(r) /\ runs[r].status = "running" /\ Expired(r, moment)
         /\ \A r \in LapsedBatch(moment) \ LapsedRuns(moment) :
              ~Present(r) /\ runs[r] = Absent /\ r \in evicted
<1>1. Lapsed(moment) \in SUBSET Ids /\ leased \in Scores /\ ReclaimBatch \in Nat
  BY Numbers, StoreAssumption DEF Lapsed, TypeOK
<1>2. /\ LapsedBatch(moment) \in SUBSET Lapsed(moment) /\ IsFiniteSet(LapsedBatch(moment))
      /\ Cardinality(LapsedBatch(moment)) \in Nat /\ Cardinality(LapsedBatch(moment)) <= ReclaimBatch
  BY <1>1, FirstIs DEF LapsedBatch
<1>3. /\ LapsedRuns(moment) \in SUBSET LapsedBatch(moment)
      /\ \A r \in LapsedBatch(moment) : r \in LapsedRuns(moment) <=> Present(r)
  BY DEF LapsedRuns
<1>4. Cardinality(LapsedRuns(moment)) <= ReclaimBatch
  <2>1. /\ Cardinality(LapsedRuns(moment)) <= Cardinality(LapsedBatch(moment))
        /\ Cardinality(LapsedRuns(moment)) \in Nat
    BY <1>2, <1>3, FS_Subset, FS_CardinalityType
  <2>. QED  BY <1>1, <1>2, <2>1
<1>5. \A r \in Ids : SitsWell(r)
  BY InvIs DEF RowKept
<1>6. ASSUME NEW r \in LapsedBatch(moment)
      PROVE  r \in Ids /\ leased[r] # Out /\ leased[r] < moment
  BY <1>2 DEF Lapsed
<1>7. ASSUME NEW r \in LapsedRuns(moment)
      PROVE  Present(r) /\ runs[r].status = "running" /\ Expired(r, moment)
  <2>1. r \in Ids /\ leased[r] # Out /\ leased[r] < moment /\ Present(r)
    BY <1>3, <1>6
  <2>2. runs[r].status = "running" /\ runs[r].lease_until = leased[r]
    BY <1>5, <2>1 DEF SitsWell, Sits, Present
  <2>. QED  BY <2>1, <2>2 DEF Expired, Out
<1>8. ASSUME NEW r \in LapsedBatch(moment) \ LapsedRuns(moment)
      PROVE  ~Present(r) /\ runs[r] = Absent /\ r \in evicted
  BY <1>3, <1>5, <1>6 DEF SitsWell, Sits, Present
<1>. QED  BY <1>1, <1>2, <1>3, <1>4, <1>7, <1>8

LEMMA ReclaimKeepsInv ==
  ASSUME RedisInv, ReclaimLeases(now), UNCHANGED <<now, evicted, call>>
  PROVE  RedisInv'
<1>. DEFINE batch == LapsedBatch(now)
            found == LapsedRuns(now)
<1>0. /\ TypeOK /\ StoreType /\ now \in Int /\ now \in Nat /\ Out \notin Nat
      /\ \A r \in Ids : SitsWell(r) /\ runs[r] \in RowType
  <2>1. \A r \in Ids : SitsWell(r)
    BY InvIs DEF RowKept
  <2>. QED  BY <2>1, Numbers DEF StoreType, Out, NoInstant
<1>1. /\ batch \in SUBSET Ids /\ found \in SUBSET batch
      /\ \A r \in found : Present(r) /\ runs[r].status = "running"
      /\ \A r \in batch \ found : ~Present(r) /\ runs[r] = Absent /\ r \in evicted
  BY <1>0, LapsedIs
<1>2. /\ runs' = [r \in Ids |-> IF r \in found THEN TakenBack(r, now) ELSE runs[r]]
      /\ leased' = [r \in Ids |-> IF r \in batch THEN Out ELSE leased[r]]
      /\ lane' = [r \in Ids |-> IF r \in found /\ ~Exhausted(r) THEN now ELSE lane[r]]
      /\ settled' = [r \in Ids |-> IF r \in found /\ Exhausted(r) THEN now ELSE settled[r]]
      /\ UNCHANGED <<asked, sequence, listed, reserved, now, evicted, call>>
  BY DEF ReclaimLeases, Lapsed, LapsedBatch, LapsedRuns
<1>. HIDE DEF batch, found
<1>3. ASSUME NEW r \in Ids
      PROVE  /\ TakenBack(r, now) \in RowType
             /\ Exhausted(r) => TakenBack(r, now).status = "failed" /\ TakenBack(r, now).finished_at = now
             /\ ~Exhausted(r) => TakenBack(r, now).status = "pending" /\ TakenBack(r, now).due_at = now
  BY <1>0, EndsAndReturns DEF TakenBack, Settled
<1>4. StoreType'
  BY <1>0, <1>2, <1>3 DEF StoreType
<1>5. lane' \in Scores /\ leased' \in Scores /\ settled' \in Scores
  BY <1>0, <1>2 DEF TypeOK, Scores
<1>6. TypeOK'
  <2>1. now' \in 0 .. MaxNow /\ evicted' \in SUBSET Ids
    BY <1>0, <1>2 DEF TypeOK
  <2>. QED  BY <1>2, <1>4, <1>5, <2>1, RowsTyped
<1>7. ASSUME NEW r \in Ids
      PROVE  /\ SitsWell(r)'
             /\ Present(r)' => Present(r)
             /\ Present(r) /\ ~Present(r)' => r \in evicted'
             /\ r \in evicted' => r \in evicted \/ Present(r)
  <2>1. CASE r \in found
    <3>1. PICK row : row = TakenBack(r, now)
      OBVIOUS
    <3>2. /\ Exhausted(r) => row.status = "failed" /\ row.finished_at = now
          /\ ~Exhausted(r) => row.status = "pending" /\ row.due_at = now
      BY <1>3, <3>1
    <3>3. /\ runs'[r] = row /\ leased'[r] = Out /\ (r \in evicted') = (r \in evicted)
          /\ lane'[r] = IF Exhausted(r) THEN lane[r] ELSE now
          /\ settled'[r] = IF Exhausted(r) THEN now ELSE settled[r]
      BY <1>1, <1>2, <2>1, <3>1
    <3>4. lane[r] = Out /\ settled[r] = Out /\ r \notin evicted /\ Present(r)
      BY <1>1, <2>1, WaitsOnce
    <3>5. Sits(row, IF Exhausted(r) THEN Out ELSE now, Out, IF Exhausted(r) THEN now ELSE Out, r \in evicted')
      BY <1>0, <3>2, <3>3, <3>4 DEF Sits, Settled
    <3>6. SitsWell(r)'
      BY <3>3, <3>4, <3>5 DEF SitsWell
    <3>7. row.status # "absent"
      BY <3>2
    <3>. QED  BY <1>2, <3>3, <3>4, <3>6, <3>7 DEF Present
  <2>2. CASE r \in batch \ found
    <3>1. runs'[r] = Absent /\ r \in evicted' /\ ~Present(r)
      BY <1>1, <1>2, <2>2
    <3>. QED  BY <1>2, <3>1 DEF SitsWell, Sits, Present, Absent
  <2>3. CASE r \notin batch
    <3>1. /\ runs'[r] = runs[r] /\ lane'[r] = lane[r] /\ leased'[r] = leased[r]
          /\ settled'[r] = settled[r] /\ (r \in evicted') = (r \in evicted)
      BY <1>1, <1>2, <2>3
    <3>. QED  BY <1>0, <1>2, <3>1 DEF SitsWell, Present
  <2>. QED  BY <2>1, <2>2, <2>3
<1>8. evicted \subseteq evicted'
  BY <1>2
<1>. QED  BY <1>2, <1>6, <1>7, <1>8, RowsKeepInv

-----------------------------------------------------------------------------
(* A pruning takes a reservation with the run it named, and no other. *)

Pruned(before) == First(settled, {r \in Ids : settled[r] # Out /\ settled[r] < before}, PurgeLimit)

LEMMA PrunedIs ==
  ASSUME RedisInv, NEW before \in Int
  PROVE  /\ Pruned(before) \in SUBSET Ids
         /\ \A r \in Pruned(before) :
              \/ /\ Present(r) /\ r \notin evicted /\ Prunable(r, before)
                 /\ lane[r] = Out /\ leased[r] = Out
              \/ ~Present(r) /\ runs[r] = Absent /\ r \in evicted
<1>1. \A r \in Pruned(before) : r \in Ids /\ settled[r] # Out /\ settled[r] < before
  BY DEF Pruned, First
<1>2. \A r \in Ids : SitsWell(r)
  BY InvIs DEF RowKept
<1>3. ASSUME NEW r \in Pruned(before), Present(r)
      PROVE  r \notin evicted /\ Prunable(r, before) /\ lane[r] = Out /\ leased[r] = Out
  <2>1. /\ runs[r].status \in Settled /\ settled[r] = runs[r].finished_at
        /\ r \notin evicted /\ lane[r] = Out /\ leased[r] = Out
    BY <1>1, <1>2, <1>3 DEF SitsWell, Sits, Present, Settled
  <2>. QED  BY <1>1, <2>1 DEF Prunable, Out
<1>4. ASSUME NEW r \in Pruned(before), ~Present(r)
      PROVE  runs[r] = Absent /\ r \in evicted
  BY <1>1, <1>2, <1>4 DEF SitsWell, Sits, Present
<1>. QED  BY <1>1, <1>3, <1>4

LEMMA PurgeKeepsInv ==
  ASSUME RedisInv, PurgeSettled(now), UNCHANGED <<now, evicted, call>>
  PROVE  RedisInv'
<1>. DEFINE gone == Pruned(now)
<1>0. /\ TypeOK /\ StoreType /\ now \in Int
      /\ \A r \in Ids : RowKept(r)
      /\ \A k \in Keys : KeyKept(k) /\ reserved[k] \in Ids \union {Free} /\ k # NoKey
  BY InvIs, Numbers DEF TypeOK, Keys
<1>1. /\ gone \in SUBSET Ids
      /\ \A r \in gone : \/ Present(r) /\ r \notin evicted /\ lane[r] = Out /\ leased[r] = Out
                         \/ ~Present(r) /\ runs[r] = Absent /\ r \in evicted
  BY <1>0, PrunedIs
<1>2. /\ runs' = [r \in Ids |-> IF r \in gone THEN Absent ELSE runs[r]]
      /\ settled' = [r \in Ids |-> IF r \in gone THEN Out ELSE settled[r]]
      /\ reserved' = Unreserved(gone)
      /\ UNCHANGED <<asked, sequence, lane, leased, listed, now, evicted, call>>
  BY DEF PurgeSettled, Pruned
<1>. HIDE DEF gone
<1>3. \A k \in Keys :
        reserved'[k] = IF \E r \in gone : Present(r) /\ asked[r].key = k THEN Free ELSE reserved[k]
  BY <1>2 DEF Unreserved
<1>4. \A r \in Ids : Present(r)' <=> Present(r) /\ r \notin gone
  BY <1>2 DEF Present, Absent
<1>5. ASSUME NEW k \in Keys, NEW g \in gone, Present(g), asked[g].key = k
      PROVE  reserved[k] = g
  BY <1>0, <1>1, <1>5 DEF RowKept
<1>6. ASSUME NEW k \in Keys, Present(reserved[k]), reserved[k] # Free, reserved[k] \notin gone
      PROVE  reserved'[k] = reserved[k]
  BY <1>3, <1>5, <1>6
<1>7. ASSUME NEW r \in Ids
      PROVE  RowKept(r)'
  <2>1. SitsWell(r)'
    <3>1. CASE r \in gone
      <4>1. runs'[r] = Absent /\ settled'[r] = Out /\ UNCHANGED <<lane, leased, evicted>>
        BY <1>2, <3>1
      <4>. QED  BY <1>1, <3>1, <4>1 DEF SitsWell, Sits, Absent
    <3>2. CASE r \notin gone
      <4>1. runs'[r] = runs[r] /\ settled'[r] = settled[r] /\ UNCHANGED <<lane, leased, evicted>>
        BY <1>2, <3>2
      <4>2. SitsWell(r)
        BY <1>0 DEF RowKept
      <4>. QED  BY <4>1, <4>2 DEF SitsWell
    <3>. QED  BY <3>1, <3>2
  <2>2. ASSUME Present(r)', asked[r].key # NoKey
        PROVE  reserved'[asked[r].key] = r
    <3>1. Present(r) /\ r \notin gone
      BY <1>4, <2>2
    <3>2. reserved[asked[r].key] = r
      BY <1>0, <2>2, <3>1 DEF RowKept
    <3>3. asked[r] \in Orders
      <4>1. r < sequence \/ r >= sequence
        BY Numbers
      <4>. QED  BY <1>0, <3>1, <4>1 DEF RowKept
    <3>4. asked[r].key \in Keys
      BY <2>2, <3>3 DEF Keys
    <3>5. r # Free
      BY Numbers DEF Free
    <3>. QED  BY <1>6, <3>1, <3>2, <3>4, <3>5
  <2>. QED  BY <1>0, <1>2, <1>4, <2>1, <2>2 DEF RowKept
<1>8. ASSUME NEW k \in Keys
      PROVE  KeyKept(k)'
  <2>. SUFFICES ASSUME NEW n \in Ids, reserved'[k] = n, reserved[k] = n, n # Free
                PROVE  asked[n].key = k /\ (Present(n)' \/ n \in evicted)
    <3>1. reserved'[k] # Free => reserved'[k] = reserved[k] /\ reserved[k] \in Ids
      BY <1>0, <1>3
    <3>. QED  BY <1>2, <3>1 DEF KeyKept, Present
  <2>1. asked[n].key = k /\ (Present(n) \/ n \in evicted)
    BY <1>0 DEF KeyKept
  <2>2. Present(n) => n \notin gone
    BY <1>3, <2>1
  <2>. QED  BY <1>4, <2>1, <2>2
<1>9. TypeOK'
  <2>1. Absent \in RowType
    BY StoreAssumption DEF Absent, RowType, NoInstant
  <2>2. StoreType'
    BY <1>0, <1>2, <2>1 DEF StoreType
  <2>3. settled' \in Scores /\ lane' \in Scores /\ leased' \in Scores
    BY <1>0, <1>2 DEF TypeOK, Scores
  <2>4. reserved' \in [Keys -> Ids \union {Free}]
    BY <1>0, <1>2 DEF Unreserved
  <2>. QED  BY <1>0, <1>2, <2>2, <2>3, <2>4 DEF TypeOK
<1>10. Going
  <2>1. sequence' \in Int /\ sequence <= sequence' /\ evicted' = evicted /\ asked' = asked
    BY <1>2, Numbers
  <2>2. ASSUME NEW k \in Keys, NEW r \in Ids, reserved[k] = r, Present(r), Present(r)'
        PROVE  reserved'[k] = r
    <3>1. r # Free /\ r \notin gone
      BY <1>4, <2>2, Numbers DEF Free
    <3>. QED  BY <1>6, <2>2, <3>1
  <2>. QED  BY <1>3, <1>4, <2>1, <2>2 DEF Going
<1>11. \A c \in Callers : Owed(c)'
  <2>1. call' = call
    BY <1>2
  <2>. QED  BY <1>9, <1>10, <2>1, StepOwed
<1>. QED  BY <1>7, <1>8, <1>9, <1>11, InvIsNext

-----------------------------------------------------------------------------
(* A run that is written takes an id nobody was given and a key nobody has. *)

LEMMA AddRunKeeps ==
  ASSUME RedisInv, NEW order \in Orders, NEW due_at \in Nat, Reservable(order.key),
         AddRun(order, due_at), UNCHANGED <<now, evicted>>, call' \in [Callers -> Call]
  PROVE  /\ TypeOK' /\ Going
         /\ \A r \in Ids : RowKept(r)'
         /\ \A k \in Keys : KeyKept(k)'
         /\ sequence \in Ids /\ asked'[sequence] = order /\ sequence' = sequence + 1
<1>. DEFINE new == sequence
<1>0. /\ TypeOK /\ StoreType /\ due_at \in Int /\ due_at # Out /\ Out \notin Nat
      /\ \A r \in Ids : RowKept(r) /\ r # Free /\ r \in Int
      /\ \A k \in Keys : KeyKept(k) /\ reserved[k] \in Ids \union {Free} /\ k # NoKey
  <2>1. \A r \in Ids : r # Free /\ r \in Int
    BY Numbers DEF Free
  <2>. QED  BY <2>1, InvIs, Numbers DEF TypeOK, Keys, Out, NoInstant
<1>1. new \in Ids /\ new \in Int /\ sequence' = new + 1 /\ sequence' \in 1 .. MaxRuns + 1
  BY Numbers DEF AddRun, Ids, StoreType
<1>2. /\ \A r \in Ids : /\ runs'[r] = IF r = new THEN Written(due_at) ELSE runs[r]
                        /\ asked'[r] = IF r = new THEN order ELSE asked[r]
                        /\ lane'[r] = IF r = new THEN due_at ELSE lane[r]
      /\ \A k \in Keys : reserved'[k] = IF k = order.key THEN new ELSE reserved[k]
      /\ listed' = listed \union {<<order.queue, order.priority>>}
      /\ UNCHANGED <<leased, settled, evicted, now>>
  BY <1>0 DEF AddRun, TypeOK, StoreType, Scores
<1>3. /\ Written(due_at) \in RowType /\ Written(due_at).status = "pending"
      /\ Written(due_at).due_at = due_at
  BY <1>0, StoreAssumption DEF Written, RowType, NoInstant, Statuses
<1>4. /\ ~Present(new) /\ new \notin evicted /\ lane[new] = Out /\ leased[new] = Out /\ settled[new] = Out
  <2>1. new >= sequence /\ ~(new < sequence) /\ RowKept(new)
    BY <1>0, <1>1
  <2>2. ~Present(new) /\ new \notin evicted /\ SitsWell(new)
    BY <2>1 DEF RowKept
  <2>. QED  BY <2>2 DEF SitsWell, Sits, Present
<1>5. TypeOK'
  <2>1. StoreType'
    BY <1>0, <1>1, <1>3 DEF StoreType, AddRun
  <2>2. lane' \in Scores
    BY <1>0 DEF TypeOK, AddRun, Scores
  <2>3. reserved' \in [Keys -> Ids \union {Free}]
    BY <1>0, <1>1 DEF AddRun
  <2>4. listed' \subseteq Queues \X Levels
    BY <1>0, <1>2 DEF TypeOK, Queues, Levels
  <2>. QED  BY <1>0, <1>2, <2>1, <2>2, <2>3, <2>4 DEF TypeOK
<1>6. \A r \in Ids : Present(r)' <=> Present(r) \/ r = new
  BY <1>2, <1>3 DEF Present
<1>7. order.key # NoKey => order.key \in Keys /\ reserved[order.key] = Free
  BY Numbers DEF Reservable
<1>8. ASSUME NEW r \in Ids
      PROVE  RowKept(r)'
  <2>1. CASE r = new
    <3>1. runs'[r] = Written(due_at) /\ lane'[r] = due_at /\ leased'[r] = Out /\ settled'[r] = Out
      BY <1>2, <1>4, <2>1
    <3>2. SitsWell(r)'
      BY <1>0, <1>2, <1>3, <1>4, <2>1, <3>1 DEF SitsWell, Sits, Settled
    <3>3. asked'[r] = order /\ r < sequence' /\ ~(r >= sequence') /\ r \notin evicted'
      BY <1>0, <1>1, <1>2, <1>4, <2>1
    <3>. QED  BY <1>2, <1>7, <2>1, <3>2, <3>3 DEF RowKept
  <2>2. CASE r # new
    <3>1. /\ runs'[r] = runs[r] /\ lane'[r] = lane[r] /\ leased'[r] = leased[r]
          /\ settled'[r] = settled[r] /\ (r \in evicted') = (r \in evicted) /\ asked'[r] = asked[r]
          /\ Present(r)' <=> Present(r)
      BY <1>2, <1>6, <2>2
    <3>2. SitsWell(r)'
      BY <1>0, <3>1 DEF RowKept, SitsWell
    <3>3. (r < sequence' <=> r < sequence) /\ (r >= sequence' => r >= sequence)
      BY <1>0, <1>1, <2>2
    <3>4. ASSUME Present(r), asked[r].key # NoKey
          PROVE  reserved'[asked[r].key] = r
      <4>1. reserved[asked[r].key] = r /\ asked[r] \in Orders
        <5>1. r < sequence \/ r >= sequence
          BY <1>0, <1>1
        <5>. QED  BY <1>0, <3>4, <5>1 DEF RowKept
      <4>2. asked[r].key \in Keys
        BY <3>4, <4>1 DEF Keys
      <4>3. asked[r].key # order.key
        BY <1>0, <1>7, <4>1, <4>2
      <4>. QED  BY <1>2, <4>1, <4>2, <4>3
    <3>5. Present(r) => <<asked[r].queue, asked[r].priority>> \in listed'
      BY <1>0, <1>2 DEF RowKept
    <3>. QED  BY <1>0, <3>1, <3>2, <3>3, <3>4, <3>5 DEF RowKept
  <2>. QED  BY <2>1, <2>2
<1>9. ASSUME NEW k \in Keys
      PROVE  KeyKept(k)'
  <2>1. CASE k = order.key
    BY <1>1, <1>2, <1>6, <2>1 DEF KeyKept, Present
  <2>2. CASE k # order.key
    <3>1. reserved'[k] = reserved[k]
      BY <1>2, <2>2
    <3>2. reserved[k] # Free => /\ reserved[k] \in Ids \ {new} /\ asked[reserved[k]].key = k
                                /\ Present(reserved[k]) \/ reserved[k] \in evicted
      BY <1>0, <1>4 DEF KeyKept
    <3>. QED  BY <1>2, <1>6, <3>1, <3>2 DEF KeyKept, Present
  <2>. QED  BY <2>1, <2>2
<1>10. Going
  <2>1. sequence' \in Int /\ sequence <= sequence' /\ evicted \subseteq evicted'
    BY <1>1, <1>2
  <2>2. \A r \in Ids : r < sequence => asked'[r] = asked[r] /\ (~Present(r) => ~Present(r)')
    <3>1. \A r \in Ids : r < sequence => r # new
      BY <1>0, <1>1
    <3>. QED  BY <1>2, <1>6, <3>1
  <2>3. \A k \in Keys : reserved'[k] \in {reserved[k], Free, sequence}
    BY <1>2
  <2>4. ASSUME NEW k \in Keys, NEW r \in Ids, reserved[k] = r
        PROVE  reserved'[k] = r
    BY <1>0, <1>2, <1>7, <2>4
  <2>. QED  BY <2>1, <2>2, <2>3, <2>4 DEF Going
<1>. QED  BY <1>1, <1>2, <1>5, <1>8, <1>9, <1>10

LEMMA WriteSlotKeepsInv ==
  ASSUME RedisInv, NEW order \in Orders, NEW delay \in Delays,
         WriteSlot(order, now + delay), UNCHANGED <<now, evicted, call>>
  PROVE  RedisInv'
<1>1. now + delay \in Nat /\ call' \in [Callers -> Call]
  BY Numbers, RedisAssumption DEF TypeOK
<1>2. /\ TypeOK' /\ Going
      /\ \A r \in Ids : RowKept(r)'
      /\ \A k \in Keys : KeyKept(k)'
  BY <1>1, AddRunKeeps DEF WriteSlot
<1>3. \A c \in Callers : Owed(c)'
  <2>1. call' = call
    OBVIOUS
  <2>. QED  BY <1>2, <2>1, StepOwed
<1>. QED  BY <1>2, <1>3, InvIsNext

-----------------------------------------------------------------------------
(* The steps of a caller of store_once. *)

LEMMA GoesTo ==
  ASSUME RedisInv, NEW c \in Callers, NEW d \in Call, Goes(c, d)
  PROVE  /\ call'[c] = d /\ \A b \in Callers \ {c} : call'[b] = call[b]
         /\ call' \in [Callers -> Call]
<1>1. call \in [Callers -> Call]
  BY DEF RedisInv, TypeOK
<1>. QED  BY <1>1 DEF Goes

(* A caller that moves while nothing else does. *)
LEMMA MoveKeepsInv ==
  ASSUME RedisInv, NEW c \in Callers, NEW d \in Call, Goes(c, d),
         UNCHANGED <<redisVars, now, evicted>>, Owed(c)'
  PROVE  RedisInv'
<1>1. /\ \A b \in Callers \ {c} : call'[b] = call[b]
      /\ call' \in [Callers -> Call]
  BY GoesTo
<1>2. UNCHANGED <<runs, asked, sequence, lane, leased, settled, listed, reserved, now, evicted>>
  BY DEF redisVars, storeVars, setVars
<1>3. TypeOK /\ (\A r \in Ids : RowKept(r)) /\ \A k \in Keys : KeyKept(k)
  BY InvIs
<1>4. TypeOK'
  BY <1>1, <1>2, <1>3 DEF TypeOK, StoreType
<1>5. (\A r \in Ids : RowKept(r)') /\ \A k \in Keys : KeyKept(k)'
  BY <1>2, <1>3 DEF RowKept, KeyKept, SitsWell, Present
<1>6. Going
  <2>1. sequence' = sequence /\ sequence \in Nat /\ reserved' = reserved /\ asked' = asked
    BY <1>2, Numbers
  <2>. QED  BY <1>2, <2>1 DEF Going, Present
<1>7. \A b \in Callers : Owed(b)'
  BY <1>1, <1>4, <1>6, StepOwed
<1>. QED  BY <1>4, <1>5, <1>7, InvIsNext

LEMMA SameHeld ==
  ASSUME UNCHANGED <<redisVars, evicted>>, NEW c \in Callers,
         call'[c].order = call[c].order, call'[c].from = call[c].from
  PROVE  HeldMeanwhile(c)' = HeldMeanwhile(c) /\ Vacated(c)' = Vacated(c)
<1>1. UNCHANGED <<runs, asked>>
  BY DEF redisVars, storeVars
<1>. QED  BY <1>1 DEF HeldMeanwhile, Vacated, Present

(* Nobody stands behind the refusal: what went away is one more than what was asked for nothing. *)
LEMMA MissedKeepsInv ==
  ASSUME RedisInv, NEW c \in Callers, call[c].pc \in {"finding", "reading"}, Spent(c, FALSE),
         Missed(c), UNCHANGED <<redisVars, now, evicted>>
  PROVE  RedisInv'
<1>. DEFINE left == call[c].left
            v == Cardinality(Vacated(c))
<1>0. /\ call[c] \in Call /\ Owed(c) /\ v \in Nat /\ Rewrites \in Nat
      /\ left \in Int /\ left >= 1 /\ left - 1 \in 0 .. Rewrites /\ left - 1 \in Int
  <2>1. call[c] \in Call /\ Owed(c) /\ Rewrites \in Nat
    BY Numbers DEF RedisInv
  <2>2. left \in 0 .. Rewrites /\ left >= 1
    BY <2>1 DEF Owed, Call
  <2>. QED  BY <2>1, <2>2, HeldIs
<1>1. PICK pc \in {"raised", "adding"} :
        /\ pc = "raised" => left - 1 = 0
        /\ pc = "adding" => left # 1
        /\ Goes(c, [call[c] EXCEPT !.pc = pc, !.left = @ - 1])
  <2>1. CASE left = 1
    BY <2>1, <1>0 DEF Missed
  <2>2. CASE left # 1
    BY <2>2 DEF Missed
  <2>. QED  BY <2>1, <2>2
<1>2. PICK d : d = [call[c] EXCEPT !.pc = pc, !.left = @ - 1] /\ Goes(c, d)
  BY <1>1
<1>3. /\ d \in Call /\ d.pc = pc /\ d.left = left - 1
      /\ d.order = call[c].order /\ d.from = call[c].from /\ d.run = call[c].run
  BY <1>0, <1>2 DEF Call
<1>4. call'[c] = d /\ UNCHANGED <<sequence, asked, runs, reserved, evicted>>
  BY <1>2, <1>3, GoesTo DEF redisVars, storeVars
<1>5. HeldMeanwhile(c)' = HeldMeanwhile(c) /\ Vacated(c)' = Vacated(c)
  BY <1>3, <1>4, SameHeld
<1>6. HeldMeanwhile(c) \intersect evicted # {} \/ v > Rewrites - left
  BY DEF Spent
<1>7. v > Rewrites - left => v > Rewrites - (left - 1) \/ v = Rewrites - (left - 1)
  <2>. HIDE DEF v, left
  <2>. QED  BY <1>0
<1>8. Spent(c, TRUE)'
  <2>1. call'[c].left = left - 1
    BY <1>3, <1>4
  <2>. QED  BY <1>4, <1>5, <1>6, <1>7, <2>1 DEF Spent
<1>9. Owed(c)'
  <2>1. d.pc = "adding" => d.left >= 1
    <3>. HIDE DEF left
    <3>. QED  BY <1>0, <1>1, <1>3
  <2>2. d.pc = "raised" => d.left = 0
    BY <1>1, <1>3
  <2>3. d.pc \in {"raised", "adding"} /\ call[c].pc # "idle"
    BY <1>3
  <2>. HIDE DEF left
  <2>. QED  BY <1>0, <1>3, <1>4, <1>8, <2>1, <2>2, <2>3 DEF Owed
<1>. QED  BY <1>2, <1>3, <1>9, MoveKeepsInv

LEMMA AskKeepsInv ==
  ASSUME RedisInv, NEW c \in Callers, NEW order \in Orders, NEW delay \in Delays,
         Ask(c, order, delay)
  PROVE  RedisInv'
<1>. DEFINE from == IF Holder(order.key) = Free THEN sequence ELSE Holder(order.key)
<1>0. /\ sequence \in Nat /\ sequence >= 1 /\ now + delay \in Nat /\ Rewrites \in Nat /\ Rewrites >= 1
      /\ MaxRuns \in Nat /\ sequence <= MaxRuns + 1 /\ MaxRuns + 1 \in Nat /\ Rewrites \in 0 .. Rewrites
  <2>1. sequence \in 1 .. MaxRuns + 1 /\ MaxRuns \in Nat /\ MaxRuns + 1 \in Nat
    BY Numbers DEF StoreType
  <2>2. now + delay \in Nat /\ Rewrites \in Nat /\ Rewrites >= 1 /\ Rewrites \in 0 .. Rewrites
    BY Numbers, RedisAssumption
  <2>. QED  BY <2>1, <2>2
<1>1. Holder(order.key) # Free => Holder(order.key) \in 1 .. sequence
  <2>. SUFFICES ASSUME Holder(order.key) # Free
                PROVE  Holder(order.key) \in 1 .. sequence
    OBVIOUS
  <2>1. order.key # NoKey /\ order.key \in Keys /\ Holder(order.key) = reserved[order.key]
    BY Numbers DEF Holder
  <2>2. PICK n \in Ids : n = reserved[order.key]
    BY <2>1, Numbers DEF TypeOK
  <2>3. Present(n) \/ n \in evicted
    BY <2>1, <2>2, Numbers DEF Indexed
  <2>4. ~(n >= sequence) \/ n < sequence
    BY <2>2, <2>3, Numbers DEF WrittenOnce
  <2>5. n \in Nat /\ n >= 1
    BY <2>2, Numbers
  <2>. QED  BY <2>1, <2>2, <2>4, <2>5, <1>0
<1>2. from \in 1 .. sequence /\ from \in 0 .. MaxRuns + 1
  BY <1>0, <1>1
<1>3. PICK d : /\ Goes(c, d)
               /\ d = [pc |-> "adding", order |-> order, due_at |-> now + delay, left |-> Rewrites,
                       run |-> Free, from |-> from]
  BY DEF Ask
<1>4. order.key # NoKey /\ reserved[order.key] # Free => reserved[order.key] >= from
  <2>1. order.key # NoKey /\ reserved[order.key] # Free => reserved[order.key] = from
    BY DEF Holder
  <2>. QED  BY <1>2, <2>1
<1>. HIDE DEF from
<1>5. /\ d \in Call /\ d.pc = "adding" /\ d.order = order /\ d.left = Rewrites /\ d.from = from
  BY <1>0, <1>2, <1>3 DEF Call
<1>6. call'[c] = d /\ UNCHANGED <<sequence, reserved>> /\ UNCHANGED <<redisVars, now, evicted>>
  BY <1>3, <1>5, GoesTo DEF redisVars, storeVars, Ask
<1>7. Spent(c, TRUE)'
  <2>1. Vacated(c)' \in SUBSET Ids
    BY DEF Vacated, HeldMeanwhile
  <2>2. Cardinality(Vacated(c)') \in Nat
    BY <2>1, Numbers, FS_Subset, FS_CardinalityType
  <2>3. Rewrites - call'[c].left = 0
    BY <1>0, <1>5, <1>6
  <2>4. Cardinality(Vacated(c)') > 0 \/ Cardinality(Vacated(c)') = 0
    BY <2>2
  <2>. QED  BY <2>3, <2>4 DEF Spent
<1>8. Owed(c)'
  BY <1>0, <1>2, <1>4, <1>5, <1>6, <1>7 DEF Owed
<1>. QED  BY <1>3, <1>5, <1>6, <1>8, MoveKeepsInv

LEMMA WriteRunKeepsInv ==
  ASSUME RedisInv, NEW c \in Callers, WriteRun(c)
  PROVE  RedisInv'
<1>. DEFINE order == call[c].order
<1>0. /\ call[c] \in Call /\ Owed(c) /\ call[c].pc = "adding" /\ order \in Orders
      /\ call[c].due_at \in Nat /\ Rewrites \in Nat /\ call[c].from \in 1 .. sequence
  <2>1. call[c] \in Call /\ Owed(c) /\ call[c].pc = "adding" /\ Rewrites \in Nat
    BY Numbers DEF RedisInv, WriteRun
  <2>. QED  BY <2>1 DEF Owed, Call
<1>1. PICK d : Goes(c, d) /\ d = [call[c] EXCEPT !.pc = "answered", !.left = 0, !.run = sequence]
  BY DEF WriteRun
<1>2. sequence \in Ids /\ 0 \in 0 .. Rewrites
  BY <1>0, Numbers DEF WriteRun, AddRun, Ids
<1>3. d \in Call /\ d.pc = "answered" /\ d.order = order /\ d.run = sequence /\ d.from = call[c].from
  BY <1>0, <1>1, <1>2 DEF Call
<1>4. /\ call'[c] = d /\ \A b \in Callers \ {c} : call'[b] = call[b]
      /\ call' \in [Callers -> Call]
  BY <1>1, <1>3, GoesTo
<1>5. /\ TypeOK' /\ Going
      /\ \A r \in Ids : RowKept(r)'
      /\ \A k \in Keys : KeyKept(k)'
      /\ asked'[sequence] = order /\ sequence' = sequence + 1
  <2>. HIDE DEF order
  <2>1. Reservable(order.key) /\ AddRun(order, call[c].due_at) /\ UNCHANGED <<now, evicted>>
    BY DEF WriteRun, order
  <2>. QED  BY <1>0, <1>4, <2>1, AddRunKeeps
<1>6. Owed(c)'
  <2>1. /\ call'[c].pc = "answered" /\ call'[c].order = order /\ call'[c].run = sequence
        /\ call'[c].from = call[c].from
    BY <1>3, <1>4
  <2>2. call[c].from \in 1 .. sequence'
    BY <1>0, <1>5, Numbers
  <2>3. order.key # NoKey => order.key \in Keys /\ reserved'[order.key] = sequence
    <3>1. order.key # NoKey => order.key \in Keys
      BY <1>0, Numbers
    <3>. QED  BY <3>1 DEF WriteRun, AddRun
  <2>4. sequence >= call[c].from
    BY <1>0, Numbers
  <2>5. sequence \in HeldMeanwhile(c)'
    <3>1. asked'[sequence] # NoOrder
      BY <1>0, <1>5, StoreAssumption
    <3>. HIDE DEF order
    <3>. QED  BY <1>2, <1>5, <2>1, <2>4, <3>1 DEF HeldMeanwhile
  <2>. HIDE DEF order
  <2>. QED  BY <1>0, <1>2, <1>5, <2>1, <2>2, <2>3, <2>4, <2>5 DEF Owed
<1>7. \A b \in Callers : Owed(b)'
  BY <1>4, <1>5, <1>6, StepOwed
<1>. QED  BY <1>5, <1>7, InvIsNext

(* Whoever the key is refused for stands or was evicted: nothing else leaves a reservation.     *)
LEMMA RefusedKeepsInv ==
  ASSUME RedisInv, NEW c \in Callers, RunRefused(c)
  PROVE  RedisInv'
<1>. DEFINE k == call[c].order.key
<1>0. call[c] \in Call /\ Owed(c) /\ call[c].pc = "adding" /\ k # NoKey /\ reserved[k] # Free
  BY Numbers DEF RedisInv, RunRefused, Reservable
<1>1. PICK d : Goes(c, d) /\ d = [call[c] EXCEPT !.pc = "finding"]
  BY DEF RunRefused
<1>2. /\ d \in Call /\ d.pc = "finding" /\ d.order = call[c].order /\ d.left = call[c].left
      /\ d.from = call[c].from
  BY <1>0, <1>1 DEF Call
<1>3. /\ call'[c] = d /\ UNCHANGED <<sequence, reserved, runs, evicted>>
      /\ UNCHANGED <<redisVars, now, evicted>>
  BY <1>1, <1>2, GoesTo DEF redisVars, storeVars, RunRefused
<1>4. HeldMeanwhile(c)' = HeldMeanwhile(c) /\ Vacated(c)' = Vacated(c)
  BY <1>2, <1>3, SameHeld
<1>5. reserved[k] \in HeldMeanwhile(c) /\ (Present(reserved[k]) \/ reserved[k] \in evicted)
  BY <1>0, NamedHeld
<1>6. Spent(c, TRUE)
  BY <1>0 DEF Owed
<1>7. Spent(c, reserved[k] # Free /\ Present(reserved[k]))'
  <2>1. HeldMeanwhile(c) \intersect evicted # {} \/ Present(reserved[k])
    BY <1>5
  <2>. QED  BY <1>0, <1>2, <1>3, <1>4, <1>6, <2>1 DEF Spent, Present
<1>8. Owed(c)'
  BY <1>0, <1>2, <1>3, <1>7 DEF Owed
<1>. QED  BY <1>1, <1>2, <1>3, <1>8, MoveKeepsInv

LEMMA FindKeepsInv ==
  ASSUME RedisInv, NEW c \in Callers, FindKey(c)
  PROVE  RedisInv'
<1>. DEFINE k == call[c].order.key
<1>0. /\ call[c] \in Call /\ Owed(c) /\ call[c].pc = "finding" /\ Holder(k) = reserved[k]
      /\ k # NoKey /\ k \in Keys /\ Spent(c, reserved[k] # Free /\ Present(reserved[k]))
  <2>1. call[c] \in Call /\ Owed(c) /\ call[c].pc = "finding"
    BY Numbers DEF RedisInv, FindKey
  <2>2. k # NoKey /\ call[c].order \in Orders
    BY <2>1 DEF Owed
  <2>3. Spent(c, reserved[k] # Free /\ Present(reserved[k]))
    BY <2>1 DEF Owed
  <2>. QED  BY <2>1, <2>2, <2>3, Numbers DEF Holder
<1>1. CASE reserved[k] = Free
  <2>1. Missed(c) /\ UNCHANGED <<redisVars, now, evicted>>
    BY <1>0, <1>1 DEF FindKey
  <2>2. Spent(c, FALSE)
    BY <1>0, <1>1 DEF Spent
  <2>. QED  BY <1>0, <2>1, <2>2, MissedKeepsInv
<1>2. CASE reserved[k] # Free
  <2>1. PICK d : Goes(c, d) /\ d = [call[c] EXCEPT !.pc = "reading", !.run = reserved[k]]
    BY <1>0, <1>2 DEF FindKey
  <2>2. reserved[k] \in Ids
    BY <1>0, <1>2, Numbers DEF TypeOK
  <2>3. /\ d \in Call /\ d.pc = "reading" /\ d.order = call[c].order /\ d.left = call[c].left
        /\ d.from = call[c].from /\ d.run = reserved[k]
    BY <1>0, <2>1, <2>2 DEF Call
  <2>4. /\ call'[c] = d /\ UNCHANGED <<sequence, reserved, runs, evicted>>
        /\ UNCHANGED <<redisVars, now, evicted>>
    BY <2>1, <2>3, GoesTo DEF redisVars, storeVars, FindKey
  <2>5. HeldMeanwhile(c)' = HeldMeanwhile(c) /\ Vacated(c)' = Vacated(c)
    BY <2>3, <2>4, SameHeld
  <2>6. reserved[k] \in HeldMeanwhile(c)
    BY <1>0, <1>2, NamedHeld
  <2>7. (call[c].run \in HeldMeanwhile(c) /\ Spent(c, Present(call[c].run)))'
    BY <1>0, <1>2, <2>3, <2>4, <2>5, <2>6 DEF Spent, Present
  <2>8. Owed(c)'
    BY <1>0, <2>3, <2>4, <2>7 DEF Owed
  <2>. QED  BY <2>1, <2>3, <2>4, <2>8, MoveKeepsInv
<1>. QED  BY <1>1, <1>2

LEMMA ReadKeepsInv ==
  ASSUME RedisInv, NEW c \in Callers, ReadRun(c)
  PROVE  RedisInv'
<1>0. /\ call[c] \in Call /\ Owed(c) /\ call[c].pc = "reading" /\ Rewrites \in Nat
      /\ call[c].run \in HeldMeanwhile(c) /\ Spent(c, Present(call[c].run))
  <2>1. call[c] \in Call /\ Owed(c) /\ call[c].pc = "reading" /\ Rewrites \in Nat
    BY Numbers DEF RedisInv, ReadRun
  <2>. QED  BY <2>1 DEF Owed
<1>1. CASE ~Present(call[c].run)
  <2>1. Missed(c) /\ UNCHANGED <<redisVars, now, evicted>>
    BY <1>1 DEF ReadRun
  <2>2. Spent(c, FALSE)
    BY <1>0, <1>1 DEF Spent
  <2>. QED  BY <1>0, <2>1, <2>2, MissedKeepsInv
<1>2. CASE Present(call[c].run)
  <2>1. PICK d : Goes(c, d) /\ d = [call[c] EXCEPT !.pc = "answered", !.left = 0]
    BY <1>2 DEF ReadRun
  <2>2. 0 \in 0 .. Rewrites
    BY <1>0
  <2>3. /\ d \in Call /\ d.pc = "answered" /\ d.order = call[c].order
        /\ d.from = call[c].from /\ d.run = call[c].run
    BY <1>0, <2>1, <2>2 DEF Call
  <2>4. /\ call'[c] = d /\ UNCHANGED <<sequence, reserved, runs, evicted>>
        /\ UNCHANGED <<redisVars, now, evicted>>
    BY <2>1, <2>3, GoesTo DEF redisVars, storeVars, ReadRun
  <2>5. HeldMeanwhile(c)' = HeldMeanwhile(c)
    BY <2>3, <2>4, SameHeld
  <2>6. Owed(c)'
    BY <1>0, <2>3, <2>4, <2>5 DEF Owed
  <2>. QED  BY <2>1, <2>3, <2>4, <2>6, MoveKeepsInv
<1>. QED  BY <1>1, <1>2

LEMMA ReturnKeepsInv ==
  ASSUME RedisInv, NEW c \in Callers, Return(c)
  PROVE  RedisInv'
<1>1. NoCall \in Call /\ NoCall.pc = "idle"
  <2>1. 0 \in 0 .. Rewrites /\ 0 \in 0 .. MaxRuns + 1
    BY RedisAssumption, StoreAssumption
  <2>. QED  BY <2>1 DEF NoCall, Call, Free
<1>2. call'[c] = NoCall /\ Goes(c, NoCall) /\ UNCHANGED <<redisVars, now, evicted>>
  BY <1>1, GoesTo DEF Return
<1>3. Owed(c)'
  BY <1>1, <1>2 DEF Owed
<1>. QED  BY <1>1, <1>2, <1>3, MoveKeepsInv

-----------------------------------------------------------------------------
LEMMA InitInv == Init => RedisInv
<1>. SUFFICES ASSUME Init
              PROVE  RedisInv
  OBVIOUS
<1>1. Absent \in RowType /\ Absent.status = "absent"
  BY StoreAssumption DEF Absent, RowType, NoInstant
<1>2. NoCall \in Call /\ NoCall.pc = "idle"
  <2>1. 0 \in 0 .. Rewrites /\ 0 \in 0 .. MaxRuns + 1
    BY RedisAssumption, StoreAssumption
  <2>. QED  BY <2>1 DEF NoCall, Call, Free
<1>3. 1 \in 1 .. MaxRuns + 1 /\ 0 \in 0 .. MaxNow
  BY StoreAssumption, RedisAssumption
<1>4. TypeOK
  BY <1>1, <1>2, <1>3 DEF TypeOK, StoreType, Init, StoreInit, Scores
<1>5. ASSUME NEW r \in Ids
      PROVE  RowKept(r)
  <2>1. r >= 1 /\ ~(r < 1)
    BY StoreAssumption DEF Ids
  <2>. QED  BY <1>1, <2>1 DEF RowKept, SitsWell, Sits, Present, Init, StoreInit
<1>6. \A k \in Keys : KeyKept(k)
  BY DEF KeyKept, Init
<1>7. \A c \in Callers : Owed(c)
  BY <1>2 DEF Owed, Init
<1>. QED  BY <1>4, <1>5, <1>6, <1>7, InvIs

(* A step that changes only the clock, or nothing. *)
LEMMA TickKeepsInv ==
  ASSUME RedisInv, UNCHANGED <<redisVars, evicted, call>>, now' \in 0 .. MaxNow
  PROVE  RedisInv'
<1>1. UNCHANGED <<runs, asked, sequence, lane, leased, settled, listed, reserved, evicted, call>>
  BY DEF redisVars, storeVars, setVars
<1>2. TypeOK'
  BY <1>1, Numbers DEF TypeOK, StoreType
<1>3. \A r \in Ids : SitsWell(r)'
  BY <1>1, InvIs DEF RowKept, SitsWell
<1>4. \A r \in Ids : Present(r)' <=> Present(r)
  BY <1>1 DEF Present
<1>. QED  BY <1>1, <1>2, <1>3, <1>4, RowsKeepInv

LEMMA NextKeepsInv ==
  ASSUME RedisInv, [Next]_vars
  PROVE  RedisInv'
<1>1. CASE Tick \/ UNCHANGED vars
  <2>1. now \in 0 .. MaxNow /\ MaxNow \in Nat
    BY Numbers, RedisAssumption
  <2>2. UNCHANGED <<redisVars, evicted, call>> /\ now' \in 0 .. MaxNow
    BY <1>1, <2>1 DEF Tick, vars
  <2>. QED  BY <2>2, TickKeepsInv
<1>2. ASSUME NEW c \in Callers, CallerStep(c)
      PROVE  RedisInv'
  BY <1>2, AskKeepsInv, WriteRunKeepsInv, RefusedKeepsInv, FindKeepsInv, ReadKeepsInv, ReturnKeepsInv
     DEF CallerStep
<1>3. ASSUME NEW r \in Ids, UNCHANGED <<now, evicted, call>>,
             HolderCall(r, runs[r].worker, runs[r].attempts)
      PROVE  RedisInv'
  BY <1>3, BeatKeepsInv, OverKeepsInv, AgainKeepsInv DEF HolderCall
<1>. QED  BY <1>1, <1>2, <1>3, WriteSlotKeepsInv, ClaimKeepsInv, ReclaimKeepsInv, PurgeKeepsInv,
             CancelKeepsInv, EvictKeepsInv DEF Next

(* store/redis.py:108-196, app.py:229-242 - the hashes, the sets and the reservations stay      *)
(* together, an id is given once, and a caller of store_once can account for what it was        *)
(* refused.                                                                                     *)
THEOREM RedisInvariant == Spec => []RedisInv
<1>1. Init => RedisInv
  BY InitInv
<1>2. RedisInv /\ [Next]_vars => RedisInv'
  BY NextKeepsInv
<1>. QED  BY <1>1, <1>2, PTL DEF Spec

(* store/redis.py:108-130,325 - a run waits in the one set its status names, under the instant  *)
(* its hash holds, and its key names it; what else is in a set or names an id was evicted.      *)
THEOREM SetsFollowHashes == Spec => []Indexed
<1>1. RedisInv => Indexed
  BY DEF RedisInv
<1>. QED  BY <1>1, RedisInvariant, PTL

(* app.py:229-242 - store_once answers with a run that carried the key while it was asking, and *)
(* gives up only when that many of its holders went away, or one of them was evicted.           *)
THEOREM StoreOnceAnswers == Spec => []OnceAnswers
<1>1. RedisInv => OnceAnswers
  <2>. SUFFICES ASSUME RedisInv, NEW c \in Callers
                PROVE  /\ call[c].pc = "answered" => call[c].run \in HeldMeanwhile(c)
                       /\ call[c].pc = "raised" =>
                            \/ Cardinality({r \in HeldMeanwhile(c) : ~Present(r)}) >= Rewrites
                            \/ HeldMeanwhile(c) \intersect evicted # {}
    BY DEF OnceAnswers
  <2>1. Owed(c) /\ Cardinality(Vacated(c)) \in Nat /\ Rewrites \in Nat
    BY HeldIs, Numbers DEF RedisInv
  <2>2. call[c].pc = "raised" => \/ Cardinality(Vacated(c)) >= Rewrites
                                 \/ HeldMeanwhile(c) \intersect evicted # {}
    BY <2>1 DEF Owed, Spent
  <2>. QED  BY <2>1, <2>2 DEF Owed, Vacated
<1>. QED  BY <1>1, RedisInvariant, PTL

-----------------------------------------------------------------------------
(* The steps of redis are steps of the contract, or an eviction. *)

LEMMA SameRows ==
  /\ Kept!Ids = Ids
  /\ \A r, queues, moment : Kept!Claimable(r, queues, moment) = Claimable(r, queues, moment)
  /\ \A r, moment : Kept!Expired(r, moment) = Expired(r, moment)
  /\ \A r, moment : Kept!Prunable(r, moment) = Prunable(r, moment)
  /\ \A row, worker, moment : Kept!ClaimedBy(row, worker, moment) = ClaimedBy(row, worker, moment)
  /\ \A r, moment : Kept!TakenBack(r, moment) = TakenBack(r, moment)
  /\ Kept!Absent = Absent
BY DEF Kept!Ids, Ids, Kept!Claimable, Claimable, Kept!Expired, Expired, Kept!NoInstant, NoInstant,
       Kept!Prunable, Prunable, Kept!Settled, Settled, Kept!ClaimedBy, ClaimedBy,
       Kept!TakenBack, TakenBack, Kept!Exhausted, Exhausted, Kept!Closed, Closed,
       Kept!Requeued, Requeued, Kept!Absent, Absent

(* A key that may be reserved is nobody's: what has it would be named by it. *)
LEMMA AddLawful ==
  ASSUME RedisInv, NEW order \in Orders, NEW due_at \in Kept!Dues, Reservable(order.key),
         AddRun(order, due_at), UNCHANGED now
  PROVE  Kept!ContractNext
<1>1. ~Taken(order.key)
  <2>. SUFFICES ASSUME order.key # NoKey, NEW r \in Ids, Present(r), asked[r].key = order.key
                PROVE  FALSE
    BY DEF Taken
  <2>1. reserved[order.key] = Free /\ reserved[asked[r].key] = r /\ r # Free
    BY Numbers DEF Reservable, Indexed, Free
  <2>. QED  BY <2>1
<1>2. Kept!Add(order, due_at)
  BY <1>1 DEF AddRun, Kept!Add, Taken, Kept!Taken, Present, Kept!Present, Ids, Kept!Ids,
              Written, Kept!Written, NoInstant, Kept!NoInstant
<1>. QED  BY <1>2 DEF Kept!ContractNext, Kept!StoreCall

LEMMA SameInstants ==
  ASSUME RedisInv
  PROVE  now \in Kept!Moments /\ \A delay \in Delays : now + delay \in Kept!Dues
<1>1. now \in 0 .. now
  BY Numbers
<1>. QED  BY <1>1 DEF Kept!Moments, Kept!Dues

(* What a caller is about to write was dated when it asked, and it asked before now. *)
Dated == \A c \in Callers : call[c].pc # "idle" => call[c].due_at \in Kept!Dues

LEMMA NextDates ==
  ASSUME RedisInv, Dated, [Next]_vars
  PROVE  Dated'
<1>1. now \in Nat /\ (now' = now \/ now' = now + 1)
  <2>1. now \in Nat
    BY Numbers
  <2>. QED  BY <2>1 DEF Next, Tick, CallerStep, Ask, WriteRun, RunRefused, FindKey, ReadRun, Return,
                        ClaimDue, Evict, vars
<1>2. Kept!Dues \subseteq Kept!Dues'
  BY <1>1 DEF Kept!Dues, Kept!Moments
<1>3. CASE UNCHANGED call
  BY <1>2, <1>3 DEF Dated
<1>4. ASSUME NEW c \in Callers, CallerStep(c)
      PROVE  Dated'
  <2>1. call[c] \in Call /\ call \in [Callers -> Call]
    BY Numbers DEF TypeOK
  <2>2. ASSUME NEW d, Goes(c, d), d.pc # "idle" => d.due_at \in Kept!Dues
        PROVE  Dated'
    <3>1. call'[c] = d /\ \A b \in Callers \ {c} : call'[b] = call[b]
      BY <2>1, <2>2 DEF Goes
    <3>. QED  BY <1>2, <2>2, <3>1 DEF Dated
  <2>3. ASSUME NEW order \in Orders, NEW delay \in Delays, Ask(c, order, delay)
        PROVE  Dated'
    <3>1. PICK d : Goes(c, d) /\ d.due_at = now + delay
      BY <2>3 DEF Ask
    <3>. QED  BY <2>2, <3>1, SameInstants
  <2>4. CASE Return(c)
    <3>1. Goes(c, NoCall) /\ NoCall.pc = "idle"
      BY <2>4 DEF Return, NoCall
    <3>. QED  BY <2>2, <3>1
  <2>5. CASE WriteRun(c) \/ RunRefused(c) \/ FindKey(c) \/ ReadRun(c)
    <3>1. call'[c].due_at = call[c].due_at /\ \A b \in Callers \ {c} : call'[b] = call[b]
      <4>1. Missed(c) => call'[c].due_at = call[c].due_at /\ \A b \in Callers \ {c} : call'[b] = call[b]
        BY <2>1 DEF Missed, Goes, Call
      <4>2. CASE WriteRun(c)
        BY <2>1, <4>2 DEF WriteRun, Goes, Call
      <4>3. CASE RunRefused(c)
        BY <2>1, <4>3 DEF RunRefused, Goes, Call
      <4>4. CASE FindKey(c)
        BY <2>1, <4>1, <4>4 DEF FindKey, Goes, Call
      <4>5. CASE ReadRun(c)
        BY <2>1, <4>1, <4>5 DEF ReadRun, Goes, Call
      <4>. QED  BY <2>5, <4>2, <4>3, <4>4, <4>5
    <3>2. call[c].pc # "idle"
      BY <2>5 DEF WriteRun, RunRefused, FindKey, ReadRun
    <3>. QED  BY <1>2, <3>1, <3>2 DEF Dated
  <2>. QED  BY <1>4, <2>3, <2>4, <2>5 DEF CallerStep
<1>. QED  BY <1>3, <1>4 DEF Next, Tick, ClaimDue, Evict, vars

LEMMA HolderLawful ==
  ASSUME RedisInv, NEW r \in Ids, HolderCall(r, runs[r].worker, runs[r].attempts), UNCHANGED now
  PROVE  Kept!ContractNext
<1>. DEFINE worker == runs[r].worker
            attempt == runs[r].attempts
<1>1. CASE Beat(r, worker, attempt, now)
  BY <1>1, SameInstants DEF Beat, Heartbeat, Kept!Heartbeat, Held, Kept!Held, Write, Kept!Write,
     Kept!HolderWrites, Kept!StoreCall, Kept!ContractNext, Ids, Kept!Ids
<1>2. ASSUME NEW status \in {"done", "failed"}, Over(r, worker, attempt, status, now)
      PROVE  Kept!ContractNext
  <2>1. Kept!Complete(r, worker, attempt, now) \/ Kept!Fail(r, worker, attempt, now)
    BY <1>2 DEF Over, Kept!Complete, Kept!Fail, Held, Kept!Held, Write, Kept!Write,
       Closed, Kept!Closed, NoInstant, Kept!NoInstant
  <2>. QED  BY <2>1, SameInstants DEF Kept!HolderWrites, Kept!StoreCall, Kept!ContractNext, Ids, Kept!Ids
<1>3. ASSUME NEW delay \in Delays, NEW counted \in {0, -1}, Again(r, worker, attempt, now + delay, counted)
      PROVE  Kept!ContractNext
  <2>1. \/ Kept!RetryLater(r, worker, attempt, now + delay)
        \/ Kept!Release(r, worker, attempt, now + delay)
    BY <1>3 DEF Again, Kept!RetryLater, Kept!Release, Held, Kept!Held, Write, Kept!Write,
       Requeued, Kept!Requeued, NoInstant, Kept!NoInstant
  <2>. QED  BY <2>1, SameInstants DEF Kept!HolderWrites, Kept!StoreCall, Kept!ContractNext, Ids, Kept!Ids
<1>. QED  BY <1>1, <1>2, <1>3 DEF HolderCall

LEMMA StepLawful ==
  ASSUME RedisInv, Dated, [Next]_vars
  PROVE  [Kept!ContractNext \/ Vanished]_<<redisVars, now>>
<1>0. now \in Int /\ now \in Nat
  BY Numbers
<1>1. CASE UNCHANGED vars
  BY <1>1 DEF vars
<1>2. CASE Tick
  BY <1>2 DEF Tick, redisVars, storeVars, Kept!ContractNext, Kept!storeVars
<1>3. ASSUME NEW order \in Orders, NEW delay \in Delays, WriteSlot(order, now + delay), UNCHANGED now
      PROVE  Kept!ContractNext
  BY <1>3, SameInstants, AddLawful DEF WriteSlot
<1>4. ASSUME NEW c \in Callers, CallerStep(c)
      PROVE  Kept!ContractNext \/ UNCHANGED <<redisVars, now>>
  <2>1. CASE WriteRun(c)
    <3>1. Owed(c) /\ call[c].pc = "adding"
      BY <2>1 DEF RedisInv, WriteRun
    <3>2. call[c].order \in Orders
      BY <3>1 DEF Owed
    <3>3. call[c].due_at \in Kept!Dues
      BY <3>1 DEF Dated
    <3>. QED  BY <2>1, <3>2, <3>3, AddLawful DEF WriteRun
  <2>. QED  BY <1>4, <2>1 DEF CallerStep, Ask, RunRefused, FindKey, ReadRun, Return
<1>5. ASSUME NEW w \in Workers, NEW queues, NEW limit, ClaimDue(w, queues, limit)
      PROVE  Kept!ContractNext
  <2>. DEFINE R == TakenOf(Walked(queues, limit, now))
  <2>1. R \in SUBSET Ids /\ \A r \in R : Claimable(r, {asked[r].queue}, now)
    BY <1>0, WalkedIs DEF Claimable
  <2>2. /\ runs' = [r \in Ids |-> IF r \in R THEN ClaimedBy(runs[r], w, now) ELSE runs[r]]
        /\ UNCHANGED <<asked, sequence, now>>
    BY <1>5 DEF ClaimDue, ClaimRuns
  <2>. HIDE DEF R
  <2>3. Kept!Take(R, w, now)
    BY <2>1, <2>2, SameRows DEF Kept!Take
  <2>. QED  BY <2>1, <2>2, <2>3, SameRows, SameInstants DEF Kept!ContractNext, Kept!StoreCall
<1>6. ASSUME ReclaimLeases(now), UNCHANGED now
      PROVE  Kept!ContractNext
  <2>. DEFINE R == LapsedRuns(now)
  <2>1. R \in SUBSET Ids /\ Cardinality(R) <= ReclaimBatch /\ \A r \in R : Expired(r, now)
    BY <1>0, LapsedIs
  <2>2. /\ runs' = [r \in Ids |-> IF r \in R THEN TakenBack(r, now) ELSE runs[r]]
        /\ UNCHANGED <<asked, sequence>>
    BY <1>6 DEF ReclaimLeases, LapsedRuns, LapsedBatch, Lapsed
  <2>. HIDE DEF R
  <2>3. Kept!GiveBack(R, now)
    <3>1. Kept!Cardinality(R) = Cardinality(R)
      BY DEF Kept!Cardinality, Cardinality
    <3>. QED  BY <2>1, <2>2, <3>1, SameRows DEF Kept!GiveBack
  <2>. QED  BY <1>6, <2>1, <2>3, SameRows, SameInstants DEF Kept!ContractNext, Kept!StoreCall
<1>7. ASSUME PurgeSettled(now), UNCHANGED now
      PROVE  Kept!ContractNext
  <2>. DEFINE R == {r \in Pruned(now) : Present(r)}
  <2>1. R \in SUBSET Ids /\ \A r \in R : Prunable(r, now)
    BY <1>0, PrunedIs
  <2>2. UNCHANGED <<asked, sequence>>
    BY <1>7 DEF PurgeSettled
  <2>3. runs' = [r \in Ids |-> IF r \in R THEN Absent ELSE runs[r]]
    <3>1. runs' = [r \in Ids |-> IF r \in Pruned(now) THEN Absent ELSE runs[r]]
      BY <1>7 DEF PurgeSettled, Pruned
    <3>2. \A r \in Pruned(now) : r \notin R => runs[r] = Absent
      BY <1>0, PrunedIs
    <3>. QED  BY <3>1, <3>2
  <2>. HIDE DEF R
  <2>4. Kept!Drop(R)
    BY <2>1, <2>2, <2>3, SameRows DEF Kept!Drop
  <2>. QED  BY <1>7, <2>1, <2>4, SameRows DEF Kept!ContractNext, Kept!StoreCall
<1>8. ASSUME NEW r \in Ids, CancelRun(r, now), UNCHANGED now
      PROVE  Kept!ContractNext
  <2>1. Kept!Cancel(r, now)
    BY <1>8 DEF CancelRun, Cancel, Kept!Cancel, Write, Kept!Write, Closed, Kept!Closed,
       NoInstant, Kept!NoInstant
  <2>. QED  BY <1>8, <2>1, SameRows, SameInstants DEF Kept!ContractNext, Kept!StoreCall
<1>9. ASSUME NEW r \in Ids, Evict(r)
      PROVE  Vanished
  <2>1. r \notin evicted
    BY <1>9, WaitsOnce DEF Evict
  <2>. QED  BY <1>9, <2>1 DEF Evict, Vanished
<1>. QED  BY <1>1, <1>2, <1>3, <1>4, <1>5, <1>6, <1>7, <1>8, <1>9, HolderLawful DEF Next

(* docs/stores.md:362-375, store/base.py:40-97 - the hashes move as the contract of a store     *)
(* lets rows move, and an eviction costs the run it took and brings nothing back.               *)
THEOREM RedisKeepsContract == Spec => LawfulOrEvicted
<1>1. Init => Kept!ContractInit
  BY DEF Init, StoreInit, Kept!ContractInit, Kept!StoreInit, Kept!Ids, Ids, Kept!Absent, Absent,
         Kept!NoInstant, NoInstant
<1>2. Init => Dated
  BY DEF Init, Dated, NoCall
<1>3. RedisInv /\ Dated /\ [Next]_vars => Dated'
  BY NextDates
<1>4. RedisInv /\ Dated /\ [Next]_vars => [Kept!ContractNext \/ Vanished]_<<redisVars, now>>
  BY StepLawful
<1>. QED  BY <1>1, <1>2, <1>3, <1>4, RedisInvariant, PTL DEF Spec, LawfulOrEvicted

-----------------------------------------------------------------------------
(* With no ghost about, what a claim leaves behind has as many before it as the claim may take. *)

Before(queues, limit, moment, r) ==
  {q \in Ready(queues, limit, moment) : Present(q) /\ WalkedBefore(q, r)}

LEMMA LeftBehind ==
  ASSUME RedisInv, NEW queues, NEW limit \in Limits, evicted = {},
         NEW r \in Walked(queues, limit, now),
         NEW q \in Ids, Claimable(q, queues, now), q \notin Walked(queues, limit, now)
  PROVE  ~(asked[q].priority > asked[r].priority
           \/ (asked[q].priority = asked[r].priority /\ lane[q] < lane[r]))
<1>. DEFINE ready == Ready(queues, limit, now)
            before(p) == Before(queues, limit, now, p)
            l == <<asked[q].queue, asked[q].priority>>
            due == Due(l[1], l[2], now)
            F == First(lane, due, limit * Spread)
<1>. SUFFICES ASSUME \/ asked[q].priority > asked[r].priority
                     \/ asked[q].priority = asked[r].priority /\ lane[q] < lane[r]
              PROVE  FALSE
  OBVIOUS
<1>0. /\ TypeOK /\ limit \in Nat /\ limit >= 1 /\ limit * Spread \in Nat /\ limit * Spread >= limit
      /\ now \in Int /\ Out \in Int /\ \A p \in Ids : lane[p] \in Int /\ p \in Int
  <2>1. limit \in Nat /\ limit >= 1 /\ Spread \in Nat /\ Spread >= 1
    BY RedisAssumption
  <2>2. limit * Spread \in Nat /\ limit * Spread >= limit
    BY <2>1
  <2>3. \A p \in Ids : lane[p] \in Int /\ p \in Int
    BY Numbers DEF TypeOK, Scores, Out, NoInstant
  <2>4. now \in Int /\ Out \in Int /\ TypeOK
    BY Numbers DEF Out, NoInstant
  <2>. QED  BY <2>1, <2>2, <2>3, <2>4
<1>1. \A p \in Ids : SitsWell(p) /\ (Present(p) => asked[p] \in Orders)
  <2>1. \A p \in Ids : RowKept(p) /\ (p < sequence \/ p >= sequence)
    BY InvIs, Numbers
  <2>. QED  BY <2>1 DEF RowKept
<1>2. ready \in SUBSET Ids /\ IsFiniteSet(ready) /\ \A p \in ready : Present(p)
  <2>1. \A p \in ready : p \in Ids /\ lane[p] # Out
    BY DEF Ready, First, Due
  <2>2. \A p \in Ids : lane[p] # Out => Present(p)
    BY <1>1 DEF SitsWell, Sits, Present
  <2>3. ready \in SUBSET Ids
    BY <2>1
  <2>. QED  BY <2>1, <2>2, <2>3, Numbers, FS_Subset
<1>3. \A p \in Ids : /\ before(p) \in SUBSET ready
                     /\ IsFiniteSet(before(p)) /\ Cardinality(before(p)) \in Nat
  <2>1. \A p \in Ids : before(p) \in SUBSET ready
    BY DEF Before
  <2>. QED  BY <1>2, <2>1, FS_Subset, FS_CardinalityType
<1>4. /\ r \in ready /\ r \in Ids /\ Cardinality(before(r)) < limit
      /\ \A p \in ready : p \notin Walked(queues, limit, now) => ~(Cardinality(before(p)) < limit)
  BY <1>2 DEF Walked, Before
<1>5. /\ Present(q) /\ lane[q] = runs[q].due_at /\ lane[q] # Out /\ lane[q] <= now
      /\ asked[q].queue \in queues
  BY <1>1 DEF Claimable, SitsWell, Sits, Present
<1>6. l \in listed /\ asked[q] \in Orders
  BY <1>1, <1>5, Numbers DEF Indexed, Waits
<1>7. asked[r] \in Orders
  BY <1>1, <1>2, <1>4
<1>8. asked[q].priority \in Int /\ asked[r].priority \in Int
  BY <1>6, <1>7, StoreAssumption DEF OrderType
<1>9. /\ \A p \in ready : asked[p].priority \in Int /\ lane[p] \in Int /\ p \in Int
      /\ WalkedBefore(q, r)
  <2>1. \A p \in ready : asked[p] \in Orders
    BY <1>1, <1>2
  <2>. QED  BY <1>0, <1>2, <2>1, StoreAssumption DEF OrderType, WalkedBefore
<1>. HIDE DEF ready
<1>10. CASE q \in ready
  <2>1. before(q) \in SUBSET before(r)
    <3>1. ASSUME NEW p \in ready, WalkedBefore(p, q)
          PROVE  WalkedBefore(p, r)
      BY <1>0, <1>4, <1>8, <1>9, <3>1 DEF WalkedBefore
    <3>. QED  BY <3>1 DEF Before, ready
  <2>2. Cardinality(before(q)) <= Cardinality(before(r))
    BY <1>3, <1>4, <2>1, FS_Subset
  <2>3. ~(Cardinality(before(q)) < limit)
    BY <1>4, <1>10
  <2>4. Cardinality(before(q)) \in Nat /\ Cardinality(before(r)) \in Nat
    BY <1>3, <1>4
  <2>. HIDE DEF before
  <2>. QED  BY <1>0, <1>4, <2>2, <2>3, <2>4
<1>11. CASE q \notin ready
  <2>1. /\ due \in SUBSET Ids /\ q \in due
        /\ \A p \in due : asked[p].priority = asked[q].priority
    BY <1>5 DEF Due
  <2>2. F \in SUBSET ready
    <3>1. l \in {m \in listed : m[1] \in queues}
      BY <1>5, <1>6
    <3>. QED  BY <3>1 DEF Ready, ready
  <2>. HIDE DEF due, l
  <2>3. lane \in Scores
    BY <1>0 DEF TypeOK
  <2>4. /\ F \in SUBSET due /\ IsFiniteSet(F) /\ Cardinality(F) \in Nat
        /\ \A x \in due \ F : /\ Cardinality(F) >= limit * Spread
                              /\ \A p \in F : SortedBefore(lane, p, x)
    BY <1>0, <2>1, <2>3, FirstIs
  <2>5. Cardinality(F) >= limit * Spread /\ \A p \in F : SortedBefore(lane, p, q)
    BY <1>11, <2>1, <2>2, <2>4
  <2>. HIDE DEF F
  <2>6. \A p \in F : WalkedBefore(p, r)
    <3>. SUFFICES ASSUME NEW p \in F
                  PROVE  WalkedBefore(p, r)
      OBVIOUS
    <3>1. /\ p \in Ids /\ lane[p] \in Int /\ lane[q] \in Int /\ lane[r] \in Int
          /\ asked[p].priority = asked[q].priority
      BY <1>0, <1>4, <2>1, <2>4
    <3>2. lane[p] <= lane[q]
      BY <2>5, <3>1 DEF SortedBefore
    <3>. QED  BY <1>8, <3>1, <3>2 DEF WalkedBefore
  <2>7. F \in SUBSET before(r)
    BY <1>2, <2>2, <2>6 DEF Before, ready
  <2>8. Cardinality(F) <= Cardinality(before(r)) /\ Cardinality(before(r)) \in Nat
    BY <1>3, <1>4, <2>7, FS_Subset
  <2>9. Cardinality(before(r)) >= limit
    <3>. DEFINE n == limit * Spread
    <3>1. n \in Nat /\ n >= limit /\ Cardinality(F) >= n
      BY <1>0, <2>5
    <3>. HIDE DEF n, before
    <3>. QED  BY <1>0, <2>4, <2>8, <3>1
  <2>. HIDE DEF before
  <2>. QED  BY <1>0, <1>4, <2>8, <2>9
<1>. QED  BY <1>10, <1>11

(* store/redis.py:24,37,42 - a claim leaves nothing behind that should have gone before what it *)
(* took, in whichever of its queues, unless an eviction left a ghost.                           *)
THEOREM ClaimsTheUrgent == Spec => UrgentFirst
<1>. DEFINE Urgent ==
       \A w \in Workers, queues \in SUBSET Queues, limit \in Limits :
         ClaimDue(w, queues, limit) /\ evicted = {} =>
           \A r, q \in Ids :
             /\ runs[r].status = "pending" /\ runs'[r].status = "running"
             /\ Claimable(q, queues, now) /\ runs'[q].status = "pending"
             => \/ asked[q].priority < asked[r].priority
                \/ asked[q].priority = asked[r].priority /\ runs[q].due_at >= runs[r].due_at
<1>1. RedisInv => Urgent
  <2>. SUFFICES ASSUME RedisInv, NEW w \in Workers, NEW queues \in SUBSET Queues, NEW limit \in Limits,
                       ClaimDue(w, queues, limit), evicted = {},
                       NEW r \in Ids, NEW q \in Ids,
                       runs[r].status = "pending", runs'[r].status = "running",
                       Claimable(q, queues, now), runs'[q].status = "pending"
                PROVE  \/ asked[q].priority < asked[r].priority
                       \/ asked[q].priority = asked[r].priority /\ runs[q].due_at >= runs[r].due_at
    OBVIOUS
  <2>. DEFINE walked == Walked(queues, limit, now)
              taken == TakenOf(walked)
  <2>1. now \in Int /\ Present(q) /\ Present(r)
    BY Numbers DEF Claimable, Present
  <2>2. runs' = [x \in Ids |-> IF x \in taken THEN ClaimedBy(runs[x], w, now) ELSE runs[x]]
    BY DEF ClaimDue, ClaimRuns
  <2>3. \A x \in walked : Present(x) <=> x \in taken
    BY DEF TakenOf
  <2>4. taken \in SUBSET walked
    BY <2>1, WalkedIs
  <2>. HIDE DEF walked, taken
  <2>5. r \in walked
    BY <2>2, <2>4
  <2>6. q \notin walked
    <3>1. runs[q] \in RowType
      BY Numbers DEF StoreType
    <3>2. ClaimedBy(runs[q], w, now).status = "running"
      BY <3>1 DEF RowType, ClaimedBy
    <3>. QED  BY <2>1, <2>2, <2>3, <3>2
  <2>7. ~(asked[q].priority > asked[r].priority
           \/ (asked[q].priority = asked[r].priority /\ lane[q] < lane[r]))
    BY <2>5, <2>6, LeftBehind DEF walked
  <2>8. lane[q] = runs[q].due_at /\ lane[r] = runs[r].due_at /\ lane[q] \in Int /\ lane[r] \in Int
    <3>1. \A x \in Ids : SitsWell(x)
      BY InvIs DEF RowKept
    <3>2. lane[q] = runs[q].due_at /\ lane[r] = runs[r].due_at
      BY <3>1 DEF SitsWell, Sits, Claimable
    <3>. QED  BY <3>2, Numbers DEF TypeOK, Scores, Out, NoInstant
  <2>9. asked[q].priority \in Int /\ asked[r].priority \in Int
    <3>1. \A x \in Ids : RowKept(x) /\ (x < sequence \/ x >= sequence)
      BY InvIs, Numbers
    <3>2. asked[q] \in Orders /\ asked[r] \in Orders
      BY <2>1, <3>1 DEF RowKept
    <3>. QED  BY <3>2, StoreAssumption DEF OrderType
  <2>. QED  BY <2>7, <2>8, <2>9
<1>2. Urgent => [Urgent]_vars
  OBVIOUS
<1>. QED  BY <1>1, <1>2, RedisInvariant, PTL DEF UrgentFirst
=============================================================================
