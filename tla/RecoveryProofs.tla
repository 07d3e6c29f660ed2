--------------------------- MODULE RecoveryProofs ---------------------------
(***************************************************************************)
(* That the passes leave no run where none of them would ever find it,     *)
(* that a pruning which waits its hour out left nothing behind, and that a *)
(* herd of retries stays apart, for any number of workers and runs, any    *)
(* policy and any hour.                                                    *)
(***************************************************************************)
EXTENDS Recovery, StoreLemmas

-----------------------------------------------------------------------------
(* The doublings: there is such a function, and it is never less than one. *)

DoublesTo(n, f) == f = [k \in 0 .. n |-> IF k = 0 THEN 1 ELSE 2 * f[k - 1]]

LEMMA DoublesOnce ==
  ASSUME NEW n \in Nat, NEW f, DoublesTo(n, f)
  PROVE  \E g : DoublesTo(n + 1, g)
<1>. DEFINE g == [k \in 0 .. n + 1 |-> IF k = 0 THEN 1 ELSE 2 * f[k - 1]]
<1>1. \A k \in 0 .. n : f[k] = IF k = 0 THEN 1 ELSE 2 * f[k - 1]
  BY DEF DoublesTo
<1>2. \A k \in 0 .. n : g[k] = f[k]
  BY <1>1
<1>3. \A k \in 0 .. n + 1 : k # 0 => k - 1 \in 0 .. n
  OBVIOUS
<1>4. \A k \in 0 .. n + 1 : k # 0 => f[k - 1] = g[k - 1]
  BY <1>2, <1>3
<1>5. g = [k \in 0 .. n + 1 |-> IF k = 0 THEN 1 ELSE 2 * g[k - 1]]
  BY <1>4
<1>. QED  BY <1>5 DEF DoublesTo

LEMMA Doubles ==
  ASSUME NEW n \in Nat
  PROVE  \E f : DoublesTo(n, f)
<1>. DEFINE T == {m \in Nat : ~ \E f : DoublesTo(m, f)}
<1>1. SUFFICES ASSUME T # {}
               PROVE  FALSE
  OBVIOUS
<1>2. PICK x \in T : \A m \in T : x <= m
  <2>1. T \in SUBSET Nat
    OBVIOUS
  <2>. HIDE DEF T
  <2>. QED  BY <1>1, <2>1, LeastNatural
<1>3. x # 0
  <2>. DEFINE f == [k \in 0 .. 0 |-> 1]
  <2>1. f = [k \in 0 .. 0 |-> IF k = 0 THEN 1 ELSE 2 * f[k - 1]]
    OBVIOUS
  <2>2. DoublesTo(0, f)
    BY <2>1 DEF DoublesTo
  <2>. QED  BY <2>2
<1>4. x - 1 \in Nat /\ x - 1 \notin T /\ (x - 1) + 1 = x
  BY <1>2, <1>3
<1>5. PICK f : DoublesTo(x - 1, f)
  BY <1>4
<1>6. \E g : DoublesTo((x - 1) + 1, g)
  BY <1>4, <1>5, DoublesOnce
<1>. QED  BY <1>4, <1>6

LEMMA DoubledIs ==
  ASSUME NEW n \in 0 .. MaxDoublings
  PROVE  Doubled[n] \in Nat /\ Doubled[n] >= 1
<1>. DEFINE T == {m \in 0 .. MaxDoublings : ~(Doubled[m] \in Nat /\ Doubled[m] >= 1)}
<1>1. \A m \in 0 .. MaxDoublings : Doubled[m] = IF m = 0 THEN 1 ELSE 2 * Doubled[m - 1]
  <2>1. MaxDoublings \in Nat
    BY RecoveryAssumption
  <2>2. \E f : DoublesTo(MaxDoublings, f)
    BY <2>1, Doubles
  <2>3. Doubled = CHOOSE f : DoublesTo(MaxDoublings, f)
    BY Zenon DEF Doubled, DoublesTo
  <2>4. DoublesTo(MaxDoublings, Doubled)
    BY <2>2, <2>3
  <2>. QED  BY <2>4 DEF DoublesTo
<1>2. SUFFICES ASSUME T # {}
               PROVE  FALSE
  OBVIOUS
<1>3. PICK x \in T : \A m \in T : x <= m
  <2>1. T \in SUBSET Nat
    BY RecoveryAssumption
  <2>. HIDE DEF T
  <2>. QED  BY <1>2, <2>1, LeastNatural
<1>4. x # 0 /\ x \in 0 .. MaxDoublings
  BY <1>1, <1>3
<1>5. x - 1 \in 0 .. MaxDoublings /\ x - 1 \notin T
  <2>1. x - 1 \in 0 .. MaxDoublings /\ ~(x <= x - 1)
    BY <1>4, RecoveryAssumption
  <2>. HIDE DEF T
  <2>. QED  BY <1>3, <2>1
<1>6. Doubled[x - 1] \in Nat /\ Doubled[x - 1] >= 1 /\ Doubled[x] = 2 * Doubled[x - 1]
  BY <1>1, <1>4, <1>5
<1>7. Doubled[x] \in Nat /\ Doubled[x] >= 1
  BY <1>6
<1>. QED  BY <1>3, <1>7

-----------------------------------------------------------------------------
(* The draws. *)

LEMMA Products ==
  ASSUME NEW m \in Nat, NEW a \in Nat, NEW b \in Nat
  PROVE  /\ m * a \in Nat
         /\ a <= b => m * a <= m * b /\ a * m <= b * m
         /\ m * (a + b) = m * a + m * b
OBVIOUS

LEMMA Hundredths ==
  ASSUME NEW a \in Nat, NEW b \in Nat
  PROVE  /\ a \div 100 \in Nat
         /\ a <= b * 100 => a \div 100 <= b
         /\ a + 100 <= b => a \div 100 < b \div 100
OBVIOUS

LEMMA CapIs ==
  ASSUME NEW ceiling \in Nat, NEW jitter \in Nat
  PROVE  /\ (ceiling * 100) \div (100 + jitter) \in Nat
         /\ ((ceiling * 100) \div (100 + jitter)) * (100 + jitter) <= ceiling * 100
OBVIOUS

(* Held under the ceiling before it is drawn over, a wait is never longer than the ceiling. *)
LEMMA DrawnStaysUnder ==
  ASSUME NEW growth \in Nat, NEW ceiling \in Nat, NEW jitter \in Nat, NEW draw \in 0 .. jitter
  PROVE  /\ Drawn(growth, jitter, draw, ceiling) \in Nat
         /\ Drawn(growth, jitter, draw, ceiling) <= ceiling
<1>. DEFINE cap == (ceiling * 100) \div (100 + jitter)
            held == Smaller(growth, cap)
<1>1. cap \in Nat /\ cap * (100 + jitter) <= ceiling * 100
  BY CapIs
<1>2. held \in Nat /\ held <= cap
  BY <1>1 DEF Smaller
<1>3. Drawn(growth, jitter, draw, ceiling) = (held * (100 + draw)) \div 100
  BY DEF Drawn
<1>4. 100 + draw \in Nat /\ 100 + jitter \in Nat /\ 100 + draw <= 100 + jitter
  OBVIOUS
<1>. HIDE DEF cap, held
<1>5. held * (100 + draw) <= held * (100 + jitter) /\ held * (100 + draw) \in Nat
  BY <1>2, <1>4, Products
<1>6. held * (100 + jitter) <= cap * (100 + jitter) /\ held * (100 + jitter) \in Nat
  BY <1>1, <1>2, <1>4, Products
<1>7. held * (100 + draw) <= ceiling * 100
  <2>. DEFINE x == held * (100 + draw)
              y == held * (100 + jitter)
              z == cap * (100 + jitter)
  <2>1. x \in Nat /\ y \in Nat /\ z \in Nat /\ ceiling * 100 \in Nat
    BY <1>1, <1>4, <1>5, <1>6, Products
  <2>2. x <= y /\ y <= z /\ z <= ceiling * 100
    BY <1>1, <1>5, <1>6
  <2>. HIDE DEF x, y, z
  <2>3. x <= ceiling * 100
    BY <2>1, <2>2
  <2>. QED  BY <2>3 DEF x
<1>. QED  BY <1>3, <1>5, <1>7, Hundredths

(* Two draws over the same growth are as far apart as the shortest wait makes them. *)
LEMMA DrawsAreApart ==
  ASSUME NEW growth \in Nat, NEW least \in Nat, least <= growth, NEW ceiling \in Nat, NEW jitter \in Nat,
         NEW d \in 0 .. jitter, NEW e \in 0 .. jitter, d < e,
         (e - d) * Smaller(least, (ceiling * 100) \div (100 + jitter)) >= 100
  PROVE  Drawn(growth, jitter, d, ceiling) < Drawn(growth, jitter, e, ceiling)
<1>. DEFINE cap == (ceiling * 100) \div (100 + jitter)
            held == Smaller(growth, cap)
            first == Smaller(least, cap)
<1>1. cap \in Nat
  BY CapIs
<1>2. held \in Nat /\ first \in Nat /\ first <= held
  BY <1>1 DEF Smaller
<1>3. /\ Drawn(growth, jitter, d, ceiling) = (held * (100 + d)) \div 100
      /\ Drawn(growth, jitter, e, ceiling) = (held * (100 + e)) \div 100
  BY DEF Drawn
<1>4. (e - d) * first >= 100
  OBVIOUS
<1>. HIDE DEF cap, held, first
<1>5. e - d \in Nat /\ 100 + d \in Nat /\ 100 + e = (100 + d) + (e - d)
  OBVIOUS
<1>6. (e - d) * first <= (e - d) * held /\ (e - d) * held = held * (e - d)
  BY <1>2, <1>5, Products
<1>7. held * (100 + e) = held * (100 + d) + held * (e - d)
  BY <1>2, <1>5, Products
<1>8. held * (100 + d) \in Nat /\ held * (e - d) \in Nat /\ (e - d) * first \in Nat
  BY <1>2, <1>5, Products
<1>9. held * (100 + d) + 100 <= held * (100 + e) /\ held * (100 + e) \in Nat
  <2>. DEFINE x == held * (100 + d)
              y == held * (e - d)
              z == (e - d) * first
  <2>1. x \in Nat /\ y \in Nat /\ z \in Nat /\ z >= 100 /\ z <= y /\ held * (100 + e) = x + y
    BY <1>4, <1>6, <1>7, <1>8
  <2>. HIDE DEF x, y, z
  <2>2. x + 100 <= x + y /\ x + y \in Nat
    BY <2>1
  <2>. QED  BY <2>1, <2>2 DEF x
<1>. QED  BY <1>3, <1>8, <1>9, Hundredths

-----------------------------------------------------------------------------
(* The waits of a run. *)

LEMMA GrowthIs ==
  ASSUME NEW policy \in Policies, NEW base \in Nat, NEW attempt \in Nat \ {0}
  PROVE  /\ GrowthFor(policy, base, attempt) \in Nat
         /\ policy = "exponential_jitter" => base <= GrowthFor(policy, base, attempt)
<1>. DEFINE n == Smaller(attempt - 1, MaxDoublings)
<1>1. n \in 0 .. MaxDoublings
  BY RecoveryAssumption DEF Smaller
<1>. HIDE DEF n
<1>2. Doubled[n] \in Nat /\ Doubled[n] >= 1
  BY <1>1, DoubledIs
<1>3. base * Doubled[n] \in Nat /\ base * 1 <= base * Doubled[n] /\ base * attempt \in Nat
  BY <1>2, Products
<1>. QED  BY <1>3 DEF GrowthFor, Policies, n

LEMMA DelayIs ==
  ASSUME NEW policy \in Policies, NEW base \in Nat, NEW attempt \in Nat \ {0}, NEW ceiling \in Nat,
         NEW draw \in Draws
  PROVE  /\ DelayFor(policy, base, attempt, Jitter, draw, ceiling) \in Nat
         /\ DelayFor(policy, base, attempt, Jitter, draw, ceiling) <= ceiling
<1>1. Jitter \in Nat /\ draw \in 0 .. Jitter
  BY RecoveryAssumption
<1>2. GrowthFor(policy, base, attempt) \in Nat
  BY GrowthIs
<1>. DEFINE growth == GrowthFor(policy, base, attempt)
<1>. HIDE DEF growth
<1>3. Smaller(growth, ceiling) \in Nat /\ Smaller(growth, ceiling) <= ceiling
  BY <1>2 DEF Smaller, growth
<1>4. Drawn(growth, Jitter, draw, ceiling) \in Nat /\ Drawn(growth, Jitter, draw, ceiling) <= ceiling
  BY <1>1, <1>2, DrawnStaysUnder DEF growth
<1>. QED  BY <1>3, <1>4 DEF DelayFor, growth

LEMMA InvIs ==
  ASSUME RecoveryInv
  PROVE  /\ TypeOK /\ StoreType /\ NothingIsLost
         /\ sequence \in Nat /\ Base \in Nat /\ Base >= 1 /\ Lease \in Nat /\ Lease >= 1
         /\ \A r \in Ids : /\ r \in Nat /\ runs[r] \in RowType
                           /\ Present(r) => r < sequence /\ asked[r] \in Orders
                           /\ Comes(runs[r], asked[r])
<1>1. /\ MaxRuns \in Nat /\ Lease \in Nat /\ Lease >= 1 /\ Keep \in Nat
  BY StoreAssumption, RecoveryAssumption
<1>2. TypeOK /\ StoreType /\ NothingIsLost
  BY DEF RecoveryInv, TypeOK
<1>3. sequence \in Nat /\ Base \in Nat /\ Base >= 1 /\ \A r \in Ids : r \in Nat /\ runs[r] \in RowType
  BY <1>1, <1>2 DEF StoreType, Base, Ids
<1>. QED  BY <1>1, <1>2, <1>3 DEF NothingIsLost

LEMMA WaitIs ==
  ASSUME RecoveryInv, NEW r \in Ids, runs[r].status = "running", NEW draw \in Draws
  PROVE  Wait(r, draw) \in Nat /\ Wait(r, draw) <= asked[r].max_retry_delay
<1>1. asked[r] \in Orders /\ Comes(runs[r], asked[r])
  <2>1. Present(r)
    BY DEF Present
  <2>. QED  BY <2>1, InvIs
<1>2. asked[r].max_attempts \in Nat
  BY <1>1, StoreAssumption DEF OrderType
<1>3. runs[r].attempts \in Nat \ {0}
  BY <1>1, <1>2 DEF Comes
<1>4. /\ asked[r].policy \in Policies /\ asked[r].retry_delay \in Nat
      /\ asked[r].max_retry_delay \in Nat
  BY <1>1, RecoveryAssumption
<1>. QED  BY <1>3, <1>4, DelayIs DEF Wait

-----------------------------------------------------------------------------
(* What the calls write into a row keeps it among what comes. *)

LEMMA RowsCome ==
  ASSUME NEW row \in RowType, NEW order \in Orders, Comes(row, order), NEW worker, NEW due_at \in Nat
  PROVE  /\ Comes(Absent, order)
         /\ Comes(Written(due_at), order)
         /\ row.status = "pending" => Comes(ClaimedBy(row, worker, Base), order)
         /\ \A status \in Settled : Comes(Closed(row, status, Base), order)
         /\ row.status = "running" /\ ~(row.attempts >= order.max_attempts) =>
              Comes(Requeued(row, due_at, 0), order)
         /\ row.status = "running" => Comes(Requeued(row, due_at, -1), order)
         /\ row.status = "running" => Comes([row EXCEPT !.lease_until = Base + Lease], order)
<1>1. /\ Base \in Nat /\ Base + Lease \in Nat /\ order.max_attempts \in Nat \ {0}
      /\ row.attempts \in Int /\ "pending" \notin Settled /\ "running" \notin Settled
      /\ "absent" \notin Settled
  BY StoreAssumption, RecoveryAssumption DEF Base, OrderType, RowType, Settled
<1>2. Comes(Absent, order) /\ Comes(Written(due_at), order)
  BY <1>1 DEF Comes, Absent, Written
<1>3. row.status = "pending" => Comes(ClaimedBy(row, worker, Base), order)
  BY <1>1 DEF Comes, ClaimedBy, RowType
<1>4. \A status \in Settled : Comes(Closed(row, status, Base), order)
  <2>. SUFFICES ASSUME NEW status \in Settled
                PROVE  Comes(Closed(row, status, Base), order)
    OBVIOUS
  <2>1. status # "pending" /\ status # "running"
    BY <1>1
  <2>2. Closed(row, status, Base).status = status /\ Closed(row, status, Base).finished_at = Base
    BY DEF Closed, RowType
  <2>. QED  BY <1>1, <2>1, <2>2 DEF Comes
<1>5. row.status = "running" /\ ~(row.attempts >= order.max_attempts) =>
        Comes(Requeued(row, due_at, 0), order)
  BY <1>1 DEF Comes, Requeued, RowType
<1>6. row.status = "running" => Comes([row EXCEPT !.lease_until = Base + Lease], order)
  BY <1>1 DEF Comes, RowType
<1>7. row.status = "running" => Comes(Requeued(row, due_at, -1), order)
  <2>. SUFFICES ASSUME row.status = "running"
                PROVE  Comes(Requeued(row, due_at, -1), order)
    OBVIOUS
  <2>1. row.attempts \in 1 .. order.max_attempts
    BY DEF Comes
  <2>2. /\ Requeued(row, due_at, -1).status = "pending" /\ Requeued(row, due_at, -1).due_at = due_at
        /\ Requeued(row, due_at, -1).attempts = row.attempts + (-1)
    BY <1>1 DEF Requeued, RowType
  <2>3. row.attempts + (-1) \in 0 .. order.max_attempts - 1
    BY <1>1, <2>1
  <2>. QED  BY <1>1, <2>2, <2>3 DEF Comes
<1>. QED  BY <1>2, <1>3, <1>4, <1>5, <1>6, <1>7

(* A call that writes rows that are there, and each of them so, keeps them all. *)
LEMMA RowsStayFound ==
  ASSUME RecoveryInv, UNCHANGED <<asked, sequence>>,
         \A r \in Ids : runs'[r] = runs[r] \/ (Present(r) /\ Comes(runs'[r], asked[r]))
  PROVE  NothingIsLost'
<1>. SUFFICES ASSUME NEW r \in Ids
              PROVE  /\ IF r < sequence THEN asked[r] \in Orders ELSE ~Present(r)'
                     /\ Comes(runs'[r], asked[r])
  BY DEF NothingIsLost, Comes
<1>1. /\ IF r < sequence THEN asked[r] \in Orders ELSE ~Present(r)
      /\ Comes(runs[r], asked[r])
  BY DEF RecoveryInv, NothingIsLost
<1>2. Present(r) => r < sequence
  BY <1>1
<1>3. CASE runs'[r] = runs[r]
  BY <1>1, <1>3 DEF Present
<1>4. CASE Present(r) /\ Comes(runs'[r], asked[r])
  BY <1>1, <1>2, <1>4
<1>. QED  BY <1>3, <1>4

LEMMA WriteStays ==
  ASSUME RecoveryInv, NEW r \in Ids, NEW row \in RowType, Present(r), Comes(row, asked[r]), Write(r, row)
  PROVE  StoreType' /\ NothingIsLost'
<1>1. /\ StoreType'
      /\ \A q \in Ids : runs'[q] = IF q = r THEN row ELSE runs[q]
      /\ UNCHANGED <<asked, sequence>>
  BY InvIs, WriteStores
<1>2. NothingIsLost'
  BY <1>1, RowsStayFound
<1>. QED  BY <1>1, <1>2

LEMMA RowsAreKept ==
  ASSUME NEW row \in RowType, NEW moment \in Nat
  PROVE  /\ \A status \in Settled : Closed(row, status, moment) \in RowType
         /\ Requeued(row, moment, 0) \in RowType
         /\ Requeued(row, moment, -1) \in RowType
<1>1. /\ NoInstant \in Int /\ moment \in Int /\ row.attempts + 0 \in Int /\ row.attempts + (-1) \in Int
      /\ "pending" \in Statuses \union {"absent"}
      /\ \A status \in Settled : status \in Statuses \union {"absent"}
  BY DEF NoInstant, Statuses, RowType
<1>2. \A status \in Settled : Closed(row, status, moment) \in RowType
  BY <1>1 DEF RowType, Closed
<1>3. Requeued(row, moment, 0) \in RowType /\ Requeued(row, moment, -1) \in RowType
  BY <1>1 DEF RowType, Requeued
<1>. QED  BY <1>2, <1>3

(* A lease that is over came from an attempt the run had. *)
LEMMA TakenBackComes ==
  ASSUME RecoveryInv, NEW r \in Ids, Expired(r, Base)
  PROVE  Present(r) /\ TakenBack(r, Base) \in RowType /\ Comes(TakenBack(r, Base), asked[r])
<1>1. Present(r) /\ runs[r].status = "running"
  BY DEF Expired, Present
<1>2. runs[r] \in RowType /\ asked[r] \in Orders /\ Comes(runs[r], asked[r]) /\ Base \in Nat
  BY <1>1, InvIs
<1>3. "failed" \in Settled /\ 0 \in Int
  BY DEF Settled
<1>4. Closed(runs[r], "failed", Base) \in RowType /\ Requeued(runs[r], Base, 0) \in RowType
  BY <1>2, <1>3, RowsAreKept
<1>5. /\ Comes(Closed(runs[r], "failed", Base), asked[r])
      /\ ~(runs[r].attempts >= asked[r].max_attempts) => Comes(Requeued(runs[r], Base, 0), asked[r])
  BY <1>1, <1>2, <1>3, RowsCome
<1>. QED  BY <1>1, <1>4, <1>5 DEF TakenBack, Exhausted

LEMMA ReclaimStays ==
  ASSUME RecoveryInv, Reclaim(Base)
  PROVE  StoreType' /\ NothingIsLost'
<1>. DEFINE expired == {r \in Ids : Expired(r, Base)}
            abandoned == Oldest(expired, ReclaimBatch)
<1>1. abandoned \in SUBSET expired
  BY DEF Oldest
<1>2. /\ runs' = [r \in Ids |-> IF r \in abandoned THEN TakenBack(r, Base) ELSE runs[r]]
      /\ UNCHANGED <<asked, sequence>>
  BY DEF Reclaim
<1>. HIDE DEF abandoned
<1>3. \A r \in abandoned :
        Present(r) /\ TakenBack(r, Base) \in RowType /\ Comes(TakenBack(r, Base), asked[r])
  BY <1>1, TakenBackComes
<1>4. StoreType'
  <2>1. \A r \in Ids : runs'[r] \in RowType
    BY <1>2, <1>3, InvIs
  <2>. QED  BY <1>2, <2>1, InvIs DEF StoreType
<1>5. NothingIsLost'
  BY <1>2, <1>3, RowsStayFound
<1>. QED  BY <1>4, <1>5

LEMMA PurgeStays ==
  ASSUME RecoveryInv, Purge(Base - Keep, PurgeLimit)
  PROVE  StoreType' /\ NothingIsLost'
<1>. DEFINE prunable == {r \in Ids : Prunable(r, Base - Keep)}
            gone == Oldest(prunable, PurgeLimit)
<1>1. \A r \in gone : r \in Ids /\ Present(r)
  BY DEF Oldest, Prunable, Present, Settled
<1>2. /\ runs' = [r \in Ids |-> IF r \in gone THEN Absent ELSE runs[r]]
      /\ UNCHANGED <<asked, sequence>>
  BY DEF Purge
<1>. HIDE DEF gone
<1>3. Absent \in RowType /\ \A order : Comes(Absent, order)
  <2>1. NoInstant \in Int /\ "absent" \notin Settled
    BY DEF NoInstant, Settled
  <2>. QED  BY <2>1 DEF Absent, RowType, Comes
<1>4. StoreType'
  <2>1. \A r \in Ids : runs'[r] \in RowType
    BY <1>2, <1>3, InvIs
  <2>. QED  BY <1>2, <2>1, InvIs DEF StoreType
<1>5. NothingIsLost'
  BY <1>1, <1>2, <1>3, RowsStayFound
<1>. QED  BY <1>4, <1>5

LEMMA ClaimStays ==
  ASSUME RecoveryInv, NEW w \in Workers, NEW limit, Claim(w, Served, limit, Base)
  PROVE  StoreType' /\ NothingIsLost'
<1>. DEFINE won == Won(Served, limit, Base)
<1>1. \A r \in won : r \in Ids /\ runs[r].status = "pending" /\ Present(r)
  BY DEF Won, Claimable, Present
<1>2. /\ runs' = [r \in Ids |-> IF r \in won THEN ClaimedBy(runs[r], w, Base) ELSE runs[r]]
      /\ UNCHANGED <<asked, sequence>>
  BY DEF Claim
<1>. HIDE DEF won
<1>3. ASSUME NEW r \in won
      PROVE  ClaimedBy(runs[r], w, Base) \in RowType /\ Comes(ClaimedBy(runs[r], w, Base), asked[r])
  <2>1. runs[r] \in RowType /\ asked[r] \in Orders /\ Comes(runs[r], asked[r]) /\ Base \in Nat
    BY <1>1, InvIs
  <2>2. ClaimedBy(runs[r], w, Base) \in RowType
    <3>1. "running" \in Statuses \union {"absent"} /\ Base + Lease \in Int /\ runs[r].attempts + 1 \in Int
      BY <2>1, StoreAssumption DEF Statuses, RowType
    <3>. QED  BY <2>1, <3>1 DEF RowType, ClaimedBy
  <2>. QED  BY <1>1, <2>1, <2>2, RowsCome
<1>4. StoreType'
  <2>1. \A r \in Ids : runs'[r] \in RowType
    BY <1>2, <1>3, InvIs
  <2>. QED  BY <1>2, <2>1, InvIs DEF StoreType
<1>5. NothingIsLost'
  BY <1>1, <1>2, <1>3, RowsStayFound
<1>. QED  BY <1>4, <1>5

LEMMA EnqueueStays ==
  ASSUME RecoveryInv, NEW order \in Orders, NEW delay \in Delays, Add(order, Base + delay)
  PROVE  StoreType' /\ NothingIsLost'
<1>1. Base + delay \in Nat /\ Base + delay \in Int /\ sequence \in Nat
  BY InvIs, RecoveryAssumption
<1>2. /\ StoreType'
      /\ sequence \in Ids /\ sequence' = sequence + 1
      /\ \A q \in Ids : /\ runs'[q] = IF q = sequence THEN Written(Base + delay) ELSE runs[q]
                        /\ asked'[q] = IF q = sequence THEN order ELSE asked[q]
  BY <1>1, InvIs, AddStores
<1>3. Comes(Written(Base + delay), order)
  <2>1. order.max_attempts \in Nat \ {0} /\ "pending" \notin Settled
    BY StoreAssumption DEF OrderType, Settled
  <2>. QED  BY <1>1, <2>1 DEF Comes, Written
<1>4. SUFFICES ASSUME NEW r \in Ids
               PROVE  /\ IF r < sequence' THEN asked'[r] \in Orders ELSE runs'[r].status = "absent"
                      /\ Comes(runs'[r], asked'[r])
  BY <1>2 DEF NothingIsLost, Present, Comes
<1>5. /\ IF r < sequence THEN asked[r] \in Orders ELSE runs[r].status = "absent"
      /\ Comes(runs[r], asked[r])
      /\ r \in Nat
  BY InvIs DEF NothingIsLost, Present
<1>6. CASE r = sequence
  BY <1>1, <1>2, <1>3, <1>6
<1>7. CASE r # sequence
  <2>1. r < sequence' <=> r < sequence
    BY <1>1, <1>2, <1>5, <1>7
  <2>. QED  BY <1>2, <1>5, <1>7, <2>1
<1>. QED  BY <1>6, <1>7

(* Time takes no instant that is there to where none is. *)

Back(row) ==
  [row EXCEPT !.due_at = Earlier(@), !.lease_until = Earlier(@), !.finished_at = Earlier(@)]

LEMMA BackIs ==
  ASSUME NEW row \in RowType
  PROVE  /\ Back(row) \in RowType
         /\ Back(row).status = row.status /\ Back(row).attempts = row.attempts
         /\ Back(row).due_at = Earlier(row.due_at)
         /\ Back(row).lease_until = Earlier(row.lease_until)
         /\ Back(row).finished_at = Earlier(row.finished_at)
<1>1. \A i \in Int : Earlier(i) \in Int
  BY DEF Earlier
<1>2. row.due_at \in Int /\ row.lease_until \in Int /\ row.finished_at \in Int
  BY DEF RowType
<1>3. /\ Earlier(row.due_at) \in Int /\ Earlier(row.lease_until) \in Int
      /\ Earlier(row.finished_at) \in Int
  BY <1>1, <1>2
<1>. QED  BY <1>3 DEF RowType, Back

LEMMA BackComes ==
  ASSUME NEW row \in RowType, NEW order, Comes(row, order)
  PROVE  Comes(Back(row), order)
<1>1. \A last \in Nat : \A i \in 0 .. last : Earlier(i) \in 0 .. last
  BY DEF Earlier
<1>2. \A i \in Nat : Earlier(i) \in Nat
  BY DEF Earlier
<1>3. Base + Lease \in Nat /\ Base \in Nat
  BY StoreAssumption, RecoveryAssumption DEF Base
<1>. QED  BY <1>1, <1>2, <1>3, BackIs DEF Comes

LEMMA TickStays ==
  ASSUME RecoveryInv, runs' = [r \in Ids |-> Back(runs[r])], UNCHANGED <<asked, sequence>>
  PROVE  StoreType' /\ NothingIsLost'
<1>1. \A r \in Ids : runs'[r] = Back(runs[r]) /\ runs[r] \in RowType
  BY InvIs
<1>2. StoreType'
  <2>1. \A r \in Ids : runs'[r] \in RowType
    BY <1>1, BackIs
  <2>. QED  BY <2>1, InvIs DEF StoreType
<1>3. NothingIsLost'
  <2>. SUFFICES ASSUME NEW r \in Ids
                PROVE  /\ IF r < sequence THEN asked[r] \in Orders ELSE ~Present(r)'
                       /\ Comes(runs'[r], asked[r])
    BY DEF NothingIsLost, Comes
  <2>1. /\ IF r < sequence THEN asked[r] \in Orders ELSE ~Present(r)
        /\ Comes(runs[r], asked[r])
    BY InvIs DEF NothingIsLost
  <2>2. runs'[r].status = runs[r].status
    BY <1>1, BackIs
  <2>. QED  BY <1>1, <2>1, <2>2, BackComes DEF Present
<1>. QED  BY <1>2, <1>3

-----------------------------------------------------------------------------
(* The hands of the workers. *)

Fits(held, left) ==
  /\ IsFiniteSet(held) /\ Cardinality(held) <= Concurrency
  /\ Cardinality({a \in held : a.at # "left"}) + left <= Concurrency

LEMMA HandsFit ==
  ASSUME WithinConcurrency, NEW w \in Workers, NEW held \in SUBSET Attempts, NEW left \in 0 .. Concurrency,
         hand \in [Workers -> SUBSET Attempts], stranded \in [Workers -> 0 .. Concurrency],
         Fits(held, left),
         hand' = [hand EXCEPT ![w] = held], stranded' = [stranded EXCEPT ![w] = left]
  PROVE  /\ WithinConcurrency'
         /\ hand' \in [Workers -> SUBSET Attempts] /\ stranded' \in [Workers -> 0 .. Concurrency]
<1>1. \A v \in Workers : Fits(hand[v], stranded[v])
  BY DEF WithinConcurrency, Fits, Waited
<1>2. \A v \in Workers : /\ hand'[v] = IF v = w THEN held ELSE hand[v]
                         /\ stranded'[v] = IF v = w THEN left ELSE stranded[v]
  OBVIOUS
<1>3. \A v \in Workers : Fits(hand'[v], stranded'[v])
  BY <1>1, <1>2
<1>4. WithinConcurrency'
  BY <1>3 DEF WithinConcurrency, Fits, Waited
<1>. QED  BY <1>4

(* What a worker drops it holds no more, and a thread that came back is one lost less. *)
LEMMA FewerFit ==
  ASSUME NEW held, NEW left \in Nat, Fits(held, left), NEW kept \in SUBSET held, NEW fewer \in 0 .. left
  PROVE  Fits(kept, fewer)
<1>. DEFINE waited == {a \in held : a.at # "left"}
            still == {a \in kept : a.at # "left"}
<1>1. /\ IsFiniteSet(held) /\ Cardinality(held) <= Concurrency
      /\ Cardinality(waited) + left <= Concurrency /\ Concurrency \in Nat
  BY RecoveryAssumption DEF Fits
<1>2. still \in SUBSET waited /\ waited \in SUBSET held
  OBVIOUS
<1>3. /\ IsFiniteSet(kept) /\ Cardinality(kept) <= Cardinality(held)
      /\ Cardinality(kept) \in Nat /\ Cardinality(held) \in Nat
  BY <1>1, FS_Subset, FS_CardinalityType
<1>4. IsFiniteSet(waited)
  BY <1>1, <1>2, FS_Subset
<1>. HIDE DEF waited, still
<1>5. /\ Cardinality(still) <= Cardinality(waited)
      /\ Cardinality(still) \in Nat /\ Cardinality(waited) \in Nat
  BY <1>2, <1>4, FS_Subset, FS_CardinalityType
<1>6. Cardinality(kept) <= Concurrency /\ Cardinality(still) + fewer <= Concurrency
  BY <1>1, <1>3, <1>5
<1>. QED  BY <1>3, <1>6 DEF Fits, still

(* An attempt that goes on stays one, and one that is left is waited for no more. *)
LEMMA MovedFits ==
  ASSUME NEW held, NEW left \in Nat, Fits(held, left), NEW a \in held, a.at # "left", NEW b
  PROVE  /\ b.at # "left" => Fits((held \ {a}) \union {b}, left)
         /\ b.at = "left" => Fits((held \ {a}) \union {b}, left + 1)
<1>. DEFINE waited == {c \in held : c.at # "left"}
            moved == (held \ {a}) \union {b}
            still == {c \in moved : c.at # "left"}
<1>1. /\ IsFiniteSet(held) /\ Cardinality(held) <= Concurrency
      /\ Cardinality(waited) + left <= Concurrency /\ Concurrency \in Nat
  BY RecoveryAssumption DEF Fits
<1>2. waited \in SUBSET held /\ a \in waited
  OBVIOUS
<1>3. ASSUME NEW S, IsFiniteSet(S), a \in S
      PROVE  /\ IsFiniteSet(S \ {a}) /\ IsFiniteSet((S \ {a}) \union {b})
             /\ Cardinality(S) \in Nat /\ Cardinality(S \ {a}) = Cardinality(S) - 1
             /\ Cardinality((S \ {a}) \union {b}) \in Nat
             /\ Cardinality((S \ {a}) \union {b}) <= Cardinality(S)
  <2>1. IsFiniteSet(S \ {a}) /\ Cardinality(S \ {a}) = Cardinality(S) - 1 /\ Cardinality(S) \in Nat
    BY <1>3, FS_RemoveElement, FS_CardinalityType
  <2>2. /\ IsFiniteSet((S \ {a}) \union {b})
        /\ \/ Cardinality((S \ {a}) \union {b}) = Cardinality(S \ {a})
           \/ Cardinality((S \ {a}) \union {b}) = Cardinality(S \ {a}) + 1
    BY <2>1, FS_AddElement
  <2>3. Cardinality((S \ {a}) \union {b}) \in Nat
    BY <2>2, FS_CardinalityType
  <2>. QED  BY <2>1, <2>2, <2>3
<1>4. IsFiniteSet(moved) /\ Cardinality(moved) <= Concurrency
  <2>1. /\ IsFiniteSet(moved) /\ Cardinality(moved) \in Nat /\ Cardinality(held) \in Nat
        /\ Cardinality(moved) <= Cardinality(held)
    BY <1>1, <1>3
  <2>. HIDE DEF moved, waited
  <2>. QED  BY <1>1, <2>1
<1>5. IsFiniteSet(waited)
  BY <1>1, <1>2, FS_Subset
<1>6. CASE b.at # "left"
  <2>1. still = (waited \ {a}) \union {b}
    BY <1>6
  <2>2. Cardinality(still) <= Cardinality(waited) /\ Cardinality(still) \in Nat /\ Cardinality(waited) \in Nat
    <3>. HIDE DEF waited, still
    <3>. QED  BY <1>2, <1>3, <1>5, <2>1
  <2>3. Cardinality(still) + left <= Concurrency
    <3>. HIDE DEF waited, still
    <3>. QED  BY <1>1, <2>2
  <2>. QED  BY <1>4, <1>6, <2>3 DEF Fits
<1>7. CASE b.at = "left"
  <2>1. still = waited \ {a}
    BY <1>7
  <2>2. Cardinality(still) = Cardinality(waited) - 1 /\ Cardinality(waited) \in Nat
    <3>. HIDE DEF waited, still
    <3>. QED  BY <1>2, <1>3, <1>5, <2>1
  <2>3. Cardinality(still) + (left + 1) <= Concurrency
    <3>. HIDE DEF waited, still
    <3>. QED  BY <1>1, <2>2
  <2>. QED  BY <1>4, <1>7, <2>3 DEF Fits
<1>. QED  BY <1>6, <1>7

LEMMA AttemptsAreFew ==
  ASSUME NEW won \in SUBSET Ids, IsFiniteSet(won)
  PROVE  LET taken == {Handed(r) : r \in won}
         IN  IsFiniteSet(taken) /\ Cardinality(taken) <= Cardinality(won)
<1>. DEFINE taken == {Handed(r) : r \in won}
            f == [r \in won |-> Handed(r)]
<1>1. f \in Surjection(won, taken)
  BY DEF Surjection
<1>. HIDE DEF f, taken
<1>2. IsFiniteSet(taken) /\ Cardinality(taken) <= Cardinality(won)
  BY <1>1, FS_Surjection
<1>. QED  BY <1>2 DEF taken

(* A claim fills what was free, and what it takes is waited for. *)
LEMMA ClaimFits ==
  ASSUME RecoveryInv, NEW w \in Workers, Free(w) > 0, UNCHANGED stranded,
         hand' = [hand EXCEPT ![w] = @ \union {Handed(r) : r \in Won(Served, Free(w), Base)}]
  PROVE  /\ WithinConcurrency'
         /\ hand' \in [Workers -> SUBSET Attempts] /\ stranded' \in [Workers -> 0 .. Concurrency]
<1>. DEFINE won == Won(Served, Free(w), Base)
            taken == {Handed(r) : r \in won}
            waited == {a \in hand[w] : a.at # "left"}
            still == {a \in hand[w] \union taken : a.at # "left"}
<1>1. /\ hand \in [Workers -> SUBSET Attempts] /\ stranded \in [Workers -> 0 .. Concurrency]
      /\ WithinConcurrency
      /\ IsFiniteSet(hand[w]) /\ Cardinality(hand[w]) <= Concurrency
  BY DEF RecoveryInv, TypeOK, WithinConcurrency
<1>2. Concurrency \in Nat /\ Cardinality(hand[w]) \in Nat /\ stranded[w] \in Nat
  BY <1>1, FS_CardinalityType, RecoveryAssumption
<1>3. Free(w) \in Nat /\ Cardinality(hand[w]) + Free(w) + stranded[w] = Concurrency
  BY <1>1, <1>2 DEF Free
<1>4. /\ won \in SUBSET {r \in Ids : Claimable(r, Served, Base)}
      /\ IsFiniteSet(won) /\ Cardinality(won) \in Nat /\ Cardinality(won) <= Free(w)
  <2>1. StoreType /\ \A r \in Ids : Present(r) => asked[r] \in Orders
    BY InvIs
  <2>. QED  BY <1>3, <2>1, WonIsBounded
<1>5. won \in SUBSET Ids /\ \A r \in won : runs[r].attempts + 1 \in Nat
  <2>1. \A r \in won : r \in Ids /\ runs[r].status = "pending"
    BY <1>4 DEF Claimable
  <2>. HIDE DEF won
  <2>2. ASSUME NEW r \in won
        PROVE  runs[r].attempts + 1 \in Nat
    <3>1. runs[r].attempts \in 0 .. asked[r].max_attempts - 1 /\ runs[r].attempts \in Int
      BY <2>1, InvIs DEF Comes, RowType
    <3>. QED  BY <3>1
  <2>. QED  BY <2>1, <2>2
<1>6. IsFiniteSet(taken) /\ Cardinality(taken) <= Cardinality(won) /\ Cardinality(taken) \in Nat
  <2>. HIDE DEF won
  <2>. QED  BY <1>4, <1>5, AttemptsAreFew, FS_CardinalityType
<1>7. taken \in SUBSET Attempts
  <2>. HIDE DEF won
  <2>. QED  BY <1>5 DEF Handed, Attempts
<1>8. hand' = [hand EXCEPT ![w] = hand[w] \union taken]
  OBVIOUS
<1>9. waited \in SUBSET hand[w] /\ still \in SUBSET hand[w] \union taken
  OBVIOUS
<1>. HIDE DEF taken, won, still
<1>10. /\ IsFiniteSet(hand[w] \union taken)
       /\ Cardinality(hand[w] \union taken) <= Cardinality(hand[w]) + Cardinality(taken)
       /\ Cardinality(hand[w] \union taken) \in Nat
  <2>1. /\ IsFiniteSet(hand[w] \union taken)
        /\ Cardinality(hand[w] \union taken) =
             Cardinality(hand[w]) + Cardinality(taken) - Cardinality(hand[w] \intersect taken)
    BY <1>1, <1>6, FS_Union
  <2>2. Cardinality(hand[w] \intersect taken) \in Nat /\ Cardinality(hand[w] \union taken) \in Nat
    <3>1. IsFiniteSet(hand[w] \intersect taken)
      BY <1>6, FS_Subset
    <3>. QED  BY <2>1, <3>1, FS_CardinalityType
  <2>. QED  BY <1>2, <1>6, <2>1, <2>2
<1>11. Cardinality(still) <= Cardinality(hand[w] \union taken) /\ Cardinality(still) \in Nat
  <2>1. IsFiniteSet(still) /\ Cardinality(still) <= Cardinality(hand[w] \union taken)
    BY <1>9, <1>10, FS_Subset
  <2>. QED  BY <2>1, FS_CardinalityType
<1>12. /\ Cardinality(hand[w] \union taken) <= Concurrency
       /\ Cardinality(still) + stranded[w] <= Concurrency
  BY <1>2, <1>3, <1>4, <1>6, <1>10, <1>11
<1>13. Fits(hand[w] \union taken, stranded[w])
  BY <1>10, <1>12 DEF Fits, still
<1>14. stranded' = [stranded EXCEPT ![w] = stranded[w]] /\ hand[w] \union taken \in SUBSET Attempts
  BY <1>1, <1>7
<1>. QED  BY <1>1, <1>8, <1>13, <1>14, HandsFit

-----------------------------------------------------------------------------
(* The steps, one lemma for those of a pass and one for those of an attempt. *)

LEMMA HandsStay ==
  ASSUME WithinConcurrency, UNCHANGED <<hand, stranded>>
  PROVE  WithinConcurrency'
BY DEF WithinConcurrency, Waited

LEMMA LostStays ==
  ASSUME NothingIsLost, UNCHANGED storeVars
  PROVE  NothingIsLost'
BY DEF NothingIsLost, Comes, Present, storeVars

LEMMA StoreStays ==
  ASSUME StoreType, UNCHANGED storeVars
  PROVE  StoreType'
BY DEF StoreType, storeVars

LEMMA PassKeepsInv ==
  ASSUME RecoveryInv, NEW w \in Workers, PassStep(w)
  PROVE  RecoveryInv'
<1>1. /\ StoreType /\ NothingIsLost /\ WithinConcurrency
      /\ pc \in [Workers -> Stages]
      /\ gate \in [Workers -> 0 .. Hour]
      /\ hand \in [Workers -> SUBSET Attempts] /\ stranded \in [Workers -> 0 .. Concurrency]
      /\ crashes \in 0 .. MaxCrashes
  BY DEF RecoveryInv, TypeOK
<1>2. Hour \in 0 .. Hour /\ 0 \in 0 .. Hour
  BY RecoveryAssumption
<1>3. ASSUME StoreType', NothingIsLost', WithinConcurrency',
             pc' \in [Workers -> Stages], gate' \in [Workers -> 0 .. Hour],
             hand' \in [Workers -> SUBSET Attempts], stranded' \in [Workers -> 0 .. Concurrency],
             crashes' \in 0 .. MaxCrashes
      PROVE  RecoveryInv'
  BY <1>3 DEF RecoveryInv, TypeOK
<1>4. ASSUME NEW from, NEW to \in {"reclaim", "tidy", "materialize", "claim"}, Goes(w, from, to)
      PROVE  pc' \in [Workers -> Stages]
  BY <1>1, <1>4 DEF Goes, Stages
<1>5. CASE ReclaimLands(w)
  <2>1. StoreType' /\ NothingIsLost'
    BY <1>5, ReclaimStays DEF ReclaimLands
  <2>2. UNCHANGED <<gate, hand, stranded, crashes>> /\ Goes(w, "reclaim", "tidy")
    BY <1>5 DEF ReclaimLands
  <2>. QED  BY <1>1, <1>3, <1>4, <2>1, <2>2, HandsStay
<1>6. CASE ReclaimRefused(w)
  <2>1. UNCHANGED <<storeVars, gate, hand, stranded, crashes>> /\ Goes(w, "reclaim", "tidy")
    BY <1>6 DEF ReclaimRefused
  <2>. QED  BY <1>1, <1>3, <1>4, <2>1, HandsStay, LostStays, StoreStays
<1>7. CASE TidyWaits(w)
  <2>1. UNCHANGED <<storeVars, gate, hand, stranded, crashes>> /\ Goes(w, "tidy", "materialize")
    BY <1>7 DEF TidyWaits
  <2>. QED  BY <1>1, <1>3, <1>4, <2>1, HandsStay, LostStays, StoreStays
<1>8. CASE TidyLands(w)
  <2>1. StoreType' /\ NothingIsLost'
    BY <1>8, PurgeStays DEF TidyLands
  <2>2. UNCHANGED <<hand, stranded, crashes>> /\ Goes(w, "tidy", "materialize")
    BY <1>8 DEF TidyLands
  <2>3. gate' \in [Workers -> 0 .. Hour]
    <3>1. gate' = [gate EXCEPT ![w] = HourAfter({r \in Ids : runs[r] # runs'[r]})]
      BY <1>8 DEF TidyLands
    <3>2. HourAfter({r \in Ids : runs[r] # runs'[r]}) \in 0 .. Hour
      BY <1>2 DEF HourAfter
    <3>. QED  BY <1>1, <3>1, <3>2
  <2>. QED  BY <1>1, <1>3, <1>4, <2>1, <2>2, <2>3, HandsStay
<1>9. CASE TidyRefused(w)
  <2>1. UNCHANGED <<hand, stranded, crashes>> /\ Goes(w, "tidy", "materialize")
    BY <1>9 DEF TidyRefused
  <2>3. StoreType' /\ NothingIsLost'
    BY <1>1, <1>9, PurgeStays, LostStays, StoreStays DEF TidyRefused
  <2>2. gate' \in [Workers -> 0 .. Hour]
    BY <1>1, <1>2, <1>9 DEF TidyRefused
  <2>. QED  BY <1>1, <1>3, <1>4, <2>1, <2>2, <2>3, HandsStay
<1>10. CASE ClaimLands(w)
  <2>1. StoreType' /\ NothingIsLost'
    BY <1>10, ClaimStays DEF ClaimLands
  <2>2. UNCHANGED <<gate, stranded, crashes>> /\ Goes(w, "claim", "reclaim")
    BY <1>10 DEF ClaimLands
  <2>3. /\ WithinConcurrency'
        /\ hand' \in [Workers -> SUBSET Attempts] /\ stranded' \in [Workers -> 0 .. Concurrency]
    BY <1>10, ClaimFits DEF ClaimLands
  <2>. QED  BY <1>1, <1>3, <1>4, <2>1, <2>2, <2>3
<1>11. CASE ClaimUnheard(w)
  <2>1. StoreType' /\ NothingIsLost'
    BY <1>11, ClaimStays DEF ClaimUnheard
  <2>2. UNCHANGED <<gate, hand, stranded, crashes>> /\ Goes(w, "claim", "reclaim")
    BY <1>11 DEF ClaimUnheard
  <2>. QED  BY <1>1, <1>3, <1>4, <2>1, <2>2, HandsStay
<1>12. CASE ClaimNothing(w)
  <2>1. UNCHANGED <<storeVars, gate, hand, stranded, crashes>> /\ Goes(w, "claim", "reclaim")
    BY <1>12 DEF ClaimNothing
  <2>. QED  BY <1>1, <1>3, <1>4, <2>1, HandsStay, LostStays, StoreStays
<1>13. CASE MaterializeLands(w) \/ MaterializeRefused(w)
  <2>1. UNCHANGED <<storeVars, gate, hand, stranded, crashes>> /\ Goes(w, "materialize", "claim")
    BY <1>13 DEF MaterializeLands, MaterializeRefused
  <2>. QED  BY <1>1, <1>3, <1>4, <2>1, HandsStay, LostStays, StoreStays
<1>. QED
  BY <1>5, <1>6, <1>7, <1>8, <1>9, <1>10, <1>11, <1>12, <1>13 DEF PassStep

(* An attempt in hand that ends: what the store makes of it. *)
LEMMA EndStays ==
  ASSUME RecoveryInv, NEW w \in Workers, NEW a \in hand[w], End(w, a)
  PROVE  StoreType' /\ NothingIsLost'
<1>1. a.run \in Ids
  BY DEF RecoveryInv, TypeOK, Attempts
<1>2. StoreType /\ NothingIsLost /\ Base \in Nat /\ runs[a.run] \in RowType
  BY <1>1, InvIs
<1>3. ASSUME Held(a.run, w, a.attempt)
      PROVE  /\ Present(a.run) /\ runs[a.run].status = "running"
             /\ asked[a.run] \in Orders /\ Comes(runs[a.run], asked[a.run])
  BY <1>1, <1>3, InvIs DEF Held, Present
<1>4. ASSUME Held(a.run, w, a.attempt), NEW status \in {"done", "failed"},
             Write(a.run, Closed(runs[a.run], status, Base))
      PROVE  StoreType' /\ NothingIsLost'
  <2>1. status \in Settled
    BY <1>4 DEF Settled
  <2>2. Closed(runs[a.run], status, Base) \in RowType
    BY <1>2, <2>1, RowsAreKept
  <2>3. Comes(Closed(runs[a.run], status, Base), asked[a.run])
    BY <1>2, <1>3, <1>4, <2>1, RowsCome
  <2>. QED  BY <1>1, <1>3, <1>4, <2>2, <2>3, WriteStays
<1>5. CASE Complete(a.run, w, a.attempt, Base)
  BY <1>4, <1>5 DEF Complete
<1>6. CASE Fail(a.run, w, a.attempt, Base)
  BY <1>4, <1>6 DEF Fail
<1>7. ASSUME NEW draw \in Draws, ~Exhausted(a.run), RetryLater(a.run, w, a.attempt, Base + Wait(a.run, draw))
      PROVE  StoreType' /\ NothingIsLost'
  <2>1. /\ Held(a.run, w, a.attempt)
        /\ Write(a.run, Requeued(runs[a.run], Base + Wait(a.run, draw), 0))
    BY <1>7 DEF RetryLater
  <2>2. Base + Wait(a.run, draw) \in Nat
    BY <1>1, <1>2, <1>3, <2>1, WaitIs
  <2>. DEFINE due_at == Base + Wait(a.run, draw)
  <2>. HIDE DEF due_at
  <2>3. due_at \in Nat /\ Write(a.run, Requeued(runs[a.run], due_at, 0))
    BY <2>1, <2>2 DEF due_at
  <2>4. Requeued(runs[a.run], due_at, 0) \in RowType
    BY <1>2, <2>3, RowsAreKept
  <2>5. Comes(Requeued(runs[a.run], due_at, 0), asked[a.run])
    BY <1>2, <1>3, <1>7, <2>1, <2>3, RowsCome DEF Exhausted
  <2>. QED  BY <1>1, <1>3, <2>1, <2>3, <2>4, <2>5, WriteStays
<1>. QED  BY <1>5, <1>6, <1>7 DEF End

(* An attempt that is given back was one the run had. *)
LEMMA GiveBackStays ==
  ASSUME RecoveryInv, NEW w \in Workers, NEW a \in hand[w], GiveBack(w, a)
  PROVE  StoreType' /\ NothingIsLost'
<1>1. a.run \in Ids
  BY DEF RecoveryInv, TypeOK, Attempts
<1>2. PICK draw \in Draws : Release(a.run, w, a.attempt, Base + Wait(a.run, draw))
  BY DEF GiveBack
<1>. DEFINE due_at == Base + Wait(a.run, draw)
<1>3. Held(a.run, w, a.attempt) /\ Write(a.run, Requeued(runs[a.run], due_at, -1))
  BY <1>2 DEF Release
<1>4. /\ Present(a.run) /\ runs[a.run].status = "running" /\ runs[a.run] \in RowType
      /\ asked[a.run] \in Orders /\ Comes(runs[a.run], asked[a.run]) /\ Base \in Nat
  BY <1>1, <1>3, InvIs DEF Held, Present
<1>5. due_at \in Nat
  BY <1>1, <1>4, WaitIs
<1>. HIDE DEF due_at
<1>6. Requeued(runs[a.run], due_at, -1) \in RowType
  BY <1>4, <1>5, RowsAreKept
<1>7. Comes(Requeued(runs[a.run], due_at, -1), asked[a.run])
  BY <1>4, <1>5, RowsCome
<1>. QED  BY <1>1, <1>3, <1>4, <1>6, <1>7, WriteStays

LEMMA BeatStays ==
  ASSUME RecoveryInv, NEW w \in Workers, NEW a \in hand[w], Heartbeat(a.run, w, a.attempt, Base)
  PROVE  StoreType' /\ NothingIsLost'
<1>. DEFINE row == [runs[a.run] EXCEPT !.lease_until = Base + Lease]
<1>1. a.run \in Ids
  BY DEF RecoveryInv, TypeOK, Attempts
<1>2. runs[a.run].status = "running" /\ Present(a.run) /\ Write(a.run, row)
  BY DEF Heartbeat, Held, Present
<1>3. /\ Base \in Nat /\ Base + Lease \in Int /\ runs[a.run] \in RowType
      /\ asked[a.run] \in Orders /\ Comes(runs[a.run], asked[a.run])
  BY <1>1, <1>2, InvIs
<1>4. row \in RowType
  BY <1>3 DEF RowType
<1>5. Comes(row, asked[a.run])
  BY <1>2, <1>3, RowsCome
<1>. HIDE DEF row
<1>. QED  BY <1>1, <1>2, <1>4, <1>5, WriteStays

LEMMA CancelStays ==
  ASSUME RecoveryInv, NEW r \in Ids, Cancel(r, Base)
  PROVE  StoreType' /\ NothingIsLost'
<1>1. /\ runs[r].status = "pending" /\ Present(r)
      /\ Write(r, Closed(runs[r], "canceled", Base))
  BY DEF Cancel, Present
<1>2. /\ Base \in Nat /\ runs[r] \in RowType /\ asked[r] \in Orders /\ Comes(runs[r], asked[r])
      /\ "canceled" \in Settled
  BY <1>1, InvIs DEF Settled
<1>3. Closed(runs[r], "canceled", Base) \in RowType
  BY <1>2, RowsAreKept
<1>4. Comes(Closed(runs[r], "canceled", Base), asked[r])
  BY <1>2, RowsCome
<1>. QED  BY <1>1, <1>3, <1>4, WriteStays

LEMMA InvStays ==
  ASSUME RecoveryInv, StoreType', NothingIsLost', WithinConcurrency',
         hand' \in [Workers -> SUBSET Attempts], stranded' \in [Workers -> 0 .. Concurrency],
         UNCHANGED <<pc, gate, crashes>>
  PROVE  RecoveryInv'
BY DEF RecoveryInv, TypeOK

LEMMA AttemptKeepsInv ==
  ASSUME RecoveryInv, NEW w \in Workers, NEW a \in hand[w],
         Enter(w, a) \/ Strand(w, a) \/ GiveBack(w, a) \/ End(w, a) \/ EndLost(w, a) \/ Beat(w, a)
  PROVE  RecoveryInv'
<1>1. /\ StoreType /\ NothingIsLost /\ WithinConcurrency /\ TypeOK
      /\ hand \in [Workers -> SUBSET Attempts] /\ stranded \in [Workers -> 0 .. Concurrency]
      /\ Fits(hand[w], stranded[w]) /\ stranded[w] \in 0 .. Concurrency /\ Concurrency \in Nat
  BY RecoveryAssumption DEF RecoveryInv, TypeOK, WithinConcurrency, Fits, Waited
<1>2. StoreType' /\ NothingIsLost'
  <2>1. CASE End(w, a)
    BY <2>1, EndStays
  <2>2. CASE GiveBack(w, a)
    BY <2>2, GiveBackStays
  <2>3. CASE Beat(w, a)
    BY <2>3, BeatStays DEF Beat
  <2>4. CASE UNCHANGED storeVars
    BY <1>1, <2>4, LostStays, StoreStays
  <2>. QED  BY <2>1, <2>2, <2>3, <2>4 DEF EndLost, Enter, Strand
<1>3. ASSUME NEW held \in SUBSET Attempts, NEW left \in 0 .. Concurrency, Fits(held, left),
             hand' = [hand EXCEPT ![w] = held], stranded' = [stranded EXCEPT ![w] = left],
             UNCHANGED <<pc, gate, crashes>>
      PROVE  RecoveryInv'
  <2>1. /\ WithinConcurrency'
        /\ hand' \in [Workers -> SUBSET Attempts] /\ stranded' \in [Workers -> 0 .. Concurrency]
    BY <1>1, <1>3, HandsFit
  <2>. QED  BY <1>2, <1>3, <2>1, InvStays
<1>4. CASE Dropped(w, a)
  <2>. DEFINE kept == hand[w] \ {a}
  <2>1. /\ kept \in SUBSET hand[w] /\ kept \in SUBSET Attempts
        /\ hand' = [hand EXCEPT ![w] = kept]
        /\ stranded' = [stranded EXCEPT ![w] = stranded[w]] /\ UNCHANGED <<pc, gate, crashes>>
    BY <1>1, <1>4 DEF Dropped
  <2>2. stranded[w] \in 0 .. stranded[w] /\ stranded[w] \in Nat
    BY <1>1
  <2>. HIDE DEF kept
  <2>3. Fits(kept, stranded[w])
    BY <1>1, <2>1, <2>2, FewerFit
  <2>. QED  BY <1>1, <1>3, <2>1, <2>3
<1>5. CASE Enter(w, a)
  <2>. DEFINE b == [a EXCEPT !.at = "working"]
              held == (hand[w] \ {a}) \union {b}
  <2>1. b \in Attempts /\ b.at = "working" /\ a.at # "left"
    BY <1>1, <1>5 DEF Enter, Attempts
  <2>2. /\ hand' = [hand EXCEPT ![w] = held] /\ held \in SUBSET Attempts
        /\ stranded' = [stranded EXCEPT ![w] = stranded[w]] /\ UNCHANGED <<pc, gate, crashes>>
    BY <1>1, <1>5, <2>1 DEF Enter, Moves
  <2>3. stranded[w] \in Nat
    BY <1>1
  <2>4. Fits(held, stranded[w])
    <3>. HIDE DEF b
    <3>. QED  BY <1>1, <2>1, <2>3, MovedFits
  <2>. HIDE DEF held
  <2>. QED  BY <1>1, <1>3, <2>2, <2>4
<1>6. CASE Strand(w, a)
  <2>. DEFINE b == [a EXCEPT !.at = "left"]
              held == (hand[w] \ {a}) \union {b}
  <2>1. b \in Attempts /\ b.at = "left" /\ a.at # "left"
    BY <1>1, <1>6 DEF Strand, Attempts
  <2>2. /\ hand' = [hand EXCEPT ![w] = held] /\ held \in SUBSET Attempts
        /\ stranded' = [stranded EXCEPT ![w] = stranded[w] + 1] /\ UNCHANGED <<pc, gate, crashes>>
    BY <1>1, <1>6, <2>1 DEF Strand, Moves
  <2>3. stranded[w] \in Nat
    BY <1>1
  <2>4. Fits(held, stranded[w] + 1)
    <3>. HIDE DEF b
    <3>. QED  BY <1>1, <2>1, <2>3, MovedFits
  <2>. HIDE DEF held
  <2>5. stranded[w] + 1 \in 0 .. Concurrency
    <3>1. IsFiniteSet({c \in held : c.at # "left"})
      BY <2>4, FS_Subset DEF Fits
    <3>2. Cardinality({c \in held : c.at # "left"}) \in Nat
      BY <3>1, FS_CardinalityType
    <3>. QED  BY <1>1, <2>3, <2>4, <3>2 DEF Fits
  <2>. QED  BY <1>3, <2>2, <2>4, <2>5
<1>7. CASE UNCHANGED passVars
  BY <1>1, <1>2, <1>7, HandsStay, InvStays DEF passVars
<1>. QED  BY <1>4, <1>5, <1>6, <1>7 DEF GiveBack, End, EndLost, Beat

LEMMA ReturnKeepsInv ==
  ASSUME RecoveryInv, NEW w \in Workers, Return(w)
  PROVE  RecoveryInv'
<1>1. /\ StoreType /\ NothingIsLost /\ WithinConcurrency
      /\ hand \in [Workers -> SUBSET Attempts] /\ stranded \in [Workers -> 0 .. Concurrency]
      /\ Fits(hand[w], stranded[w]) /\ Concurrency \in Nat
  BY RecoveryAssumption DEF RecoveryInv, TypeOK, WithinConcurrency, Fits, Waited
<1>2. /\ StoreType' /\ NothingIsLost'
  BY <1>1, LostStays, StoreStays DEF Return
<1>3. /\ hand' = [hand EXCEPT ![w] = hand[w]] /\ hand[w] \in SUBSET Attempts
      /\ stranded' = [stranded EXCEPT ![w] = stranded[w] - 1] /\ UNCHANGED <<pc, gate, crashes>>
  BY <1>1 DEF Return
<1>4. /\ stranded[w] \in Nat /\ stranded[w] - 1 \in 0 .. stranded[w] /\ stranded[w] - 1 \in 0 .. Concurrency
  <2>1. stranded[w] \in 0 .. Concurrency /\ stranded[w] > 0
    BY <1>1 DEF Return
  <2>. QED  BY <1>1, <2>1
<1>5. Fits(hand[w], stranded[w] - 1)
  BY <1>1, <1>4, FewerFit
<1>6. /\ WithinConcurrency'
      /\ hand' \in [Workers -> SUBSET Attempts] /\ stranded' \in [Workers -> 0 .. Concurrency]
  BY <1>1, <1>3, <1>4, <1>5, HandsFit
<1>. QED  BY <1>2, <1>3, <1>6, InvStays

LEMMA CrashKeepsInv ==
  ASSUME RecoveryInv, NEW w \in Workers, Crash(w)
  PROVE  RecoveryInv'
<1>1. /\ StoreType /\ NothingIsLost /\ WithinConcurrency /\ TypeOK
      /\ hand \in [Workers -> SUBSET Attempts] /\ stranded \in [Workers -> 0 .. Concurrency]
      /\ Fits(hand[w], stranded[w]) /\ stranded[w] \in Nat /\ 0 \in 0 .. stranded[w]
      /\ 0 \in 0 .. Concurrency
  <2>1. /\ StoreType /\ NothingIsLost /\ WithinConcurrency /\ TypeOK
        /\ hand \in [Workers -> SUBSET Attempts] /\ stranded \in [Workers -> 0 .. Concurrency]
    BY DEF RecoveryInv, TypeOK
  <2>2. Fits(hand[w], stranded[w])
    BY <2>1 DEF WithinConcurrency, Fits, Waited
  <2>3. /\ stranded[w] \in Nat /\ 0 \in 0 .. stranded[w] /\ 0 \in 0 .. Concurrency
    <3>1. stranded[w] \in 0 .. Concurrency /\ Concurrency \in Nat
      BY <2>1, RecoveryAssumption
    <3>. QED  BY <3>1
  <2>. QED  BY <2>1, <2>2, <2>3
<1>2. StoreType' /\ NothingIsLost'
  BY <1>1, LostStays, StoreStays DEF Crash
<1>3. /\ WithinConcurrency'
      /\ hand' \in [Workers -> SUBSET Attempts] /\ stranded' \in [Workers -> 0 .. Concurrency]
  <2>1. /\ {} \in SUBSET hand[w] /\ {} \in SUBSET Attempts /\ hand' = [hand EXCEPT ![w] = {}]
        /\ stranded' = [stranded EXCEPT ![w] = 0]
    BY DEF Crash
  <2>2. Fits({}, 0)
    BY <1>1, <2>1, FewerFit
  <2>. QED  BY <1>1, <2>1, <2>2, HandsFit
<1>4. pc' \in [Workers -> Stages] /\ gate' \in [Workers -> 0 .. Hour]
  BY <1>1 DEF Crash, TypeOK, Stages
<1>5. crashes' \in 0 .. MaxCrashes
  BY <1>1, RecoveryAssumption DEF Crash, TypeOK
<1>. QED  BY <1>2, <1>3, <1>4, <1>5 DEF RecoveryInv, TypeOK

LEMMA TickKeepsInv ==
  ASSUME RecoveryInv, Tick
  PROVE  RecoveryInv'
<1>1. /\ WithinConcurrency /\ TypeOK
  BY DEF RecoveryInv
<1>2. StoreType' /\ NothingIsLost'
  <2>1. runs' = [r \in Ids |-> Back(runs[r])] /\ UNCHANGED <<asked, sequence>>
    BY DEF Tick, Back
  <2>. QED  BY <2>1, TickStays
<1>3. gate' \in [Workers -> 0 .. Hour]
  <2>1. \A i \in 0 .. Hour : Earlier(i) \in 0 .. Hour
    BY RecoveryAssumption DEF Earlier
  <2>2. gate' = [w \in Workers |-> Earlier(gate[w])]
    BY DEF Tick
  <2>. QED  BY <1>1, <2>1, <2>2 DEF TypeOK
<1>. QED  BY <1>1, <1>2, <1>3, HandsStay DEF RecoveryInv, TypeOK, Tick

LEMMA InitIsFound == Init => RecoveryInv
<1>. SUFFICES ASSUME Init
              PROVE  RecoveryInv
  OBVIOUS
<1>1. StoreType
  <2>1. Absent \in RowType
    BY DEF Absent, RowType, NoInstant
  <2>. QED  BY <2>1, StoreAssumption DEF Init, StoreInit, StoreType
<1>2. TypeOK
  BY <1>1, RecoveryAssumption DEF TypeOK, Init, Stages
<1>3. WithinConcurrency
  <2>1. IsFiniteSet({}) /\ Cardinality({}) = 0
    BY FS_EmptySet
  <2>2. \A w \in Workers : hand[w] = {} /\ Waited(w) = {} /\ stranded[w] = 0
    BY DEF Init, Waited
  <2>3. 0 <= Concurrency /\ 0 + 0 <= Concurrency
    BY RecoveryAssumption
  <2>. QED  BY Zenon, <2>1, <2>2, <2>3 DEF WithinConcurrency
<1>4. NothingIsLost
  <2>1. \A r \in Ids : r >= 1 /\ r \in Nat
    BY StoreAssumption DEF Ids
  <2>. QED  BY <2>1 DEF NothingIsLost, Comes, Present, Init, StoreInit, Absent, Settled
<1>. QED  BY <1>2, <1>3, <1>4 DEF RecoveryInv

LEMMA StepKeepsFound == RecoveryInv /\ [Next]_vars => RecoveryInv'
<1>. SUFFICES ASSUME RecoveryInv, [Next]_vars
              PROVE  RecoveryInv'
  OBVIOUS
<1>1. WithinConcurrency /\ TypeOK /\ StoreType /\ NothingIsLost
  BY DEF RecoveryInv, TypeOK
<1>2. ASSUME StoreType', NothingIsLost', UNCHANGED passVars
      PROVE  RecoveryInv'
  BY <1>1, <1>2, HandsStay DEF RecoveryInv, TypeOK, passVars
<1>3. CASE Tick
  BY <1>3, TickKeepsInv
<1>4. ASSUME NEW order \in Orders, NEW delay \in Delays, Enqueue(order, delay)
      PROVE  RecoveryInv'
  BY <1>2, <1>4, EnqueueStays DEF Enqueue
<1>5. ASSUME NEW r \in Ids, CancelRun(r)
      PROVE  RecoveryInv'
  BY <1>2, <1>5, CancelStays DEF CancelRun
<1>6. ASSUME NEW w \in Workers, PassStep(w)
      PROVE  RecoveryInv'
  BY <1>6, PassKeepsInv
<1>7. ASSUME NEW w \in Workers, Crash(w)
      PROVE  RecoveryInv'
  BY <1>7, CrashKeepsInv
<1>8. ASSUME NEW w \in Workers, NEW a \in hand[w],
             Enter(w, a) \/ Strand(w, a) \/ GiveBack(w, a) \/ End(w, a) \/ EndLost(w, a) \/ Beat(w, a)
      PROVE  RecoveryInv'
  BY <1>8, AttemptKeepsInv
<1>10. ASSUME NEW w \in Workers, Return(w)
       PROVE  RecoveryInv'
  BY <1>10, ReturnKeepsInv
<1>9. CASE UNCHANGED vars
  BY <1>1, <1>2, <1>9, LostStays, StoreStays DEF vars
<1>. QED
  BY <1>3, <1>4, <1>5, <1>6, <1>7, <1>8, <1>9, <1>10 DEF Next

-----------------------------------------------------------------------------
(* What follows. *)

(* store/memory.py:49-54,139-151, worker.py:247 - whatever is lost, refused, taken back or never  *)
(* answered: what waits is due at some instant with an attempt left, what runs has a lease that   *)
(* ends, what is over can be pruned, and no worker holds more than its threads can run.           *)
THEOREM RecoveryInvariant == Spec => []RecoveryInv
<1>1. RecoveryInv /\ [Next]_vars => RecoveryInv'
  BY StepKeepsFound
<1>. QED  BY <1>1, InitIsFound, PTL DEF Spec

(* retry.py:19-20 - two runs of one policy that failed at the same attempt and drew differently   *)
(* wait differently, where there is a wait at all, and never longer than the ceiling.             *)
THEOREM HerdStaysBroken == Spec => []HerdIsBroken
<1>1. RecoveryInv => HerdIsBroken
  <2>. SUFFICES ASSUME RecoveryInv, NEW r \in Ids, runs[r].status = "running",
                       asked[r].policy = "exponential_jitter", NEW d \in Draws, NEW e \in Draws
                PROVE  /\ Wait(r, d) <= asked[r].max_retry_delay
                       /\ d # e /\ asked[r].retry_delay > 0 => Wait(r, d) # Wait(r, e)
    BY DEF HerdIsBroken
  <2>. DEFINE base == asked[r].retry_delay
              ceiling == asked[r].max_retry_delay
              growth == GrowthFor("exponential_jitter", base, runs[r].attempts)
  <2>1. asked[r] \in Orders /\ Comes(runs[r], asked[r])
    <3>1. Present(r)
      BY DEF Present
    <3>. QED  BY <3>1, InvIs
  <2>2. runs[r].attempts \in Nat \ {0}
    BY <2>1, StoreAssumption DEF Comes, OrderType
  <2>3. base \in Nat /\ ceiling \in Nat /\ Jitter \in Nat /\ d \in 0 .. Jitter /\ e \in 0 .. Jitter
    BY <2>1, RecoveryAssumption
  <2>4. growth \in Nat /\ base <= growth
    <3>1. "exponential_jitter" \in Policies
      BY DEF Policies
    <3>. QED  BY <2>2, <2>3, <3>1, GrowthIs
  <2>5. \A draw \in Draws : Wait(r, draw) = Drawn(growth, Jitter, draw, ceiling)
    BY DEF Wait, DelayFor
  <2>6. ASSUME NEW x \in Draws, NEW y \in Draws, x < y, base > 0
        PROVE  Wait(r, x) < Wait(r, y)
    <3>1. (y - x) * Smaller(base, (ceiling * 100) \div (100 + Jitter)) >= 100
      BY <2>1, <2>6, UnitAssumption
    <3>2. x \in 0 .. Jitter /\ y \in 0 .. Jitter
      BY RecoveryAssumption
    <3>. HIDE DEF base, ceiling, growth
    <3>3. Drawn(growth, Jitter, x, ceiling) < Drawn(growth, Jitter, y, ceiling)
      BY <2>3, <2>4, <2>6, <3>1, <3>2, DrawsAreApart
    <3>. QED  BY <2>5, <3>3
  <2>7. Wait(r, d) \in Nat /\ Wait(r, e) \in Nat /\ Wait(r, d) <= ceiling
    BY WaitIs
  <2>8. CASE d < e
    BY <2>6, <2>7, <2>8
  <2>9. CASE e < d
    BY <2>6, <2>7, <2>9
  <2>10. d < e \/ e < d \/ d = e
    BY <2>3
  <2>. QED  BY <2>7, <2>8, <2>9, <2>10
<1>. QED  BY <1>1, RecoveryInvariant, PTL

(* retry.py:15-21 - whatever the policy, the attempt and the draw, a wait is one there is, and no *)
(* longer than the ceiling.                                                                       *)
WaitsFit ==
  \A r \in Ids : runs[r].status = "running" =>
    \A draw \in Draws : Wait(r, draw) \in Nat /\ Wait(r, draw) <= asked[r].max_retry_delay

THEOREM EveryWaitFits == Spec => []WaitsFit
<1>1. RecoveryInv => WaitsFit
  BY WaitIs DEF WaitsFit
<1>. QED  BY <1>1, RecoveryInvariant, PTL

(* A pruning that took less than a full batch left nothing behind it: one that is left out means  *)
(* a full batch, and a full batch leaves the hour at its end.                                     *)
LEMMA HourIsEarned ==
  ASSUME RecoveryInv, NEW w \in Workers, TidyLands(w), gate'[w] # 0, NEW r \in Ids
  PROVE  ~Prunable(r, Base - Keep)'
<1>. DEFINE prunable == {q \in Ids : Prunable(q, Base - Keep)}
            gone == Oldest(prunable, PurgeLimit)
<1>1. runs' = [q \in Ids |-> IF q \in gone THEN Absent ELSE runs[q]]
  BY DEF TidyLands, Purge
<1>2. PurgeLimit \in Nat /\ prunable \in SUBSET Ids
  BY RecoveryAssumption
<1>3. \A q \in gone : q \in Ids /\ runs[q].status \in Settled
  BY DEF Oldest, Prunable
<1>4. Absent.status = "absent" /\ "absent" \notin Settled
  BY DEF Absent, Settled
<1>. HIDE DEF gone
<1>5. {q \in Ids : runs[q] # runs'[q]} = gone
  BY <1>1, <1>3, <1>4
<1>6. gate'[w] = HourAfter(gone)
  BY <1>5 DEF TidyLands, RecoveryInv, TypeOK
<1>7. Cardinality(gone) # PurgeLimit
  BY <1>6 DEF HourAfter
<1>8. ~(r \in prunable /\ r \notin gone)
  BY <1>2, <1>7, OldestFillsUp DEF gone
<1>9. CASE r \in gone
  <2>1. runs'[r].status \notin Settled
    BY <1>1, <1>4, <1>9
  <2>. QED  BY <2>1 DEF Prunable
<1>10. CASE r \notin gone
  <2>1. runs'[r] = runs[r] /\ ~Prunable(r, Base - Keep)
    BY <1>1, <1>8, <1>10
  <2>. QED  BY <2>1 DEF Prunable
<1>. QED  BY <1>9, <1>10

(* worker.py:273-275 - a pruning that was answered begins the hour only when it left nothing      *)
(* behind that could have been pruned.                                                            *)
THEOREM HourMeansItIsDone == Spec => HourMeansDone
<1>1. RecoveryInv /\ [Next]_vars =>
        [\A w \in Workers :
           TidyLands(w) /\ gate'[w] # 0 => \A r \in Ids : ~Prunable(r, Base - Keep)']_vars
  BY HourIsEarned
<1>. QED  BY <1>1, RecoveryInvariant, PTL DEF Spec, HourMeansDone

-----------------------------------------------------------------------------
(* That a run only goes forward, but for what was never begun: row by row, whatever a call writes. *)

FarOf(row, order) ==
  CASE row.status = "pending" -> 2 * row.attempts
    [] row.status = "running" -> 2 * row.attempts - 1
    [] OTHER -> 2 * order.max_attempts

Further(row, next, order) ==
  /\ FarOf(row, order) <= FarOf(next, order)
  /\ row.status # next.status => FarOf(row, order) < FarOf(next, order)

LEMMA FarIs ==
  ASSUME NEW row \in RowType, NEW order \in Orders, Comes(row, order)
  PROVE  FarOf(row, order) \in Int /\ FarOf(row, order) <= 2 * order.max_attempts
<1>1. order.max_attempts \in Nat \ {0} /\ row.attempts \in Int
  BY StoreAssumption DEF OrderType, RowType
<1>. QED  BY <1>1 DEF FarOf, Comes

LEMMA RowsGoFurther ==
  ASSUME NEW row \in RowType, NEW order \in Orders, Comes(row, order), NEW worker, NEW due_at
  PROVE  /\ Further(row, row, order)
         /\ row.status = "pending" => Further(row, ClaimedBy(row, worker, Base), order)
         /\ \A status \in Settled :
              row.status \in {"pending", "running"} => Further(row, Closed(row, status, Base), order)
         /\ row.status = "running" => Further(row, Requeued(row, due_at, 0), order)
         /\ row.status = "running" => Further(row, [row EXCEPT !.lease_until = Base + Lease], order)
         /\ Further(row, Back(row), order)
<1>1. /\ order.max_attempts \in Nat \ {0} /\ row.attempts \in Int
      /\ "pending" \notin Settled /\ "running" \notin Settled
  BY StoreAssumption DEF OrderType, RowType, Settled
<1>2. FarOf(row, order) \in Int
  BY FarIs
<1>3. \A next : next.status = row.status /\ next.attempts = row.attempts => Further(row, next, order)
  BY <1>1, <1>2 DEF Further, FarOf
<1>4. row.status = "pending" => Further(row, ClaimedBy(row, worker, Base), order)
  <2>1. /\ ClaimedBy(row, worker, Base).status = "running"
        /\ ClaimedBy(row, worker, Base).attempts = row.attempts + 1
    BY DEF ClaimedBy, RowType
  <2>. QED  BY <1>1, <2>1 DEF Further, FarOf
<1>5. ASSUME NEW status \in Settled, row.status \in {"pending", "running"}
      PROVE  Further(row, Closed(row, status, Base), order)
  <2>1. Closed(row, status, Base).status = status /\ status # "pending" /\ status # "running"
    BY <1>1 DEF Closed, RowType
  <2>2. FarOf(row, order) < 2 * order.max_attempts
    BY <1>1, <1>5 DEF FarOf, Comes
  <2>. QED  BY <1>1, <1>2, <2>1, <2>2 DEF Further, FarOf
<1>6. row.status = "running" => Further(row, Requeued(row, due_at, 0), order)
  <2>1. /\ Requeued(row, due_at, 0).status = "pending"
        /\ Requeued(row, due_at, 0).attempts = row.attempts
    BY <1>1 DEF Requeued, RowType
  <2>. QED  BY <1>1, <2>1 DEF Further, FarOf
<1>7. /\ [row EXCEPT !.lease_until = Base + Lease].status = row.status
      /\ [row EXCEPT !.lease_until = Base + Lease].attempts = row.attempts
  BY DEF RowType
<1>. QED  BY <1>3, <1>4, <1>5, <1>6, <1>7, BackIs

(* What a step writes into a row that was there: what one of the calls writes, or what time does. *)
LEMMA StepGoesFurther ==
  ASSUME RecoveryInv, [Next]_vars, NEW r \in Ids, Present(r), runs'[r].status # "absent",
         ~ \E w \in Workers : \E a \in hand[w] : a.run = r /\ GiveBack(w, a)
  PROVE  Further(runs[r], runs'[r], asked[r]) /\ asked'[r] = asked[r]
<1>1. /\ runs[r] \in RowType /\ asked[r] \in Orders /\ Comes(runs[r], asked[r]) /\ r < sequence
      /\ StoreType /\ Base \in Nat
  BY InvIs
<1>2. \A worker, due_at :
        /\ Further(runs[r], runs[r], asked[r])
        /\ runs[r].status = "pending" => Further(runs[r], ClaimedBy(runs[r], worker, Base), asked[r])
        /\ \A status \in Settled : runs[r].status \in {"pending", "running"} =>
             Further(runs[r], Closed(runs[r], status, Base), asked[r])
        /\ runs[r].status = "running" => Further(runs[r], Requeued(runs[r], due_at, 0), asked[r])
        /\ runs[r].status = "running" =>
             Further(runs[r], [runs[r] EXCEPT !.lease_until = Base + Lease], asked[r])
        /\ Further(runs[r], Back(runs[r]), asked[r])
  BY <1>1, RowsGoFurther
<1>3. ASSUME UNCHANGED storeVars
      PROVE  Further(runs[r], runs'[r], asked[r]) /\ asked'[r] = asked[r]
  BY <1>2, <1>3 DEF storeVars
<1>4. ASSUME NEW q \in Ids, NEW row, Write(q, row), q = r => Further(runs[r], row, asked[r])
      PROVE  Further(runs[r], runs'[r], asked[r]) /\ asked'[r] = asked[r]
  <2>1. runs'[r] = IF q = r THEN row ELSE runs[r]
    BY <1>1, <1>4 DEF Write, StoreType
  <2>. QED  BY <1>2, <1>4, <2>1 DEF Write
<1>5. CASE Tick
  <2>1. runs'[r] = Back(runs[r]) /\ asked'[r] = asked[r]
    BY <1>5 DEF Tick, Back
  <2>. QED  BY <1>2, <2>1
<1>6. ASSUME NEW order \in Orders, NEW delay \in Delays, Enqueue(order, delay)
      PROVE  Further(runs[r], runs'[r], asked[r]) /\ asked'[r] = asked[r]
  <2>1. sequence # r
    BY <1>1 DEF StoreType, Ids
  <2>2. runs'[r] = runs[r] /\ asked'[r] = asked[r]
    BY <1>1, <1>6, <2>1 DEF Enqueue, Add, StoreType
  <2>. QED  BY <1>2, <2>2
<1>7. ASSUME NEW q \in Ids, CancelRun(q)
      PROVE  Further(runs[r], runs'[r], asked[r]) /\ asked'[r] = asked[r]
  <2>1. "canceled" \in Settled /\ runs[q].status = "pending" /\ Write(q, Closed(runs[q], "canceled", Base))
    BY <1>7 DEF CancelRun, Cancel, Settled
  <2>. QED  BY <1>2, <1>4, <2>1
<1>8. ASSUME NEW w \in Workers, PassStep(w)
      PROVE  Further(runs[r], runs'[r], asked[r]) /\ asked'[r] = asked[r]
  <2>1. CASE Reclaim(Base)
    <3>1. asked' = asked /\ (runs'[r] = runs[r] \/ (Expired(r, Base) /\ runs'[r] = TakenBack(r, Base)))
      BY <2>1 DEF Reclaim, Oldest
    <3>2. Expired(r, Base) => Further(runs[r], TakenBack(r, Base), asked[r])
      <4>1. "failed" \in Settled
        BY DEF Settled
      <4>. QED  BY <1>2, <4>1 DEF Expired, TakenBack
    <3>. QED  BY <1>2, <3>1, <3>2
  <2>2. CASE Purge(Base - Keep, PurgeLimit)
    <3>1. Absent.status = "absent"
      BY DEF Absent
    <3>2. runs'[r] = runs[r] /\ asked' = asked
      BY <2>2, <3>1 DEF Purge
    <3>. QED  BY <1>2, <3>2
  <2>3. CASE Claim(w, Served, Free(w), Base)
    <3>1. /\ asked' = asked
          /\ \/ runs'[r] = runs[r]
             \/ runs[r].status = "pending" /\ runs'[r] = ClaimedBy(runs[r], w, Base)
      BY <2>3 DEF Claim, Won, Claimable
    <3>. QED  BY <1>2, <3>1
  <2>. QED
    BY <1>3, <1>8, <2>1, <2>2, <2>3
    DEF PassStep, ReclaimLands, ReclaimRefused, TidyWaits, TidyLands, TidyRefused, MaterializeLands,
        MaterializeRefused, ClaimLands, ClaimUnheard, ClaimNothing
<1>9. ASSUME NEW w \in Workers, Crash(w) \/ Return(w)
      PROVE  Further(runs[r], runs'[r], asked[r]) /\ asked'[r] = asked[r]
  BY <1>3, <1>9 DEF Crash, Return
<1>10. ASSUME NEW w \in Workers, NEW a \in hand[w],
              Enter(w, a) \/ Strand(w, a) \/ GiveBack(w, a) \/ End(w, a) \/ EndLost(w, a) \/ Beat(w, a)
       PROVE  Further(runs[r], runs'[r], asked[r]) /\ asked'[r] = asked[r]
  <2>1. a.run \in Ids
    BY DEF RecoveryInv, TypeOK, Attempts
  <2>2. Held(a.run, w, a.attempt) => runs[a.run].status = "running"
    BY DEF Held
  <2>3. ASSUME NEW status \in {"done", "failed"}, Held(a.run, w, a.attempt),
               Write(a.run, Closed(runs[a.run], status, Base))
        PROVE  Further(runs[r], runs'[r], asked[r]) /\ asked'[r] = asked[r]
    <3>1. status \in Settled
      BY DEF Settled
    <3>. QED  BY <1>2, <1>4, <2>1, <2>2, <2>3, <3>1
  <2>4. CASE Complete(a.run, w, a.attempt, Base)
    BY <2>3, <2>4 DEF Complete
  <2>5. CASE Fail(a.run, w, a.attempt, Base)
    BY <2>3, <2>5 DEF Fail
  <2>6. ASSUME NEW due_at, RetryLater(a.run, w, a.attempt, due_at)
        PROVE  Further(runs[r], runs'[r], asked[r]) /\ asked'[r] = asked[r]
    BY <1>2, <1>4, <2>1, <2>2, <2>6 DEF RetryLater
  <2>7. CASE Heartbeat(a.run, w, a.attempt, Base)
    <3>. DEFINE row == [runs[a.run] EXCEPT !.lease_until = Base + Lease]
    <3>1. Held(a.run, w, a.attempt) /\ Write(a.run, row)
      BY <2>7 DEF Heartbeat
    <3>2. a.run = r => Further(runs[r], row, asked[r])
      BY <1>2, <2>2, <3>1
    <3>. HIDE DEF row
    <3>. QED  BY <1>4, <2>1, <3>1, <3>2
  <2>8. CASE GiveBack(w, a)
    <3>1. a.run # r
      BY <2>8
    <3>2. \E due_at : Write(a.run, Requeued(runs[a.run], due_at, -1))
      BY <2>8 DEF GiveBack, Release
    <3>. QED  BY <1>4, <2>1, <3>1, <3>2
  <2>. QED  BY <1>3, <1>10, <2>4, <2>5, <2>6, <2>7, <2>8 DEF Enter, Strand, End, EndLost, Beat
<1>11. CASE UNCHANGED vars
  BY <1>3, <1>11 DEF vars
<1>. QED
  BY <1>5, <1>6, <1>7, <1>8, <1>9, <1>10, <1>11 DEF Next

(* What is given back goes to just before its claim: one step, from an attempt that left the hand. *)
LEMMA GivenBackIsUntried ==
  ASSUME RecoveryInv, NEW w \in Workers, NEW a \in hand[w], GiveBack(w, a)
  PROVE  Untried(a.run) /\ Far(a.run)' <= 2 * asked[a.run].max_attempts /\ asked' = asked
<1>1. a.run \in Ids /\ hand \in [Workers -> SUBSET Attempts] /\ StoreType
  BY DEF RecoveryInv, TypeOK, Attempts
<1>2. PICK due_at : Held(a.run, w, a.attempt) /\ Write(a.run, Requeued(runs[a.run], due_at, -1))
  BY DEF GiveBack, Release
<1>3. /\ runs[a.run].status = "running" /\ runs[a.run] \in RowType
      /\ asked[a.run] \in Orders /\ Comes(runs[a.run], asked[a.run])
  BY <1>1, <1>2, InvIs DEF Held, Present
<1>4. runs[a.run].attempts \in 1 .. asked[a.run].max_attempts /\ asked[a.run].max_attempts \in Nat
  BY <1>3, StoreAssumption DEF Comes, OrderType
<1>5. runs'[a.run] = Requeued(runs[a.run], due_at, -1) /\ asked' = asked
  BY <1>1, <1>2 DEF Write, StoreType
<1>6. runs'[a.run].status = "pending" /\ runs'[a.run].attempts = runs[a.run].attempts + (-1)
  BY <1>3, <1>5 DEF Requeued, RowType
<1>7. /\ Far(a.run) = 2 * runs[a.run].attempts - 1
      /\ Far(a.run)' = 2 * (runs[a.run].attempts + (-1))
  BY <1>3, <1>6 DEF Far
<1>8. Far(a.run)' = Far(a.run) - 1 /\ Far(a.run)' <= 2 * asked[a.run].max_attempts
  BY <1>4, <1>7
<1>9. a.at = "handed" /\ a \notin hand'[w]
  BY <1>1 DEF GiveBack, Dropped
<1>. QED  BY <1>2, <1>5, <1>8, <1>9 DEF Untried

(* docs/retries.md:63-84,93-108, worker.py:344-347,397-402, store/memory.py:135-152 - each change *)
(* of its status takes a run further, and never past 2 * max_attempts; the only way back is to    *)
(* just before the claim of an attempt whose handler was never entered.                           *)
THEOREM OnlyUntriedGoesBack == Spec => BackOnlyUntried
<1>1. RecoveryInv /\ RecoveryInv' /\ [Next]_vars =>
        [\A r \in Ids : Present(r) /\ Present(r)' =>
           /\ Far(r)' <= 2 * asked[r].max_attempts
           /\ \/ /\ Far(r) <= Far(r)'
                 /\ runs[r].status # runs'[r].status => Far(r) < Far(r)'
              \/ Untried(r)]_vars
  <2>. SUFFICES ASSUME RecoveryInv, RecoveryInv', [Next]_vars, NEW r \in Ids, Present(r), Present(r)'
                PROVE  /\ Far(r)' <= 2 * asked[r].max_attempts
                       /\ \/ /\ Far(r) <= Far(r)'
                             /\ runs[r].status # runs'[r].status => Far(r) < Far(r)'
                          \/ Untried(r)
    OBVIOUS
  <2>1. CASE \E w \in Workers : \E a \in hand[w] : a.run = r /\ GiveBack(w, a)
    BY <2>1, GivenBackIsUntried
  <2>2. CASE ~ \E w \in Workers : \E a \in hand[w] : a.run = r /\ GiveBack(w, a)
    <3>1. Further(runs[r], runs'[r], asked[r]) /\ asked'[r] = asked[r]
      BY <2>2, StepGoesFurther DEF Present
    <3>2. Far(r) = FarOf(runs[r], asked[r]) /\ Far(r)' = FarOf(runs'[r], asked'[r])
      BY DEF Far, FarOf
    <3>3. FarOf(runs'[r], asked'[r]) <= 2 * asked'[r].max_attempts
      <4>1. runs'[r] \in RowType
        BY DEF RecoveryInv, TypeOK, StoreType
      <4>2. asked'[r] \in Orders /\ Comes(runs'[r], asked'[r])
        BY <3>1, InvIs DEF RecoveryInv, NothingIsLost, Comes
      <4>. QED  BY <4>1, <4>2, FarIs
    <3>. QED  BY <3>1, <3>2, <3>3 DEF Further
  <2>. QED  BY <2>1, <2>2
<1>2. RecoveryInv /\ [Next]_vars => RecoveryInv'
  BY StepKeepsFound
<1>. QED  BY <1>1, <1>2, RecoveryInvariant, PTL DEF Spec, BackOnlyUntried
=============================================================================
