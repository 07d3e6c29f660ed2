------------------------------ MODULE SqlProofs ------------------------------
(***************************************************************************)
(* That the workers over a database keep its invariant, for every number   *)
(* of workers, runs, attempts, instants and every size of a batch, and     *)
(* what follows: the rows move as a store may move them, whatever comes in *)
(* between the reads and the writes of a call, and no run is taken that    *)
(* nobody answers for.                                                     *)
(***************************************************************************)
EXTENDS SqlStore, StoreLemmas, SequenceTheorems

-----------------------------------------------------------------------------
(* The invariant, worker by worker. *)

Stands(w) ==
  /\ call[w].pc # "taking" => call[w].taken = {}
  /\ call[w].failing \subseteq Over(call[w].moment)
  /\ call[w].queueing \subseteq Left(call[w].moment)
  /\ IsOneBatch(call[w])

LEMMA InvIs ==
  SqlInv <=> TypeOK /\ UnwrittenIsAbsent /\ LocksApart /\ \A w \in Workers : Stands(w)
BY DEF SqlInv, TakenByClaims, LocksStand, OneBatch, Stands

(* A step that moves the calls of some workers, and of the rows no row the others have locked. *)
LEMMA StepKeepsInv ==
  ASSUME SqlInv, TypeOK', UnwrittenIsAbsent', NEW W \in SUBSET Workers,
         \A v \in Workers \ W : /\ call'[v] = call[v]
                                /\ \A r \in LockedBy(v) : runs'[r] = runs[r] /\ asked'[r] = asked[r],
         \A w \in W : Stands(w)',
         \A w \in W, v \in Workers : v # w => LockedBy(w)' \intersect LockedBy(v)' = {}
  PROVE  SqlInv'
<1>1. \A v \in Workers : Stands(v)
  BY InvIs
<1>2. ASSUME NEW v \in Workers \ W
      PROVE  Stands(v)' /\ LockedBy(v)' = LockedBy(v)
  <2>1. call'[v] = call[v] /\ LockedBy(v)' = LockedBy(v)
    BY DEF LockedBy
  <2>3. call[v].failing \subseteq Over(call[v].moment) /\ call[v].queueing \subseteq Left(call[v].moment)
    BY <1>1 DEF Stands
  <2>4. \A r \in call[v].failing \union call[v].queueing : runs'[r] = runs[r] /\ asked'[r] = asked[r]
    BY DEF LockedBy
  <2>5. (call[v].failing \subseteq Over(call[v].moment))'
    BY <2>1, <2>3, <2>4 DEF Over, Expired, Exhausted
  <2>6. (call[v].queueing \subseteq Left(call[v].moment))'
    BY <2>1, <2>3, <2>4 DEF Left, Expired, Exhausted
  <2>7. IsOneBatch(call[v])' /\ (call'[v].pc # "taking" => call'[v].taken = {})
    BY <1>1, <2>1 DEF Stands, IsOneBatch
  <2>. QED  BY <2>1, <2>5, <2>6, <2>7 DEF Stands
<1>3. \A w \in Workers : Stands(w)'
  BY <1>2
<1>4. LocksApart'
  <2>. SUFFICES ASSUME NEW v \in Workers, NEW w \in Workers, v # w
                PROVE  LockedBy(v)' \intersect LockedBy(w)' = {}
    BY DEF LocksApart
  <2>1. CASE v \in W \/ w \in W
    BY <2>1
  <2>2. CASE v \notin W /\ w \notin W
    BY <1>2, <2>2 DEF SqlInv, LocksApart
  <2>. QED  BY <2>1, <2>2
<1>. QED  BY <1>3, <1>4 DEF SqlInv, TakenByClaims, LocksStand, OneBatch, Stands

-----------------------------------------------------------------------------
(* The steps of a call that write no row. *)

LEMMA GoesTo ==
  ASSUME call \in [Workers -> Call], NEW w \in Workers, NEW d, Goes(w, d)
  PROVE  /\ call'[w] = d /\ \A v \in Workers \ {w} : call'[v] = call[v]
         /\ d \in Call => call' \in [Workers -> Call]
BY DEF Goes

LEMMA NoRowKeepsInv ==
  ASSUME SqlInv, NEW w \in Workers, NEW d \in Call, Goes(w, d),
         UNCHANGED <<storeVars, now>>, handed' \subseteq Attempts, lost' \subseteq Ids,
         d.moment <= now, d.pc # "taking" => d.taken = {},
         d.failing \subseteq Over(d.moment), d.queueing \subseteq Left(d.moment), IsOneBatch(d),
         \A v \in Workers \ {w} : (d.failing \union d.queueing) \intersect LockedBy(v) = {}
  PROVE  SqlInv'
<1>0. TypeOK /\ call \in [Workers -> Call]
  BY DEF SqlInv, TypeOK
<1>1. /\ call'[w] = d /\ \A v \in Workers \ {w} : call'[v] = call[v]
      /\ call' \in [Workers -> Call]
  BY <1>0, GoesTo
<1>2. UNCHANGED <<runs, asked, sequence, now>>
  BY DEF storeVars
<1>3. TypeOK'
  <2>1. \A v \in Workers : call'[v].moment <= now'
    BY <1>0, <1>1, <1>2 DEF TypeOK
  <2>. QED  BY <1>0, <1>1, <1>2, <2>1 DEF TypeOK, StoreType
<1>4. UnwrittenIsAbsent'
  BY <1>2 DEF SqlInv, UnwrittenIsAbsent, Present
<1>5. Stands(w)'
  <2>1. (d.failing \subseteq Over(d.moment))' /\ (d.queueing \subseteq Left(d.moment))'
    BY <1>2 DEF Over, Left, Expired, Exhausted
  <2>2. (call[w].failing \subseteq Over(call[w].moment))' /\ (call[w].queueing \subseteq Left(call[w].moment))'
    BY <1>1, <2>1 DEF Over, Left, Expired, Exhausted
  <2>3. IsOneBatch(call[w])'
    BY <1>1 DEF IsOneBatch
  <2>. QED  BY <1>1, <2>2, <2>3 DEF Stands
<1>6. \A v \in Workers \ {w} : LockedBy(w)' \intersect LockedBy(v)' = {}
  BY <1>1 DEF LockedBy
<1>7. \A v \in Workers : \A r \in LockedBy(v) : runs'[r] = runs[r] /\ asked'[r] = asked[r]
  BY <1>2
<1>. DEFINE W == {w}
<1>8. /\ W \in SUBSET Workers
      /\ \A v \in Workers \ W : /\ call'[v] = call[v]
                               /\ \A r \in LockedBy(v) : runs'[r] = runs[r] /\ asked'[r] = asked[r]
  BY <1>1, <1>7
<1>9. /\ \A v \in W : Stands(v)'
      /\ \A u \in W, v \in Workers : v # u => LockedBy(u)' \intersect LockedBy(v)' = {}
  BY <1>5, <1>6
<1>. HIDE DEF W
<1>. QED  BY <1>3, <1>4, <1>8, <1>9, StepKeepsInv

(* A call that has no row locked. *)
LEMMA UnlockedKeepsInv ==
  ASSUME SqlInv, NEW w \in Workers, NEW d \in Call, Goes(w, d),
         UNCHANGED <<storeVars, now>>, handed' \subseteq Attempts, lost' \subseteq Ids,
         d.moment <= now, d.pc # "taking" => d.taken = {},
         d.failing = {}, d.queueing = {},
         d.pc \in {"giving_up", "requeueing"} => Cardinality(d.batch) <= ReclaimBatch
  PROVE  SqlInv'
<1>1. Cardinality({}) = 0 /\ ReclaimBatch \in Nat
  BY FS_EmptySet, StoreAssumption
<1>2. d.batch \in SUBSET Ids /\ IsFiniteSet(Ids)
  BY FS_Interval, StoreAssumption DEF Call, Ids
<1>3. Cardinality(d.batch) \in Nat
  BY <1>2, FS_Subset, FS_CardinalityType
<1>4. IsOneBatch(d)
  BY <1>1, <1>3 DEF IsOneBatch
<1>. QED  BY <1>4, NoRowKeepsInv

LEMMA NoCallIsCall ==
  /\ NoCall \in Call
  /\ NoCall.pc = "idle" /\ NoCall.moment = 0 /\ NoCall.taken = {} /\ NoCall.ready = <<>>
  /\ NoCall.failing = {} /\ NoCall.queueing = {} /\ NoCall.batch = {}
  /\ IsOneBatch(NoCall)
<1>1. 0 \in 0 .. MaxNow /\ "idle" \in Pcs /\ <<>> \in Seq(Ids)
  BY SqlAssumption, EmptySeq DEF Pcs
<1>2. NoCall \in Call
  BY <1>1 DEF NoCall, Call
<1>3. /\ NoCall.pc = "idle" /\ NoCall.moment = 0 /\ NoCall.taken = {} /\ NoCall.ready = <<>>
      /\ NoCall.failing = {} /\ NoCall.queueing = {} /\ NoCall.batch = {}
  BY DEF NoCall
<1>4. Cardinality({}) + Cardinality({}) <= ReclaimBatch
  BY FS_EmptySet, StoreAssumption
<1>. QED  BY <1>2, <1>3, <1>4 DEF IsOneBatch

LEMMA ReturnKeepsInv ==
  ASSUME SqlInv, NEW w \in Workers, Goes(w, NoCall),
         UNCHANGED <<storeVars, now>>, handed' \subseteq Attempts, lost' \subseteq Ids
  PROVE  SqlInv'
<1>1. 0 <= now
  BY DEF SqlInv, TypeOK
<1>. QED  BY <1>1, NoCallIsCall, UnlockedKeepsInv

LEMMA BeginKeepsInv ==
  ASSUME SqlInv, NEW w \in Workers,
         (\E limit \in Limits : ReadCandidates(w, {o.queue : o \in Orders}, limit)) \/ Sweep(w) \/ Prune(w)
  PROVE  SqlInv'
<1>0. /\ now \in 0 .. MaxNow /\ now <= now /\ handed \subseteq Attempts /\ lost \subseteq Ids
      /\ {"taking", "sweeping", "purging"} \subseteq Pcs
  BY DEF SqlInv, TypeOK, Pcs
<1>1. CASE Sweep(w) \/ Prune(w)
  <2>1. PICK pc \in {"sweeping", "purging"} : Goes(w, [NoCall EXCEPT !.pc = pc, !.moment = now])
    BY <1>1 DEF Sweep, Prune
  <2>2. PICK d : d = [NoCall EXCEPT !.pc = pc, !.moment = now] /\ Goes(w, d)
    BY <2>1
  <2>3. /\ d \in Call /\ d.pc = pc /\ d.moment = now
        /\ d.taken = {} /\ d.failing = {} /\ d.queueing = {} /\ d.batch = {}
    BY <1>0, <2>2, NoCallIsCall DEF Call
  <2>4. UNCHANGED <<storeVars, now, handed, lost>>
    BY <1>1 DEF Sweep, Prune
  <2>. QED  BY <1>0, <2>2, <2>3, <2>4, UnlockedKeepsInv
<1>2. ASSUME NEW limit \in Limits, ReadCandidates(w, {o.queue : o \in Orders}, limit)
      PROVE  SqlInv'
  <2>. DEFINE first == Won({o.queue : o \in Orders}, limit * Spread, now)
  <2>1. PICK ready \in Candidates({o.queue : o \in Orders}, limit, now) :
          Goes(w, [NoCall EXCEPT !.pc = "taking", !.moment = now, !.limit = limit, !.ready = ready])
    BY <1>2 DEF ReadCandidates
  <2>2. ready \in [1 .. Cardinality(first) -> first]
    BY DEF Candidates
  <2>3. first \in SUBSET Ids /\ IsFiniteSet(Ids)
    BY FS_Interval, StoreAssumption DEF Won, Ids
  <2>. HIDE DEF first
  <2>4. Cardinality(first) \in Nat
    BY <2>3, FS_Subset, FS_CardinalityType
  <2>5. ready \in Seq(Ids)
    <3>1. ready \in [1 .. Cardinality(first) -> Ids]
      BY <2>2, <2>3
    <3>. QED  BY <2>4, <3>1, SeqDef
  <2>6. PICK d : /\ Goes(w, d)
                 /\ d = [NoCall EXCEPT !.pc = "taking", !.moment = now, !.limit = limit, !.ready = ready]
    BY <2>1
  <2>7. /\ d \in Call /\ d.pc = "taking" /\ d.moment = now
        /\ d.taken = {} /\ d.failing = {} /\ d.queueing = {} /\ d.batch = {}
    BY <1>0, <2>5, <2>6, NoCallIsCall, SqlAssumption DEF Call
  <2>8. UNCHANGED <<storeVars, now, handed, lost>>
    BY <1>2 DEF ReadCandidates
  <2>. QED  BY <1>0, <2>6, <2>7, <2>8, UnlockedKeepsInv
<1>. QED  BY <1>1, <1>2

(* A transaction begins again with nothing locked, and a claim keeps what it took. *)
LEMMA ContendedKeepsInv ==
  ASSUME SqlInv, NEW w \in Workers, Contended(w)
  PROVE  SqlInv'
<1>. DEFINE c == call[w]
<1>0. /\ c \in Call /\ c.moment <= now /\ handed \subseteq Attempts /\ lost \subseteq Ids
      /\ c.pc # "taking" => c.taken = {}
  BY DEF SqlInv, TypeOK, TakenByClaims
<1>1. PICK d : /\ Goes(w, d)
               /\ d = [c EXCEPT !.pc = Again(c.pc), !.tries = @ + 1, !.batch = {}, !.seen = {},
                                !.failing = {}, !.queueing = {}]
  BY DEF Contended
<1>2. /\ Again(c.pc) \in {"taking", "sweeping", "purging"} /\ Again(c.pc) \in Pcs
      /\ Again(c.pc) = "taking" <=> c.pc = "taking"
  BY DEF Contended, Again, Pcs
<1>3. c.tries + 1 \in Nat
  BY <1>0 DEF Call
<1>. HIDE DEF c
<1>4. /\ d \in Call /\ d.pc = Again(c.pc) /\ d.moment = c.moment /\ d.taken = c.taken
      /\ d.failing = {} /\ d.queueing = {}
  BY <1>0, <1>1, <1>2, <1>3 DEF Call
<1>5. UNCHANGED <<storeVars, now, handed, lost>>
  BY DEF Contended
<1>. QED  BY <1>0, <1>1, <1>2, <1>4, <1>5, UnlockedKeepsInv

(* The reads name a batch and lock nothing; the updates lock what the reads named and nothing   *)
(* else, and only what no other sweep has locked.                                               *)

LEMMA CallOf ==
  ASSUME SqlInv, NEW w \in Workers
  PROVE  /\ call[w] \in Call /\ call[w].moment \in 0 .. MaxNow /\ call[w].moment <= now
         /\ call[w].taken \subseteq Attempts /\ call[w].batch \subseteq Ids /\ call[w].seen \subseteq Ids
         /\ call[w].failing \subseteq Over(call[w].moment)
         /\ call[w].queueing \subseteq Left(call[w].moment)
         /\ call[w].pc # "taking" => call[w].taken = {}
         /\ IsOneBatch(call[w])
         /\ handed \subseteq Attempts /\ lost \subseteq Ids
         /\ Cardinality(call[w].failing) \in Nat /\ Cardinality(call[w].batch) \in Nat
         /\ IsFiniteSet(call[w].failing) /\ IsFiniteSet(call[w].batch)
         /\ ReclaimBatch \in Nat
<1>1. call[w] \in Call
  BY DEF SqlInv, TypeOK
<1>2. /\ call[w].moment \in 0 .. MaxNow /\ call[w].failing \in SUBSET Ids
      /\ call[w].batch \in SUBSET Ids /\ call[w].seen \in SUBSET Ids /\ call[w].taken \in SUBSET Attempts
  BY <1>1 DEF Call
<1>3. IsFiniteSet(Ids)
  BY FS_Interval, StoreAssumption DEF Ids
<1>4. IsFiniteSet(call[w].failing) /\ IsFiniteSet(call[w].batch)
  BY <1>2, <1>3, FS_Subset
<1>5. Cardinality(call[w].failing) \in Nat /\ Cardinality(call[w].batch) \in Nat
  BY <1>4, FS_CardinalityType
<1>. QED  BY <1>1, <1>2, <1>4, <1>5, StoreAssumption
            DEF SqlInv, TypeOK, TakenByClaims, LocksStand, OneBatch

LEMMA ReadKeepsInv ==
  ASSUME SqlInv, NEW w \in Workers, ReadOver(w) \/ ReadSettled(w)
  PROVE  SqlInv'
<1>. DEFINE c == call[w]
<1>0. /\ c \in Call /\ c.moment <= now /\ handed \subseteq Attempts /\ lost \subseteq Ids
      /\ c.pc # "taking" => c.taken = {}
      /\ IsOneBatch(c) /\ {"giving_up", "deleting"} \subseteq Pcs
  BY CallOf DEF Pcs
<1>1. CASE ReadOver(w)
  <2>. DEFINE batch == Oldest(Over(c.moment), ReclaimBatch)
              seen == Left(c.moment)
  <2>1. batch \in SUBSET Ids /\ Cardinality(batch) <= ReclaimBatch /\ seen \in SUBSET Ids
    <3>1. Over(c.moment) \in SUBSET Ids /\ Left(c.moment) \in SUBSET Ids /\ ReclaimBatch \in Nat
      BY StoreAssumption DEF Over, Left
    <3>. QED  BY <3>1, OldestIsBounded
  <2>2. PICK d : Goes(w, d) /\ d = [c EXCEPT !.pc = "giving_up", !.batch = batch, !.seen = seen]
    BY <1>1 DEF ReadOver
  <2>3. c.failing = {} /\ c.queueing = {} /\ c.taken = {}
    BY <1>0, <1>1 DEF ReadOver, IsOneBatch
  <2>4. UNCHANGED <<storeVars, now, handed, lost>>
    BY <1>1 DEF ReadOver
  <2>. HIDE DEF c, batch, seen
  <2>5. /\ d \in Call /\ d.pc = "giving_up" /\ d.moment = c.moment /\ d.taken = c.taken
        /\ d.failing = c.failing /\ d.queueing = c.queueing /\ d.batch = batch
    BY <1>0, <2>1, <2>2 DEF Call
  <2>. QED  BY <1>0, <2>1, <2>2, <2>3, <2>4, <2>5, UnlockedKeepsInv
<1>2. CASE ReadSettled(w)
  <2>. DEFINE batch == Oldest({r \in Ids : Prunable(r, c.moment)}, PurgeLimit)
  <2>1. batch \in SUBSET Ids
    BY DEF Oldest
  <2>2. PICK d : Goes(w, d) /\ d = [c EXCEPT !.pc = "deleting", !.batch = batch]
    BY <1>2 DEF ReadSettled
  <2>3. c.failing = {} /\ c.queueing = {} /\ c.taken = {}
    BY <1>0, <1>2 DEF ReadSettled, IsOneBatch
  <2>4. UNCHANGED <<storeVars, now, handed, lost>>
    BY <1>2 DEF ReadSettled
  <2>. HIDE DEF c, batch
  <2>5. /\ d \in Call /\ d.pc = "deleting" /\ d.moment = c.moment /\ d.taken = c.taken
        /\ d.failing = c.failing /\ d.queueing = c.queueing
    BY <1>0, <2>1, <2>2 DEF Call
  <2>. QED  BY <1>0, <2>2, <2>3, <2>4, <2>5, UnlockedKeepsInv
<1>. QED  BY <1>1, <1>2

LEMMA GiveUpKeepsInv ==
  ASSUME SqlInv, NEW w \in Workers, GiveUp(w)
  PROVE  SqlInv'
<1>. DEFINE c == call[w]
            failing == c.batch \intersect Over(c.moment)
<1>1. PICK d : Goes(w, d) /\ d = [c EXCEPT !.pc = "rereading", !.failing = failing, !.batch = {}]
  BY DEF GiveUp
<1>2. /\ c.pc = "giving_up" /\ UNCHANGED <<storeVars, now, handed, lost>>
      /\ \A r \in c.batch : ~Locked(r, w)
  BY DEF GiveUp
<1>3. /\ c \in Call /\ c.moment <= now /\ handed \subseteq Attempts /\ lost \subseteq Ids
      /\ c.taken = {} /\ c.queueing = {} /\ c.failing = {} /\ c.batch \in SUBSET Ids
      /\ Cardinality(c.failing) + Cardinality(c.batch) <= ReclaimBatch
      /\ IsFiniteSet(c.batch) /\ Cardinality(c.batch) \in Nat /\ ReclaimBatch \in Nat
  BY <1>2, CallOf DEF IsOneBatch
<1>4. /\ failing \in SUBSET c.batch /\ failing \in SUBSET Ids /\ failing \subseteq Over(c.moment)
      /\ Cardinality(failing) \in Nat /\ Cardinality(failing) <= ReclaimBatch
  <2>1. failing \in SUBSET c.batch
    OBVIOUS
  <2>2. IsFiniteSet(failing) /\ Cardinality(failing) <= Cardinality(c.batch)
    BY <1>3, <2>1, FS_Subset
  <2>3. Cardinality(failing) \in Nat /\ Cardinality({}) = 0
    BY <2>2, FS_CardinalityType, FS_EmptySet
  <2>. QED  BY <1>3, <2>2, <2>3
<1>5. \A v \in Workers \ {w} : failing \intersect LockedBy(v) = {}
  BY <1>2, <1>4 DEF Locked
<1>. HIDE DEF c, failing
<1>6. /\ d \in Call /\ d.pc = "rereading" /\ d.moment = c.moment /\ d.taken = {}
      /\ d.failing = failing /\ d.queueing = {} /\ d.batch = {}
  BY <1>1, <1>3, <1>4 DEF Call, Pcs
<1>7. IsOneBatch(d)
  BY <1>3, <1>4, <1>6, FS_EmptySet DEF IsOneBatch
<1>. QED  BY <1>1, <1>2, <1>3, <1>4, <1>5, <1>6, <1>7, NoRowKeepsInv

LEMMA ReadLeftKeepsInv ==
  ASSUME SqlInv, NEW w \in Workers, ReadLeft(w)
  PROVE  SqlInv'
<1>. DEFINE c == call[w]
            room == ReclaimBatch - Cardinality(c.failing)
<1>1. PICK visible \in {Left(c.moment), c.seen} :
        Goes(w, [c EXCEPT !.pc = "requeueing", !.batch = Oldest(visible, room), !.seen = {}])
  BY DEF ReadLeft
<1>. DEFINE batch == Oldest(visible, room)
<1>2. PICK d : Goes(w, d) /\ d = [c EXCEPT !.pc = "requeueing", !.batch = batch, !.seen = {}]
  BY <1>1
<1>3. c.pc = "rereading" /\ UNCHANGED <<storeVars, now, handed, lost>>
  BY DEF ReadLeft
<1>4. /\ c \in Call /\ c.moment <= now /\ handed \subseteq Attempts /\ lost \subseteq Ids
      /\ c.taken = {} /\ c.queueing = {} /\ c.failing \subseteq Over(c.moment)
      /\ Cardinality(c.failing) + Cardinality(c.queueing) <= ReclaimBatch
      /\ Cardinality(c.failing) \in Nat /\ ReclaimBatch \in Nat /\ c.seen \subseteq Ids
  BY <1>3, CallOf DEF IsOneBatch
<1>5. room \in Nat /\ Cardinality({}) = 0
  BY <1>4, FS_EmptySet
<1>6. visible \in SUBSET Ids
  BY <1>4 DEF Left
<1>7. batch \in SUBSET Ids /\ Cardinality(batch) \in Nat /\ Cardinality(batch) <= room
  <2>. HIDE DEF room, c
  <2>1. batch \in SUBSET visible /\ Cardinality(batch) \in Nat /\ Cardinality(batch) <= room
    BY <1>5, <1>6, OldestIsBounded
  <2>. QED  BY <1>6, <2>1
<1>8. \A v \in Workers \ {w} : c.failing \intersect LockedBy(v) = {}
  BY DEF SqlInv, LocksApart, LockedBy
<1>. HIDE DEF c, batch
<1>9. /\ d \in Call /\ d.pc = "requeueing" /\ d.moment = c.moment /\ d.taken = {}
      /\ d.failing = c.failing /\ d.queueing = {} /\ d.batch = batch
  BY <1>2, <1>4, <1>7 DEF Call, Pcs
<1>10. IsOneBatch(d)
  BY <1>4, <1>5, <1>7, <1>9 DEF IsOneBatch
<1>. QED  BY <1>2, <1>3, <1>4, <1>8, <1>9, <1>10, NoRowKeepsInv

LEMMA RequeueKeepsInv ==
  ASSUME SqlInv, NEW w \in Workers, Requeue(w)
  PROVE  SqlInv'
<1>. DEFINE c == call[w]
            queueing == c.batch \intersect Left(c.moment)
<1>1. PICK d : Goes(w, d) /\ d = [c EXCEPT !.pc = "committing", !.queueing = queueing, !.batch = {}]
  BY DEF Requeue
<1>2. /\ c.pc = "requeueing" /\ UNCHANGED <<storeVars, now, handed, lost>>
      /\ \A r \in c.batch : ~Locked(r, w)
  BY DEF Requeue
<1>3. /\ c \in Call /\ c.moment <= now /\ handed \subseteq Attempts /\ lost \subseteq Ids
      /\ c.taken = {} /\ c.failing \subseteq Over(c.moment) /\ c.batch \in SUBSET Ids
      /\ Cardinality(c.failing) + Cardinality(c.batch) <= ReclaimBatch
      /\ IsFiniteSet(c.batch) /\ Cardinality(c.batch) \in Nat /\ Cardinality(c.failing) \in Nat
      /\ ReclaimBatch \in Nat
  BY <1>2, CallOf DEF IsOneBatch
<1>4. /\ queueing \in SUBSET Ids /\ queueing \subseteq Left(c.moment)
      /\ Cardinality(c.failing) + Cardinality(queueing) <= ReclaimBatch
  <2>1. queueing \in SUBSET c.batch
    OBVIOUS
  <2>2. IsFiniteSet(queueing) /\ Cardinality(queueing) <= Cardinality(c.batch)
    BY <1>3, <2>1, FS_Subset
  <2>3. Cardinality(queueing) \in Nat
    BY <2>2, FS_CardinalityType
  <2>. QED  BY <1>3, <2>1, <2>2, <2>3
<1>5. \A v \in Workers \ {w} : (c.failing \union queueing) \intersect LockedBy(v) = {}
  <2>1. \A v \in Workers \ {w} : c.failing \intersect LockedBy(v) = {}
    BY DEF SqlInv, LocksApart, LockedBy
  <2>2. \A v \in Workers \ {w} : queueing \intersect LockedBy(v) = {}
    BY <1>2 DEF Locked
  <2>. QED  BY <2>1, <2>2
<1>. HIDE DEF c, queueing
<1>6. /\ d \in Call /\ d.pc = "committing" /\ d.moment = c.moment /\ d.taken = {}
      /\ d.failing = c.failing /\ d.queueing = queueing
  BY <1>1, <1>3, <1>4 DEF Call, Pcs
<1>7. IsOneBatch(d)
  BY <1>4, <1>6 DEF IsOneBatch
<1>. QED  BY <1>1, <1>2, <1>3, <1>4, <1>5, <1>6, <1>7, NoRowKeepsInv

-----------------------------------------------------------------------------
(* The steps that write rows. *)

(* What is locked is running, and was written. *)
LEMMA LockedRuns ==
  ASSUME SqlInv, NEW v \in Workers, NEW r \in LockedBy(v)
  PROVE  r \in Ids /\ runs[r].status = "running" /\ r < sequence
<1>1. r \in Ids /\ runs[r].status = "running"
  BY CallOf DEF LockedBy, Over, Left, Expired
<1>2. r \in Int /\ sequence \in Int
  BY <1>1, StoreAssumption DEF SqlInv, TypeOK, StoreType, Ids
<1>3. ~(r >= sequence)
  BY <1>1 DEF SqlInv, UnwrittenIsAbsent, Present
<1>. QED  BY <1>1, <1>2, <1>3

LEMMA NobodyLocks ==
  ASSUME NEW r, ~Locked(r, Nobody), NEW v \in Workers
  PROVE  r \notin LockedBy(v)
BY StoreAssumption DEF Locked

(* A call that is over, or goes on with nothing locked, wrote rows nobody else has locked. *)
LEMMA WritingKeepsInv ==
  ASSUME SqlInv, NEW w \in Workers, NEW d \in Call, Goes(w, d),
         StoreType', UNCHANGED <<asked, sequence, now>>, handed' \subseteq Attempts, lost' \subseteq Ids,
         \A r \in Ids : runs[r].status = "absent" => runs'[r].status = "absent",
         \A v \in Workers \ {w} : \A r \in LockedBy(v) : runs'[r] = runs[r],
         d.moment <= now, d.pc \in {"idle", "taking"}, d.pc # "taking" => d.taken = {},
         d.failing = {}, d.queueing = {}
  PROVE  SqlInv'
<1>0. TypeOK /\ call \in [Workers -> Call]
  BY DEF SqlInv, TypeOK
<1>1. /\ call'[w] = d /\ \A v \in Workers \ {w} : call'[v] = call[v]
      /\ call' \in [Workers -> Call]
  BY <1>0, GoesTo
<1>2. TypeOK'
  <2>1. \A v \in Workers : call'[v].moment <= now'
    BY <1>0, <1>1 DEF TypeOK
  <2>. QED  BY <1>0, <1>1, <2>1 DEF TypeOK
<1>3. UnwrittenIsAbsent'
  BY DEF SqlInv, UnwrittenIsAbsent, Present
<1>4. Cardinality({}) + Cardinality({}) <= ReclaimBatch
  BY FS_EmptySet, StoreAssumption
<1>5. Stands(w)'
  <2>1. (call[w].failing = {} /\ call[w].queueing = {})' /\ call'[w].pc \in {"idle", "taking"}
    BY <1>1
  <2>2. (call[w].failing \subseteq Over(call[w].moment) /\ call[w].queueing \subseteq Left(call[w].moment))'
    BY <2>1
  <2>3. IsOneBatch(call[w])'
    BY <1>4, <2>1 DEF IsOneBatch
  <2>. QED  BY <1>1, <2>2, <2>3 DEF Stands
<1>6. \A v \in Workers \ {w} : LockedBy(w)' \intersect LockedBy(v)' = {}
  BY <1>1 DEF LockedBy
<1>. DEFINE W == {w}
<1>7. /\ W \in SUBSET Workers
      /\ \A v \in Workers \ W : /\ call'[v] = call[v]
                               /\ \A r \in LockedBy(v) : runs'[r] = runs[r] /\ asked'[r] = asked[r]
  BY <1>1
<1>8. /\ \A v \in W : Stands(v)'
      /\ \A u \in W, v \in Workers : v # u => LockedBy(u)' \intersect LockedBy(v)' = {}
  BY <1>5, <1>6
<1>. HIDE DEF W
<1>. QED  BY <1>2, <1>3, <1>7, <1>8, StepKeepsInv

(* A call of one statement, or the clock. *)
LEMMA StatementKeepsInv ==
  ASSUME SqlInv, UNCHANGED call, StoreType', now' \in now .. MaxNow,
         handed' \subseteq Attempts, lost' \subseteq Ids, UnwrittenIsAbsent',
         \A v \in Workers : \A r \in LockedBy(v) : runs'[r] = runs[r] /\ asked'[r] = asked[r]
  PROVE  SqlInv'
<1>1. TypeOK'
  <2>1. now \in 0 .. MaxNow /\ MaxNow \in Nat /\ now' \in 0 .. MaxNow /\ now <= now'
    BY SqlAssumption DEF SqlInv, TypeOK
  <2>2. \A v \in Workers : call[v].moment \in Int /\ call[v].moment <= now
    BY CallOf
  <2>3. \A v \in Workers : call'[v].moment <= now'
    BY <2>1, <2>2
  <2>. QED  BY <2>1, <2>3 DEF SqlInv, TypeOK
<1>. DEFINE W == {}
<1>2. /\ W \in SUBSET Workers
      /\ \A v \in Workers \ W : /\ call'[v] = call[v]
                               /\ \A r \in LockedBy(v) : runs'[r] = runs[r] /\ asked'[r] = asked[r]
      /\ \A v \in W : Stands(v)'
      /\ \A u \in W, v \in Workers : v # u => LockedBy(u)' \intersect LockedBy(v)' = {}
  OBVIOUS
<1>. HIDE DEF W
<1>. QED  BY <1>1, <1>2, StepKeepsInv

LEMMA TakeWrites ==
  ASSUME SqlInv, NEW w \in Workers, NEW r \in Ids, TakeIt(w, r)
  PROVE  /\ StoreType' /\ UNCHANGED <<asked, sequence>>
         /\ \A q \in Ids \ {r} : runs'[q] = runs[q]
         /\ runs[r].status = "pending" /\ runs[r].due_at <= call[w].moment
         /\ runs'[r] = ClaimedBy(runs[r], w, call[w].moment)
         /\ runs'[r].status = "running" /\ runs'[r].worker = w
         /\ runs'[r].attempts = runs[r].attempts + 1 /\ runs[r].attempts + 1 \in Int
         /\ \A v \in Workers \ {w} : \A q \in LockedBy(v) : runs'[q] = runs[q]
<1>. DEFINE row == ClaimedBy(runs[r], w, call[w].moment)
<1>0. /\ StoreType /\ runs[r] \in RowType /\ call[w].moment \in Int
      /\ 0 \in Int /\ "done" \in Settled
  BY CallOf DEF SqlInv, TypeOK, StoreType, Settled
<1>1. row \in RowType
  BY <1>0, RowsAre
<1>2. row.status = "running" /\ row.worker = w /\ row.attempts = runs[r].attempts + 1
  BY <1>0, FieldsAre
<1>3. Write(r, row) /\ StillMine(r, call[w].moment) /\ ~Locked(r, w)
  BY DEF TakeIt
<1>. HIDE DEF row
<1>4. /\ StoreType' /\ UNCHANGED <<asked, sequence>>
      /\ \A q \in Ids : runs'[q] = IF q = r THEN row ELSE runs[q]
  BY <1>0, <1>1, <1>3, WriteStores
<1>5. \A v \in Workers \ {w} : \A q \in LockedBy(v) : q \in Ids /\ q # r
  BY <1>3, LockedRuns DEF Locked
<1>6. runs[r].attempts + 1 \in Int
  BY <1>0 DEF RowType
<1>. QED  BY <1>2, <1>3, <1>4, <1>5, <1>6 DEF StillMine, row

(* The first candidate left is an id. *)
LEMMA HeadIsId ==
  ASSUME SqlInv, NEW w \in Workers, Taking(w)
  PROVE  /\ Head(call[w].ready) \in Ids /\ Tail(call[w].ready) \in Seq(Ids)
         /\ call[w].pc = "taking" /\ call[w].failing = {} /\ call[w].queueing = {}
<1>1. call[w].ready \in Seq(Ids) /\ call[w].ready # <<>>
  BY CallOf DEF Call, Taking
<1>2. Head(call[w].ready) \in Ids /\ Tail(call[w].ready) \in Seq(Ids)
  BY <1>1, HeadTailProperties
<1>. QED  BY <1>2, CallOf DEF Taking, IsOneBatch

LEMMA TakeNextKeepsInv ==
  ASSUME SqlInv, NEW w \in Workers, TakeNext(w)
  PROVE  SqlInv'
<1>. DEFINE c == call[w]
            r == Head(c.ready)
            mine == Attempt(w, r, runs[r].attempts + 1)
<1>0. /\ c \in Call /\ c.moment <= now /\ c.taken \subseteq Attempts
      /\ handed \subseteq Attempts /\ lost \subseteq Ids /\ UNCHANGED <<now, handed>>
  BY CallOf DEF TakeNext
<1>1. r \in Ids /\ Tail(c.ready) \in Seq(Ids) /\ c.pc = "taking" /\ c.failing = {} /\ c.queueing = {}
  BY HeadIsId DEF TakeNext
<1>2. CASE /\ TakeIt(w, r)
           /\ Goes(w, [c EXCEPT !.ready = Tail(@), !.tries = 0, !.taken = @ \union {mine}])
           /\ lost' = lost \ {r}
  <2>1. /\ StoreType' /\ UNCHANGED <<asked, sequence>>
        /\ \A q \in Ids \ {r} : runs'[q] = runs[q]
        /\ runs[r].status = "pending" /\ runs[r].attempts + 1 \in Int
        /\ \A v \in Workers \ {w} : \A q \in LockedBy(v) : runs'[q] = runs[q]
    BY <1>1, <1>2, TakeWrites
  <2>2. mine \in Attempts
    BY <1>1, <2>1 DEF Attempt, Attempts
  <2>3. PICK d : Goes(w, d) /\ d = [c EXCEPT !.ready = Tail(@), !.tries = 0, !.taken = @ \union {mine}]
    BY <1>2
  <2>4. lost' \subseteq Ids /\ handed' \subseteq Attempts
    BY <1>0, <1>2
  <2>5. \A q \in Ids : runs[q].status = "absent" => runs'[q].status = "absent"
    BY <2>1
  <2>. HIDE DEF c, r, mine
  <2>6. /\ d \in Call /\ d.pc = "taking" /\ d.moment = c.moment
        /\ d.failing = {} /\ d.queueing = {}
    BY <1>0, <1>1, <2>2, <2>3 DEF Call
  <2>. QED  BY <1>0, <2>1, <2>3, <2>4, <2>5, <2>6, WritingKeepsInv
<1>3. CASE Goes(w, [c EXCEPT !.ready = Tail(@), !.tries = 0]) /\ UNCHANGED <<storeVars, lost>>
  <2>1. PICK d : Goes(w, d) /\ d = [c EXCEPT !.ready = Tail(@), !.tries = 0]
    BY <1>3
  <2>. HIDE DEF c, r, mine
  <2>2. /\ d \in Call /\ d.pc = "taking" /\ d.moment = c.moment
        /\ d.failing = {} /\ d.queueing = {}
    BY <1>0, <1>1, <2>1 DEF Call
  <2>. QED  BY <1>0, <1>3, <2>1, <2>2, UnlockedKeepsInv
<1>. QED  BY <1>2, <1>3 DEF TakeNext

LEMMA TakeUnheardKeepsInv ==
  ASSUME SqlInv, NEW w \in Workers, TakeUnheard(w)
  PROVE  SqlInv'
<1>. DEFINE r == Head(call[w].ready)
<1>1. r \in Ids
  BY HeadIsId DEF TakeUnheard
<1>2. /\ Goes(w, NoCall) /\ UNCHANGED now /\ TakeIt(w, r)
      /\ handed' \subseteq Attempts /\ lost' \subseteq Ids
  BY <1>1, CallOf DEF TakeUnheard
<1>3. /\ StoreType' /\ UNCHANGED <<asked, sequence>>
      /\ \A q \in Ids \ {r} : runs'[q] = runs[q]
      /\ runs[r].status = "pending"
      /\ \A v \in Workers \ {w} : \A q \in LockedBy(v) : runs'[q] = runs[q]
  BY <1>1, <1>2, TakeWrites
<1>4. \A q \in Ids : runs[q].status = "absent" => runs'[q].status = "absent"
  BY <1>3
<1>5. 0 <= now
  BY DEF SqlInv, TypeOK
<1>. QED  BY <1>2, <1>3, <1>4, <1>5, NoCallIsCall, WritingKeepsInv

LEMMA AnswerKeepsInv ==
  ASSUME SqlInv, NEW w \in Workers,
         Broken(w) \/ TakeBroken(w) \/ ClaimAnswered(w) \/ Crash(w)
  PROVE  SqlInv'
<1>1. Goes(w, NoCall) /\ UNCHANGED <<storeVars, now>>
  BY DEF Broken, TakeBroken, ClaimAnswered, Crash
<1>2. handed' \subseteq Attempts
  BY CallOf DEF Broken, TakeBroken, ClaimAnswered, Crash
<1>3. lost' \subseteq Ids
  <2>1. CASE Crash(w)
    <3>1. handed \subseteq Attempts /\ call[w].taken \subseteq Attempts /\ lost \subseteq Ids
      BY CallOf
    <3>2. \A a \in Attempts : a.run \in Ids
      BY DEF Attempts
    <3>. QED  BY <2>1, <3>1, <3>2 DEF Crash
  <2>. QED  BY <2>1, CallOf DEF Broken, TakeBroken, ClaimAnswered
<1>. QED  BY <1>1, <1>2, <1>3, ReturnKeepsInv

(* What a commit, a deletion and a beat leave of a row that nobody had locked. *)

LEMMA CommitWrites ==
  ASSUME SqlInv, NEW w \in Workers, Commit(w)
  PROVE  /\ StoreType' /\ UNCHANGED <<asked, sequence, now, handed, lost>>
         /\ runs' = [r \in Ids |-> IF r \in LockedBy(w) THEN TakenBack(r, call[w].moment) ELSE runs[r]]
         /\ \A r \in LockedBy(w) : /\ Expired(r, call[w].moment)
                                   /\ runs'[r].status \in {"failed", "pending"}
         /\ \A r \in Ids \ LockedBy(w) : runs'[r] = runs[r]
<1>. DEFINE c == call[w]
<1>1. /\ \A r \in c.failing : Expired(r, c.moment) /\ Exhausted(r)
      /\ \A r \in c.queueing : Expired(r, c.moment) /\ ~Exhausted(r)
      /\ c.moment \in Int /\ StoreType
  BY CallOf DEF Over, Left, SqlInv, TypeOK
<1>2. runs' = [r \in Ids |-> IF r \in LockedBy(w) THEN TakenBack(r, c.moment) ELSE runs[r]]
  <2>1. \A r \in Ids : (IF r \in c.failing THEN Closed(runs[r], "failed", c.moment)
                        ELSE IF r \in c.queueing THEN Requeued(runs[r], c.moment, 0)
                        ELSE runs[r])
                     = IF r \in LockedBy(w) THEN TakenBack(r, c.moment) ELSE runs[r]
    BY <1>1 DEF LockedBy, TakenBack
  <2>. QED  BY <2>1 DEF Commit
<1>3. ASSUME NEW r \in Ids
      PROVE  /\ TakenBack(r, c.moment) \in RowType
             /\ TakenBack(r, c.moment).status \in {"failed", "pending"}
  <2>1. runs[r] \in RowType /\ "failed" \in Settled /\ 0 \in Int
    BY <1>1 DEF StoreType, Settled
  <2>2. /\ Requeued(runs[r], c.moment, 0).status = "pending"
        /\ Closed(runs[r], "failed", c.moment).status = "failed"
    BY <1>1, <2>1, FieldsAre
  <2>3. Requeued(runs[r], c.moment, 0) \in RowType /\ Closed(runs[r], "failed", c.moment) \in RowType
    <3>1. NoInstant \in Int /\ runs[r].attempts + 0 \in Int /\ {"failed", "pending"} \subseteq Statuses
      BY <2>1 DEF NoInstant, RowType, Statuses, Settled
    <3>2. Requeued(runs[r], c.moment, 0) \in RowType
      BY <1>1, <2>1, <3>1 DEF RowType, Requeued
    <3>3. Closed(runs[r], "failed", c.moment) \in RowType
      BY <1>1, <2>1, <3>1 DEF RowType, Closed
    <3>. QED  BY <3>2, <3>3
  <2>. QED  BY <2>2, <2>3 DEF TakenBack
<1>4. UNCHANGED <<asked, sequence, now, handed, lost>>
  BY DEF Commit
<1>5. runs' \in [Ids -> RowType]
  BY <1>1, <1>2, <1>3 DEF StoreType
<1>6. \A r \in LockedBy(w) : r \in Ids
  BY LockedRuns
<1>7. \A r \in LockedBy(w) : /\ Expired(r, c.moment)
                             /\ runs'[r].status \in {"failed", "pending"}
  BY <1>1, <1>2, <1>3, <1>6 DEF LockedBy
<1>8. \A r \in Ids \ LockedBy(w) : runs'[r] = runs[r]
  BY <1>2
<1>. QED  BY <1>1, <1>2, <1>4, <1>5, <1>7, <1>8 DEF StoreType

LEMMA CommitKeepsInv ==
  ASSUME SqlInv, NEW w \in Workers, Commit(w)
  PROVE  SqlInv'
<1>1. \A r \in Ids : runs[r].status = "absent" => runs'[r].status = "absent"
  BY CommitWrites, LockedRuns
<1>2. \A v \in Workers \ {w} : \A r \in LockedBy(v) : runs'[r] = runs[r]
  <2>. SUFFICES ASSUME NEW v \in Workers \ {w}, NEW r \in LockedBy(v)
                PROVE  r \in Ids \ LockedBy(w)
    BY CommitWrites
  <2>. QED  BY LockedRuns DEF SqlInv, LocksApart
<1>3. Goes(w, NoCall) /\ 0 <= now
  BY DEF Commit, SqlInv, TypeOK
<1>. QED  BY <1>1, <1>2, <1>3, CommitWrites, CallOf, NoCallIsCall, WritingKeepsInv

LEMMA DeleteWrites ==
  ASSUME SqlInv, NEW w \in Workers, Delete(w)
  PROVE  /\ StoreType' /\ UNCHANGED <<asked, sequence, now, handed, lost>>
         /\ \A r \in Ids : \/ runs'[r] = runs[r]
                           \/ runs'[r] = Absent /\ runs'[r].status = "absent"
                              /\ Prunable(r, call[w].moment) /\ runs[r].status # "running"
<1>1. Absent \in RowType /\ Absent.status = "absent"
  BY StoreAssumption DEF Absent, RowType, NoInstant
<1>2. \A r \in Ids : Prunable(r, call[w].moment) => runs[r].status # "running"
  BY DEF Prunable, Settled
<1>. QED  BY <1>1, <1>2 DEF Delete, SqlInv, TypeOK, StoreType

LEMMA DeleteKeepsInv ==
  ASSUME SqlInv, NEW w \in Workers, Delete(w)
  PROVE  SqlInv'
<1>1. \A r \in Ids : runs[r].status = "absent" => runs'[r].status = "absent"
  BY DeleteWrites
<1>2. \A v \in Workers \ {w} : \A r \in LockedBy(v) : runs'[r] = runs[r]
  BY DeleteWrites, LockedRuns
<1>3. Goes(w, NoCall) /\ 0 <= now
  BY DEF Delete, SqlInv, TypeOK
<1>. QED  BY <1>1, <1>2, <1>3, DeleteWrites, CallOf, NoCallIsCall, WritingKeepsInv

LEMMA InsertKeepsInv ==
  ASSUME SqlInv, NEW order \in Orders, NEW delay \in Delays, Insert(order, delay)
  PROVE  SqlInv'
<1>0. /\ StoreType /\ now + delay \in Int /\ now \in now .. MaxNow
      /\ handed \subseteq Attempts /\ lost \subseteq Ids
  BY SqlAssumption DEF SqlInv, TypeOK
<1>1. /\ StoreType' /\ sequence \in Ids /\ sequence' = sequence + 1
      /\ \A q \in Ids : /\ runs'[q] = IF q = sequence THEN Written(now + delay) ELSE runs[q]
                        /\ asked'[q] = IF q = sequence THEN order ELSE asked[q]
  BY <1>0, AddStores DEF Insert
<1>2. UNCHANGED <<now, call, handed, lost>>
  BY DEF Insert, sqlVars
<1>3. \A v \in Workers : \A r \in LockedBy(v) : r \in Ids /\ r # sequence
  <2>1. sequence \in Int
    BY <1>1 DEF Ids
  <2>. QED  BY <2>1, LockedRuns
<1>4. UnwrittenIsAbsent'
  <2>. SUFFICES ASSUME NEW r \in Ids, r >= sequence + 1
                PROVE  runs'[r].status = "absent"
    BY <1>1 DEF UnwrittenIsAbsent, Present
  <2>1. r >= sequence /\ r # sequence
    BY <1>1 DEF Ids
  <2>. QED  BY <1>1, <2>1 DEF SqlInv, UnwrittenIsAbsent, Present
<1>. QED  BY <1>0, <1>1, <1>2, <1>3, <1>4, StatementKeepsInv

(* One row is written that nobody had locked, and it was there before. *)
LEMMA RowKeepsInv ==
  ASSUME SqlInv, NEW r \in Ids, UNCHANGED <<asked, sequence, now, call>>, StoreType',
         runs[r].status # "absent", \A q \in Ids \ {r} : runs'[q] = runs[q],
         \A v \in Workers : r \notin LockedBy(v),
         handed' \subseteq Attempts, lost' \subseteq Ids
  PROVE  SqlInv'
<1>1. UnwrittenIsAbsent'
  BY DEF SqlInv, UnwrittenIsAbsent, Present
<1>2. \A v \in Workers : \A q \in LockedBy(v) : runs'[q] = runs[q] /\ asked'[q] = asked[q]
  BY LockedRuns
<1>3. now \in now .. MaxNow
  BY SqlAssumption DEF SqlInv, TypeOK
<1>. QED  BY <1>1, <1>2, <1>3, StatementKeepsInv

LEMMA CancelRunKeepsInv ==
  ASSUME SqlInv, NEW r \in Ids, CancelRun(r)
  PROVE  SqlInv'
<1>1. StoreType /\ now \in Int /\ UNCHANGED <<now, call, handed, lost>>
  BY DEF SqlInv, TypeOK, CancelRun, sqlVars
<1>2. /\ StoreType' /\ UNCHANGED <<asked, sequence>>
      /\ \A q \in Ids \ {r} : runs'[q] = runs[q]
      /\ runs[r].status = "pending"
  BY <1>1, CancelStores DEF CancelRun
<1>3. \A v \in Workers : r \notin LockedBy(v)
  BY <1>2, LockedRuns
<1>4. handed' \subseteq Attempts /\ lost' \subseteq Ids
  BY <1>1 DEF SqlInv, TypeOK
<1>. QED  BY <1>1, <1>2, <1>3, <1>4, RowKeepsInv

LEMMA AttemptOf ==
  ASSUME SqlInv, NEW a \in handed
  PROVE  /\ a.run \in Ids /\ a.worker \in Workers /\ a.attempt \in Int
         /\ handed \subseteq Attempts /\ lost \subseteq Ids /\ StoreType
         /\ now \in Int /\ \A delay \in Delays : now + delay \in Int
BY SqlAssumption DEF SqlInv, TypeOK, Attempts

LEMMA BeatKeepsInv ==
  ASSUME SqlInv, NEW a \in handed, Beat(a)
  PROVE  SqlInv'
<1>1. /\ StoreType' /\ UNCHANGED <<asked, sequence>>
      /\ \A q \in Ids \ {a.run} : runs'[q] = runs[q]
  BY AttemptOf, HeartbeatStores DEF Beat
<1>2. UNCHANGED <<now, call, handed, lost>> /\ runs[a.run].status = "running"
  BY DEF Beat, sqlVars, Heartbeat, Held
<1>3. \A v \in Workers : a.run \notin LockedBy(v)
  BY NobodyLocks DEF Beat
<1>. QED  BY <1>1, <1>2, <1>3, AttemptOf, RowKeepsInv

(* An ending: refused, or the row is written by the attempt that held it. *)
LEMMA EndWrites ==
  ASSUME SqlInv, NEW a \in handed, End(a)
  PROVE  /\ UNCHANGED <<asked, sequence, now, call, lost>> /\ handed' = handed \ {a}
         /\ \/ UNCHANGED runs /\ ~Holds(a)
            \/ /\ Holds(a) /\ StoreType'
               /\ \A q \in Ids \ {a.run} : runs'[q] = runs[q]
               /\ runs'[a.run].status \in {"done", "failed", "pending"}
<1>1. ASSUME NEW moment \in Int,
             \/ Complete(a.run, a.worker, a.attempt, moment)
             \/ Fail(a.run, a.worker, a.attempt, moment)
             \/ RetryLater(a.run, a.worker, a.attempt, moment)
             \/ Release(a.run, a.worker, a.attempt, moment)
      PROVE  /\ Holds(a) /\ StoreType' /\ UNCHANGED <<asked, sequence>>
             /\ \A q \in Ids \ {a.run} : runs'[q] = runs[q]
             /\ runs'[a.run].status \in {"done", "failed", "pending"}
  BY <1>1, AttemptOf, EndingStores DEF Holds
<1>. QED  BY <1>1, AttemptOf DEF End, storeVars

LEMMA EndKeepsInv ==
  ASSUME SqlInv, NEW a \in handed, End(a)
  PROVE  SqlInv'
<1>1. /\ UNCHANGED <<asked, sequence, now, call, lost>>
      /\ handed' \subseteq Attempts /\ lost' \subseteq Ids
      /\ \A v \in Workers : a.run \notin LockedBy(v)
  BY AttemptOf, EndWrites, NobodyLocks DEF End
<1>2. CASE Holds(a) /\ StoreType' /\ \A q \in Ids \ {a.run} : runs'[q] = runs[q]
  BY <1>1, <1>2, AttemptOf, RowKeepsInv DEF Holds, Held
<1>3. CASE UNCHANGED runs
  <2>1. StoreType' /\ UnwrittenIsAbsent' /\ now \in now .. MaxNow
    BY <1>1, <1>3, SqlAssumption DEF SqlInv, TypeOK, StoreType, UnwrittenIsAbsent, Present
  <2>. QED  BY <1>1, <1>3, <2>1, StatementKeepsInv
<1>. QED  BY <1>2, <1>3, EndWrites

LEMMA QuietKeepsInv ==
  ASSUME SqlInv, Tick \/ (\E a \in handed : EndLost(a)) \/ UNCHANGED vars
  PROVE  SqlInv'
<1>1. UNCHANGED <<runs, asked, sequence, call>>
  BY DEF Tick, EndLost, vars, storeVars
<1>2. StoreType' /\ UnwrittenIsAbsent'
  BY <1>1 DEF SqlInv, TypeOK, StoreType, UnwrittenIsAbsent, Present
<1>3. now' \in now .. MaxNow
  BY SqlAssumption DEF SqlInv, TypeOK, Tick, EndLost, vars
<1>4. handed' \subseteq Attempts /\ lost' \subseteq Ids
  BY AttemptOf DEF SqlInv, TypeOK, Tick, EndLost, vars
<1>. QED  BY <1>1, <1>2, <1>3, <1>4, StatementKeepsInv

-----------------------------------------------------------------------------
LEMMA InitKeepsInv ==
  ASSUME Init
  PROVE  SqlInv
<1>1. Absent \in RowType /\ Absent.status = "absent"
  BY StoreAssumption DEF Absent, RowType, NoInstant
<1>2. StoreType /\ UnwrittenIsAbsent
  <2>1. 1 \in 1 .. MaxRuns + 1
    BY StoreAssumption
  <2>. QED  BY <1>1, <2>1 DEF Init, StoreInit, StoreType, UnwrittenIsAbsent, Present
<1>3. TypeOK
  BY <1>2, NoCallIsCall, SqlAssumption DEF Init, TypeOK
<1>4. \A w \in Workers : call[w] = NoCall /\ LockedBy(w) = {}
  BY NoCallIsCall DEF Init, LockedBy
<1>. QED  BY <1>2, <1>3, <1>4, NoCallIsCall
         DEF SqlInv, TakenByClaims, LocksStand, LocksApart, OneBatch

LEMMA NextKeepsInv ==
  ASSUME SqlInv, [Next]_vars
  PROVE  SqlInv'
<1>1. ASSUME NEW w \in Workers, CallStep(w)
      PROVE  SqlInv'
  BY <1>1, AnswerKeepsInv, ContendedKeepsInv, TakeNextKeepsInv, TakeUnheardKeepsInv, ReadKeepsInv,
     GiveUpKeepsInv, ReadLeftKeepsInv, RequeueKeepsInv, CommitKeepsInv, DeleteKeepsInv DEF CallStep
<1>. QED  BY <1>1, QuietKeepsInv, InsertKeepsInv, CancelRunKeepsInv, BeatKeepsInv, EndKeepsInv,
             BeginKeepsInv, AnswerKeepsInv DEF Next

(* store/sqlalchemy.py:290-318 - between its reads and its commit a sweep holds locks only on   *)
(* rows that still are what it read, that no other sweep holds, and no more than one batch.     *)
THEOREM SqlInvariant == Spec => []SqlInv
<1>1. Init => SqlInv
  BY InitKeepsInv
<1>2. SqlInv /\ [Next]_vars => SqlInv'
  BY NextKeepsInv
<1>. QED  BY <1>1, <1>2, PTL DEF Spec

-----------------------------------------------------------------------------
(* Nobody is left without an answer. *)

(* The attempt a running row is under, and what holds of it. *)
Current(r) == Attempt(runs[r].worker, r, runs[r].attempts)

AnsweredOr(r) == runs[r].status = "running" => Answering(Current(r)) \/ r \in lost

LEMMA AnsweredIs == RunningIsAnswered <=> \A r \in Ids : AnsweredOr(r)
BY DEF RunningIsAnswered, AnsweredOr, Current

(* A row that stays under its attempt is answered for while what answered for it does. *)
LEMMA StaysAnswered ==
  ASSUME NEW r \in Ids, AnsweredOr(r),
         runs'[r].status = "running" =>
           /\ runs[r].status = "running"
           /\ runs'[r].worker = runs[r].worker /\ runs'[r].attempts = runs[r].attempts,
         r \in lost => r \in lost',
         runs'[r].status = "running" => \A a : a = Current(r) /\ Answering(a) => Answering(a)' \/ r \in lost'
  PROVE  AnsweredOr(r)'
<1>. SUFFICES ASSUME runs'[r].status = "running"
              PROVE  (Answering(Current(r)) \/ r \in lost)'
  BY DEF AnsweredOr
<1>1. PICK a : a = Current(r)
  OBVIOUS
<1>2. a = Current(r)'
  BY <1>1 DEF Current, Attempt
<1>3. Answering(a)' => (Answering(Current(r)))'
  BY <1>2 DEF Answering
<1>4. Answering(a) \/ r \in lost
  BY <1>1 DEF AnsweredOr, Answering
<1>. QED  BY <1>1, <1>3, <1>4

(* What the attempts a worker has taken, and those that were handed out, may become.            *)
LEMMA CallAnswers ==
  ASSUME SqlInv, RunningIsAnswered, NEW w \in Workers, NEW d, Goes(w, d), UNCHANGED runs,
         call[w].taken \subseteq d.taken \union handed', handed \subseteq handed', lost \subseteq lost'
  PROVE  RunningIsAnswered'
<1>1. call'[w] = d /\ \A v \in Workers \ {w} : call'[v] = call[v]
  BY GoesTo DEF SqlInv, TypeOK
<1>2. \A a : Answering(a) => Answering(a)'
  BY <1>1 DEF Answering
<1>3. \A r \in Ids : AnsweredOr(r)'
  BY <1>2, AnsweredIs, StaysAnswered
<1>. QED  BY <1>3 DEF RunningIsAnswered, AnsweredOr, Current

LEMMA ClaimAnswers ==
  ASSUME SqlInv, RunningIsAnswered, NEW w \in Workers, NEW r \in Ids, TakeIt(w, r), NEW d, Goes(w, d),
         call[w].taken \subseteq d.taken \union handed', handed \subseteq handed',
         lost \ {r} \subseteq lost',
         r \in lost' \/ Attempt(w, r, runs[r].attempts + 1) \in d.taken
  PROVE  RunningIsAnswered'
<1>1. call'[w] = d /\ \A v \in Workers \ {w} : call'[v] = call[v]
  BY GoesTo DEF SqlInv, TypeOK
<1>2. \A a : Answering(a) => Answering(a)'
  BY <1>1 DEF Answering
<1>3. /\ runs'[r].status = "running" /\ runs'[r].worker = w
      /\ runs'[r].attempts = runs[r].attempts + 1
      /\ \A q \in Ids \ {r} : runs'[q] = runs[q]
  BY TakeWrites
<1>4. AnsweredOr(r)'
  <2>1. PICK a : a = Attempt(w, r, runs[r].attempts + 1)
    OBVIOUS
  <2>2. a = Current(r)'
    BY <1>3, <2>1 DEF Current
  <2>3. a \in call'[w].taken \/ r \in lost'
    BY <1>1, <2>1
  <2>. QED  BY <2>2, <2>3 DEF AnsweredOr, Answering
<1>5. \A q \in Ids \ {r} : AnsweredOr(q)'
  BY <1>2, <1>3, AnsweredIs, StaysAnswered
<1>. QED  BY <1>4, <1>5 DEF RunningIsAnswered, AnsweredOr, Current

(* Rows that leave the running, or stay as they are, with every answer still given. *)
LEMMA RowsAnswer ==
  ASSUME RunningIsAnswered, handed \subseteq handed', lost \subseteq lost',
         \A w \in Workers : call[w].taken \subseteq call'[w].taken,
         \A r \in Ids : runs'[r].status = "running" =>
           /\ runs[r].status = "running"
           /\ runs'[r].worker = runs[r].worker /\ runs'[r].attempts = runs[r].attempts
  PROVE  RunningIsAnswered'
<1>1. \A a : Answering(a) => Answering(a)'
  BY DEF Answering
<1>2. \A r \in Ids : AnsweredOr(r)'
  BY <1>1, AnsweredIs, StaysAnswered
<1>. QED  BY <1>2 DEF RunningIsAnswered, AnsweredOr, Current

LEMMA CallStepAnswers ==
  ASSUME SqlInv, RunningIsAnswered, NEW w \in Workers, CallStep(w)
  PROVE  RunningIsAnswered'
<1>. DEFINE c == call[w]
<1>0. c \in Call /\ (c.pc # "taking" => c.taken = {}) /\ NoCall.taken = {}
  BY CallOf, NoCallIsCall
<1>1. CASE Broken(w) \/ TakeBroken(w) \/ ClaimAnswered(w)
  <2>1. /\ Goes(w, NoCall) /\ UNCHANGED runs /\ lost \subseteq lost'
        /\ c.taken \subseteq handed' /\ handed \subseteq handed'
    BY <1>0, <1>1 DEF Broken, TakeBroken, ClaimAnswered, storeVars
  <2>. QED  BY <2>1, <1>0, CallAnswers
<1>2. CASE Contended(w) \/ ReadOver(w) \/ GiveUp(w) \/ ReadLeft(w) \/ Requeue(w) \/ ReadSettled(w)
  <2>1. UNCHANGED <<runs, handed, lost>>
    BY <1>2 DEF Contended, ReadOver, GiveUp, ReadLeft, Requeue, ReadSettled, storeVars
  <2>2. \E d : Goes(w, d) /\ d.taken = c.taken
    <3>1. CASE Contended(w)
      <4>1. PICK d : Goes(w, d) /\ d = [c EXCEPT !.pc = Again(c.pc), !.tries = @ + 1, !.batch = {}, !.seen = {},
                                     !.failing = {}, !.queueing = {}]
        BY <3>1 DEF Contended
      <4>. HIDE DEF c
      <4>2. d.taken = c.taken
        BY <1>0, <4>1 DEF Call
      <4>. QED  BY <4>1, <4>2
    <3>2. CASE ReadOver(w)
      <4>1. PICK d : Goes(w, d) /\ d = [c EXCEPT !.pc = "giving_up", !.batch = Oldest(Over(c.moment), ReclaimBatch),
                                     !.seen = Left(c.moment)]
        BY <3>2 DEF ReadOver
      <4>. HIDE DEF c
      <4>2. d.taken = c.taken
        BY <1>0, <4>1 DEF Call
      <4>. QED  BY <4>1, <4>2
    <3>3. CASE GiveUp(w)
      <4>1. PICK d : Goes(w, d) /\ d = [c EXCEPT !.pc = "rereading", !.failing = c.batch \intersect Over(c.moment),
                                     !.batch = {}]
        BY <3>3 DEF GiveUp
      <4>. HIDE DEF c
      <4>2. d.taken = c.taken
        BY <1>0, <4>1 DEF Call
      <4>. QED  BY <4>1, <4>2
    <3>4. CASE ReadLeft(w)
      <4>0. PICK visible \in {Left(c.moment), c.seen} :
              Goes(w, [c EXCEPT !.pc = "requeueing", !.batch = Oldest(visible, ReclaimBatch - Cardinality(c.failing)),
                                !.seen = {}])
        BY <3>4 DEF ReadLeft
      <4>1. PICK d : /\ Goes(w, d)
                     /\ d = [c EXCEPT !.pc = "requeueing",
                                      !.batch = Oldest(visible, ReclaimBatch - Cardinality(c.failing)),
                                      !.seen = {}]
        BY <4>0
      <4>. HIDE DEF c
      <4>2. d.taken = c.taken
        BY <1>0, <4>1 DEF Call
      <4>. QED  BY <4>1, <4>2
    <3>5. CASE Requeue(w)
      <4>1. PICK d : Goes(w, d) /\ d = [c EXCEPT !.pc = "committing", !.queueing = c.batch \intersect Left(c.moment),
                                     !.batch = {}]
        BY <3>5 DEF Requeue
      <4>. HIDE DEF c
      <4>2. d.taken = c.taken
        BY <1>0, <4>1 DEF Call
      <4>. QED  BY <4>1, <4>2
    <3>6. CASE ReadSettled(w)
      <4>1. PICK d : Goes(w, d) /\ d = [c EXCEPT !.pc = "deleting",
                                     !.batch = Oldest({r \in Ids : Prunable(r, c.moment)}, PurgeLimit)]
        BY <3>6 DEF ReadSettled
      <4>. HIDE DEF c
      <4>2. d.taken = c.taken
        BY <1>0, <4>1 DEF Call
      <4>. QED  BY <4>1, <4>2
    <3>. QED  BY <1>2, <3>1, <3>2, <3>3, <3>4, <3>5, <3>6
  <2>. QED  BY <2>1, <2>2, CallAnswers
<1>3. CASE TakeNext(w)
  <2>. DEFINE r == Head(c.ready)
              mine == Attempt(w, r, runs[r].attempts + 1)
  <2>1. r \in Ids /\ UNCHANGED handed
    BY <1>3, HeadIsId DEF TakeNext
  <2>2. CASE /\ TakeIt(w, r)
             /\ Goes(w, [c EXCEPT !.ready = Tail(@), !.tries = 0, !.taken = @ \union {mine}])
             /\ lost' = lost \ {r}
    <3>1. PICK d : Goes(w, d) /\ d = [c EXCEPT !.ready = Tail(@), !.tries = 0, !.taken = @ \union {mine}]
      BY <2>2
    <3>2. d.taken = c.taken \union {mine}
      BY <1>0, <3>1 DEF Call
    <3>3. c.taken \subseteq d.taken /\ mine \in d.taken
      BY <3>2
    <3>. HIDE DEF c, r
    <3>. QED  BY <2>1, <2>2, <3>1, <3>3, ClaimAnswers DEF c
  <2>3. CASE Goes(w, [c EXCEPT !.ready = Tail(@), !.tries = 0]) /\ UNCHANGED <<storeVars, lost>>
    <3>1. PICK d : Goes(w, d) /\ d = [c EXCEPT !.ready = Tail(@), !.tries = 0]
      BY <2>3
    <3>2. d.taken = c.taken /\ UNCHANGED runs
      BY <1>0, <2>3, <3>1 DEF Call, storeVars
    <3>. QED  BY <2>1, <2>3, <3>1, <3>2, CallAnswers
  <2>. QED  BY <1>3, <2>2, <2>3 DEF TakeNext
<1>4. CASE TakeUnheard(w)
  <2>. DEFINE r == Head(c.ready)
  <2>1. /\ TakeIt(w, r) /\ Goes(w, NoCall) /\ r \in Ids
        /\ handed' = handed \union c.taken /\ lost' = lost \union {r}
    BY <1>4, HeadIsId DEF TakeUnheard
  <2>. HIDE DEF r
  <2>. QED  BY <2>1, ClaimAnswers
<1>5. CASE Commit(w) \/ Delete(w)
  <2>1. c.taken = {} /\ Goes(w, NoCall) /\ UNCHANGED <<handed, lost>>
    BY <1>0, <1>5 DEF Commit, Delete
  <2>2. \A v \in Workers : call[v].taken \subseteq call'[v].taken
    BY <2>1, GoesTo DEF SqlInv, TypeOK
  <2>3. \A r \in Ids : runs'[r].status = "running" => runs'[r] = runs[r]
    <3>1. CASE Commit(w)
      BY <3>1, CommitWrites
    <3>2. CASE Delete(w)
      BY <3>2, DeleteWrites
    <3>. QED  BY <1>5, <3>1, <3>2
  <2>. QED  BY <2>1, <2>2, <2>3, RowsAnswer
<1>. QED  BY <1>1, <1>2, <1>3, <1>4, <1>5 DEF CallStep

(* An attempt that is over answers for no row that is still running. *)
LEMMA EndAnswers ==
  ASSUME SqlInv, RunningIsAnswered, NEW a \in handed, End(a) \/ EndLost(a)
  PROVE  RunningIsAnswered'
<1>1. /\ UNCHANGED call /\ handed' = handed \ {a} /\ lost \subseteq lost'
  BY EndWrites DEF EndLost
<1>2. \A b : Answering(b) /\ b # a => Answering(b)'
  BY <1>1 DEF Answering
<1>3. ASSUME NEW r \in Ids, Current(r) = a, runs[r].status = "running"
      PROVE  Holds(a) /\ a.run = r
  BY <1>3 DEF Current, Attempt, Holds, Held
<1>4. ASSUME NEW r \in Ids, runs'[r].status = "running"
      PROVE  runs'[r] = runs[r] /\ (Current(r) = a => r \in lost')
  <2>1. CASE End(a)
    BY <1>3, <1>4, <2>1, EndWrites
  <2>2. CASE EndLost(a)
    BY <1>3, <1>4, <2>2 DEF EndLost, storeVars
  <2>. QED  BY <2>1, <2>2
<1>5. ASSUME NEW r \in Ids
      PROVE  AnsweredOr(r)'
  <2>1. AnsweredOr(r)
    BY AnsweredIs
  <2>2. runs'[r].status = "running" => \A b : b = Current(r) /\ Answering(b) => Answering(b)' \/ r \in lost'
    BY <1>2, <1>4
  <2>. QED  BY <1>1, <1>4, <2>1, <2>2, StaysAnswered
<1>. QED  BY <1>5 DEF RunningIsAnswered, AnsweredOr, Current

(* What a worker that died had, it is known to have had. *)
LEMMA CrashAnswers ==
  ASSUME SqlInv, RunningIsAnswered, NEW w \in Workers, Crash(w)
  PROVE  RunningIsAnswered'
<1>. DEFINE mine == {a \in handed : a.worker = w} \union call[w].taken
<1>1. /\ handed' = handed \ mine /\ UNCHANGED runs /\ lost \subseteq lost'
      /\ lost' = lost \union {a.run : a \in {b \in mine : Holds(b)}}
  BY DEF Crash, storeVars
<1>2. \A v \in Workers \ {w} : call'[v] = call[v]
  BY GoesTo DEF SqlInv, TypeOK, Crash
<1>3. \A a : Answering(a) /\ a \notin mine => Answering(a)'
  BY <1>1, <1>2 DEF Answering
<1>4. ASSUME NEW r \in Ids, runs[r].status = "running", Current(r) \in mine
      PROVE  r \in lost'
  <2>1. Holds(Current(r)) /\ Current(r).run = r
    BY <1>4 DEF Current, Attempt, Holds, Held
  <2>. HIDE DEF mine
  <2>. QED  BY <1>1, <1>4, <2>1
<1>5. ASSUME NEW r \in Ids
      PROVE  AnsweredOr(r)'
  <2>1. AnsweredOr(r)
    BY AnsweredIs
  <2>2. runs'[r].status = "running" => \A b : b = Current(r) /\ Answering(b) => Answering(b)' \/ r \in lost'
    BY <1>1, <1>3, <1>4
  <2>. QED  BY <1>1, <2>1, <2>2, StaysAnswered
<1>. QED  BY <1>5 DEF RunningIsAnswered, AnsweredOr, Current

LEMMA NextAnswers ==
  ASSUME SqlInv, RunningIsAnswered, [Next]_vars
  PROVE  RunningIsAnswered'
<1>1. CASE Tick \/ UNCHANGED vars
  <2>1. UNCHANGED <<runs, call, handed, lost>>
    BY <1>1 DEF Tick, vars, storeVars
  <2>. QED  BY <2>1, RowsAnswer
<1>2. ASSUME NEW order \in Orders, NEW delay \in Delays, Insert(order, delay)
      PROVE  RunningIsAnswered'
  <2>1. /\ UNCHANGED <<call, handed, lost>> /\ now + delay \in Int
        /\ StoreType
    BY <1>2, SqlAssumption DEF Insert, sqlVars, SqlInv, TypeOK
  <2>2. \A q \in Ids : runs'[q] = IF q = sequence THEN Written(now + delay) ELSE runs[q]
    BY <1>2, <2>1, AddStores DEF Insert
  <2>3. Written(now + delay).status = "pending"
    BY DEF Written
  <2>. QED  BY <2>1, <2>2, <2>3, RowsAnswer
<1>3. ASSUME NEW r \in Ids, CancelRun(r)
      PROVE  RunningIsAnswered'
  <2>1. UNCHANGED <<call, handed, lost>> /\ now \in Int /\ StoreType
    BY <1>3 DEF CancelRun, sqlVars, SqlInv, TypeOK
  <2>2. (\A q \in Ids \ {r} : runs'[q] = runs[q]) /\ runs'[r].status = "canceled"
    BY <1>3, <2>1, CancelStores DEF CancelRun
  <2>. QED  BY <2>1, <2>2, RowsAnswer
<1>4. ASSUME NEW a \in handed, Beat(a)
      PROVE  RunningIsAnswered'
  <2>1. /\ \A q \in Ids \ {a.run} : runs'[q] = runs[q]
        /\ runs'[a.run].status = runs[a.run].status /\ runs'[a.run].worker = runs[a.run].worker
        /\ runs'[a.run].attempts = runs[a.run].attempts
    BY <1>4, AttemptOf, HeartbeatStores DEF Beat
  <2>2. UNCHANGED <<call, handed, lost>>
    BY <1>4 DEF Beat, sqlVars
  <2>. QED  BY <2>1, <2>2, RowsAnswer
<1>5. ASSUME NEW w \in Workers,
             (\E limit \in Limits : ReadCandidates(w, {o.queue : o \in Orders}, limit)) \/ Sweep(w) \/ Prune(w)
      PROVE  RunningIsAnswered'
  <2>1. call[w].taken = {} /\ UNCHANGED <<runs, handed, lost>> /\ \E d : Goes(w, d)
    BY <1>5, CallOf DEF ReadCandidates, Sweep, Prune, storeVars
  <2>. QED  BY <2>1, CallAnswers
<1>. QED  BY <1>1, <1>2, <1>3, <1>4, <1>5, CallStepAnswers, EndAnswers, CrashAnswers DEF Next

(* store/sqlalchemy.py:219-252 - a run that is claimed is on its way to its worker or with it,  *)
(* unless a commit, an ending or the worker itself was lost.                                    *)
THEOREM NoRunIsStranded == Spec => []RunningIsAnswered
<1>1. Init => RunningIsAnswered
  <2>1. Absent.status # "running"
    BY DEF Absent
  <2>. QED  BY <2>1 DEF Init, StoreInit, RunningIsAnswered
<1>2. SqlInv /\ RunningIsAnswered /\ [Next]_vars => RunningIsAnswered'
  BY NextAnswers
<1>. QED  BY <1>1, <1>2, SqlInvariant, PTL DEF Spec

-----------------------------------------------------------------------------
(* The steps of the database are steps of the contract. *)

LEMMA SameRows ==
  /\ Kept!Ids = Ids
  /\ \A r, queues, moment : Kept!Claimable(r, queues, moment) = Claimable(r, queues, moment)
  /\ \A r, moment : Kept!Expired(r, moment) = Expired(r, moment)
  /\ \A r, moment : Kept!Prunable(r, moment) = Prunable(r, moment)
  /\ \A row, worker, moment : Kept!ClaimedBy(row, worker, moment) = ClaimedBy(row, worker, moment)
  /\ \A r, moment : Kept!TakenBack(r, moment) = TakenBack(r, moment)
  /\ Kept!Absent = Absent
BY DEF Kept!Ids, Ids, Kept!Claimable, Claimable, Kept!Expired, Expired, Kept!NoInstant, NoInstant,
       Kept!Prunable, Prunable, Kept!Settled, Settled, Kept!ClaimedBy, ClaimedBy,
       Kept!TakenBack, TakenBack, Kept!Exhausted, Exhausted, Kept!Closed, Closed,
       Kept!Requeued, Requeued, Kept!Absent, Absent

LEMMA SameCalls ==
  /\ \A order, due_at : Add(order, due_at) => Kept!Add(order, due_at)
  /\ \A r, moment : Cancel(r, moment) => Kept!Cancel(r, moment)
  /\ \A r, worker, attempt, moment :
       /\ Heartbeat(r, worker, attempt, moment) => Kept!Heartbeat(r, worker, attempt, moment)
       /\ Complete(r, worker, attempt, moment) => Kept!Complete(r, worker, attempt, moment)
       /\ Fail(r, worker, attempt, moment) => Kept!Fail(r, worker, attempt, moment)
       /\ RetryLater(r, worker, attempt, moment) => Kept!RetryLater(r, worker, attempt, moment)
       /\ Release(r, worker, attempt, moment) => Kept!Release(r, worker, attempt, moment)
<1>1. \A order, due_at : Add(order, due_at) => Kept!Add(order, due_at)
  BY DEF Add, Kept!Add, Taken, Kept!Taken, Present, Kept!Present, Ids, Kept!Ids,
         Written, Kept!Written, NoInstant, Kept!NoInstant
<1>2. \A r, moment : Cancel(r, moment) => Kept!Cancel(r, moment)
  BY DEF Cancel, Kept!Cancel, Write, Kept!Write, Closed, Kept!Closed, NoInstant, Kept!NoInstant
<1>3. ASSUME NEW r, NEW worker, NEW attempt, NEW moment
      PROVE  /\ Heartbeat(r, worker, attempt, moment) => Kept!Heartbeat(r, worker, attempt, moment)
             /\ Complete(r, worker, attempt, moment) => Kept!Complete(r, worker, attempt, moment)
             /\ Fail(r, worker, attempt, moment) => Kept!Fail(r, worker, attempt, moment)
  BY DEF Heartbeat, Kept!Heartbeat, Complete, Kept!Complete, Fail, Kept!Fail, Held, Kept!Held,
         Write, Kept!Write, Closed, Kept!Closed, NoInstant, Kept!NoInstant
<1>4. ASSUME NEW r, NEW worker, NEW attempt, NEW due_at
      PROVE  /\ RetryLater(r, worker, attempt, due_at) => Kept!RetryLater(r, worker, attempt, due_at)
             /\ Release(r, worker, attempt, due_at) => Kept!Release(r, worker, attempt, due_at)
  BY DEF RetryLater, Kept!RetryLater, Release, Kept!Release, Held, Kept!Held, Write, Kept!Write,
         Requeued, Kept!Requeued, NoInstant, Kept!NoInstant
<1>. QED  BY <1>1, <1>2, <1>3, <1>4

LEMMA SameInstants ==
  ASSUME SqlInv
  PROVE  /\ Kept!Moments = 0 .. now /\ now \in Kept!Moments
         /\ \A delay \in Delays : now + delay \in Kept!Dues
         /\ \A w \in Workers : call[w].moment \in Kept!Moments
<1>1. now \in 0 .. now /\ now \in Int
  BY DEF SqlInv, TypeOK
<1>2. \A w \in Workers : call[w].moment \in 0 .. now
  BY <1>1, CallOf
<1>. QED  BY <1>1, <1>2 DEF Kept!Moments, Kept!Dues

LEMMA HolderIsLawful ==
  ASSUME SqlInv, NEW a \in handed,
         \/ \E moment \in Kept!Moments :
              \/ Kept!Heartbeat(a.run, a.worker, a.attempt, moment)
              \/ Kept!Complete(a.run, a.worker, a.attempt, moment)
              \/ Kept!Fail(a.run, a.worker, a.attempt, moment)
         \/ \E due_at \in Kept!Dues :
              \/ Kept!RetryLater(a.run, a.worker, a.attempt, due_at)
              \/ Kept!Release(a.run, a.worker, a.attempt, due_at),
         UNCHANGED now
  PROVE  Kept!ContractNext
<1>1. Kept!HolderWrites(a.run, a.worker, a.attempt)
  BY DEF Kept!HolderWrites
<1>2. a.run \in Kept!Ids /\ a.worker = runs[a.run].worker /\ a.attempt = runs[a.run].attempts
  <2>1. Kept!Held(a.run, a.worker, a.attempt)
    BY DEF Kept!Heartbeat, Kept!Complete, Kept!Fail, Kept!RetryLater, Kept!Release
  <2>. QED  BY <2>1, AttemptOf, SameRows DEF Kept!Held
<1>. QED  BY <1>1, <1>2 DEF Kept!ContractNext, Kept!StoreCall

LEMMA CallStepLawful ==
  ASSUME SqlInv, NEW w \in Workers, CallStep(w)
  PROVE  Kept!ContractNext \/ UNCHANGED <<runs, asked, sequence, now>>
<1>. DEFINE c == call[w]
<1>1. CASE \/ Broken(w) \/ TakeBroken(w) \/ Contended(w) \/ ClaimAnswered(w)
           \/ ReadOver(w) \/ GiveUp(w) \/ ReadLeft(w) \/ Requeue(w) \/ ReadSettled(w)
  BY <1>1 DEF Broken, TakeBroken, Contended, ClaimAnswered, ReadOver, GiveUp, ReadLeft, Requeue,
              ReadSettled, storeVars
<1>2. ASSUME NEW r \in Ids, TakeIt(w, r), UNCHANGED now
      PROVE  Kept!ContractNext
  <2>. DEFINE R == {r}
  <2>1. R \in SUBSET Kept!Ids
    BY SameRows
  <2>2. \A q \in R : Claimable(q, {asked[q].queue}, c.moment)
    BY <1>2, TakeWrites DEF Claimable
  <2>3. /\ runs' = [q \in Ids |-> IF q \in R THEN ClaimedBy(runs[q], w, c.moment) ELSE runs[q]]
        /\ UNCHANGED <<asked, sequence>>
    <3>1. StoreType' /\ UNCHANGED <<asked, sequence>>
      BY <1>2, TakeWrites
    <3>2. \A q \in Ids : runs'[q] = IF q \in R THEN ClaimedBy(runs[q], w, c.moment) ELSE runs[q]
      BY <1>2, TakeWrites
    <3>. QED  BY <3>1, <3>2 DEF StoreType
  <2>. HIDE DEF R
  <2>4. Kept!Take(R, w, c.moment)
    BY <2>2, <2>3, SameRows DEF Kept!Take
  <2>. QED  BY <1>2, <2>1, <2>4, SameInstants DEF Kept!ContractNext, Kept!StoreCall
<1>3. CASE TakeNext(w)
  BY <1>2, <1>3, HeadIsId DEF TakeNext, storeVars
<1>4. CASE TakeUnheard(w)
  BY <1>2, <1>4, HeadIsId DEF TakeUnheard
<1>5. CASE Commit(w)
  <2>. DEFINE R == LockedBy(w)
  <2>1. /\ runs' = [r \in Ids |-> IF r \in R THEN TakenBack(r, c.moment) ELSE runs[r]]
        /\ UNCHANGED <<asked, sequence, now>>
        /\ \A r \in R : Expired(r, c.moment)
    BY <1>5, CommitWrites
  <2>2. R \in SUBSET Ids
    BY LockedRuns
  <2>3. Cardinality(R) <= ReclaimBatch
    <3>1. /\ IsFiniteSet(c.failing) /\ IsFiniteSet(c.queueing)
          /\ Cardinality(c.failing) \in Nat /\ Cardinality(c.queueing) \in Nat
          /\ Cardinality(c.failing \intersect c.queueing) \in Nat
      <4>1. IsFiniteSet(Ids)
        BY FS_Interval, StoreAssumption DEF Ids
      <4>2. c.failing \in SUBSET Ids /\ c.queueing \in SUBSET Ids /\ c.failing \intersect c.queueing \in SUBSET Ids
        BY <2>2 DEF LockedBy
      <4>. QED  BY <4>1, <4>2, FS_Subset, FS_CardinalityType
    <3>2. Cardinality(c.failing \union c.queueing)
            = Cardinality(c.failing) + Cardinality(c.queueing) - Cardinality(c.failing \intersect c.queueing)
      BY <3>1, FS_Union
    <3>3. Cardinality(c.failing) + Cardinality(c.queueing) <= ReclaimBatch /\ ReclaimBatch \in Nat
      BY CallOf DEF IsOneBatch
    <3>4. Cardinality(c.failing \union c.queueing) <= ReclaimBatch
      BY <3>1, <3>2, <3>3
    <3>. QED  BY <3>4 DEF LockedBy
  <2>. HIDE DEF R
  <2>4. Kept!GiveBack(R, c.moment)
    <3>1. Kept!Cardinality(R) = Cardinality(R)
      BY DEF Kept!Cardinality, Cardinality
    <3>. QED  BY <2>1, <2>3, <3>1, SameRows DEF Kept!GiveBack
  <2>5. R \in SUBSET Kept!Ids /\ c.moment \in Kept!Moments
    BY <2>2, SameRows, SameInstants
  <2>. QED  BY <2>1, <2>4, <2>5 DEF Kept!ContractNext, Kept!StoreCall
<1>6. CASE Delete(w)
  <2>. DEFINE R == {r \in c.batch : Prunable(r, c.moment)}
  <2>1. R \in SUBSET Ids /\ c.moment \in Int /\ now \in Int /\ c.moment <= now
    BY CallOf DEF SqlInv, TypeOK
  <2>2. /\ runs' = [r \in Ids |-> IF r \in R THEN Absent ELSE runs[r]]
        /\ UNCHANGED <<asked, sequence, now>>
    BY <1>6 DEF Delete
  <2>3. \A r \in R : Prunable(r, now)
    <3>1. \A r \in R : runs[r].finished_at \in Int
      BY <2>1 DEF SqlInv, TypeOK, StoreType, RowType
    <3>. QED  BY <2>1, <3>1 DEF Prunable
  <2>. HIDE DEF R
  <2>4. Kept!Drop(R)
    BY <2>2, <2>3, SameRows DEF Kept!Drop
  <2>5. R \in SUBSET Kept!Ids
    BY <2>1, SameRows
  <2>. QED  BY <2>2, <2>4, <2>5 DEF Kept!ContractNext, Kept!StoreCall
<1>. QED  BY <1>1, <1>3, <1>4, <1>5, <1>6 DEF CallStep

LEMMA StepLawful ==
  ASSUME SqlInv, [Next]_vars
  PROVE  [Kept!ContractNext]_(Kept!contractVars)
<1>1. CASE UNCHANGED <<runs, asked, sequence, now>>
  BY <1>1 DEF Kept!contractVars
<1>2. CASE Tick
  BY <1>2 DEF Tick, storeVars, Kept!ContractNext, Kept!storeVars
<1>3. ASSUME NEW order \in Orders, NEW delay \in Delays, Insert(order, delay)
      PROVE  Kept!ContractNext
  <2>1. Kept!Add(order, now + delay) /\ now + delay \in Kept!Dues /\ UNCHANGED now
    BY <1>3, SameCalls, SameInstants DEF Insert, sqlVars
  <2>. QED  BY <2>1 DEF Kept!ContractNext, Kept!StoreCall
<1>4. ASSUME NEW r \in Ids, CancelRun(r)
      PROVE  Kept!ContractNext
  <2>1. Kept!Cancel(r, now) /\ now \in Kept!Moments /\ UNCHANGED now
    BY <1>4, SameCalls, SameInstants DEF CancelRun, sqlVars
  <2>. QED  BY <2>1, SameRows DEF Kept!ContractNext, Kept!StoreCall
<1>5. ASSUME NEW a \in handed, Beat(a)
      PROVE  Kept!ContractNext
  <2>1. Kept!Heartbeat(a.run, a.worker, a.attempt, now) /\ UNCHANGED now
    BY <1>5, SameCalls DEF Beat, sqlVars
  <2>. QED  BY <2>1, SameInstants, HolderIsLawful
<1>6. ASSUME NEW a \in handed, End(a)
      PROVE  Kept!ContractNext \/ UNCHANGED <<runs, asked, sequence, now>>
  <2>1. UNCHANGED now
    BY <1>6 DEF End
  <2>2. CASE Complete(a.run, a.worker, a.attempt, now) \/ Fail(a.run, a.worker, a.attempt, now)
    BY <2>1, <2>2, SameCalls, SameInstants, HolderIsLawful
  <2>3. ASSUME NEW delay \in Delays,
               \/ RetryLater(a.run, a.worker, a.attempt, now + delay)
               \/ Release(a.run, a.worker, a.attempt, now + delay)
        PROVE  Kept!ContractNext
    BY <2>1, <2>3, SameCalls, SameInstants, HolderIsLawful
  <2>. QED  BY <1>6, <2>1, <2>2, <2>3 DEF End, storeVars
<1>7. ASSUME NEW a \in handed, EndLost(a)
      PROVE  UNCHANGED <<runs, asked, sequence, now>>
  BY <1>7 DEF EndLost, storeVars
<1>8. ASSUME NEW w \in Workers,
             \/ \E limit \in Limits : ReadCandidates(w, {o.queue : o \in Orders}, limit)
             \/ Sweep(w) \/ Prune(w) \/ Crash(w)
      PROVE  UNCHANGED <<runs, asked, sequence, now>>
  BY <1>8 DEF ReadCandidates, Sweep, Prune, Crash, storeVars
<1>9. CASE UNCHANGED vars
  BY <1>1, <1>9 DEF vars
<1>. QED  BY <1>1, <1>2, <1>3, <1>4, <1>5, <1>6, <1>7, <1>8, <1>9, CallStepLawful DEF Next

(* store/base.py:40-97, store/sqlalchemy.py:208-336 - whatever comes in between the reads and   *)
(* the writes of a claim, of a sweep and of a pruning, and however often the database has them  *)
(* begin again, what is committed is what a store may do.                                       *)
THEOREM DatabaseKeepsContract == Spec => Lawful
<1>1. Init => Kept!ContractInit
  BY DEF Init, StoreInit, Kept!ContractInit, Kept!StoreInit, Kept!Ids, Ids, Kept!Absent, Absent,
         Kept!NoInstant, NoInstant
<1>2. SqlInv /\ [Next]_vars => [Kept!ContractNext]_(Kept!contractVars)
  BY StepLawful
<1>. QED  BY <1>1, <1>2, SqlInvariant, PTL DEF Spec, Lawful, Kept!ContractSpec
=============================================================================
