--------------------------- MODULE ScheduleProofs ---------------------------
(***************************************************************************)
(* That the slots of any number of recurring tasks, written by any number  *)
(* of processes, are each written, and each written once.                  *)
(***************************************************************************)
EXTENDS Schedule, TLAPS

-----------------------------------------------------------------------------
(* The trigger. *)

LEMMA Parameters ==
  /\ \A t \in Tasks : Span[t] \in Nat \ {0}
  /\ Keep \in Nat /\ MaxNow \in Nat
<1>1. Span \in Seq(Nat \ {0})
  BY ScheduleAssumption
<1>2. \A t \in 1 .. Len(Span) : Span[t] \in Nat \ {0}
  BY <1>1
<1>. QED  BY <1>2, ScheduleAssumption DEF Tasks

LEMMA Quotient ==
  ASSUME NEW s \in Nat \ {0}, NEW m \in Nat
  PROVE  /\ m \div s \in Nat
         /\ s * (m \div s) <= m
         /\ m < s * (m \div s) + s
BY SMT

LEMMA NextIsLater ==
  ASSUME NEW t \in Tasks, NEW m \in Nat
  PROVE  NextAfter(t, m) \in Nat /\ m < NextAfter(t, m)
<1>1. Span[t] \in Nat \ {0}
  BY Parameters
<1>2. PICK d \in Nat : d = m \div Span[t] /\ m < Span[t] * d + Span[t]
  BY <1>1, Quotient
<1>3. Span[t] * (d + 1) = Span[t] * d + Span[t] /\ Span[t] * d \in Nat
  BY <1>1, <1>2
<1>. QED  BY <1>1, <1>2, <1>3 DEF NextAfter

(* Of two multiples of a span, the smaller comes at least a span before the other. *)
LEMMA Multiples ==
  ASSUME NEW s \in Nat \ {0}, NEW a \in Nat, NEW b \in Nat, a < b
  PROVE  s * a + s <= s * b
<1>1. PICK k \in Nat : b = a + 1 + k
  <2>1. b - a - 1 \in Nat /\ b = a + 1 + (b - a - 1)
    OBVIOUS
  <2>. QED  BY <2>1
<1>2. s * b = s * a + s + s * k
  BY <1>1
<1>3. s * k \in Nat /\ s * a \in Nat
  BY <1>1
<1>. QED  BY <1>2, <1>3

(* Between an instant and the slot after it, every instant has that slot after it. *)
LEMMA SameSlot ==
  ASSUME NEW t \in Tasks, NEW m \in Nat, NEW n \in Nat, m <= n, n < NextAfter(t, m)
  PROVE  NextAfter(t, n) = NextAfter(t, m)
<1>. DEFINE s == Span[t]
<1>1. s \in Nat \ {0}
  BY Parameters
<1>2. PICK a \in Nat : a = m \div s /\ s * a <= m
  BY <1>1, Quotient
<1>3. PICK b \in Nat : b = n \div s /\ s * b <= n /\ n < s * b + s
  BY <1>1, Quotient
<1>. HIDE DEF s
<1>4. s * (a + 1) = s * a + s /\ s * a \in Nat /\ s * b \in Nat
  BY <1>1, <1>2, <1>3
<1>5. n < s * a + s
  BY <1>2, <1>4 DEF NextAfter, s
<1>6. ~(a < b)
  <2>1. SUFFICES ASSUME a < b PROVE FALSE
    OBVIOUS
  <2>2. s * a + s <= s * b
    BY <1>1, <1>2, <1>3, <2>1, Multiples
  <2>. QED  BY <1>1, <1>3, <1>4, <1>5, <2>2
<1>7. ~(b < a)
  <2>1. SUFFICES ASSUME b < a PROVE FALSE
    OBVIOUS
  <2>2. s * b + s <= s * a
    BY <1>1, <1>2, <1>3, <2>1, Multiples
  <2>. QED  BY <1>1, <1>2, <1>3, <1>4, <2>2
<1>8. a = b
  BY <1>2, <1>3, <1>6, <1>7
<1>. QED  BY <1>2, <1>3, <1>8 DEF NextAfter, s

-----------------------------------------------------------------------------
(* The rows. *)

RowsInv ==
  /\ runs \in [Ids -> SlotRow]
  /\ asked = [r \in Ids |-> asked[r]]
  /\ sequence \in 1 .. MaxRuns + 1
  /\ now \in 0 .. MaxNow
  /\ calledOff \subseteq Ids
  /\ \A r \in Ids : IF r < sequence THEN Accounted(r) ELSE ~Present(r)
  /\ SlotWrittenOnce

LEMMA RowsOfInv ==
  ASSUME ScheduleInv
  PROVE  RowsInv
BY DEF ScheduleInv, TypeOK, RowsInv

(* While no run is written, rows may end, be called off, and go once they were kept. *)
LEMMA RowsInvKept ==
  ASSUME RowsInv, UNCHANGED <<asked, sequence>>, now' \in now .. MaxNow,
         runs' \in [Ids -> SlotRow], calledOff \subseteq calledOff', calledOff' \subseteq Ids,
         \A r \in Ids :
           \/ runs'[r] = runs[r]
           \/ runs[r].status = "pending" /\ runs'[r].status = "done" /\ runs'[r].finished_at >= runs[r].due_at
           \/ runs[r].status = "pending" /\ runs'[r].status = "canceled" /\ r \in calledOff'
           \/ /\ runs[r].status \in Settled /\ runs'[r].status = "absent"
              /\ runs[r].finished_at + Keep < now
  PROVE  RowsInv'
<1>1. ASSUME NEW r \in Ids
      PROVE  (IF r < sequence THEN Accounted(r) ELSE ~Present(r))'
  <2>1. IF r < sequence THEN Accounted(r) ELSE ~Present(r)
    BY DEF RowsInv
  <2>2. /\ now \in Int /\ now' \in Int /\ now <= now' /\ Keep \in Int
        /\ runs[r] \in SlotRow /\ runs'[r] \in SlotRow
    BY ScheduleAssumption DEF RowsInv
  <2>3. CASE r >= sequence
    BY <2>1, <2>3 DEF RowsInv, Present, Settled, Ids
  <2>4. CASE r < sequence
    <3>1. Accounted(r) /\ SlotOf(r) \in Int /\ SlotOf(r)' = SlotOf(r) /\ asked' = asked
      BY <2>1, <2>4 DEF Accounted, SlotOf
    <3>2. /\ runs[r].finished_at \in Int /\ runs[r].due_at \in Int /\ runs'[r].finished_at \in Int
          /\ runs[r].status # "failed"
      BY <2>2 DEF SlotRow
    <3>3. /\ asked'[r].name \in Tasks /\ SlotOf(r)' \in Nat
          /\ asked'[r] = Occurrence(asked'[r].name, SlotOf(r)')
      BY <3>1 DEF Accounted
    <3>4. /\ runs'[r].status = "pending" => runs'[r].due_at = SlotOf(r)
          /\ runs'[r].status = "done" => runs'[r].finished_at >= SlotOf(r)
          /\ runs'[r].status = "canceled" => r \in calledOff'
      BY <3>1, <3>2 DEF Accounted, Settled
    <3>5. runs'[r].status # "absent" \/ r \in calledOff' \/ SlotOf(r) + Keep < now'
      BY <2>2, <3>1, <3>2 DEF Accounted, Settled, Present
    <3>6. Accounted(r)'
      BY <3>1, <3>3, <3>4, <3>5 DEF Accounted, Present
    <3>. QED  BY <2>4, <3>6
  <2>. QED  BY <2>3, <2>4 DEF RowsInv, Ids
<1>2. SlotWrittenOnce'
  BY DEF RowsInv, SlotWrittenOnce
<1>. QED  BY <1>1, <1>2 DEF RowsInv

(* A pruning takes what was over, and kept long enough. *)
LEMMA TidyKeepsRows ==
  ASSUME ScheduleInv, NEW p \in Processes, Tidy(p)
  PROVE  RowsInv'
<1>1. RowsInv /\ now' = now /\ calledOff' = calledOff /\ now \in now .. MaxNow
  BY RowsOfInv DEF Tidy, RowsInv
<1>2. CASE UNCHANGED storeVars
  BY <1>1, <1>2, RowsInvKept DEF storeVars, RowsInv
<1>3. CASE Purge(pass[p].moment - Keep, PurgeLimit)
  <2>. DEFINE gone == Oldest({r \in Ids : Prunable(r, pass[p].moment - Keep)}, PurgeLimit)
  <2>1. pass[p].moment \in Int /\ pass[p].moment <= now /\ now \in Int /\ Keep \in Int
    BY ScheduleAssumption DEF ScheduleInv, TypeOK, Recent, Tidy
  <2>2. \A r \in Ids : runs'[r] = IF r \in gone THEN Absent ELSE runs[r]
    BY <1>3 DEF Purge
  <2>3. ASSUME NEW r \in Ids, r \in gone
        PROVE  runs[r].status \in Settled /\ runs[r].finished_at + Keep < now
    <3>1. Prunable(r, pass[p].moment - Keep) /\ runs[r].finished_at \in Int
      BY <1>1, <2>3 DEF Oldest, RowsInv, SlotRow
    <3>. QED  BY <2>1, <3>1 DEF Prunable
  <2>4. runs' \in [Ids -> SlotRow] /\ UNCHANGED <<asked, sequence>>
    BY <1>1, <1>3 DEF Purge, RowsInv, SlotRow, Absent, NoInstant
  <2>. HIDE DEF gone
  <2>5. \A r \in Ids : \/ runs'[r] = runs[r]
                      \/ /\ runs[r].status \in Settled /\ runs'[r].status = "absent"
                         /\ runs[r].finished_at + Keep < now
    BY <2>2, <2>3 DEF Absent
  <2>6. calledOff \subseteq calledOff' /\ calledOff' \subseteq Ids /\ now' \in now .. MaxNow
    BY <1>1 DEF RowsInv
  <2>. QED  BY <1>1, <2>4, <2>5, <2>6, RowsInvKept
<1>. QED  BY <1>2, <1>3 DEF Tidy

LEMMA ClosedRow ==
  ASSUME NEW row \in SlotRow, NEW status \in {"done", "canceled"}, NEW moment \in Int
  PROVE  /\ Closed(row, status, moment) \in SlotRow
         /\ Closed(row, status, moment).status = status
         /\ Closed(row, status, moment).finished_at = moment
<1>. DEFINE new == Closed(row, status, moment)
<1>1. /\ status \in {"absent", "pending", "done", "canceled"} /\ moment \in Int
      /\ Nobody \in {Nobody} /\ NoInstant \in Int
  BY DEF NoInstant
<1>2. new \in SlotRow
  BY <1>1 DEF SlotRow, Closed
<1>3. new.status = status /\ new.finished_at = moment
  BY DEF SlotRow, Closed
<1>. HIDE DEF new
<1>. QED  BY <1>2, <1>3 DEF new

(* A row that is closed stays a row, and what it kept is of no matter. *)
LEMMA RowsWhenClosed ==
  ASSUME ScheduleInv, NEW r \in Ids, NEW status \in {"done", "canceled"},
         runs[r].status = "pending", Write(r, Closed(runs[r], status, now)), UNCHANGED now,
         calledOff \subseteq calledOff', calledOff' \subseteq Ids,
         status = "done" => runs[r].due_at <= now,
         status = "canceled" => r \in calledOff'
  PROVE  RowsInv'
<1>1. RowsInv /\ now' \in now .. MaxNow /\ now \in Int /\ runs[r] \in SlotRow
  BY RowsOfInv DEF RowsInv
<1>. DEFINE closed == Closed(runs[r], status, now)
<1>2. closed \in SlotRow /\ closed.status = status /\ closed.finished_at = now
  BY <1>1, ClosedRow
<1>3. /\ runs' = [runs EXCEPT ![r] = closed] /\ UNCHANGED <<asked, sequence>>
  BY DEF Write
<1>. HIDE DEF closed
<1>4. /\ runs' \in [Ids -> SlotRow]
      /\ \A q \in Ids : runs'[q] = IF q = r THEN closed ELSE runs[q]
  BY <1>1, <1>2, <1>3 DEF RowsInv
<1>5. \A q \in Ids :
        \/ runs'[q] = runs[q]
        \/ runs[q].status = "pending" /\ runs'[q].status = "done" /\ runs'[q].finished_at >= runs[q].due_at
        \/ runs[q].status = "pending" /\ runs'[q].status = "canceled" /\ q \in calledOff'
  BY <1>1, <1>2, <1>4 DEF SlotRow
<1>. QED  BY <1>1, <1>3, <1>4, <1>5, RowsInvKept

LEMMA WorkKeepsRows ==
  ASSUME ScheduleInv, NEW r \in Ids, Work(r) \/ CancelRun(r)
  PROVE  RowsInv'
<1>1. calledOff \subseteq Ids
  BY DEF ScheduleInv, TypeOK
<1>2. CASE Work(r)
  BY <1>1, <1>2, RowsWhenClosed DEF Work, scheduleVars
<1>3. CASE CancelRun(r)
  BY <1>1, <1>3, RowsWhenClosed DEF CancelRun, Cancel
<1>. QED  BY <1>2, <1>3

(* A slot that is offered is written only while no run has its key, and by then none but one    *)
(* that was called off ever had: whatever had it is gone only when its slot and the keep are     *)
(* past, and the pass that writes the slot is not that old.                                      *)
LEMMA OfferKeepsRows ==
  ASSUME ScheduleInv, NEW p \in Processes, Walking(p), NEW t, NEW slot,
         t = pass[p].at, slot = NextAfter(t, pass[p].moment),
         Offer(t, slot), UNCHANGED <<now, calledOff>>
  PROVE  /\ RowsInv' /\ t \in Tasks /\ slot \in Nat
         /\ Named(t, slot)'
         /\ \A u \in Tasks, n \in Nat : Named(u, n) => Named(u, n)'
<1>0. RowsInv
  BY RowsOfInv
<1>1. /\ t \in Tasks /\ pass[p].moment \in Nat /\ slot \in Nat /\ pass[p].moment < slot
      /\ pass[p].moment <= now /\ now <= pass[p].moment + PassLimit
      /\ now \in Nat /\ Keep \in Nat /\ PassLimit \in Nat
  BY NextIsLater, ScheduleAssumption DEF Walking, ScheduleInv, TypeOK, Recent
<1>2. CASE Taken(<<t, slot>>) /\ UNCHANGED storeVars
  <2>1. PICK r \in Ids : Present(r) /\ asked[r].key = <<t, slot>>
    BY <1>2 DEF Taken
  <2>2. r \in 1 .. sequence - 1
    BY <1>0, <2>1 DEF RowsInv, Ids
  <2>3. Named(t, slot)
    BY <2>1, <2>2 DEF Named
  <2>4. RowsInv'
    BY <1>0, <1>2, RowsInvKept DEF storeVars, RowsInv
  <2>. QED  BY <1>1, <1>2, <2>3, <2>4 DEF storeVars, Named
<1>3. CASE Add(Occurrence(t, slot), slot)
  <2>. DEFINE o == Occurrence(t, slot)
  <2>0. /\ sequence \in Nat /\ 1 <= sequence /\ sequence <= MaxRuns /\ MaxRuns \in Nat
        /\ sequence' = sequence + 1
    BY <1>0, <1>3, StoreAssumption DEF Add, RowsInv
  <2>1. /\ runs' \in [Ids -> SlotRow]
        /\ \A r \in Ids : runs'[r] = IF r = sequence THEN Written(slot) ELSE runs[r]
    <3>1. Written(slot) \in SlotRow
      BY <1>1 DEF Written, SlotRow, NoInstant
    <3>. QED  BY <1>0, <1>3, <3>1 DEF Add, RowsInv
  <2>9. /\ asked' = [r \in Ids |-> asked'[r]]
        /\ \A r \in Ids : asked'[r] = IF r = sequence THEN o ELSE asked[r]
    <3>1. asked = [r \in Ids |-> asked[r]] /\ asked' = [asked EXCEPT ![sequence] = o]
      BY <1>0, <1>3 DEF Add, RowsInv
    <3>. QED  BY <3>1
  <2>2. o.key = <<t, slot>> /\ o.name = t /\ o.key[2] = slot
    BY DEF Occurrence
  <2>3. \A r \in Ids : asked[r].key = <<t, slot>> => ~Present(r)
    <3>1. <<t, slot>> # NoKey
      BY <1>1, ScheduleAssumption
    <3>. QED  BY <1>3, <2>2, <3>1 DEF Add, Taken
  <2>4. ASSUME NEW r \in Ids
        PROVE  (IF r < sequence THEN Accounted(r) ELSE ~Present(r))'
    <3>1. CASE r = sequence
      BY <1>1, <2>0, <2>1, <2>2, <2>9, <3>1 DEF Accounted, SlotOf, Written, Present
    <3>2. CASE r # sequence
      <4>1. runs'[r] = runs[r] /\ asked'[r] = asked[r] /\ (r < sequence' <=> r < sequence)
        BY <2>0, <2>1, <2>9, <3>2 DEF Ids
      <4>. QED  BY <1>0, <4>1 DEF RowsInv, Accounted, SlotOf, Present
    <3>. QED  BY <3>1, <3>2
  <2>5. SlotWrittenOnce'
    <3>1. SUFFICES ASSUME PassLimit <= Keep, NEW r \in 1 .. sequence, NEW q \in 1 .. sequence,
                          asked'[r].key = asked'[q].key, r < q
                   PROVE  r \in calledOff
      BY <2>0 DEF SlotWrittenOnce
    <3>2. /\ r \in Ids /\ q \in Ids /\ r < sequence /\ r \in 1 .. sequence - 1 /\ q \in Nat
          /\ asked'[r] = asked[r]
      BY <2>0, <2>9, <3>1 DEF Ids
    <3>3. CASE q < sequence
      <4>1. q \in 1 .. sequence - 1 /\ asked'[q] = asked[q]
        BY <2>0, <2>9, <3>1, <3>2, <3>3
      <4>. QED  BY <1>0, <3>1, <3>2, <4>1 DEF RowsInv, SlotWrittenOnce
    <3>4. CASE q = sequence
      <4>1. asked[r].key = <<t, slot>> /\ ~Present(r)
        BY <2>2, <2>3, <2>9, <3>1, <3>2, <3>4
      <4>2. Accounted(r) /\ SlotOf(r) = slot
        BY <1>0, <3>2, <4>1 DEF RowsInv, SlotOf
      <4>3. r \in calledOff \/ slot + Keep < now
        BY <4>1, <4>2 DEF Accounted
      <4>. QED  BY <1>1, <3>1, <4>3
    <3>. QED  BY <2>0, <3>1, <3>2, <3>3, <3>4
  <2>6. RowsInv'
    BY <1>0, <2>0, <2>1, <2>4, <2>5, <2>9 DEF RowsInv
  <2>7. Named(t, slot)'
    <3>1. sequence \in 1 .. sequence' - 1 /\ sequence \in Ids
      BY <2>0 DEF Ids
    <3>. QED  BY <2>2, <2>9, <3>1 DEF Named
  <2>8. ASSUME NEW u \in Tasks, NEW n \in Nat, Named(u, n)
        PROVE  Named(u, n)'
    <3>1. PICK r \in 1 .. sequence - 1 : asked[r].key = <<u, n>>
      BY <2>8 DEF Named
    <3>2. r \in 1 .. sequence' - 1 /\ asked'[r] = asked[r]
      BY <2>0, <2>9, <3>1 DEF Ids
    <3>. QED  BY <3>1, <3>2 DEF Named
  <2>. QED  BY <1>1, <2>6, <2>7, <2>8
<1>. QED  BY <1>2, <1>3 DEF Offer

-----------------------------------------------------------------------------
(* The passes. *)

(* The instant up to which what a process remembers was worked out. *)
Last(p) == IF pass[p].pc = "idle" THEN now ELSE pass[p].moment

Passes == [Processes -> [pc : {"idle", "tidying", "writing"}, moment : 0 .. MaxNow, at : Nat \ {0}]]

(* A step keeps the invariant when it keeps the rows, when no process falls further behind than  *)
(* a pass may last, and when what a process newly remembers is the slot next after its instant   *)
(* and is written.                                                                                *)
LEMMA StepKeepsInv ==
  ASSUME ScheduleInv, RowsInv', pass' \in Passes,
         written' \in [Processes -> [Tasks -> Nat \union {NoInstant}]],
         \A p \in Processes : Last(p) <= Last(p)' /\ Last(p)' <= now' /\ now' <= Last(p)' + PassLimit,
         \A u \in Tasks, n \in Nat : Named(u, n) => Named(u, n)',
         \A p \in Processes, t \in Tasks :
           \/ written'[p][t] = NoInstant
           \/ written'[p][t] = written[p][t]
           \/ \E n \in Nat : written'[p][t] = n /\ n = NextAfter(t, Last(p)') /\ Named(t, n)'
  PROVE  ScheduleInv'
<1>1. TypeOK' /\ SlotWrittenOnce'
  BY DEF RowsInv, TypeOK, Passes
<1>2. ASSUME NEW p \in Processes
      PROVE  Last(p) \in Nat /\ Last(p)' \in Nat
  BY <1>1 DEF ScheduleInv, TypeOK, Last
<1>3. ASSUME NEW p \in Processes, NEW t \in Tasks
      PROVE  /\ written'[p][t] = NoInstant \/ \E m \in 0 .. Last(p)' : written'[p][t] = NextAfter(t, m)
             /\ written'[p][t] # NoInstant => Named(t, written[p][t])'
  <2>1. CASE written'[p][t] = NoInstant
    BY <2>1
  <2>2. CASE written'[p][t] = written[p][t] /\ written'[p][t] # NoInstant
    <3>1. PICK m \in 0 .. Last(p) : written[p][t] = NextAfter(t, m)
      BY <2>2 DEF ScheduleInv, Recent, Last
    <3>2. m \in 0 .. Last(p)'
      BY <1>2, <3>1
    <3>3. PICK n \in Nat : n = written[p][t]
      BY <2>2 DEF ScheduleInv, TypeOK
    <3>4. Named(t, n)
      BY <2>2, <3>3 DEF ScheduleInv, RememberedIsWritten
    <3>5. Named(t, n)'
      BY <3>4
    <3>. QED  BY <2>2, <3>1, <3>2, <3>3, <3>5 DEF Named
  <2>3. CASE \E n \in Nat : written'[p][t] = n /\ n = NextAfter(t, Last(p)') /\ Named(t, n)'
    <3>1. PICK n \in Nat : written'[p][t] = n /\ n = NextAfter(t, Last(p)') /\ Named(t, n)'
      BY <2>3
    <3>2. Last(p)' \in 0 .. Last(p)'
      BY <1>2
    <3>. QED  BY <3>1, <3>2 DEF Named
  <2>. QED  BY <2>1, <2>2, <2>3
<1>4. ASSUME NEW p \in Processes
      PROVE  Recent(p)'
  BY <1>3 DEF Recent, Last
<1>5. RememberedIsWritten'
  BY <1>3 DEF RememberedIsWritten
<1>. QED  BY <1>1, <1>4, <1>5 DEF RowsInv, ScheduleInv

(* A process that moves on without writing a slot: what it remembers, it keeps or forgets. *)
LEMMA MovingOn ==
  ASSUME ScheduleInv, RowsInv', UNCHANGED <<asked, sequence, now>>, NEW p \in Processes,
         pass' \in Passes,
         \A q \in Processes : q # p => pass'[q] = pass[q],
         pass'[p].pc # "idle" => pass'[p].moment = Last(p),
         UNCHANGED written
           \/ written' = [written EXCEPT ![p] = [t \in Tasks |-> NoInstant]]
  PROVE  ScheduleInv'
<1>1. /\ pass \in Passes /\ now \in Nat /\ PassLimit \in Nat
      /\ written \in [Processes -> [Tasks -> Nat \union {NoInstant}]]
  BY ScheduleAssumption DEF ScheduleInv, TypeOK, Passes
<1>2. written' \in [Processes -> [Tasks -> Nat \union {NoInstant}]]
  BY <1>1
<1>3. ASSUME NEW q \in Processes
      PROVE  Last(q) <= Last(q)' /\ Last(q)' <= now' /\ now' <= Last(q)' + PassLimit
  <2>1. Last(q) \in Nat /\ Last(q) <= now /\ now <= Last(q) + PassLimit
    BY <1>1 DEF ScheduleInv, Recent, Last, Passes
  <2>2. Last(q)' = Last(q) \/ Last(q)' = now
    BY <1>1 DEF Last, Passes
  <2>. QED  BY <1>1, <2>1, <2>2
<1>4. \A u \in Tasks, n \in Nat : Named(u, n) => Named(u, n)'
  BY DEF Named
<1>5. \A q \in Processes, t \in Tasks : written'[q][t] = NoInstant \/ written'[q][t] = written[q][t]
  BY <1>1
<1>. QED  BY <1>2, <1>3, <1>4, <1>5, StepKeepsInv

LEMMA PassInv ==
  ASSUME ScheduleInv, NEW p \in Processes,
         \/ BeginPass(p) \/ Tidy(p) \/ Skip(p) \/ EndPass(p) \/ Restart(p)
  PROVE  ScheduleInv'
<1>1. RowsInv /\ pass \in Passes /\ now \in 0 .. MaxNow
  BY RowsOfInv DEF ScheduleInv, TypeOK, Passes
<1>2. now' = now /\ UNCHANGED <<asked, sequence>>
  BY DEF BeginPass, Tidy, Purge, Skip, EndPass, Restart, storeVars
<1>3. RowsInv'
  <2>1. CASE Tidy(p)
    BY <2>1, TidyKeepsRows
  <2>2. CASE BeginPass(p) \/ Skip(p) \/ EndPass(p) \/ Restart(p)
    <3>1. UNCHANGED <<runs, asked, sequence, now, calledOff>>
      BY <2>2 DEF BeginPass, Skip, EndPass, Restart, storeVars
    <3>. QED  BY <1>1, <3>1, RowsInvKept DEF RowsInv
  <2>. QED  BY <2>1, <2>2
<1>4. /\ pass' \in Passes /\ \A q \in Processes : q # p => pass'[q] = pass[q]
      /\ pass'[p].pc # "idle" => pass'[p].moment = Last(p)
  <2>1. CASE BeginPass(p)
    BY <1>1, <2>1 DEF BeginPass, Last, Passes
  <2>2. CASE Tidy(p)
    BY <1>1, <2>2 DEF Tidy, Last, Passes
  <2>3. CASE Skip(p)
    BY <1>1, <2>3 DEF Skip, Walking, Last, Passes
  <2>4. CASE EndPass(p) \/ Restart(p)
    BY <1>1, <2>4, Parameters DEF EndPass, Restart, NoPass, Passes
  <2>. QED  BY <2>1, <2>2, <2>3, <2>4
<1>5. UNCHANGED written \/ written' = [written EXCEPT ![p] = [t \in Tasks |-> NoInstant]]
  BY DEF BeginPass, Tidy, Skip, EndPass, Restart
<1>. QED  BY <1>2, <1>3, <1>4, <1>5, MovingOn

LEMMA WriteSlotInv ==
  ASSUME ScheduleInv, NEW p \in Processes, WriteSlot(p)
  PROVE  /\ ScheduleInv'
         /\ \A t, slot : t = pass[p].at /\ slot = NextAfter(t, pass[p].moment) => Named(t, slot)'
<1>. PICK t, slot : t = pass[p].at /\ slot = NextAfter(t, pass[p].moment)
  OBVIOUS
<1>1. /\ Walking(p) /\ Offer(t, slot) /\ UNCHANGED <<now, calledOff>>
      /\ written' = [written EXCEPT ![p][t] = slot]
      /\ pass' = [pass EXCEPT ![p].at = @ + 1]
  BY DEF WriteSlot
<1>2. /\ RowsInv' /\ t \in Tasks /\ slot \in Nat /\ Named(t, slot)'
      /\ \A u \in Tasks, n \in Nat : Named(u, n) => Named(u, n)'
  BY <1>1, OfferKeepsRows
<1>3. /\ pass \in Passes /\ written \in [Processes -> [Tasks -> Nat \union {NoInstant}]]
  BY DEF ScheduleInv, TypeOK, Passes
<1>4. /\ pass' \in Passes /\ written' \in [Processes -> [Tasks -> Nat \union {NoInstant}]]
  BY <1>1, <1>2, <1>3 DEF Passes
<1>5. ASSUME NEW q \in Processes
      PROVE  Last(q) = Last(q)' /\ Last(q) \in Nat /\ Last(q) <= now /\ now <= Last(q) + PassLimit
  BY <1>1, <1>3 DEF Last, Passes, ScheduleInv, TypeOK, Recent
<1>6. Last(p)' = pass[p].moment
  BY <1>1, <1>3 DEF Last, Passes, Walking
<1>7. ASSUME NEW q \in Processes, NEW u \in Tasks
      PROVE  \/ written'[q][u] = written[q][u]
             \/ \E n \in Nat : written'[q][u] = n /\ n = NextAfter(u, Last(q)') /\ Named(u, n)'
  BY <1>1, <1>2, <1>3, <1>6
<1>8. ScheduleInv'
  BY <1>1, <1>2, <1>4, <1>5, <1>7, StepKeepsInv
<1>. QED  BY <1>2, <1>8

(* The store refused, having written the slot or not: the pass is over and nothing is remembered. *)
LEMMA SlotRefusedInv ==
  ASSUME ScheduleInv, NEW p \in Processes, SlotRefused(p)
  PROVE  ScheduleInv'
<1>. PICK t, slot : t = pass[p].at /\ slot = NextAfter(t, pass[p].moment)
  OBVIOUS
<1>1. /\ Walking(p) /\ (Offer(t, slot) \/ UNCHANGED storeVars)
      /\ UNCHANGED <<now, written, calledOff>> /\ pass' = [pass EXCEPT ![p] = NoPass]
  BY DEF SlotRefused
<1>2. RowsInv' /\ \A u \in Tasks, n \in Nat : Named(u, n) => Named(u, n)'
  <2>1. CASE Offer(t, slot)
    BY <1>1, <2>1, OfferKeepsRows
  <2>2. CASE UNCHANGED storeVars
    BY <1>1, <2>2, RowsOfInv, RowsInvKept DEF storeVars, RowsInv, Named
  <2>. QED  BY <1>1, <2>1, <2>2
<1>3. pass \in Passes /\ now \in Nat /\ PassLimit \in Nat
  BY ScheduleAssumption DEF ScheduleInv, TypeOK, Passes
<1>4. pass' \in Passes
  BY <1>1, <1>3, ScheduleAssumption DEF NoPass, Passes
<1>5. ASSUME NEW q \in Processes
      PROVE  Last(q) <= Last(q)' /\ Last(q)' <= now' /\ now' <= Last(q)' + PassLimit
  <2>1. Last(q) \in Nat /\ Last(q) <= now /\ now <= Last(q) + PassLimit
    BY <1>3 DEF ScheduleInv, Recent, Last, Passes
  <2>2. Last(q)' = Last(q) \/ Last(q)' = now
    BY <1>1, <1>3 DEF Last, Passes, NoPass
  <2>. QED  BY <1>1, <1>3, <2>1, <2>2
<1>6. written' \in [Processes -> [Tasks -> Nat \union {NoInstant}]]
  BY <1>1 DEF ScheduleInv, TypeOK
<1>. QED  BY <1>1, <1>2, <1>4, <1>5, <1>6, StepKeepsInv

(* Time goes on while no pass is older than it may be, and what becomes of a row is nothing to a pass. *)
LEMMA AroundInv ==
  ASSUME ScheduleInv, Tick \/ \E r \in Ids : Work(r) \/ CancelRun(r)
  PROVE  ScheduleInv'
<1>1. RowsInv /\ pass \in Passes /\ now \in 0 .. MaxNow /\ MaxNow \in Nat /\ PassLimit \in Nat
  BY RowsOfInv, ScheduleAssumption DEF ScheduleInv, TypeOK, Passes
<1>2. /\ UNCHANGED <<pass, written, asked, sequence>>
      /\ UNCHANGED now \/ Tick
  BY DEF Tick, Work, CancelRun, Cancel, Write, scheduleVars, storeVars
<1>3. RowsInv'
  <2>1. CASE Tick
    <3>1. UNCHANGED <<runs, asked, sequence, calledOff>> /\ now' \in now .. MaxNow
      BY <1>1, <2>1 DEF Tick, storeVars
    <3>. QED  BY <1>1, <3>1, RowsInvKept DEF RowsInv
  <2>2. CASE \E r \in Ids : Work(r) \/ CancelRun(r)
    BY <2>2, WorkKeepsRows
  <2>. QED  BY <2>1, <2>2
<1>4. ASSUME NEW q \in Processes
      PROVE  Last(q) <= Last(q)' /\ Last(q)' <= now' /\ now' <= Last(q)' + PassLimit
  <2>1. Last(q) \in Nat /\ Last(q) <= now /\ now <= Last(q) + PassLimit
    BY <1>1 DEF ScheduleInv, Recent, Last, Passes
  <2>2. CASE UNCHANGED now
    BY <1>2, <2>1, <2>2 DEF Last
  <2>3. CASE Tick
    BY <1>1, <1>2, <2>1, <2>3 DEF Tick, Last, Passes
  <2>. QED  BY <1>2, <2>2, <2>3
<1>5. \A u \in Tasks, n \in Nat : Named(u, n) => Named(u, n)'
  BY <1>2 DEF Named
<1>6. pass' \in Passes /\ written' \in [Processes -> [Tasks -> Nat \union {NoInstant}]]
  BY <1>1, <1>2 DEF ScheduleInv, TypeOK
<1>. QED  BY <1>2, <1>3, <1>4, <1>5, <1>6, StepKeepsInv

-----------------------------------------------------------------------------
(* The theorems. *)

LEMMA InitInv ==
  ASSUME Init
  PROVE  ScheduleInv
<1>0. /\ MaxRuns \in Nat \ {0} /\ MaxNow \in Nat /\ PassLimit \in Nat
  BY StoreAssumption, ScheduleAssumption
<1>1. Absent \in SlotRow
  BY DEF Absent, SlotRow, NoInstant
<1>2. TypeOK
  BY <1>0, <1>1 DEF Init, StoreInit, TypeOK, NoPass
<1>3. \A r \in Ids : IF r < sequence THEN Accounted(r) ELSE ~Present(r)
  BY DEF Init, StoreInit, Ids, Present, Absent
<1>4. ASSUME NEW p \in Processes
      PROVE  Recent(p)
  BY <1>0 DEF Init, Recent, NoPass
<1>5. SlotWrittenOnce /\ RememberedIsWritten
  BY DEF Init, StoreInit, SlotWrittenOnce, RememberedIsWritten
<1>. QED  BY <1>2, <1>3, <1>4, <1>5 DEF ScheduleInv

LEMMA NextInv ==
  ASSUME ScheduleInv, [Next]_vars
  PROVE  ScheduleInv'
<1>1. CASE UNCHANGED vars
  <2>1. UNCHANGED <<runs, asked, sequence, now, pass, written, calledOff>>
    BY <1>1 DEF vars
  <2>. QED
    BY <2>1 DEF ScheduleInv, TypeOK, Accounted, SlotOf, Present, Recent, SlotWrittenOnce,
                RememberedIsWritten, Named
<1>2. ASSUME NEW p \in Processes,
             BeginPass(p) \/ Tidy(p) \/ Skip(p) \/ EndPass(p) \/ Restart(p)
      PROVE  ScheduleInv'
  BY <1>2, PassInv
<1>3. ASSUME NEW p \in Processes, WriteSlot(p) \/ SlotRefused(p)
      PROVE  ScheduleInv'
  BY <1>3, WriteSlotInv, SlotRefusedInv
<1>4. CASE Tick \/ \E r \in Ids : Work(r) \/ CancelRun(r)
  BY <1>4, AroundInv
<1>. QED  BY <1>1, <1>2, <1>3, <1>4 DEF Next

(* The rows, the passes and what the processes remember agree in every state of every behaviour *)
(* (app.py:262-286, store/memory.py:167-174).                                                    *)
THEOREM ScheduleInvariant == Spec => []ScheduleInv
BY InitInv, NextInv, PTL DEF Spec

(* Ten workers do not make ten runs: while no pass outlasts the keep, a key has a second run only *)
(* after somebody called the first off (docs/tasks.md:138-152).                                    *)
THEOREM OneRunPerSlot == Spec => []SlotWrittenOnce
<1>1. ScheduleInv => SlotWrittenOnce
  BY DEF ScheduleInv
<1>. QED  BY <1>1, ScheduleInvariant, PTL

(* What a process remembers to have written, the store was given (app.py:281). *)
THEOREM NothingIsRememberedInVain == Spec => []RememberedIsWritten
<1>1. ScheduleInv => RememberedIsWritten
  BY DEF ScheduleInv
<1>. QED  BY <1>1, ScheduleInvariant, PTL

(* Going past a task without asking the trigger is right: the slot a process has ahead of its   *)
(* pass is the very slot the trigger would have given.                                           *)
LEMMA AheadIsNext ==
  ASSUME ScheduleInv, NEW p \in Processes, Skip(p)
  PROVE  Named(pass[p].at, NextAfter(pass[p].at, pass[p].moment))
<1>. PICK t, slot : t = pass[p].at /\ slot = written[p][t]
  OBVIOUS
<1>1. /\ t \in Tasks /\ pass[p].pc # "idle" /\ slot # NoInstant /\ slot > pass[p].moment
      /\ pass[p].moment \in Nat
  BY DEF Skip, Walking, IsAhead, ScheduleInv, TypeOK
<1>2. PICK m \in 0 .. pass[p].moment : slot = NextAfter(t, m)
  BY <1>1 DEF ScheduleInv, Recent
<1>3. m \in Nat /\ m <= pass[p].moment /\ pass[p].moment < NextAfter(t, m)
  BY <1>1, <1>2, NextIsLater
<1>4. slot = NextAfter(t, pass[p].moment)
  BY <1>1, <1>2, <1>3, SameSlot
<1>5. Named(t, slot)
  BY <1>1 DEF ScheduleInv, RememberedIsWritten
<1>. QED  BY <1>4, <1>5

(* What a step of a process does to its own pass, once that is at the writing. *)
LEMMA WritingSteps ==
  ASSUME ScheduleInv, [Next]_vars, NEW p \in Processes, pass[p].pc = "writing", pass'[p] # pass[p]
  PROVE  Skip(p) \/ WriteSlot(p) \/ EndPass(p) \/ SlotRefused(p) \/ Restart(p)
<1>1. pass \in Passes
  BY DEF ScheduleInv, TypeOK, Passes
<1>2. CASE UNCHANGED vars \/ Tick \/ \E r \in Ids : Work(r) \/ CancelRun(r)
  BY <1>2 DEF vars, Tick, Work, CancelRun, scheduleVars
<1>3. ASSUME NEW q \in Processes, q # p,
             \/ BeginPass(q) \/ Tidy(q) \/ Skip(q) \/ WriteSlot(q) \/ SlotRefused(q)
             \/ EndPass(q) \/ Restart(q)
      PROVE  FALSE
  BY <1>1, <1>3 DEF BeginPass, Tidy, Skip, WriteSlot, SlotRefused, EndPass, Restart, Passes
<1>4. ~BeginPass(p) /\ ~Tidy(p)
  BY DEF BeginPass, Tidy
<1>. QED  BY <1>2, <1>3, <1>4 DEF Next

(* A pass starts at the first task; what it went past is written, whoever wrote it, and stays so. *)
Walked(p) ==
  /\ pass[p].pc # "writing" => pass[p].at = 1
  /\ pass[p].pc = "writing" =>
       \A t \in Tasks : t < pass[p].at => Named(t, NextAfter(t, pass[p].moment))

LEMMA NamesLast ==
  ASSUME ScheduleInv, [Next]_vars, NEW t, NEW slot, Named(t, slot)
  PROVE  Named(t, slot)'
<1>1. PICK r \in 1 .. sequence - 1 : asked[r].key = <<t, slot>>
  BY DEF Named
<1>2. sequence \in Nat /\ asked = [q \in Ids |-> asked[q]] /\ r # sequence
  BY <1>1, StoreAssumption DEF ScheduleInv, TypeOK
<1>3. /\ sequence' = sequence \/ sequence' = sequence + 1
      /\ asked'[r] = asked[r]
  <2>1. ASSUME UNCHANGED storeVars
        PROVE  sequence' = sequence /\ asked' = asked
    BY <2>1 DEF storeVars
  <2>2. ASSUME NEW q, NEW row, Write(q, row)
        PROVE  sequence' = sequence /\ asked' = asked
    BY <2>2 DEF Write
  <2>3. ASSUME NEW u, NEW n, Offer(u, n)
        PROVE  (sequence' = sequence \/ sequence' = sequence + 1) /\ asked'[r] = asked[r]
    <3>1. CASE Add(Occurrence(u, n), n)
      BY <1>2, <3>1 DEF Add
    <3>. QED  BY <2>1, <2>3, <3>1 DEF Offer
  <2>4. CASE UNCHANGED vars \/ Tick
    BY <2>4 DEF vars, Tick, storeVars
  <2>5. ASSUME NEW q \in Ids, Work(q) \/ CancelRun(q)
        PROVE  sequence' = sequence /\ asked' = asked
    BY <2>2, <2>5 DEF Work, CancelRun, Cancel
  <2>6. ASSUME NEW q \in Processes, BeginPass(q) \/ Tidy(q) \/ Skip(q) \/ EndPass(q) \/ Restart(q)
        PROVE  sequence' = sequence /\ asked' = asked
    BY <2>1, <2>6 DEF BeginPass, Tidy, Purge, Skip, EndPass, Restart
  <2>7. ASSUME NEW q \in Processes, WriteSlot(q) \/ SlotRefused(q)
        PROVE  (sequence' = sequence \/ sequence' = sequence + 1) /\ asked'[r] = asked[r]
    BY <2>1, <2>3, <2>7 DEF WriteSlot, SlotRefused
  <2>. QED  BY <2>4, <2>5, <2>6, <2>7 DEF Next
<1>4. r \in 1 .. sequence' - 1
  BY <1>2, <1>3
<1>5. asked'[r].key = <<t, slot>>
  BY <1>1, <1>3
<1>. QED  BY <1>4, <1>5 DEF Named

(* A pass goes past a task by finding its slot ahead, or by asking the store for it. *)
LEMMA GonePast ==
  ASSUME ScheduleInv, [Next]_vars, NEW p \in Processes, Skip(p) \/ WriteSlot(p)
  PROVE  /\ pass'[p] = [pass[p] EXCEPT !.at = @ + 1] /\ pass[p].at \in Tasks
         /\ \A slot : slot = NextAfter(pass[p].at, pass[p].moment) => NamedNow(pass[p].at, slot)
<1>. PICK t, slot : t = pass[p].at /\ slot = NextAfter(t, pass[p].moment)
  OBVIOUS
<1>1. pass'[p] = [pass[p] EXCEPT !.at = @ + 1] /\ pass[p].at \in Tasks
  BY DEF Skip, WriteSlot, Walking, ScheduleInv, TypeOK
<1>2. ASSUME Skip(p)
      PROVE  NamedNow(t, slot)
  <2>1. Named(t, slot)
    BY <1>2, AheadIsNext
  <2>2. asked' = asked /\ sequence' = sequence
    BY <1>2 DEF Skip, storeVars
  <2>. QED  BY <2>1, <2>2 DEF Named, NamedNow
<1>3. ASSUME WriteSlot(p)
      PROVE  NamedNow(t, slot)
  <2>1. Named(t, slot)'
    BY <1>3, WriteSlotInv
  <2>. QED  BY <2>1 DEF Named, NamedNow
<1>4. NamedNow(t, slot)
  BY <1>2, <1>3
<1>. QED  BY <1>1, <1>4

LEMMA WalkedIsKept ==
  ASSUME ScheduleInv, [Next]_vars, NEW p \in Processes, Walked(p)
  PROVE  Walked(p)'
<1>1. pass \in Passes /\ \A t \in Tasks : t \in Nat /\ t >= 1
  BY ScheduleAssumption DEF ScheduleInv, TypeOK, Passes, Tasks
<1>2. CASE pass'[p] = pass[p]
  <2>1. ASSUME NEW t \in Tasks, pass[p].pc = "writing", t < pass[p].at
        PROVE  Named(t, NextAfter(t, pass[p].moment))'
    <3>1. Named(t, NextAfter(t, pass[p].moment))
      BY <2>1 DEF Walked
    <3>2. PICK slot : slot = NextAfter(t, pass[p].moment)
      OBVIOUS
    <3>3. Named(t, slot)'
      BY <3>1, <3>2, NamesLast
    <3>. QED  BY <1>2, <3>2, <3>3 DEF Named, NextAfter
  <2>. QED  BY <1>2, <2>1 DEF Walked
<1>3. ASSUME pass'[p].at = 1
      PROVE  Walked(p)'
  BY <1>1, <1>3 DEF Walked
<1>4. CASE pass[p].pc = "writing" /\ pass'[p] # pass[p]
  <2>1. Skip(p) \/ WriteSlot(p) \/ EndPass(p) \/ SlotRefused(p) \/ Restart(p)
    BY <1>4, WritingSteps
  <2>2. CASE EndPass(p) \/ SlotRefused(p) \/ Restart(p)
    <3>1. pass'[p].at = 1
      BY <1>1, <2>2 DEF EndPass, SlotRefused, Restart, NoPass, Passes
    <3>. QED  BY <1>3, <3>1
  <2>3. CASE Skip(p) \/ WriteSlot(p)
    <3>1. /\ pass'[p] = [pass[p] EXCEPT !.at = @ + 1] /\ pass[p].at \in Tasks
          /\ \A n : n = NextAfter(pass[p].at, pass[p].moment) => NamedNow(pass[p].at, n)
      BY <2>3, GonePast
    <3>2. /\ pass'[p].moment = pass[p].moment /\ pass'[p].at = pass[p].at + 1
          /\ pass'[p].pc = "writing" /\ pass[p].at \in Nat
      BY <1>1, <1>4, <3>1 DEF Passes
    <3>3. ASSUME NEW t \in Tasks, t < pass[p].at + 1
          PROVE  Named(t, NextAfter(t, pass[p].moment))'
      <4>. PICK slot : slot = NextAfter(t, pass[p].moment)
        OBVIOUS
      <4>1. Named(t, slot)'
        <5>1. CASE t = pass[p].at
          BY <3>1, <5>1 DEF NamedNow, Named
        <5>2. CASE t < pass[p].at
          <6>1. Named(t, slot)
            BY <1>4, <5>2 DEF Walked
          <6>. QED  BY <6>1, NamesLast
        <5>. QED  BY <1>1, <3>2, <3>3, <5>1, <5>2
      <4>. QED  BY <3>2, <4>1 DEF Named, NextAfter
    <3>. QED  BY <3>2, <3>3 DEF Walked
  <2>. QED  BY <2>1, <2>2, <2>3
<1>5. CASE pass[p].pc # "writing" /\ pass'[p] # pass[p]
  <2>1. pass'[p].at = 1
    <3>1. CASE UNCHANGED vars \/ Tick \/ \E r \in Ids : Work(r) \/ CancelRun(r)
      BY <1>5, <3>1 DEF vars, Tick, Work, CancelRun, scheduleVars
    <3>2. ASSUME NEW q \in Processes, q # p,
                 \/ BeginPass(q) \/ Tidy(q) \/ Skip(q) \/ WriteSlot(q) \/ SlotRefused(q)
                 \/ EndPass(q) \/ Restart(q)
          PROVE  FALSE
      BY <1>1, <1>5, <3>2
      DEF BeginPass, Tidy, Skip, WriteSlot, SlotRefused, EndPass, Restart, Passes
    <3>3. CASE BeginPass(p) \/ SlotRefused(p) \/ EndPass(p) \/ Restart(p)
      BY <1>1, <3>3 DEF BeginPass, SlotRefused, EndPass, Restart, NoPass, Passes
    <3>4. CASE Skip(p) \/ WriteSlot(p)
      BY <1>5, <3>4 DEF Skip, WriteSlot, Walking
    <3>5. CASE Tidy(p)
      BY <1>1, <1>5, <3>5 DEF Tidy, Passes, Walked
    <3>. QED  BY <3>1, <3>2, <3>3, <3>4, <3>5 DEF Next
  <2>. QED  BY <1>3, <2>1
<1>. QED  BY <1>2, <1>4, <1>5

LEMMA PassesOver ==
  ASSUME ScheduleInv, [Next]_vars, NEW p \in Processes,
         Walking(p), pass'[p].at = pass[p].at + 1
  PROVE  \A slot : slot = NextAfter(pass[p].at, pass[p].moment) => NamedNow(pass[p].at, slot)
<1>1. pass \in Passes /\ pass[p].at \in Nat \ {0} /\ pass[p].pc = "writing"
  BY DEF ScheduleInv, TypeOK, Passes, Walking
<1>2. Skip(p) \/ WriteSlot(p) \/ EndPass(p) \/ SlotRefused(p) \/ Restart(p)
  <2>1. pass'[p] # pass[p]
    BY <1>1
  <2>. QED  BY <1>1, <2>1, WritingSteps
<1>3. ~(EndPass(p) \/ Restart(p) \/ SlotRefused(p))
  <2>1. pass'[p].at # 1
    BY <1>1
  <2>. QED  BY <1>1, <2>1 DEF EndPass, Restart, SlotRefused, NoPass, Passes
<1>. QED  BY <1>2, <1>3, GonePast

(* A walk that comes to its end has no task left before it. *)
LEMMA WalkIsWhole ==
  ASSUME ScheduleInv, [Next]_vars, NEW p \in Processes, Walked(p),
         pass[p].pc = "writing", pass'[p] = NoPass, ~SlotRefused(p), ~Restart(p), NEW t \in Tasks
  PROVE  \A slot : slot = NextAfter(t, pass[p].moment) => NamedNow(t, slot)
<1>. PICK slot : slot = NextAfter(t, pass[p].moment)
  OBVIOUS
<1>1. pass \in Passes /\ pass[p].at \in Nat \ {0}
  BY DEF ScheduleInv, TypeOK, Passes
<1>2. EndPass(p)
  <2>1. pass'[p].pc = "idle" /\ pass'[p] # pass[p]
    BY DEF NoPass
  <2>2. ~Skip(p) /\ ~WriteSlot(p)
    BY <1>1, <2>1 DEF Skip, WriteSlot, Walking, Passes
  <2>. QED  BY <2>1, <2>2, WritingSteps
<1>3. t < pass[p].at
  <2>1. Tasks = 1 .. Len(Span) /\ Len(Span) \in Nat
    BY ScheduleAssumption DEF Tasks
  <2>. QED  BY <1>1, <1>2, <2>1 DEF EndPass
<1>4. Named(t, slot)
  BY <1>3 DEF Walked
<1>. QED  BY <1>4, NamesLast DEF Named, NamedNow

(* A pass leaves the next slot of every task it goes past written, the tasks it does not ask     *)
(* the trigger about included, and one that comes to its end has gone past them all               *)
(* (app.py:262-286).                                                                              *)
THEOREM EverySlotIsWritten == Spec => NoSlotPassedOver
<1>. DEFINE Whole == \A p \in Processes : Walked(p)
<1>1. Init => Whole
  BY DEF Init, NoPass, Walked
<1>2. Whole /\ ScheduleInv /\ [Next]_vars => Whole'
  BY WalkedIsKept
<1>3. Whole /\ ScheduleInv /\ [Next]_vars =>
        [\A p \in Processes :
           /\ Walking(p) /\ pass'[p].at = pass[p].at + 1
                => NamedNow(pass[p].at, NextAfter(pass[p].at, pass[p].moment))
           /\ pass[p].pc = "writing" /\ pass'[p] = NoPass
                => \/ SlotRefused(p) \/ Restart(p)
                   \/ \A t \in Tasks : NamedNow(t, NextAfter(t, pass[p].moment))]_vars
  BY PassesOver, WalkIsWhole
<1>. HIDE DEF Whole
<1>. QED  BY <1>1, <1>2, <1>3, ScheduleInvariant, PTL DEF Spec, NoSlotPassedOver
=============================================================================
