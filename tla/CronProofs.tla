------------------------------ MODULE CronProofs ------------------------------
(***************************************************************************)
(* That the search of next_after passes over no minute an expression       *)
(* names, for every expression, every instant and every calendar whose     *)
(* months are as long as months are, and that what is refused could never  *)
(* have run.                                                               *)
(***************************************************************************)
EXTENDS Cron, WellFoundedInduction, TLAPS

-----------------------------------------------------------------------------
(* What a token stands for: the values a step apart are its first and whole steps beyond it. *)

LEMMA Steps ==
  ASSUME NEW v \in Int, NEW start \in Int, NEW step \in Nat \ {0}, v >= start
  PROVE  (v - start) % step = 0 <=> \E k \in 0 .. v - start : v = start + k * step
<1>. DEFINE n == v - start
            q == n \div step
            m == n % step
<1>1. n \in Nat /\ q \in Int /\ m \in Nat /\ m < step /\ n = step * q + m
  OBVIOUS
<1>2. ASSUME m = 0
      PROVE  \E k \in 0 .. n : v = start + k * step
  <2>1. n = q * step /\ v = start + q * step
    BY <1>1, <1>2
  <2>2. q >= 0
    <3>. SUFFICES ASSUME q <= -1
                  PROVE  FALSE
      BY <1>1
    <3>. HIDE DEF n, q
    <3>1. q * step <= -step
      BY <1>1
    <3>. QED  BY <1>1, <2>1, <3>1
  <2>3. q <= n
    <3>. HIDE DEF n, q
    <3>1. q * (step - 1) >= 0
      BY <1>1, <2>2
    <3>. QED  BY <1>1, <2>1, <3>1
  <2>4. q \in 0 .. n
    BY <1>1, <2>2, <2>3
  <2>. QED  BY <2>1, <2>4
<1>3. ASSUME NEW k \in 0 .. n, v = start + k * step
      PROVE  m = 0
  <2>0. k \in Int /\ n = k * step
    BY <1>1, <1>3
  <2>. HIDE DEF n, q, m
  <2>1. step * (k - q) = m
    BY <1>1, <2>0
  <2>2. k - q < 1
    <3>. SUFFICES ASSUME k - q >= 1
                  PROVE  FALSE
      BY <1>1, <2>0
    <3>1. step * (k - q) >= step
      BY <1>1, <2>0
    <3>. QED  BY <1>1, <2>1, <3>1
  <2>3. k - q > -1
    <3>. SUFFICES ASSUME k - q <= -1
                  PROVE  FALSE
      BY <1>1, <2>0
    <3>1. step * (k - q) <= -step
      BY <1>1, <2>0
    <3>. QED  BY <1>1, <2>1, <3>1
  <2>4. k - q = 0
    BY <1>1, <2>0, <2>2, <2>3
  <2>. QED  BY <1>1, <2>1, <2>4
<1>. QED  BY <1>2, <1>3

LEMMA Ranges ==
  ASSUME NEW f \in 1 .. 5
  PROVE  /\ Low(f) \in Int /\ High(f) \in Int
         /\ f = 1 => Low(f) = 0 /\ High(f) = 59
         /\ f = 2 => Low(f) = 0 /\ High(f) = 23
<1>1. f = 1 \/ f = 2 \/ f = 3 \/ f = 4 \/ f = 5
  OBVIOUS
<1>. QED  BY <1>1 DEF Low, High, FieldRanges

LEMMA BoundsAre ==
  ASSUME NEW token \in Tokens, NEW f \in 1 .. 5
  PROVE  /\ Bounds(token, f)[1] = IF token.base = "star" THEN Low(f) ELSE token.first
         /\ Bounds(token, f)[2] = IF token.base = "star" THEN High(f) ELSE token.last
         /\ Bounds(token, f)[1] \in Int /\ Bounds(token, f)[2] \in Int
BY Ranges DEF Bounds, Tokens

(* Token by token, what the parser keeps is what the token names. *)
NamedBy(token, f, value) ==
  LET from == IF token.base = "star" THEN Low(f) ELSE token.first
      to == IF token.base = "star" THEN High(f) ELSE token.last
  IN  /\ value \in from .. to
      /\ token.sliced => \E k \in 0 .. value - from : value = from + k * token.step

LEMMA TokenNames ==
  ASSUME NEW token \in Tokens, NEW f \in 1 .. 5, ~TokenRefused(token, f), NEW v
  PROVE  /\ v \in ValuesOf(token, f) <=> NamedBy(token, f, v)
         /\ v \in ValuesOf(token, f) => v \in Low(f) .. High(f)
<1>. DEFINE start == Bounds(token, f)[1]
            end == Bounds(token, f)[2]
            step == IF token.sliced THEN token.step ELSE 1
<1>1. /\ start \in Int /\ end \in Int /\ Low(f) \in Int /\ High(f) \in Int
      /\ start = IF token.base = "star" THEN Low(f) ELSE token.first
      /\ end = IF token.base = "star" THEN High(f) ELSE token.last
  BY BoundsAre, Ranges
<1>2. step \in Nat \ {0} /\ start >= Low(f) /\ end <= High(f)
  BY <1>1 DEF TokenRefused, Tokens
<1>3. v \in ValuesOf(token, f) <=> v \in start .. end /\ (v - start) % step = 0
  BY DEF ValuesOf
<1>4. NamedBy(token, f, v) <=>
        v \in start .. end /\ (token.sliced => \E k \in 0 .. v - start : v = start + k * token.step)
  BY <1>1 DEF NamedBy
<1>. HIDE DEF start, end
<1>5. v \in start .. end => v \in Int /\ v >= start /\ v \in Low(f) .. High(f)
  BY <1>1, <1>2
<1>6. CASE token.sliced
  <2>1. v \in start .. end => ((v - start) % step = 0 <=> \E k \in 0 .. v - start : v = start + k * step)
    <3>. SUFFICES ASSUME v \in start .. end
                  PROVE  (v - start) % step = 0 <=> \E k \in 0 .. v - start : v = start + k * step
      OBVIOUS
    <3>. HIDE DEF step
    <3>1. v \in Int /\ v >= start /\ start \in Int /\ step \in Nat \ {0}
      BY <1>1, <1>2, <1>5
    <3>. QED  BY <3>1, Steps
  <2>. QED  BY <1>3, <1>4, <1>5, <1>6, <2>1
<1>7. CASE ~token.sliced
  <2>1. v \in start .. end => (v - start) % 1 = 0
    BY <1>1, <1>5
  <2>. QED  BY <1>3, <1>4, <1>5, <1>7, <2>1
<1>. QED  BY <1>6, <1>7

LEMMA FieldNames ==
  ASSUME NEW f \in 1 .. 5, NEW spec \in Seq(Tokens), \A i \in DOMAIN spec : ~TokenRefused(spec[i], f),
         NEW v
  PROVE  /\ v \in FieldOf(spec, f) <=> Names(spec, f, v)
         /\ v \in FieldOf(spec, f) => v \in Low(f) .. High(f)
<1>1. \A i \in DOMAIN spec : spec[i] \in Tokens
  OBVIOUS
<1>2. \A i \in DOMAIN spec : /\ v \in ValuesOf(spec[i], f) <=> NamedBy(spec[i], f, v)
                             /\ v \in ValuesOf(spec[i], f) => v \in Low(f) .. High(f)
  BY <1>1, TokenNames
<1>3. v \in FieldOf(spec, f) <=> \E i \in DOMAIN spec : v \in ValuesOf(spec[i], f)
  BY DEF FieldOf
<1>4. Names(spec, f, v) <=> \E i \in DOMAIN spec : NamedBy(spec[i], f, v)
  BY DEF Names, NamedBy
<1>. QED  BY <1>2, <1>3, <1>4

-----------------------------------------------------------------------------
(* What the fields an expression was parsed into say of a day is what it names. *)

LEMMA WrittenIs ==
  ASSUME NEW e \in Expressions, WellWritten(e)
  PROVE  /\ \A f \in 1 .. 5 : e[f] \in Seq(Tokens)
         /\ \A f \in 1 .. 5 : \A v : /\ v \in FieldOf(e[f], f) <=> Names(e[f], f, v)
                                     /\ v \in FieldOf(e[f], f) => v \in Low(f) .. High(f)
<1>1. \A f \in 1 .. 5 : e[f] \in Seq(Tokens)
  BY ExpressionAssumption
<1>2. \A f \in 1 .. 5 : \A i \in DOMAIN e[f] : ~TokenRefused(e[f][i], f)
  BY DEF WellWritten
<1>. QED  BY <1>1, <1>2, FieldNames

LEMMA DayNamed ==
  ASSUME NEW e \in Expressions, WellWritten(e), fields = Parsed(e), NEW day \in 0 .. LastDay
  PROVE  OnDay(day) <=> NamesDay(e, day)
<1>1. /\ fields.days = FieldOf(e[3], 3) /\ fields.months = FieldOf(e[4], 4)
      /\ fields.weekdays = Sundays(FieldOf(e[5], 5))
      /\ fields.day_starred = (e[3][1].base = "star") /\ fields.weekday_starred = (e[5][1].base = "star")
  BY DEF Parsed, Starred
<1>2. /\ DayOf(day) \in FieldOf(e[3], 3) <=> Names(e[3], 3, DayOf(day))
      /\ MonthOf(day) \in FieldOf(e[4], 4) <=> Names(e[4], 4, MonthOf(day))
      /\ WeekdayOf(day) \in FieldOf(e[5], 5) <=> Names(e[5], 5, WeekdayOf(day))
      /\ 7 \in FieldOf(e[5], 5) <=> Names(e[5], 5, 7)
  <2>1. 3 \in 1 .. 5 /\ 4 \in 1 .. 5 /\ 5 \in 1 .. 5
    OBVIOUS
  <2>2. \A f \in 1 .. 5 : \A v : v \in FieldOf(e[f], f) <=> Names(e[f], f, v)
    BY WrittenIs
  <2>. QED  BY <2>1, <2>2
<1>3. WeekdayOf(day) \in 0 .. 6 /\ WeekdayOf(day) # 7
  BY CalendarAssumption
<1>4. WeekdayOf(day) \in Sundays(FieldOf(e[5], 5)) <=>
        \/ Names(e[5], 5, WeekdayOf(day))
        \/ WeekdayOf(day) = 0 /\ Names(e[5], 5, 7)
  <2>1. CASE 7 \in FieldOf(e[5], 5)
    <3>1. WeekdayOf(day) \in Sundays(FieldOf(e[5], 5)) <=>
            WeekdayOf(day) \in FieldOf(e[5], 5) \/ WeekdayOf(day) = 0
      BY <1>3, <2>1 DEF Sundays
    <3>. QED  BY <1>2, <2>1, <3>1
  <2>2. CASE 7 \notin FieldOf(e[5], 5)
    <3>1. Sundays(FieldOf(e[5], 5)) = FieldOf(e[5], 5)
      BY <2>2 DEF Sundays
    <3>. QED  BY <1>2, <2>2, <3>1
  <2>. QED  BY <2>1, <2>2
<1>5. OnDay(day) <=>
        /\ MonthOf(day) \in fields.months
        /\ DayOf(day) \in fields.days \/ WeekdayOf(day) \in fields.weekdays
        /\ fields.day_starred \/ fields.weekday_starred =>
             DayOf(day) \in fields.days /\ WeekdayOf(day) \in fields.weekdays
  BY DEF OnDay
<1>. QED  BY <1>1, <1>2, <1>4, <1>5 DEF NamesDay

-----------------------------------------------------------------------------
(* Instants in order. *)

LEMMA InOrder ==
  ASSUME NEW a \in Instants, NEW b \in Instants, NEW c \in Instants
  PROVE  /\ Earlier(a, b) => a.day <= b.day /\ ~Earlier(b, a)
         /\ Earlier(a, b) /\ Earlier(b, c) => Earlier(a, c)
         /\ Earlier(a, b) /\ ~Earlier(c, b) => Earlier(a, c)
         /\ ~Earlier(a, b) => b.day <= a.day
BY DEF Earlier, Instants

LEMMA NextMinuteIs ==
  ASSUME NEW a \in Instants, NextMinute(a).day <= LastDay
  PROVE  /\ NextMinute(a) \in Instants /\ Earlier(a, NextMinute(a))
         /\ \A t \in Instants : ~(Earlier(a, t) /\ Earlier(t, NextMinute(a)))
<1>0. a.day \in 0 .. LastDay /\ a.hour \in 0 .. 23 /\ a.minute \in 0 .. 59 /\ LastDay \in Nat
  BY CalendarAssumption DEF Instants
<1>1. CASE a.minute < 59
  <2>1. PICK b : b = NextMinute(a)
    OBVIOUS
  <2>2. b = [a EXCEPT !.minute = @ + 1]
    BY <1>1, <2>1 DEF NextMinute
  <2>3. b \in Instants /\ b.day = a.day /\ b.hour = a.hour /\ b.minute = a.minute + 1
    BY <1>0, <1>1, <2>2 DEF Instants
  <2>4. Earlier(a, b)
    BY <1>0, <2>3 DEF Earlier
  <2>5. \A t \in Instants : ~(Earlier(a, t) /\ Earlier(t, b))
    <3>. SUFFICES ASSUME NEW t \in Instants
                  PROVE  ~(Earlier(a, t) /\ Earlier(t, b))
      OBVIOUS
    <3>1. t.day \in Int /\ t.hour \in 0 .. 23 /\ t.minute \in 0 .. 59
      BY DEF Instants
    <3>. HIDE DEF Instants
    <3>. QED  BY <1>0, <2>3, <3>1 DEF Earlier
  <2>. QED  BY <2>1, <2>3, <2>4, <2>5
<1>2. CASE ~(a.minute < 59) /\ a.hour < 23
  <2>1. PICK b : b = NextMinute(a)
    OBVIOUS
  <2>2. b = [a EXCEPT !.hour = @ + 1, !.minute = 0]
    BY <1>2, <2>1 DEF NextMinute
  <2>3. b \in Instants /\ b.day = a.day /\ b.hour = a.hour + 1 /\ b.minute = 0
    <3>1. a.hour + 1 \in 0 .. 23 /\ 0 \in 0 .. 59
      BY <1>0, <1>2
    <3>. QED  BY <1>0, <2>2, <3>1 DEF Instants
  <2>4. Earlier(a, b)
    BY <1>0, <1>2, <2>3 DEF Earlier
  <2>5. \A t \in Instants : ~(Earlier(a, t) /\ Earlier(t, b))
    <3>. SUFFICES ASSUME NEW t \in Instants
                  PROVE  ~(Earlier(a, t) /\ Earlier(t, b))
      OBVIOUS
    <3>1. t.day \in Int /\ t.hour \in 0 .. 23 /\ t.minute \in 0 .. 59
      BY DEF Instants
    <3>. HIDE DEF Instants
    <3>. QED  BY <1>0, <1>2, <2>3, <3>1 DEF Earlier
  <2>. QED  BY <2>1, <2>3, <2>4, <2>5
<1>3. CASE ~(a.minute < 59) /\ ~(a.hour < 23)
  <2>1. PICK b : b = NextMinute(a)
    OBVIOUS
  <2>2. b = [day |-> a.day + 1, hour |-> 0, minute |-> 0]
    BY <1>3, <2>1 DEF NextMinute, Midnight
  <2>3. b \in Instants /\ b.day = a.day + 1 /\ b.hour = 0 /\ b.minute = 0
    <3>1. a.day + 1 \in 0 .. LastDay
      BY <1>0, <2>1, <2>2
    <3>. QED  BY <2>2, <3>1 DEF Instants
  <2>4. Earlier(a, b)
    BY <1>0, <1>3, <2>3 DEF Earlier
  <2>5. \A t \in Instants : ~(Earlier(a, t) /\ Earlier(t, b))
    <3>. SUFFICES ASSUME NEW t \in Instants
                  PROVE  ~(Earlier(a, t) /\ Earlier(t, b))
      OBVIOUS
    <3>1. t.day \in Int /\ t.hour \in 0 .. 23 /\ t.minute \in 0 .. 59
      BY DEF Instants
    <3>. HIDE DEF Instants
    <3>. QED  BY <1>0, <1>3, <2>3, <3>1 DEF Earlier
  <2>. QED  BY <2>1, <2>3, <2>4, <2>5
<1>. QED  BY <1>1, <1>2, <1>3

(* A minute the expression names, and none of them between two instants. *)
Named(e, t) == NamesDay(e, t.day) /\ Names(e[2], 2, t.hour) /\ Names(e[1], 1, t.minute)

LEMMA NoneIs ==
  ASSUME NEW e, NEW a \in Instants, NEW b \in Instants
  PROVE  NoneBetween(e, a, b) <=>
           \A t \in Instants : Named(e, t) => ~(Earlier(a, t) /\ Earlier(t, b))
<1>1. ASSUME NoneBetween(e, a, b), NEW t \in Instants, Named(e, t), Earlier(a, t), Earlier(t, b)
      PROVE  FALSE
  <2>1. t.day \in a.day .. b.day
    BY <1>1, InOrder DEF Instants
  <2>2. t \in [day : {t.day}, hour : {h \in 0 .. 23 : Names(e[2], 2, h)},
               minute : {m \in 0 .. 59 : Names(e[1], 1, m)}]
    BY <1>1 DEF Named, Instants
  <2>. QED  BY <1>1, <2>1, <2>2 DEF NoneBetween, Named
<1>2. ASSUME \A t \in Instants : Named(e, t) => ~(Earlier(a, t) /\ Earlier(t, b))
      PROVE  NoneBetween(e, a, b)
  <2>. SUFFICES ASSUME NEW day \in a.day .. b.day, NamesDay(e, day),
                       NEW t \in [day : {day}, hour : {h \in 0 .. 23 : Names(e[2], 2, h)},
                                  minute : {m \in 0 .. 59 : Names(e[1], 1, m)}]
                PROVE  ~(Earlier(a, t) /\ Earlier(t, b))
    BY DEF NoneBetween
  <2>1. day \in 0 .. LastDay
    BY CalendarAssumption DEF Instants
  <2>2. t \in Instants /\ Named(e, t)
    BY <2>1 DEF Named, Instants
  <2>. QED  BY <1>2, <2>2
<1>. QED  BY <1>1, <1>2

-----------------------------------------------------------------------------
(* Where the search has come to, it passed over nothing: every candidate it left behind was a   *)
(* day the expression does not name, or had no minute left, and it counts each of them once.    *)

TypeOK ==
  /\ pc \in {"idle", "searching", "found", "exhausted", "refused"}
  /\ expression \in Expressions
  /\ moment \in Instants /\ candidate \in Instants
  /\ left \in 0 .. Horizon /\ asks \in 0 .. MaxAsks

Searched ==
  /\ ~Refused(expression)
  /\ Earlier(moment, candidate)
  /\ NoneBetween(expression, moment, candidate)

CronInv ==
  /\ TypeOK
  /\ fields = Parsed(expression)
  /\ pc = "refused" => Refused(expression)
  /\ pc \in {"searching", "found", "exhausted"} => Searched
  /\ pc = "found" => Named(expression, candidate)
  /\ pc \in {"searching", "exhausted"} => candidate.day + left = NextMinute(moment).day + Horizon
  /\ pc = "exhausted" => left = 0 /\ candidate = Midnight(candidate.day)

LEMMA AcceptedIsWritten ==
  ASSUME NEW e, ~Refused(e)
  PROVE  WellWritten(e)
BY DEF Refused, WellWritten

LEMMA InitInv == Init => CronInv
<1>1. 0 \in 0 .. Horizon /\ 0 \in 0 .. MaxAsks
  BY CalendarAssumption DEF Horizon
<1>. QED  BY <1>1, CalendarAssumption DEF Init, CronInv, TypeOK

LEMMA AskKeepsInv ==
  ASSUME CronInv, Ask
  PROVE  CronInv'
<1>1. /\ candidate \in Instants /\ NextMinute(candidate).day <= LastDay /\ expression \in Expressions
      /\ asks \in 0 .. MaxAsks /\ asks < MaxAsks /\ ~Refused(expression) /\ fields = Parsed(expression)
      /\ pc' = "searching" /\ moment' = candidate /\ candidate' = NextMinute(candidate)
      /\ left' = Horizon /\ asks' = asks + 1 /\ UNCHANGED <<expression, fields>>
  BY DEF CronInv, TypeOK, Ask
<1>2. /\ NextMinute(candidate) \in Instants /\ Earlier(candidate, NextMinute(candidate))
      /\ \A t \in Instants : ~(Earlier(candidate, t) /\ Earlier(t, NextMinute(candidate)))
  BY <1>1, NextMinuteIs
<1>3. Horizon \in 0 .. Horizon /\ asks + 1 \in 0 .. MaxAsks
  BY <1>1, CalendarAssumption DEF Horizon
<1>4. TypeOK'
  BY <1>1, <1>2, <1>3 DEF TypeOK
<1>5. NoneBetween(expression, candidate, NextMinute(candidate))
  BY <1>1, <1>2, NoneIs
<1>6. Searched'
  BY <1>1, <1>2, <1>5 DEF Searched
<1>. QED  BY <1>1, <1>4, <1>6 DEF CronInv

(* A minute of the expression on the day of the candidate, and not before it, is one of those   *)
(* the loop would return.                                                                       *)
LEMMA TimesAre ==
  ASSUME CronInv, pc = "searching"
  PROVE  /\ OnDay(candidate.day) <=> NamesDay(expression, candidate.day)
         /\ \A t \in TimesFrom(candidate) :
              /\ t \in Instants /\ t.day = candidate.day /\ ~Earlier(t, candidate)
              /\ Names(expression[2], 2, t.hour) /\ Names(expression[1], 1, t.minute)
         /\ \A t \in Instants :
              Named(expression, t) /\ t.day = candidate.day /\ ~Earlier(t, candidate) =>
                t \in TimesFrom(candidate)
<1>1. /\ candidate \in Instants /\ expression \in Expressions /\ fields = Parsed(expression)
      /\ WellWritten(expression) /\ candidate.day \in 0 .. LastDay
  BY AcceptedIsWritten DEF CronInv, TypeOK, Searched, Instants
<1>2. OnDay(candidate.day) <=> NamesDay(expression, candidate.day)
  BY <1>1, DayNamed
<1>3. fields.minutes = FieldOf(expression[1], 1) /\ fields.hours = FieldOf(expression[2], 2)
  BY <1>1 DEF Parsed
<1>4. \A v : /\ v \in fields.minutes <=> Names(expression[1], 1, v)
             /\ v \in fields.minutes => v \in 0 .. 59
             /\ v \in fields.hours <=> Names(expression[2], 2, v)
             /\ v \in fields.hours => v \in 0 .. 23
  <2>1. 1 \in 1 .. 5 /\ 2 \in 1 .. 5
    OBVIOUS
  <2>2. Low(1) = 0 /\ High(1) = 59 /\ Low(2) = 0 /\ High(2) = 23
    BY <2>1, Ranges
  <2>3. \A f \in 1 .. 5 : \A v : /\ v \in FieldOf(expression[f], f) <=> Names(expression[f], f, v)
                                 /\ v \in FieldOf(expression[f], f) => v \in Low(f) .. High(f)
    BY <1>1, WrittenIs
  <2>. QED  BY <1>3, <2>1, <2>2, <2>3
<1>5. ASSUME NEW t \in TimesFrom(candidate)
      PROVE  /\ t \in Instants /\ t.day = candidate.day /\ ~Earlier(t, candidate)
             /\ Names(expression[2], 2, t.hour) /\ Names(expression[1], 1, t.minute)
  <2>1. /\ t \in [day : {candidate.day}, hour : fields.hours, minute : fields.minutes]
        /\ ~Earlier(t, candidate)
    BY DEF TimesFrom
  <2>2. /\ t.day = candidate.day /\ t.hour \in fields.hours /\ t.minute \in fields.minutes
        /\ t = [day |-> t.day, hour |-> t.hour, minute |-> t.minute]
    BY <2>1
  <2>3. t.day \in 0 .. LastDay /\ t.hour \in 0 .. 23 /\ t.minute \in 0 .. 59
    BY <1>1, <1>4, <2>2
  <2>4. t \in Instants
    BY <2>2, <2>3 DEF Instants
  <2>. QED  BY <1>4, <2>1, <2>2, <2>4
<1>6. ASSUME NEW t \in Instants, Named(expression, t), t.day = candidate.day, ~Earlier(t, candidate)
      PROVE  t \in TimesFrom(candidate)
  <2>1. t = [day |-> t.day, hour |-> t.hour, minute |-> t.minute]
    BY DEF Instants
  <2>2. t.day \in {candidate.day} /\ t.hour \in fields.hours /\ t.minute \in fields.minutes
    BY <1>4, <1>6 DEF Named
  <2>. QED  BY <1>6, <2>1, <2>2 DEF TimesFrom
<1>. QED  BY <1>2, <1>5, <1>6

LEMMA FindKeepsInv ==
  ASSUME CronInv, Find
  PROVE  CronInv'
<1>0. /\ pc = "searching" /\ Searched /\ TypeOK /\ candidate \in Instants /\ moment \in Instants
      /\ fields = Parsed(expression)
  BY DEF CronInv, TypeOK, Find
<1>1. PICK u \in TimesFrom(candidate) : /\ IsTimeOn(u, candidate) /\ candidate' = u /\ pc' = "found"
                                         /\ UNCHANGED <<expression, fields, moment, left, asks>>
  BY DEF Find
<1>2. /\ u \in Instants /\ u.day = candidate.day /\ ~Earlier(u, candidate)
      /\ Names(expression[2], 2, u.hour) /\ Names(expression[1], 1, u.minute)
      /\ NamesDay(expression, u.day)
  BY <1>0, TimesAre DEF Find
<1>3. Named(expression, u)
  BY <1>2 DEF Named
<1>4. Earlier(moment, u)
  BY <1>0, <1>2, InOrder DEF Searched
<1>5. NoneBetween(expression, moment, u)
  <2>. SUFFICES ASSUME NEW t \in Instants, Named(expression, t), Earlier(moment, t), Earlier(t, u)
                PROVE  FALSE
    BY <1>0, <1>2, NoneIs
  <2>1. CASE Earlier(t, candidate)
    BY <1>0, <2>1, NoneIs DEF Searched
  <2>2. CASE ~Earlier(t, candidate)
    <3>1. t.day <= u.day /\ candidate.day <= t.day
      BY <1>0, <1>2, <2>2, InOrder
    <3>2. t.day = candidate.day
      BY <1>0, <1>2, <3>1 DEF Instants
    <3>3. t \in TimesFrom(candidate)
      BY <1>0, <2>2, <3>2, TimesAre
    <3>. QED  BY <1>1, <3>3 DEF IsTimeOn
  <2>. QED  BY <2>1, <2>2
<1>6. Searched'
  BY <1>0, <1>1, <1>4, <1>5 DEF Searched
<1>7. TypeOK'
  BY <1>0, <1>1, <1>2 DEF TypeOK
<1>. QED  BY <1>0, <1>1, <1>3, <1>6, <1>7 DEF CronInv, Named, NamesDay

LEMMA SkipKeepsInv ==
  ASSUME CronInv, SkipDay
  PROVE  CronInv'
<1>0. /\ pc = "searching" /\ Searched /\ TypeOK /\ candidate \in Instants /\ moment \in Instants
      /\ fields = Parsed(expression) /\ left \in 0 .. Horizon /\ left > 0
      /\ candidate.day < LastDay /\ candidate.day + left = NextMinute(moment).day + Horizon
  BY DEF CronInv, TypeOK, SkipDay
<1>1. PICK next : next = Midnight(candidate.day + 1)
  OBVIOUS
<1>2. /\ candidate' = next /\ left' = left - 1 /\ pc' = IF left = 1 THEN "exhausted" ELSE "searching"
      /\ UNCHANGED <<expression, fields, moment, asks>>
  BY <1>0, <1>1 DEF SkipDay
<1>3. candidate.day \in 0 .. LastDay /\ candidate.day + 1 \in 0 .. LastDay /\ LastDay \in Nat
  BY <1>0, CalendarAssumption DEF Instants
<1>4. /\ next \in Instants /\ next.day = candidate.day + 1 /\ next.hour = 0 /\ next.minute = 0
      /\ next = Midnight(next.day)
  BY <1>1, <1>3 DEF Midnight, Instants
<1>5. \A t \in Instants : Earlier(t, next) <=> t.day <= candidate.day
  <2>1. \A t \in Instants : t.day \in Int /\ t.hour \in 0 .. 23 /\ t.minute \in 0 .. 59
    BY DEF Instants
  <2>. HIDE DEF Instants
  <2>. QED  BY <1>3, <1>4, <2>1 DEF Earlier
<1>6. Earlier(moment, next)
  <2>1. moment.day <= candidate.day
    BY <1>0, InOrder DEF Searched
  <2>. QED  BY <1>0, <1>5, <2>1
<1>7. NoneBetween(expression, moment, next)
  <2>. SUFFICES ASSUME NEW t \in Instants, Named(expression, t), Earlier(moment, t), Earlier(t, next)
                PROVE  FALSE
    BY <1>0, <1>4, NoneIs
  <2>1. CASE Earlier(t, candidate)
    BY <1>0, <2>1, NoneIs DEF Searched
  <2>2. CASE ~Earlier(t, candidate)
    <3>1. t.day <= candidate.day /\ candidate.day <= t.day
      BY <1>0, <1>5, <2>2, InOrder
    <3>2. t.day = candidate.day
      BY <1>0, <3>1 DEF Instants
    <3>3. t \in TimesFrom(candidate) /\ OnDay(candidate.day)
      BY <1>0, <2>2, <3>2, TimesAre DEF Named
    <3>. QED  BY <3>3 DEF SkipDay
  <2>. QED  BY <2>1, <2>2
<1>8. Searched'
  BY <1>0, <1>2, <1>6, <1>7 DEF Searched
<1>9. TypeOK'
  <2>1. left - 1 \in 0 .. Horizon
    BY <1>0 DEF Horizon
  <2>. QED  BY <1>0, <1>2, <1>4, <2>1 DEF TypeOK
<1>10. candidate'.day + left' = NextMinute(moment').day + Horizon
  <2>1. PICK n : n = NextMinute(moment).day + Horizon
    OBVIOUS
  <2>2. (candidate.day + 1) + (left - 1) = candidate.day + left
    BY <1>0, <1>3
  <2>. QED  BY <1>0, <1>2, <1>4, <2>2
<1>11. pc' = "exhausted" => left' = 0 /\ candidate' = Midnight(candidate'.day)
  BY <1>2, <1>4
<1>. QED  BY <1>0, <1>2, <1>8, <1>9, <1>10, <1>11 DEF CronInv

LEMMA NextKeepsInv ==
  ASSUME CronInv, [Next]_vars
  PROVE  CronInv'
<1>1. CASE Refuse
  BY <1>1 DEF Refuse, CronInv, TypeOK, Searched
<1>2. CASE UNCHANGED vars
  BY <1>2 DEF vars, CronInv, TypeOK, Searched, Named, NamesDay
<1>. QED  BY <1>1, <1>2, AskKeepsInv, FindKeepsInv, SkipKeepsInv DEF Next

(* cron.py:120-129 - whatever the expression, the instant and the calendar, no minute the       *)
(* expression names lies between the instant and the candidate the loop looks at.               *)
THEOREM CronInvariant == Spec => []CronInv
<1>1. Init => CronInv
  BY InitInv
<1>2. CronInv /\ [Next]_vars => CronInv'
  BY NextKeepsInv
<1>. QED  BY <1>1, <1>2, PTL DEF Spec

(* cron.py:115-131 - the slot is the first minute strictly after the instant   *)
(* that the expression names.                                                                    *)
THEOREM FirstMatchIsFound == Spec => []FirstMatch
<1>1. CronInv => FirstMatch
  BY DEF CronInv, Searched, FirstMatch, Named
<1>. QED  BY <1>1, CronInvariant, PTL

(* cron.py:122-131 - an error is raised only when none of the HORIZON days that begin with the   *)
(* one after the instant holds a minute the expression names.                                    *)
GivesUpRightly ==
  pc = "exhausted" => NoneBetween(expression, moment, Midnight(NextMinute(moment).day + Horizon))

THEOREM NothingIsGivenUpEarly == Spec => []GivesUpRightly
<1>1. CronInv => GivesUpRightly
  <2>. SUFFICES ASSUME CronInv, pc = "exhausted"
                PROVE  NoneBetween(expression, moment, Midnight(NextMinute(moment).day + Horizon))
    BY DEF GivesUpRightly
  <2>1. /\ candidate = Midnight(candidate.day) /\ candidate.day \in Int
        /\ candidate.day + 0 = NextMinute(moment).day + Horizon
    BY DEF CronInv, TypeOK, Instants
  <2>2. candidate = Midnight(NextMinute(moment).day + Horizon)
    BY <2>1
  <2>. QED  BY <2>2 DEF CronInv, Searched
<1>. QED  BY <1>1, CronInvariant, PTL

(* cron.py:60-83 - a well-written expression is refused only when no day it could name ever      *)
(* comes.                                                                                        *)
THEOREM OnlyTheImpossibleIsRefused == Spec => []RefusedIsImpossible
<1>1. CronInv => RefusedIsImpossible
  <2>. SUFFICES ASSUME CronInv, pc = "refused", WellWritten(expression), NEW day \in 0 .. LastDay,
                       NamesDay(expression, day)
                PROVE  FALSE
    BY DEF RefusedIsImpossible
  <2>. DEFINE e == expression
  <2>1. e \in Expressions /\ Refused(e)
    BY DEF CronInv, TypeOK
  <2>2. ~Reachable(FieldOf(e[3], 3), FieldOf(e[4], 4), Starred(e[5]))
    BY <2>1 DEF Refused, WellWritten
  <2>3. e[5][1].base = "star" /\ \A m \in FieldOf(e[4], 4), d \in FieldOf(e[3], 3) : ~(d <= MonthLengths[m])
    BY <2>2 DEF Reachable, Starred
  <2>4. Names(e[4], 4, MonthOf(day)) /\ Names(e[3], 3, DayOf(day))
    BY <2>3 DEF NamesDay
  <2>5. MonthOf(day) \in FieldOf(e[4], 4) /\ DayOf(day) \in FieldOf(e[3], 3)
    <3>1. 3 \in 1 .. 5 /\ 4 \in 1 .. 5
      OBVIOUS
    <3>2. \A f \in 1 .. 5 : \A v : v \in FieldOf(e[f], f) <=> Names(e[f], f, v)
      BY <2>1, WrittenIs
    <3>. QED  BY <2>4, <3>1, <3>2
  <2>6. MonthOf(day) \in 1 .. 12 /\ DayOf(day) \in 1 .. MonthLengths[MonthOf(day)]
    BY CalendarAssumption
  <2>7. \A m \in 1 .. 12 : MonthLengths[m] \in Int
    BY DEF MonthLengths
  <2>8. DayOf(day) <= MonthLengths[MonthOf(day)]
    BY <2>6, <2>7
  <2>. QED  BY <2>3, <2>5, <2>8
<1>. QED  BY <1>1, CronInvariant, PTL

-----------------------------------------------------------------------------
(* Every date comes round in time: the last one before a window comes back within the window. *)

LEMMA LastOf ==
  ASSUME NEW top \in Nat, NEW T \in SUBSET (0 .. top), T # {}
  PROVE  \E n \in T : \A m \in T : m <= n
<1>. DEFINE Backward == {top - n : n \in T}
<1>1. Backward \in SUBSET Nat /\ Backward # {}
  <2>1. \A n \in T : n \in 0 .. top
    OBVIOUS
  <2>2. \A n \in T : top - n \in Nat
    BY <2>1
  <2>. QED  BY <2>2
<1>2. \E x \in Backward : \A y \in Backward : <<y, x>> \notin OpToRel(<, Nat)
  <2>. HIDE DEF Backward
  <2>. QED  BY <1>1, NatLessThanWellFounded, WFMin
<1>3. PICK n \in T : \A m \in T : <<top - m, top - n>> \notin OpToRel(<, Nat)
  BY <1>2
<1>4. ASSUME NEW m \in T
      PROVE  m <= n
  <2>1. m \in Int /\ n \in Int /\ top - m \in Nat /\ top - n \in Nat
    OBVIOUS
  <2>2. ~(top - m < top - n)
    BY <1>3, <2>1 DEF OpToRel
  <2>. QED  BY <2>1, <2>2
<1>. QED  BY <1>4

LEMMA ComesRound ==
  ASSUME NEW m \in 1 .. 12, NEW d \in 1 .. MonthLengths[m], NEW w \in 0 .. 6,
         NEW from \in Nat, from + LongestGap - 1 <= LastDay
  PROVE  \E day \in from .. from + LongestGap - 1 : DateOf(day) = <<m, d, w>>
<1>1. LongestGap \in Nat /\ LongestGap >= 1 /\ LastDay \in Nat
  BY CalendarAssumption DEF LongestGap
<1>. DEFINE before == {day \in 0 .. LastDay : day < from /\ DateOf(day) = <<m, d, w>>}
<1>2. CASE before = {}
  <2>1. LastDay >= LongestGap - 1
    BY <1>1
  <2>2. PICK day \in 0 .. LongestGap - 1 : DateOf(day) = <<m, d, w>>
    <3>1. <<m, d, w>> \in FirstDates
      BY <2>1, GapAssumption
    <3>. QED  BY <3>1 DEF FirstDates
  <2>3. day \in 0 .. LastDay /\ day \notin before
    BY <1>1, <1>2, <2>1
  <2>4. day \in from .. from + LongestGap - 1
    BY <1>1, <2>2, <2>3
  <2>. QED  BY <2>2, <2>4
<1>3. CASE before # {}
  <2>1. PICK last \in before : \A day \in before : day <= last
    <3>1. before \in SUBSET (0 .. LastDay)
      OBVIOUS
    <3>. HIDE DEF before
    <3>. QED  BY <1>1, <1>3, <3>1, LastOf
  <2>2. last \in 0 .. LastDay /\ last < from /\ DateOf(last) = <<m, d, w>>
    OBVIOUS
  <2>3. last \in 0 .. LastDay - LongestGap
    BY <1>1, <2>2
  <2>4. PICK gap \in Gaps : DateOf(last + gap) = DateOf(last)
    BY <2>3, GapAssumption
  <2>5. gap \in 1 .. LongestGap
    BY GapAssumption
  <2>6. last + gap \in 0 .. LastDay /\ ~(last + gap <= last)
    BY <1>1, <2>3, <2>5
  <2>7. last + gap \notin before
    <3>. HIDE DEF before
    <3>. QED  BY <2>1, <2>6
  <2>8. last + gap >= from
    BY <1>1, <2>2, <2>4, <2>5, <2>6, <2>7
  <2>9. last + gap \in from .. from + LongestGap - 1
    BY <1>1, <2>2, <2>5, <2>8
  <2>. QED  BY <2>2, <2>4, <2>9
<1>. QED  BY <1>2, <1>3

-----------------------------------------------------------------------------
(* Every field of an expression that was accepted names something. *)

LEMMA FirstOfToken ==
  ASSUME NEW token \in Tokens, NEW f \in 1 .. 5, ~TokenRefused(token, f)
  PROVE  /\ Bounds(token, f)[1] \in ValuesOf(token, f)
         /\ token.base = "star" => Low(f) \in ValuesOf(token, f)
<1>. DEFINE start == Bounds(token, f)[1]
            end == Bounds(token, f)[2]
            step == IF token.sliced THEN token.step ELSE 1
<1>1. start \in Int /\ end \in Int /\ (token.base = "star" => start = Low(f))
  BY BoundsAre
<1>2. step \in Nat \ {0} /\ start <= end
  BY <1>1, BoundsAre DEF TokenRefused, Tokens
<1>3. start \in ValuesOf(token, f) <=> start \in start .. end /\ (start - start) % step = 0
  BY DEF ValuesOf
<1>. HIDE DEF start, end, step
<1>4. start \in start .. end /\ start - start = 0
  BY <1>1, <1>2, BoundsAre DEF start, end
<1>5. 0 % step = 0
  BY <1>2
<1>. QED  BY <1>1, <1>3, <1>4, <1>5 DEF start

LEMMA FieldsNameSomething ==
  ASSUME NEW e \in Expressions, WellWritten(e), NEW f \in 1 .. 5
  PROVE  /\ \E v \in Low(f) .. High(f) : Names(e[f], f, v)
         /\ e[f][1].base = "star" => Names(e[f], f, Low(f))
<1>1. e[f] \in Seq(Tokens) /\ e[f] # <<>>
  BY ExpressionAssumption
<1>2. 1 \in DOMAIN e[f] /\ e[f][1] \in Tokens
  BY <1>1
<1>3. ~TokenRefused(e[f][1], f)
  BY <1>2 DEF WellWritten
<1>4. /\ Bounds(e[f][1], f)[1] \in FieldOf(e[f], f)
      /\ e[f][1].base = "star" => Low(f) \in FieldOf(e[f], f)
  <2>1. ValuesOf(e[f][1], f) \subseteq FieldOf(e[f], f)
    BY <1>2 DEF FieldOf
  <2>. QED  BY <1>2, <1>3, <2>1, FirstOfToken
<1>. QED  BY <1>4, WrittenIs

(* A weekday, sunday written either way. *)
NamesWeekday(e, w) == Names(e[5], 5, w) \/ (w = 0 /\ Names(e[5], 5, 7))

LEMMA AcceptedNamesADate ==
  ASSUME NEW e \in Expressions, ~Refused(e)
  PROVE  \E m \in 1 .. 12, w \in 0 .. 6 : \E d \in 1 .. MonthLengths[m] :
           /\ Names(e[4], 4, m) /\ NamesWeekday(e, w)
           /\ e[3][1].base = "star" \/ e[5][1].base = "star" => Names(e[3], 3, d)
<1>1. WellWritten(e)
  BY AcceptedIsWritten
<1>2. /\ Low(3) = 1 /\ High(3) = 31 /\ Low(4) = 1 /\ High(4) = 12 /\ Low(5) = 0 /\ High(5) = 7
      /\ 3 \in 1 .. 5 /\ 4 \in 1 .. 5 /\ 5 \in 1 .. 5
  BY DEF Low, High, FieldRanges
<1>3. PICK w \in 0 .. 6 : NamesWeekday(e, w)
  <2>1. PICK v \in 0 .. 7 : Names(e[5], 5, v)
    BY <1>1, <1>2, FieldsNameSomething
  <2>2. CASE v = 7
    BY <2>1, <2>2 DEF NamesWeekday
  <2>3. CASE v # 7
    BY <2>1, <2>3 DEF NamesWeekday
  <2>. QED  BY <2>2, <2>3
<1>4. \A m \in 1 .. 12 : MonthLengths[m] \in Int /\ 1 <= MonthLengths[m]
  BY DEF MonthLengths
<1>5. CASE e[5][1].base = "star"
  <2>1. PICK m \in FieldOf(e[4], 4), d \in FieldOf(e[3], 3) : d <= MonthLengths[m]
    BY <1>5 DEF Refused, Reachable, Starred
  <2>2. Names(e[4], 4, m) /\ m \in 1 .. 12 /\ Names(e[3], 3, d) /\ d \in 1 .. 31
    BY <1>1, <1>2, <2>1, WrittenIs
  <2>3. d \in 1 .. MonthLengths[m]
    BY <1>4, <2>1, <2>2
  <2>. QED  BY <1>3, <2>2, <2>3
<1>6. CASE e[5][1].base # "star"
  <2>1. PICK m \in 1 .. 12 : Names(e[4], 4, m)
    BY <1>1, <1>2, FieldsNameSomething
  <2>2. 1 \in 1 .. MonthLengths[m]
    BY <1>4
  <2>3. e[3][1].base = "star" => Names(e[3], 3, 1)
    BY <1>1, <1>2, FieldsNameSomething
  <2>. QED  BY <1>3, <1>6, <2>1, <2>2, <2>3
<1>. QED  BY <1>5, <1>6

(* cron.py:11-12 - forty-one years of days are enough for every expression that was accepted, on *)
(* every calendar whose dates fall on every weekday within forty years: the search gives up on   *)
(* none of them.                                                                                 *)
THEOREM EveryAcceptedIsReached == Spec => []Reached
<1>1. CronInv /\ GivesUpRightly => Reached
  <2>. SUFFICES ASSUME CronInv, GivesUpRightly, pc = "exhausted"
                PROVE  FALSE
    BY DEF Reached
  <2>. DEFINE first == NextMinute(moment).day
              e == expression
              end == Midnight(first + Horizon)
  <2>1. /\ e \in Expressions /\ moment \in Instants /\ candidate \in Instants /\ ~Refused(e)
        /\ candidate = Midnight(candidate.day) /\ candidate.day = first + Horizon
        /\ NoneBetween(e, moment, end)
    <3>1. /\ left = 0 /\ candidate = Midnight(candidate.day) /\ candidate.day \in Int
          /\ candidate.day + left = first + Horizon
      BY DEF CronInv, TypeOK, Instants
    <3>. QED  BY <3>1 DEF CronInv, TypeOK, Searched, GivesUpRightly
  <2>2. end = candidate /\ end.day = first + Horizon /\ end.day \in 0 .. LastDay
    <3>1. candidate.day \in 0 .. LastDay
      BY <2>1 DEF Instants
    <3>. QED  BY <2>1, <3>1
  <2>3. first \in Nat /\ moment.day <= first
    <3>1. moment.day \in Nat
      BY <2>1 DEF Instants
    <3>2. first = moment.day \/ first = moment.day + 1
      BY <2>1 DEF NextMinute, Midnight, Instants
    <3>. QED  BY <3>1, <3>2
  <2>4. PICK m \in 1 .. 12, w \in 0 .. 6 : \E d \in 1 .. MonthLengths[m] :
          /\ Names(e[4], 4, m) /\ NamesWeekday(e, w)
          /\ e[3][1].base = "star" \/ e[5][1].base = "star" => Names(e[3], 3, d)
    BY <2>1, AcceptedNamesADate
  <2>5. PICK d \in 1 .. MonthLengths[m] :
          /\ Names(e[4], 4, m) /\ NamesWeekday(e, w)
          /\ e[3][1].base = "star" \/ e[5][1].base = "star" => Names(e[3], 3, d)
    BY <2>4
  <2>6. (first + 1) + LongestGap - 1 <= LastDay /\ first + LongestGap < first + Horizon
    BY <2>2, <2>3, CalendarAssumption DEF Horizon, LongestGap
  <2>7. PICK day \in first + 1 .. (first + 1) + LongestGap - 1 : DateOf(day) = <<m, d, w>>
    <3>. HIDE DEF first
    <3>1. first + 1 \in Nat
      BY <2>3
    <3>. QED  BY <2>6, <3>1, ComesRound
  <2>8. NamesDay(e, day)
    <3>1. MonthOf(day) = m /\ DayOf(day) = d /\ WeekdayOf(day) = w
      BY <2>7 DEF DateOf
    <3>. QED  BY <2>5, <3>1 DEF NamesDay, NamesWeekday
  <2>9. PICK h \in 0 .. 23, minute \in 0 .. 59 : Names(e[2], 2, h) /\ Names(e[1], 1, minute)
    <3>1. 1 \in 1 .. 5 /\ 2 \in 1 .. 5
      OBVIOUS
    <3>2. Low(1) = 0 /\ High(1) = 59 /\ Low(2) = 0 /\ High(2) = 23
      BY <3>1, Ranges
    <3>. QED  BY <2>1, <3>1, <3>2, AcceptedIsWritten, FieldsNameSomething
  <2>10. PICK t : t = [day |-> day, hour |-> h, minute |-> minute]
    OBVIOUS
  <2>11. day \in Nat /\ moment.day < day /\ day < end.day /\ day \in 0 .. LastDay
    <3>1. moment.day \in Int /\ LastDay \in Nat
      BY <2>1, CalendarAssumption DEF Instants
    <3>2. LongestGap \in Nat /\ Horizon \in Nat
      BY DEF LongestGap, Horizon
    <3>. HIDE DEF first, end
    <3>. QED  BY <2>2, <2>3, <2>6, <2>7, <3>1, <3>2
  <2>12. t \in Instants /\ Named(e, t)
    BY <2>8, <2>9, <2>10, <2>11 DEF Instants, Named
  <2>13. Earlier(moment, t) /\ Earlier(t, end)
    BY <2>10, <2>11 DEF Earlier
  <2>. QED  BY <2>1, <2>2, <2>12, <2>13, NoneIs
<1>. QED  BY <1>1, CronInvariant, NothingIsGivenUpEarly, PTL
===============================================================================
