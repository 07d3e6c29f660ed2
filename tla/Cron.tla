--------------------------------- MODULE Cron ---------------------------------
(***************************************************************************)
(* A cron expression and the search for the minute it names next (cron.py).*)
(* The loop of next_after is walked candidate by candidate, and the answer *)
(* it returns is held against what the expression means.                   *)
(*                                                                         *)
(* An instant is a day, an hour and a minute: next_after drops the seconds *)
(* before it looks at anything.  What month, day and weekday the number of *)
(* a day falls on is datetime's.  An expression is its fields, a field its *)
(* tokens; what does not split into them never gets this far.              *)
(***************************************************************************)
EXTENDS Integers, Sequences

CONSTANTS
  Expressions,    \* the expressions declared
  Starts,         \* the instants a search may begin after
  MonthOf(_),     \* datetime: of the number of a day
  DayOf(_),
  WeekdayOf(_),   \* 0 is sunday
  LastDay,        \* bound: the last day there is (datetime's is the end of the year 9999)
  Gaps,           \* after how many days a date may fall on its weekday again
  MaxAsks         \* bound: how often a slot is asked for, each time after the one before

VARIABLES
  pc,             \* idle, searching, found, exhausted, or refused by the parser
  expression,     \* what was asked about
  fields,         \* the sets its five fields stand for
  moment,         \* the instant it was asked about
  candidate,      \* the instant the loop looks at, and in the end the answer
  left,           \* how many more candidates it will look at
  asks            \* how many searches there were

vars == <<pc, expression, fields, moment, candidate, left, asks>>

(* minute, hour, day of month, month, day of week *)
FieldRanges == << <<0, 59>>, <<0, 23>>, <<1, 31>>, <<1, 12>>, <<0, 7>> >>
MonthLengths == <<31, 29, 31, 30, 31, 30, 31, 31, 30, 31, 30, 31>>

(* Mutant: the century that is no leap year is forgotten. *)
HorizonOfCentury == 29 * 366

Horizon == 41 * 366

Instants == [day : 0 .. LastDay, hour : 0 .. 23, minute : 0 .. 59]

Tokens == [base : {"star", "range", "one"}, first : Int, last : Int, sliced : BOOLEAN, step : Int]

ASSUME ExpressionAssumption ==
  \A e \in Expressions :
    /\ DOMAIN e = 1 .. 5
    /\ \A f \in 1 .. 5 : e[f] \in Seq(Tokens) /\ e[f] # <<>>

ASSUME CalendarAssumption ==
  /\ LastDay \in Nat /\ MaxAsks \in Nat
  /\ Starts \subseteq Instants
  /\ \A day \in 0 .. LastDay :
       /\ MonthOf(day) \in 1 .. 12
       /\ DayOf(day) \in 1 .. MonthLengths[MonthOf(day)]
       /\ WeekdayOf(day) \in 0 .. 6

DateOf(day) == <<MonthOf(day), DayOf(day), WeekdayOf(day)>>

(* The leap day falls on one named weekday after forty years at the latest. *)
LongestGap == 40 * 366

FirstDates == {DateOf(day) : day \in 0 .. LongestGap - 1}

(* Every date there can be falls on every weekday, and falls on it again. *)
ASSUME GapAssumption ==
  /\ Gaps \subseteq 1 .. LongestGap
  /\ \A day \in 0 .. LastDay - LongestGap : \E gap \in Gaps : DateOf(day + gap) = DateOf(day)
  /\ LastDay >= LongestGap - 1 =>
       \A m \in 1 .. 12 : \A d \in 1 .. MonthLengths[m], w \in 0 .. 6 : <<m, d, w>> \in FirstDates

-----------------------------------------------------------------------------
(* The parser. *)

Low(f) == FieldRanges[f][1]
High(f) == FieldRanges[f][2]

(* A token is a star, a range or a single value, `sliced' when a step follows it. *)
Bounds(token, f) ==
  IF token.base = "star" THEN <<Low(f), High(f)>> ELSE <<token.first, token.last>>

TokenRefused(token, f) ==
  \/ token.sliced /\ (token.step <= 0 \/ token.base = "one")
  \/ Bounds(token, f)[1] < Low(f)
  \/ Bounds(token, f)[2] > High(f)
  \/ Bounds(token, f)[1] > Bounds(token, f)[2]

ValuesOf(token, f) ==
  LET start == Bounds(token, f)[1]
      step == IF token.sliced THEN token.step ELSE 1
  IN  {v \in start .. Bounds(token, f)[2] : (v - start) % step = 0}

FieldOf(spec, f) == UNION {ValuesOf(spec[i], f) : i \in DOMAIN spec}

Starred(spec) == spec[1].base = "star"

(* Sunday is written 0 or 7. *)
Sundays(weekdays) == IF 7 \in weekdays THEN (weekdays \ {7}) \union {0} ELSE weekdays

(* Mutant: a day its months never have is fatal whatever the weekdays say. *)
ReachableByDay(days, months, weekday_starred) ==
  \E m \in months, d \in days : d <= MonthLengths[m]

Reachable(days, months, weekday_starred) ==
  weekday_starred => \E m \in months, d \in days : d <= MonthLengths[m]

Parsed(e) ==
  [minutes |-> FieldOf(e[1], 1), hours |-> FieldOf(e[2], 2), days |-> FieldOf(e[3], 3),
   months |-> FieldOf(e[4], 4), weekdays |-> Sundays(FieldOf(e[5], 5)),
   day_starred |-> Starred(e[3]), weekday_starred |-> Starred(e[5])]

Refused(e) ==
  \/ \E f \in 1 .. 5 : \E i \in DOMAIN e[f] : TokenRefused(e[f][i], f)
  \/ ~Reachable(FieldOf(e[3], 3), FieldOf(e[4], 4), Starred(e[5]))

-----------------------------------------------------------------------------
(* Instants. *)

Earlier(a, b) ==
  \/ a.day < b.day
  \/ a.day = b.day /\ (a.hour < b.hour \/ (a.hour = b.hour /\ a.minute < b.minute))

Midnight(day) == [day |-> day, hour |-> 0, minute |-> 0]

NextMinute(t) ==
  IF t.minute < 59 THEN [t EXCEPT !.minute = @ + 1]
  ELSE IF t.hour < 23 THEN [t EXCEPT !.hour = @ + 1, !.minute = 0]
  ELSE Midnight(t.day + 1)

(* The two day fields are joined with an and when either is a star, with an or when neither is. *)
OnDay(day) ==
  LET day_match == DayOf(day) \in fields.days
      weekday_match == WeekdayOf(day) \in fields.weekdays
  IN  /\ MonthOf(day) \in fields.months
      /\ IF fields.day_starred \/ fields.weekday_starred
           THEN day_match /\ weekday_match
           ELSE day_match \/ weekday_match

(* The minutes of the day of t the expression names that are not before t. *)
TimesFrom(t) ==
  {u \in [day : {t.day}, hour : fields.hours, minute : fields.minutes] : ~Earlier(u, t)}

IsTimeOn(u, t) == u \in TimesFrom(t) /\ \A v \in TimesFrom(t) : ~Earlier(v, u)

-----------------------------------------------------------------------------
(* next_after *)

Init ==
  /\ pc = "idle"
  /\ expression \in Expressions
  /\ fields = Parsed(expression)
  /\ moment \in Starts
  /\ candidate = moment
  /\ left = 0
  /\ asks = 0

Refuse ==
  /\ pc = "idle"
  /\ Refused(expression)
  /\ pc' = "refused"
  /\ UNCHANGED <<expression, fields, moment, candidate, left, asks>>

(* It is asked after an instant, and later after the slot it answered with. *)
Ask ==
  /\ pc \in {"idle", "found"}
  /\ ~Refused(expression)
  /\ asks < MaxAsks
  /\ NextMinute(candidate).day <= LastDay
  /\ pc' = "searching"
  /\ moment' = candidate
  /\ candidate' = NextMinute(candidate)
  /\ left' = Horizon
  /\ asks' = asks + 1
  /\ UNCHANGED <<expression, fields>>

Find ==
  /\ pc = "searching"
  /\ left > 0
  /\ OnDay(candidate.day)
  /\ candidate' \in {u \in TimesFrom(candidate) : IsTimeOn(u, candidate)}
  /\ pc' = "found"
  /\ UNCHANGED <<expression, fields, moment, left, asks>>

(* Mutant: the next day is begun at the hour the last one was left at. *)
SkipDayAtItsHour ==
  /\ pc = "searching"
  /\ left > 0
  /\ candidate.day < LastDay
  /\ ~OnDay(candidate.day) \/ TimesFrom(candidate) = {}
  /\ candidate' = [candidate EXCEPT !.day = @ + 1]
  /\ left' = left - 1
  /\ UNCHANGED <<pc, expression, fields, moment, asks>>

(* The day has no minute left, or is none of the expression's; after the last one it gives up. *)
SkipDay ==
  /\ pc = "searching"
  /\ left > 0
  /\ candidate.day < LastDay
  /\ ~OnDay(candidate.day) \/ TimesFrom(candidate) = {}
  /\ candidate' = Midnight(candidate.day + 1)
  /\ left' = left - 1
  /\ pc' = IF left = 1 THEN "exhausted" ELSE pc
  /\ UNCHANGED <<expression, fields, moment, asks>>

Next == Refuse \/ Ask \/ Find \/ SkipDay

Spec == Init /\ [][Next]_vars

-----------------------------------------------------------------------------
(***************************************************************************)
(* Correctness.  What an expression means is said of the expression as it  *)
(* is written, and of no set the parser made of it.                        *)
(***************************************************************************)

(* A value a field names, token by token. *)
Names(spec, f, value) ==
  \E i \in DOMAIN spec :
    LET token == spec[i]
        from == IF token.base = "star" THEN Low(f) ELSE token.first
        to == IF token.base = "star" THEN High(f) ELSE token.last
    IN  /\ value \in from .. to
        /\ token.sliced => \E k \in 0 .. value - from : value = from + k * token.step

NamesDay(e, day) ==
  LET month_day == Names(e[3], 3, DayOf(day))
      week_day == \/ Names(e[5], 5, WeekdayOf(day))
                  \/ WeekdayOf(day) = 0 /\ Names(e[5], 5, 7)
  IN  /\ Names(e[4], 4, MonthOf(day))
      /\ month_day \/ week_day
      /\ e[3][1].base = "star" \/ e[5][1].base = "star" => month_day /\ week_day

(* No minute of the expression lies after `a' and before `b'. *)
NoneBetween(e, a, b) ==
  LET hours == {h \in 0 .. 23 : Names(e[2], 2, h)}
      minutes == {m \in 0 .. 59 : Names(e[1], 1, m)}
  IN  \A day \in a.day .. b.day : NamesDay(e, day) =>
        \A t \in [day : {day}, hour : hours, minute : minutes] : ~(Earlier(a, t) /\ Earlier(t, b))

(* cron.py:115-131 - the slot is the first minute strictly after the instant                      *)
(* that the expression names: one that was passed over is a task that did not run, and one that   *)
(* answers to nothing is a task that ran when nobody asked it to.                                 *)
FirstMatch ==
  pc = "found" =>
    /\ Earlier(moment, candidate)
    /\ NamesDay(expression, candidate.day)
    /\ Names(expression[2], 2, candidate.hour) /\ Names(expression[1], 1, candidate.minute)
    /\ NoneBetween(expression, moment, candidate)

(* cron.py:11-12 - forty-one years of days are enough for every expression that was accepted: one  *)
(* the search gives up on raises on every pass for as long as the process lives.                  *)
Reached == pc # "exhausted"

(* cron.py:60-83 - an expression that is well written is refused only when no day it could name   *)
(* ever comes, in all the days there are.                                                         *)
WellWritten(e) == \A f \in 1 .. 5 : \A i \in DOMAIN e[f] : ~TokenRefused(e[f][i], f)

RefusedIsImpossible ==
  pc = "refused" /\ WellWritten(expression) => \A day \in 0 .. LastDay : ~NamesDay(expression, day)
=============================================================================
