-------------------------------- MODULE MCCron --------------------------------
(* Expressions with a corner each, on the Gregorian calendar, for TLC. *)
EXTENDS Cron

(* The civil date of a day counted from 1970-01-01, in years that begin in march. *)
DayOfEra(d) == (d + 719468) % 146097
YearOfEra(d) ==
  LET e == DayOfEra(d) IN (e - e \div 1460 + e \div 36524 - e \div 146096) \div 365
DayOfYear(d) ==
  LET y == YearOfEra(d) IN DayOfEra(d) - (365 * y + y \div 4 - y \div 100)
MonthOfYear(d) == (5 * DayOfYear(d) + 2) \div 153

GregorianMonth(d) == IF MonthOfYear(d) < 10 THEN MonthOfYear(d) + 3 ELSE MonthOfYear(d) - 9
GregorianDay(d) == DayOfYear(d) - (153 * MonthOfYear(d) + 2) \div 5 + 1
GregorianWeekday(d) == (d + 4) % 7

(* Five, six, seven, eleven, twelve, twenty-eight and forty years. *)
YearsOfOneWeekday == {1827, 2191, 2555, 4018, 4382, 10227, 14609}

Star == [base |-> "star", first |-> 0, last |-> 0, sliced |-> FALSE, step |-> 1]
One(n) == [base |-> "one", first |-> n, last |-> n, sliced |-> FALSE, step |-> 1]
To(a, b) == [base |-> "range", first |-> a, last |-> b, sliced |-> FALSE, step |-> 1]
Every(token, n) == [token EXCEPT !.sliced = TRUE, !.step = n]

S == <<Star>>
At(n) == <<One(n)>>

Corners == {
  <<At(0), At(0), At(29), At(2), <<Every(Star, 7)>> >>,      \* 0 0 29 2 */7: forty years at worst
  <<At(0), At(0), At(31), S, S>>,                            \* 0 0 31 * *: months without one
  <<At(30), At(23), At(13), S, At(5)>>,                      \* 30 23 13 * 5: the 13th or a friday
  <<At(0), At(12), <<Every(Star, 2)>>, S, At(1)>>,           \* 0 12 */2 * 1: a star all the same
  <<At(0), At(12), <<To(1, 31)>>, S, At(1)>>,                \* 0 12 1-31 * 1: every day there is
  << <<To(10, 30)>>, <<One(9), One(23)>>, S, S, <<To(5, 7)>> >>, \* 10-30 9,23 * * 5-7: seven is sunday
  << <<Every(Star, 20)>>, <<Every(To(8, 23), 5)>>, S, S, S>>, \* */20 8-23/5 * * *
  <<At(0), At(0), At(30), At(2), At(1)>>,                    \* 0 0 30 2 1: the mondays of february
  <<At(0), At(0), At(30), At(2), S>>,                        \* 0 0 30 2 *: never
  <<At(0), At(0), <<One(30), One(31)>>, At(2), <<Every(Star, 2)>> >>, \* 0 0 30,31 2 */2: never
  << <<Every(One(5), 10)>>, S, S, S, S>>,                    \* 5/10 * * * *: a step over one value
  <<S, At(24), S, S, S>> }                                   \* * 24 * * *: no such hour

(* Late on 2088-02-28, at noon on 2100-02-25 before the leap day that century lacks, and on new year's eve. *)
Evenings == {[day |-> 43157, hour |-> 23, minute |-> 58], [day |-> 47537, hour |-> 12, minute |-> 0],
             [day |-> 47481, hour |-> 23, minute |-> 59]}
=============================================================================
