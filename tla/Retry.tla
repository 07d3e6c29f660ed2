-------------------------------- MODULE Retry --------------------------------
(***************************************************************************)
(* How long an attempt that failed waits before the next one (retry.py).   *)
(* Time is counted in whole units, and a share of it in hundredths: what   *)
(* does not divide is rounded down, where the code keeps a float.          *)
(***************************************************************************)
EXTENDS Naturals

CONSTANT MaxDoublings           \* MAX_DOUBLINGS

Policies == {"fixed", "linear", "exponential", "exponential_jitter"}

Smaller(a, b) == IF a < b THEN a ELSE b

(* 2 ** n, as far as it is ever asked for. *)
Doubled[n \in 0 .. MaxDoublings] == IF n = 0 THEN 1 ELSE 2 * Doubled[n - 1]

GrowthFor(policy, base, attempt) ==
  CASE policy = "fixed" -> base
    [] policy = "linear" -> base * attempt
    [] OTHER -> base * Doubled[Smaller(attempt - 1, MaxDoublings)]

(* Mutant: the ceiling cuts down what was drawn. *)
DrawnThenCut(growth, jitter, draw, ceiling) ==
  Smaller((growth * (100 + draw)) \div 100, ceiling)

(* The growth is held under the ceiling first, so that what is drawn over it still fits. *)
Drawn(growth, jitter, draw, ceiling) ==
  (Smaller(growth, (ceiling * 100) \div (100 + jitter)) * (100 + draw)) \div 100

(* `draw' is what random.uniform answered with, out of 0 .. jitter. *)
DelayFor(policy, base, attempt, jitter, draw, ceiling) ==
  IF policy = "exponential_jitter"
    THEN Drawn(GrowthFor(policy, base, attempt), jitter, draw, ceiling)
    ELSE Smaller(GrowthFor(policy, base, attempt), ceiling)
=============================================================================
