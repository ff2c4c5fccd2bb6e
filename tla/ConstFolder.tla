---------------------------- MODULE ConstFolder ----------------------------
(***************************************************************************)
(* Constants and ConstFolder::compute.  A constant is a triple: an i32 or  *)
(* i1 with its number, a float with numerator and denominator in lowest    *)
(* terms (rounding is left out).  Constants are interned in the code, so   *)
(* equal ones are the same object, here too.                               *)
(***************************************************************************)
EXTENDS Integers

CONSTANT IntMax   \* the largest int; 2147483647 in the code

ASSUME IntMaxAssumption == IntMax \in Nat \ {0}

IntMin == -IntMax - 1
Ints == IntMin..IntMax

Abs(n) == IF n < 0 THEN -n ELSE n

\* What the compiler's own int makes of n, and C++'s division.
Wrap(n) ==
  LET m == n % (2 * IntMax + 2) IN IF m <= IntMax THEN m ELSE m - (2 * IntMax + 2)
Quotient(m, n) ==
  IF (m < 0) = (n < 0) THEN Abs(m) \div Abs(n) ELSE -(Abs(m) \div Abs(n))

IntC(n) == <<"int", Wrap(n), 0>>
BoolC(p) == <<"bool", IF p THEN 1 ELSE 0, 0>>

\* A fraction over zero is an infinity, or not a number at all.
FpC(n, d) ==
  LET g == CHOOSE x \in 1..(Abs(n) + Abs(d)) :
             /\ n % x = 0 /\ Abs(d) % x = 0
             /\ \A y \in (x+1)..(Abs(n) + Abs(d)) : n % y # 0 \/ Abs(d) % y # 0
  IN  IF d = 0 THEN <<"fp", IF n > 0 THEN 1 ELSE IF n < 0 THEN -1 ELSE 0, 0>>
      ELSE IF d > 0 THEN <<"fp", n \div g, d \div g>> ELSE <<"fp", (-n) \div g, (-d) \div g>>

IsConstant(v) == v[1] \in {"int", "bool", "fp"}

Compare(cmp, m, n) ==
  CASE cmp = "EQ" -> m = n
    [] cmp = "NE" -> m # n
    [] cmp = "GT" -> m > n
    [] cmp = "GE" -> m >= n
    [] cmp = "LT" -> m < n
    [] cmp = "LE" -> m <= n

\* Folding divides the compiler's own numbers: by zero it traps, and when the
\* quotient does not fit.
Traps(op, v1, v2) ==
  op = "sdiv" /\ (v2[2] = 0 \/ (v1[2] = IntMin /\ v2[2] = -1))

compute(op, cmp, v1, v2) ==
  CASE op = "add" -> IntC(v1[2] + v2[2])
    [] op = "sub" -> IntC(v1[2] - v2[2])
    [] op = "mul" -> IntC(v1[2] * v2[2])
    [] op = "sdiv" -> IntC(Quotient(v1[2], v2[2]))
    [] op = "fadd" -> FpC(v1[2] * v2[3] + v2[2] * v1[3], v1[3] * v2[3])
    [] op = "fsub" -> FpC(v1[2] * v2[3] - v2[2] * v1[3], v1[3] * v2[3])
    [] op = "fmul" -> FpC(v1[2] * v2[2], v1[3] * v2[3])
    [] op = "fdiv" -> FpC(v1[2] * v2[3], v1[3] * v2[2])
    [] op = "cmp" -> BoolC(Compare(cmp, v1[2], v2[2]))
    [] op = "fcmp" -> BoolC(Compare(cmp, v1[2] * v2[3], v2[2] * v1[3]))

\* (int) of a float: what does not fit is undefined, and is IntMin on x86.
TruncateFp(v) ==
  IF v[3] = 0 \/ Quotient(v[2], v[3]) \notin Ints THEN <<"int", IntMin, 0>>
  ELSE <<"int", Quotient(v[2], v[3]), 0>>

computeCast(op, v) ==
  CASE op = "sitofp" -> FpC(v[2], 1)
    [] op = "fptosi" -> TruncateFp(v)
    [] op = "zext" -> IntC(v[2])
=============================================================================
