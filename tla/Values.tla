------------------------------- MODULE Values -------------------------------
(***************************************************************************)
(* What the engine computes with: doubles, clicks and logicals, and the      *)
(* scalar operations of src/src/veil/Interpreter.hpp on each.               *)
(*                                                                         *)
(* A double is a whole number of parts of 1/One, NaN or an infinity; what is  *)
(* too large for one overflows.  The arithmetic is exact on the values the   *)
(* models use, so regrouping a product does not change it, as it would in    *)
(* the last place of a double.  exp is some increasing positive function.    *)
(* A logical is 0 or 1.                                                      *)
(***************************************************************************)
EXTENDS TimeGrid

CONSTANTS
  One,  \* 1.0
  Inf,  \* infinity, above every finite double
  NaN

ASSUME ValuesAssumption ==
  /\ One \in Nat \ {0} /\ One % ClicksPerYear = 0
  /\ Inf \in Nat /\ One < Inf
  /\ NaN \notin Int

Truth(p) == IF p THEN 1 ELSE 0

Infinite(x) == x \in {Inf, -Inf}
Signed(positive) == IF positive THEN Inf ELSE -Inf

IsDouble(x) == x = NaN \/ x \in -Inf .. Inf
Rounded(x) == IF x >= Inf THEN Inf ELSE IF x <= -Inf THEN -Inf ELSE x

Negative(x) == IF x = NaN THEN NaN ELSE -x

Plus(x, y) ==
  IF x = NaN \/ y = NaN THEN NaN
  ELSE IF Infinite(x) THEN (IF y = -x THEN NaN ELSE x)
  ELSE IF Infinite(y) THEN y ELSE Rounded(x + y)

Minus(x, y) == Plus(x, Negative(y))

Times(x, y) ==
  IF x = NaN \/ y = NaN THEN NaN
  ELSE IF Infinite(x) \/ Infinite(y)
       THEN (IF x = 0 \/ y = 0 THEN NaN ELSE Signed((x > 0) = (y > 0)))
       ELSE Rounded((x * y) \div One)

Over(x, y) ==
  IF x = NaN \/ y = NaN \/ (Infinite(x) /\ Infinite(y)) \/ (x = 0 /\ y = 0) THEN NaN
  ELSE IF Infinite(y) THEN 0
  ELSE IF Infinite(x) \/ y = 0 THEN Signed((x > 0) = (y >= 0))
  ELSE Rounded(IF y > 0 THEN (x * One) \div y ELSE ((-x) * One) \div (-y))

Lesser(x, y) == IF x <= y THEN x ELSE y
Greater(x, y) == IF x <= y THEN y ELSE x

\* ieeeMinimum and ieeeMaximum.
Minimum(x, y) == IF x = NaN \/ y = NaN THEN NaN ELSE Lesser(x, y)
Maximum(x, y) == IF x = NaN \/ y = NaN THEN NaN ELSE Greater(x, y)

\* Flat between whole numbers; what is too large for the model overflows.
Doubled(n) == <<1, 2, 4, 8, 16, 32, 64>>[n + 1]
Exponential(x) ==
  IF x = NaN THEN NaN
  ELSE IF x >= 5 * One THEN Inf
  ELSE IF x < 0 THEN (IF x < -6 * One THEN 0 ELSE One \div Doubled((-x) \div One))
  ELSE Rounded(One * Doubled(x \div One))

SignOf(x) == IF x = NaN THEN NaN ELSE IF x > 0 THEN One ELSE IF x < 0 THEN -One ELSE 0

\* yearsFromClicks.
Years(c) == Rounded((c * One) \div ClicksPerYear)

\* unaryNumber, binaryNumber and ternaryNumber.
Number(op, a) ==
  CASE op = "pos"   -> a[1]
    [] op = "neg"   -> Negative(a[1])
    [] op = "abs"   -> IF a[1] = NaN THEN NaN ELSE Greater(a[1], -a[1])
    [] op = "exp"   -> Exponential(a[1])
    [] op = "sign"  -> SignOf(a[1])
    [] op = "add"   -> Plus(a[1], a[2])
    [] op = "sub"   -> Minus(a[1], a[2])
    [] op = "mul"   -> Times(a[1], a[2])
    [] op = "rdiv"  -> Over(a[1], a[2])
    [] op = "min"   -> Minimum(a[1], a[2])
    [] op = "max"   -> Maximum(a[1], a[2])
    [] op = "clamp" -> Minimum(Maximum(a[1], a[2]), a[3])

ClickArithmetic(op, a) ==
  CASE op = "pos"   -> a[1]
    [] op = "neg"   -> -a[1]
    [] op = "abs"   -> Greater(a[1], -a[1])
    [] op = "add"   -> a[1] + a[2]
    [] op = "sub"   -> a[1] - a[2]
    [] op = "min"   -> Lesser(a[1], a[2])
    [] op = "max"   -> Greater(a[1], a[2])
    [] op = "clamp" -> IF a[1] < a[2] THEN a[2] ELSE Lesser(a[1], a[3])

Logic(op, a) ==
  Truth(CASE op = "not" -> a[1] = 0
          [] op = "and" -> a[1] = 1 /\ a[2] = 1
          [] op = "or"  -> a[1] = 1 \/ a[2] = 1
          [] op = "xor" -> a[1] # a[2])

\* Nothing compares with a NaN, which differs from everything.
Compare(op, x, y) ==
  Truth(IF x = NaN \/ y = NaN THEN op = "NE"
        ELSE CASE op = "EQ" -> x = y
               [] op = "NE" -> x # y
               [] op = "LT" -> x < y
               [] op = "LE" -> x <= y
               [] op = "GT" -> x > y
               [] op = "GE" -> x >= y)

ClickTypes == {"datey", "durationy"}

\* A click is missing when it is no date or no length of time there can be.
MissingClick(type, c) ==
  IF type = "datey" THEN ~IsValidDatey(c)
  ELSE c < FirstClick - LastClick \/ c > LastClick - FirstClick

IsMissing(type, x) ==
  Truth(IF type \in ClickTypes THEN MissingClick(type, x) ELSE x = NaN)

\* A click-backed value or a logical read as a number.
AsNumber(type, x) ==
  IF type \in ClickTypes THEN Years(x) ELSE IF type = "bool" THEN x * One ELSE x
=============================================================================
