--------------------------- MODULE IntervalProofs ---------------------------
(***************************************************************************)
(* Proofs about the tree passes, for every tree that can be ingested, every   *)
(* table of columns and every coefficient: the intervals bound the values,    *)
(* and the comparisons settled by them are settled rightly.                  *)
(*                                                                         *)
(* In order: the interval of each operation bounds what the operation        *)
(* answers; the walk that finds them comes to each node after its arguments;  *)
(* so a tree whose conversions are in is bounded, node by node; what is read  *)
(* from a column, a grid or a coefficient is bounded to begin with; and the   *)
(* passes leave such a tree, whatever they are given.                        *)
(***************************************************************************)
EXTENDS TreePipeline, DataInduction, SequenceTheorems

-----------------------------------------------------------------------------
(* What is bounded.                                                         *)

\* Every double of the model, and those that are numbers.
Doubles == (-Inf .. Inf) \union {NaN}
Numbers == -Inf .. Inf
\* What passPropagateIntervals may say of a node.
Intervals == [lo : Doubles, hi : Doubles]

\* A value that is a number lies in an interval whose ends are numbers.
Bounds(i, v) == v # NaN => i.lo \in Numbers /\ i.hi \in Numbers /\ i.lo <= v /\ v <= i.hi

\* The numbers the model of a double has.
LEMMA NumberFacts ==
  /\ One \in Nat /\ One > 0 /\ Inf \in Nat /\ One < Inf /\ NaN \notin Int
  /\ Inf \in Numbers /\ -Inf \in Numbers /\ 0 \in Numbers /\ One \in Numbers /\ 1 \in Numbers
  /\ NaN \notin Numbers /\ Numbers \subseteq Int /\ Numbers \subseteq Doubles /\ NaN \in Doubles
BY ValuesAssumption DEF Numbers, Doubles

\* Rounding keeps order, and a number that needs none.
LEMMA RoundedFacts ==
  ASSUME NEW x \in Int
  PROVE  /\ Rounded(x) \in Numbers
         /\ \A y \in Int : x <= y => Rounded(x) <= Rounded(y)
         /\ x \in Numbers => Rounded(x) = x
BY NumberFacts DEF Rounded, Numbers

\* What is not known bounds anything.
LEMMA UnknownBounds ==
  ASSUME NEW v \in Doubles
  PROVE  Bounds(Unknown, v) /\ Unknown \in Intervals
BY NumberFacts DEF Bounds, Unknown, Numbers, Doubles, Intervals

\* Sanitised ends are numbers, the lower one no higher, and bound what the ends bounded.
LEMMA SanitisedFacts ==
  ASSUME NEW lo \in Doubles, NEW hi \in Doubles
  PROVE  /\ Sanitised(lo, hi) \in Intervals
         /\ Sanitised(lo, hi).lo \in Numbers /\ Sanitised(lo, hi).hi \in Numbers
         /\ \A v \in Doubles :
              (v # NaN /\ lo # NaN /\ hi # NaN => lo <= v /\ v <= hi) => Bounds(Sanitised(lo, hi), v)
BY NumberFacts, UnknownBounds DEF Sanitised, Bounds, Numbers, Doubles, Intervals, Unknown

-----------------------------------------------------------------------------
(* The operations keep order.                                               *)

\* A double is a number or is not one.
LEMMA DoublesAre ==
  ASSUME NEW x \in Doubles
  PROVE  x = NaN \/ x \in Numbers
BY DEF Doubles, Numbers

\* Negation of a double.
LEMMA NegativeFacts ==
  ASSUME NEW x \in Doubles
  PROVE  Negative(x) \in Doubles /\ (x \in Numbers => Negative(x) = -x /\ -x \in Numbers)
BY NumberFacts DEF Negative, Doubles, Numbers

\* A sum of doubles is one, and is no number where a term is none.
LEMMA PlusFacts ==
  ASSUME NEW x \in Doubles, NEW y \in Doubles
  PROVE  /\ Plus(x, y) \in Doubles
         /\ x = NaN \/ y = NaN => Plus(x, y) = NaN
BY NumberFacts DEF Plus, Doubles, Numbers, Infinite, Rounded

\* A sum grows with its terms.
LEMMA PlusGrows ==
  ASSUME NEW x \in Numbers, NEW y \in Numbers, NEW u \in Numbers, NEW v \in Numbers,
         x <= u, y <= v, Plus(x, y) # NaN, Plus(u, v) # NaN
  PROVE  Plus(x, y) <= Plus(u, v)
BY NumberFacts DEF Plus, Numbers, Infinite, Rounded

\* add: a sum lies between the sums of the ends.
LEMMA AddBound ==
  ASSUME NEW a \in Intervals, NEW b \in Intervals, NEW v \in Doubles, NEW w \in Doubles,
         Bounds(a, v), Bounds(b, w)
  PROVE  Bounds(Sanitised(Plus(a.lo, b.lo), Plus(a.hi, b.hi)), Plus(v, w))
<1>1. a.lo \in Doubles /\ a.hi \in Doubles /\ b.lo \in Doubles /\ b.hi \in Doubles
  BY DEF Intervals
<1>2. /\ Plus(a.lo, b.lo) \in Doubles /\ Plus(a.hi, b.hi) \in Doubles /\ Plus(v, w) \in Doubles
  BY <1>1, PlusFacts
<1>3. ASSUME Plus(v, w) # NaN, Plus(a.lo, b.lo) # NaN, Plus(a.hi, b.hi) # NaN
      PROVE  Plus(a.lo, b.lo) <= Plus(v, w) /\ Plus(v, w) <= Plus(a.hi, b.hi)
  <2>1. v # NaN /\ w # NaN /\ v \in Numbers /\ w \in Numbers
    BY <1>3, PlusFacts, DoublesAre
  <2>. QED
    BY <1>3, <2>1, PlusGrows DEF Bounds
<1>. QED
  BY <1>2, <1>3, SanitisedFacts

\* neg: the ends change places.
LEMMA NegativeBound ==
  ASSUME NEW a \in Intervals, NEW v \in Doubles, Bounds(a, v)
  PROVE  Bounds(Negated(a), Negative(v))
<1>1. a.lo \in Doubles /\ a.hi \in Doubles
  BY DEF Intervals
<1>2. Negative(a.lo) \in Doubles /\ Negative(a.hi) \in Doubles /\ Negative(v) \in Doubles
  BY <1>1, NegativeFacts
<1>3. ASSUME Negative(v) # NaN
      PROVE  Negative(a.hi) <= Negative(v) /\ Negative(v) <= Negative(a.lo)
  <2>1. v \in Numbers
    BY <1>3, DoublesAre DEF Negative
  <2>2. a.lo \in Numbers /\ a.hi \in Numbers /\ a.lo <= v /\ v <= a.hi
    BY <2>1, NumberFacts DEF Bounds
  <2>. QED
    BY <2>1, <2>2, NumberFacts, NegativeFacts DEF Numbers
<1>. QED
  BY <1>2, <1>3, SanitisedFacts DEF Negated

\* sub: the lower end less the upper, and the upper less the lower.
LEMMA SubBound ==
  ASSUME NEW a \in Intervals, NEW b \in Intervals, NEW v \in Doubles, NEW w \in Doubles,
         Bounds(a, v), Bounds(b, w)
  PROVE  Bounds(Sanitised(Minus(a.lo, b.hi), Minus(a.hi, b.lo)), Minus(v, w))
<1>1. a.lo \in Doubles /\ a.hi \in Doubles /\ b.lo \in Doubles /\ b.hi \in Doubles
  BY DEF Intervals
<1>. DEFINE c == [lo |-> Negative(b.hi), hi |-> Negative(b.lo)]
<1>2. c \in Intervals /\ c.lo = Negative(b.hi) /\ c.hi = Negative(b.lo) /\ Negative(w) \in Doubles
  BY <1>1, NegativeFacts DEF Intervals
<1>3. Bounds(c, Negative(w))
  <2>1. CASE w = NaN
    BY <2>1 DEF Negative, Bounds
  <2>2. CASE w # NaN
    <3>1. w \in Numbers /\ b.lo \in Numbers /\ b.hi \in Numbers /\ b.lo <= w /\ w <= b.hi
      BY <2>2, DoublesAre DEF Bounds
    <3>. QED
      BY <1>1, <1>2, <3>1, NumberFacts, NegativeFacts DEF Numbers, Bounds
  <2>. QED
    BY <2>1, <2>2
<1>. HIDE DEF c
<1>. QED
  BY <1>2, <1>3, AddBound DEF Minus

\* The comparisons, none of them true of what is no number.
LEMMA TrueFacts ==
  ASSUME NEW x \in Doubles, NEW y \in Doubles
  PROVE  /\ IsTrue("LT", x, y) <=> x # NaN /\ y # NaN /\ x < y
         /\ IsTrue("LE", x, y) <=> x # NaN /\ y # NaN /\ x <= y
         /\ IsTrue("GT", x, y) <=> x # NaN /\ y # NaN /\ x > y
         /\ IsTrue("GE", x, y) <=> x # NaN /\ y # NaN /\ x >= y
BY DEF IsTrue, Compare, Truth

\* The ends of an interval are doubles.
LEMMA EndsAre ==
  ASSUME NEW a \in Intervals
  PROVE  a.lo \in Doubles /\ a.hi \in Doubles
BY DEF Intervals

\* abs: an interval about zero has its lower end there.
LEMMA AbsBound ==
  ASSUME NEW a \in Intervals, NEW v \in Doubles, Bounds(a, v)
  PROVE  Bounds(Absolute(a), IF v = NaN THEN NaN ELSE Greater(v, -v))
<1>1. a.lo \in Doubles /\ a.hi \in Doubles /\ 0 \in Doubles
  BY EndsAre, NumberFacts
<1>2. CASE v = NaN
  BY <1>2 DEF Bounds
<1>3. CASE v # NaN
  <2>1. v \in Numbers /\ a.lo \in Numbers /\ a.hi \in Numbers /\ a.lo <= v /\ v <= a.hi
    BY <1>3, DoublesAre DEF Bounds
  <2>2. a.lo # NaN /\ a.hi # NaN /\ a.lo \in Int /\ a.hi \in Int /\ v \in Int
    BY <2>1, NumberFacts
  <2>3. CASE a.lo >= 0
    BY <1>1, <1>3, <2>1, <2>2, <2>3, NumberFacts, TrueFacts DEF Absolute, Bounds, Greater, Numbers
  <2>4. CASE a.lo < 0 /\ a.hi <= 0
    <3>1. Absolute(a) = Negated(a)
      BY <1>1, <2>2, <2>4, NumberFacts, TrueFacts DEF Absolute
    <3>2. Negative(v) = Greater(v, -v)
      BY <1>3, <2>1, <2>2, <2>4, NumberFacts DEF Greater, Negative
    <3>. QED
      BY <1>3, <3>1, <3>2, NegativeBound
  <2>5. CASE a.lo < 0 /\ a.hi > 0
    <3>1. Negative(a.lo) = -a.lo /\ -a.lo \in Numbers /\ Negative(a.lo) \in Doubles
      BY <1>1, <2>1, NegativeFacts
    <3>2. Larger(Negative(a.lo), a.hi) = Greater(-a.lo, a.hi)
      BY <1>1, <2>2, <3>1, NumberFacts, TrueFacts DEF Larger, Greater
    <3>3. Greater(-a.lo, a.hi) \in Numbers /\ Greater(v, -v) \in Numbers
          /\ 0 <= Greater(v, -v) /\ Greater(v, -v) <= Greater(-a.lo, a.hi)
      <4>1. -a.lo \in Numbers /\ a.hi \in Numbers /\ -v \in Numbers
        BY <2>1, <2>2, <3>1, NumberFacts DEF Numbers
      <4>2. Greater(-a.lo, a.hi) \in Numbers /\ Greater(v, -v) \in Numbers
        BY <2>1, <4>1 DEF Greater
      <4>. QED
        BY <2>1, <2>2, <2>5, <4>2 DEF Greater
    <3>4. Absolute(a) = Sanitised(0, Greater(-a.lo, a.hi))
      BY <1>1, <2>2, <2>5, <3>2, NumberFacts, TrueFacts DEF Absolute
    <3>. QED
      BY <1>1, <1>3, <3>3, <3>4, SanitisedFacts, NumberFacts
  <2>. QED
    BY <2>2, <2>3, <2>4, <2>5
<1>. QED
  BY <1>2, <1>3

\* std::min and std::max, which answer the first where the second is no number.
LEMMA EndsOfTwo ==
  ASSUME NEW x \in Doubles, NEW y \in Doubles
  PROVE  /\ Smaller(x, y) \in Doubles /\ Larger(x, y) \in Doubles
         /\ x \in Numbers /\ y \in Numbers => Smaller(x, y) = Lesser(x, y) /\ Larger(x, y) = Greater(x, y)
         /\ x = NaN => Smaller(x, y) = NaN /\ Larger(x, y) = NaN
         /\ y = NaN => Smaller(x, y) = x /\ Larger(x, y) = x
BY TrueFacts, NumberFacts DEF Smaller, Larger, Lesser, Greater

\* min and max: the lesser of the lower ends to the lesser of the upper, and likewise.
LEMMA MinBound ==
  ASSUME NEW a \in Intervals, NEW b \in Intervals, NEW v \in Doubles, NEW w \in Doubles,
         Bounds(a, v), Bounds(b, w)
  PROVE  /\ Bounds(Sanitised(Smaller(a.lo, b.lo), Smaller(a.hi, b.hi)), Minimum(v, w))
         /\ Bounds(Sanitised(Larger(a.lo, b.lo), Larger(a.hi, b.hi)), Maximum(v, w))
<1>1. a.lo \in Doubles /\ a.hi \in Doubles /\ b.lo \in Doubles /\ b.hi \in Doubles
  BY EndsAre
<1>2. CASE v = NaN \/ w = NaN
  BY <1>2 DEF Bounds, Minimum, Maximum
<1>3. CASE v # NaN /\ w # NaN
  <2>1. /\ v \in Numbers /\ a.lo \in Numbers /\ a.hi \in Numbers /\ a.lo <= v /\ v <= a.hi
        /\ w \in Numbers /\ b.lo \in Numbers /\ b.hi \in Numbers /\ b.lo <= w /\ w <= b.hi
    BY <1>3, DoublesAre DEF Bounds
  <2>2. /\ Lesser(a.lo, b.lo) <= Lesser(v, w) /\ Lesser(v, w) <= Lesser(a.hi, b.hi)
        /\ Greater(a.lo, b.lo) <= Greater(v, w) /\ Greater(v, w) <= Greater(a.hi, b.hi)
        /\ Lesser(v, w) \in Doubles /\ Greater(v, w) \in Doubles
    BY <2>1, NumberFacts DEF Lesser, Greater
  <2>3. Minimum(v, w) = Lesser(v, w) /\ Maximum(v, w) = Greater(v, w)
    BY <1>3 DEF Minimum, Maximum
  <2>4. /\ Smaller(a.lo, b.lo) = Lesser(a.lo, b.lo) /\ Smaller(a.hi, b.hi) = Lesser(a.hi, b.hi)
        /\ Larger(a.lo, b.lo) = Greater(a.lo, b.lo) /\ Larger(a.hi, b.hi) = Greater(a.hi, b.hi)
        /\ Smaller(a.lo, b.lo) \in Doubles /\ Smaller(a.hi, b.hi) \in Doubles
        /\ Larger(a.lo, b.lo) \in Doubles /\ Larger(a.hi, b.hi) \in Doubles
    BY <1>1, <2>1, EndsOfTwo
  <2>. QED
    BY <2>2, <2>3, <2>4, SanitisedFacts
<1>. QED
  BY <1>2, <1>3

\* select: what either branch may be.
LEMMA SelectBound ==
  ASSUME NEW a \in Intervals, NEW b \in Intervals, NEW v \in Doubles,
         Bounds(a, v) \/ Bounds(b, v)
  PROVE  Bounds(Sanitised(Smaller(a.lo, b.lo), Larger(a.hi, b.hi)), v)
<1>1. a.lo \in Doubles /\ a.hi \in Doubles /\ b.lo \in Doubles /\ b.hi \in Doubles
  BY EndsAre
<1>2. /\ Smaller(a.lo, b.lo) \in Doubles /\ Larger(a.hi, b.hi) \in Doubles
      /\ a.lo \in Numbers /\ b.lo \in Numbers => Smaller(a.lo, b.lo) = Lesser(a.lo, b.lo)
      /\ a.hi \in Numbers /\ b.hi \in Numbers => Larger(a.hi, b.hi) = Greater(a.hi, b.hi)
      /\ a.lo = NaN => Smaller(a.lo, b.lo) = NaN
      /\ b.lo = NaN => Smaller(a.lo, b.lo) = a.lo
      /\ a.hi = NaN => Larger(a.hi, b.hi) = NaN
      /\ b.hi = NaN => Larger(a.hi, b.hi) = a.hi
  BY <1>1, EndsOfTwo
<1>3. ASSUME v # NaN, Smaller(a.lo, b.lo) # NaN, Larger(a.hi, b.hi) # NaN
      PROVE  Smaller(a.lo, b.lo) <= v /\ v <= Larger(a.hi, b.hi)
  <2>1. v \in Numbers /\ a.lo \in Numbers /\ a.hi \in Numbers
    BY <1>1, <1>2, <1>3, DoublesAre
  <2>2. CASE Bounds(a, v)
    BY <1>1, <1>2, <1>3, <2>1, <2>2, DoublesAre, NumberFacts DEF Bounds, Lesser, Greater
  <2>3. CASE Bounds(b, v)
    BY <1>1, <1>2, <1>3, <2>1, <2>3, DoublesAre, NumberFacts DEF Bounds, Lesser, Greater
  <2>. QED
    BY <2>2, <2>3
<1>. QED
  BY <1>2, <1>3, SanitisedFacts

\* clamp: between the lower end of its lower bound and the upper end of its upper, unless these two
\* cross.
LEMMA ClampBound ==
  ASSUME NEW b \in Intervals, NEW c \in Intervals,
         NEW u \in Doubles, NEW v \in Doubles, NEW w \in Doubles,
         Bounds(b, v), Bounds(c, w), Compare("GT", v, w) = 0
  PROVE  Bounds(Sanitised(b.lo, c.hi), Minimum(Maximum(u, v), w))
<1>1. b.lo \in Doubles /\ c.hi \in Doubles
  BY EndsAre
<1>2. CASE u = NaN \/ v = NaN \/ w = NaN
  BY <1>2 DEF Bounds, Minimum, Maximum
<1>3. CASE u # NaN /\ v # NaN /\ w # NaN
  <2>1. u \in Numbers /\ v \in Numbers /\ w \in Numbers /\ b.lo <= v /\ w <= c.hi /\ v <= w
        /\ b.lo \in Numbers /\ c.hi \in Numbers
    BY <1>3, DoublesAre, NumberFacts DEF Bounds, Compare, Truth
  <2>2. /\ Minimum(Maximum(u, v), w) = Lesser(Greater(u, v), w) /\ Lesser(Greater(u, v), w) \in Numbers
    BY <1>3, <2>1, NumberFacts DEF Minimum, Maximum, Lesser, Greater
  <2>3. b.lo <= Lesser(Greater(u, v), w) /\ Lesser(Greater(u, v), w) <= c.hi
    BY <2>1, NumberFacts DEF Lesser, Greater
  <2>. QED
    BY <1>1, <2>2, <2>3, SanitisedFacts, NumberFacts
<1>. QED
  BY <1>2, <1>3

\* sign: the signs of the ends.
LEMMA SignBound ==
  ASSUME NEW a \in Intervals, NEW v \in Doubles, Bounds(a, v)
  PROVE  Bounds(Sanitised(SignOfBound(a.lo), SignOfBound(a.hi)), SignOf(v))
<1>1. a.lo \in Doubles /\ a.hi \in Doubles
  BY EndsAre
<1>2. \A x \in Doubles : SignOfBound(x) \in {-One, 0, One} /\ (x # NaN => SignOfBound(x) = SignOf(x))
  <2>. SUFFICES ASSUME NEW x \in Doubles
                PROVE  SignOfBound(x) \in {-One, 0, One} /\ (x # NaN => SignOfBound(x) = SignOf(x))
    OBVIOUS
  <2>1. One * 0 = 0 /\ One * 1 = One /\ One * (-1) = -One
    BY NumberFacts
  <2>2. CASE x = NaN
    BY <2>1, <2>2, NumberFacts DEF SignOfBound, Compare, Truth
  <2>3. CASE x # NaN
    <3>1. x \in Int
      BY <2>3, DoublesAre, NumberFacts
    <3>2. /\ SignOfBound(x) = One * ((IF x > 0 THEN 1 ELSE 0) - (IF x < 0 THEN 1 ELSE 0))
      BY <2>3, <3>1, NumberFacts DEF SignOfBound, Compare, Truth
    <3>. QED
      BY <2>1, <2>3, <3>1, <3>2 DEF SignOf
  <2>. QED
    BY <2>2, <2>3
<1>3. {-One, 0, One} \subseteq Numbers /\ {-One, 0, One} \subseteq Doubles
  BY NumberFacts DEF Numbers, Doubles
<1>4. CASE v = NaN
  BY <1>4 DEF Bounds, SignOf
<1>5. CASE v # NaN
  <2>1. v \in Numbers /\ a.lo \in Numbers /\ a.hi \in Numbers /\ a.lo <= v /\ v <= a.hi
    BY <1>5, DoublesAre DEF Bounds
  <2>2. SignOf(a.lo) <= SignOf(v) /\ SignOf(v) <= SignOf(a.hi) /\ SignOf(v) \in {-One, 0, One}
    BY <2>1, NumberFacts DEF SignOf
  <2>. QED
    BY <1>1, <1>2, <1>3, <1>5, <2>1, <2>2, SanitisedFacts, NumberFacts
<1>. QED
  BY <1>4, <1>5

\* Division of a whole number, rounded down.
LEMMA Quotient ==
  ASSUME NEW a \in Int, NEW d \in Nat, d > 0
  PROVE  a \div d \in Int /\ d * (a \div d) <= a /\ a < d * (a \div d) + d
OBVIOUS

\* A product of whole numbers grows with what is not negative.
LEMMA ProductGrows ==
  ASSUME NEW x \in Int, NEW u \in Int, NEW y \in Int, x <= u, 0 <= y
  PROVE  x * y \in Int /\ x * y <= u * y /\ (-x) * y = -(x * y)
<1>1. PICK d \in Nat : u = x + d
  <2>1. u - x \in Nat /\ u = x + (u - x)
    OBVIOUS
  <2>. QED
    BY <2>1
<1>2. u * y = x * y + d * y /\ d * y >= 0 /\ x * y \in Int
  BY <1>1
<1>. QED
  BY <1>2

\* A quotient of whole numbers grows with what is divided.
LEMMA QuotientGrows ==
  ASSUME NEW a \in Int, NEW b \in Int, NEW d \in Nat, d > 0, a <= b
  PROVE  a \div d <= b \div d
<1>. DEFINE p == a \div d
            q == b \div d
<1>1. p \in Int /\ q \in Int /\ d * p <= a /\ b < d * q + d
  BY Quotient
<1>. HIDE DEF p, q
<1>2. ASSUME q < p PROVE FALSE
  <2>1. PICK k \in Nat : p = q + 1 + k
    <3>1. p - q - 1 \in Nat /\ p = q + 1 + (p - q - 1)
      BY <1>1, <1>2
    <3>. QED
      BY <3>1
  <2>2. d * p = d * q + d + d * k /\ d * k >= 0
    BY <1>1, <2>1
  <2>. QED
    BY <1>1, <2>2
<1>3. p <= q
  BY <1>1, <1>2
<1>. QED
  BY <1>3 DEF p, q

\* A positive number over a larger divisor is no larger, a negative one no smaller.
LEMMA QuotientShrinks ==
  ASSUME NEW a \in Int, NEW c \in Nat, NEW d \in Nat, 0 < c, c <= d
  PROVE  /\ a >= 0 => a \div d <= a \div c /\ 0 <= a \div d
         /\ a < 0 => a \div c <= a \div d /\ a \div d < 0
<1>. DEFINE p == a \div c
            q == a \div d
<1>1. p \in Int /\ q \in Int /\ c * p <= a /\ a < c * p + c /\ d * q <= a /\ a < d * q + d
  BY Quotient
<1>. HIDE DEF p, q
<1>2. PICK e \in Nat : d = c + e
  <2>1. d - c \in Nat /\ d = c + (d - c)
    OBVIOUS
  <2>. QED
    BY <2>1
<1>3. CASE a >= 0
  <2>1. 0 <= q /\ 0 <= p
    <3>1. \A x \in Int, y \in Nat : x < 0 /\ y > 0 => y * x + y <= 0
      <4>. SUFFICES ASSUME NEW x \in Int, NEW y \in Nat, x < 0, y > 0
                    PROVE  y * x + y <= 0
        OBVIOUS
      <4>1. PICK k \in Nat : x = -1 - k
        <5>1. -1 - x \in Nat /\ x = -1 - (-1 - x)
          OBVIOUS
        <5>. QED
          BY <5>1
      <4>2. y * x + y = -(y * k) /\ y * k >= 0
        BY <4>1
      <4>. QED
        BY <4>2
    <3>. QED
      BY <1>1, <1>3, <3>1
  <2>2. ASSUME p < q PROVE FALSE
    <3>1. PICK k \in Nat : q = p + 1 + k
      <4>1. q - p - 1 \in Nat /\ q = p + 1 + (q - p - 1)
        BY <1>1, <2>2
      <4>. QED
        BY <4>1
    <3>2. d * q = c * q + e * q /\ e * q >= 0 /\ c * q = c * p + c + c * k /\ c * k >= 0
      BY <1>1, <1>2, <2>1, <3>1
    <3>. QED
      BY <1>1, <3>2
  <2>. QED
    BY <1>1, <1>3, <2>1, <2>2 DEF p, q
<1>4. CASE a < 0
  <2>1. q < 0 /\ p < 0
    <3>1. \A x \in Int, y \in Nat : x >= 0 => y * x >= 0
      OBVIOUS
    <3>. QED
      BY <1>1, <1>4, <3>1
  <2>2. ASSUME q < p PROVE FALSE
    <3>1. PICK k \in Nat : p = q + 1 + k
      <4>1. p - q - 1 \in Nat /\ p = q + 1 + (p - q - 1)
        BY <1>1, <2>2
      <4>. QED
        BY <4>1
    <3>2. PICK m \in Nat : q = -1 - m
      <4>1. -1 - q \in Nat /\ q = -1 - (-1 - q)
        BY <1>1, <2>1
      <4>. QED
        BY <4>1
    <3>3. d * q + d = -(d * m) /\ c * q + c = -(c * m) /\ d * m = c * m + e * m /\ e * m >= 0
      BY <1>2, <3>2
    <3>4. c * p = c * q + c + c * k /\ c * k >= 0
      BY <3>1, <1>1
    <3>. QED
      BY <1>1, <3>3, <3>4
  <2>. QED
    BY <1>1, <1>4, <2>1, <2>2 DEF p, q
<1>. QED
  BY <1>3, <1>4

-----------------------------------------------------------------------------
(* Products and quotients.                                                  *)

\* A product of doubles is one, and where it is no number.
LEMMA TimesFacts ==
  ASSUME NEW x \in Doubles, NEW y \in Doubles
  PROVE  /\ Times(x, y) \in Doubles
         /\ Times(x, y) = Times(y, x)
         /\ Times(x, y) = NaN <=> \/ x = NaN \/ y = NaN
                                  \/ Infinite(x) /\ y = 0
                                  \/ Infinite(y) /\ x = 0
<1>1. CASE x = NaN \/ y = NaN
  BY <1>1, NumberFacts DEF Times
<1>2. CASE x # NaN /\ y # NaN
  <2>1. x \in Int /\ y \in Int /\ x \in Numbers /\ y \in Numbers
    BY <1>2, DoublesAre, NumberFacts
  <2>2. CASE Infinite(x) \/ Infinite(y)
    BY <1>2, <2>1, <2>2, NumberFacts DEF Times, Signed, Infinite
  <2>3. CASE ~(Infinite(x) \/ Infinite(y))
    <3>1. x * y = y * x /\ x * y \in Int
      BY <2>1
    <3>2. (x * y) \div One \in Int
      BY <3>1, NumberFacts
    <3>3. Times(x, y) = Rounded((x * y) \div One) /\ Times(y, x) = Rounded((x * y) \div One)
      BY <1>2, <2>3, <3>1 DEF Times
    <3>. QED
      BY <1>2, <2>3, <3>2, <3>3, RoundedFacts, NumberFacts
  <2>. QED
    BY <2>2, <2>3
<1>. QED
  BY <1>1, <1>2

\* A product grows with what is not negative, and falls with what is not positive.
LEMMA TimesGrows ==
  ASSUME NEW x \in Numbers, NEW u \in Numbers, NEW y \in Numbers, x <= u,
         Times(x, y) # NaN, Times(u, y) # NaN
  PROVE  /\ y >= 0 => Times(x, y) <= Times(u, y)
         /\ y <= 0 => Times(u, y) <= Times(x, y)
<1>1. x \in Int /\ y \in Int /\ u \in Int /\ x # NaN /\ y # NaN /\ u # NaN
      /\ x \in Doubles /\ y \in Doubles /\ u \in Doubles
  BY NumberFacts
<1>. DEFINE F(a) == (a * y) \div One
<1>2. \A a \in {x, u} : a * y \in Int /\ F(a) \in Int /\ Rounded(F(a)) \in Numbers
  <2>1. \A a \in {x, u} : a * y \in Int
    BY <1>1
  <2>2. \A a \in {x, u} : F(a) \in Int
    BY <2>1, NumberFacts
  <2>. QED
    BY <2>1, <2>2, RoundedFacts
<1>3. /\ y >= 0 => F(x) <= F(u)
      /\ y <= 0 => F(u) <= F(x)
  <2>1. y >= 0 => x * y <= u * y
    BY <1>1, ProductGrows
  <2>2. ASSUME y <= 0 PROVE u * y <= x * y
    <3>1. x * (-y) <= u * (-y)
      BY <1>1, <2>2, ProductGrows
    <3>2. x * (-y) = -(x * y) /\ u * (-y) = -(u * y)
      BY <1>1
    <3>. QED
      BY <1>1, <1>2, <3>1, <3>2
  <2>. QED
    BY <1>2, <2>1, <2>2, NumberFacts, QuotientGrows
<1>. HIDE DEF F
<1>4. /\ y >= 0 => Rounded(F(x)) <= Rounded(F(u))
      /\ y <= 0 => Rounded(F(u)) <= Rounded(F(x))
  BY <1>2, <1>3, RoundedFacts
<1>5. \A a \in {x, u} :
        Times(a, y) = IF Infinite(a) \/ Infinite(y) THEN Signed((a > 0) = (y > 0)) ELSE Rounded(F(a))
  BY <1>1, TimesFacts DEF Times, F
<1>6. \A a \in {x, u} : Infinite(a) \/ Infinite(y) => a # 0 /\ y # 0
  BY <1>1, TimesFacts, NumberFacts DEF Infinite
<1>. HIDE DEF F
<1>. QED
  BY <1>1, <1>2, <1>4, <1>5, <1>6, NumberFacts DEF Signed, Infinite, Numbers

\* v is between the two that are given, in either order.
Between(v, x, y) == (x <= v /\ v <= y) \/ (y <= v /\ v <= x)

\* A product by what lies between two numbers lies between the products by them.
LEMMA TimesBetween ==
  ASSUME NEW x \in Numbers, NEW u \in Numbers, NEW v \in Numbers, NEW y \in Numbers,
         x <= v, v <= u, Times(x, y) # NaN, Times(u, y) # NaN, Times(v, y) # NaN
  PROVE  Between(Times(v, y), Times(x, y), Times(u, y))
<1>1. y >= 0 \/ y <= 0
  BY NumberFacts
<1>2. /\ y >= 0 => Times(x, y) <= Times(v, y)
      /\ y <= 0 => Times(v, y) <= Times(x, y)
  BY TimesGrows
<1>3. /\ y >= 0 => Times(v, y) <= Times(u, y)
      /\ y <= 0 => Times(u, y) <= Times(v, y)
  BY TimesGrows
<1>. QED
  BY <1>1, <1>2, <1>3 DEF Between

\* What lies between two corners, or between what does, lies within the span.
LEMMA SpannedFacts ==
  ASSUME NEW a \in Doubles, NEW b \in Doubles, NEW c \in Doubles, NEW d \in Doubles
  PROVE  /\ Spanned({a, b, c, d}) \in Intervals
         /\ \A v \in Doubles :
              (/\ v # NaN /\ a # NaN /\ b # NaN /\ c # NaN /\ d # NaN
               => /\ a <= v \/ b <= v \/ c <= v \/ d <= v
                  /\ v <= a \/ v <= b \/ v <= c \/ v <= d)
              => Bounds(Spanned({a, b, c, d}), v)
<1>. DEFINE S == {a, b, c, d}
<1>1. CASE NaN \in S
  BY <1>1, UnknownBounds DEF Spanned
<1>2. CASE NaN \notin S
  <2>1. S \subseteq Numbers /\ a \in Numbers /\ b \in Numbers /\ c \in Numbers /\ d \in Numbers
        /\ S \subseteq Int
    BY <1>2, DoublesAre, NumberFacts
  <2>2. \E m \in S : \A x \in S : m <= x
    BY <2>1, NumberFacts
  <2>3. \E m \in S : \A x \in S : m >= x
    BY <2>1, NumberFacts
  <2>4. Min(S) \in S /\ \A x \in S : Min(S) <= x
    BY <2>2 DEF Min
  <2>5. Max(S) \in S /\ \A x \in S : Max(S) >= x
    BY <2>3 DEF Max
  <2>6. Spanned(S) = Sanitised(Min(S), Max(S))
    BY <1>2 DEF Spanned
  <2>7. Min(S) \in Numbers /\ Max(S) \in Numbers /\ Min(S) \in Doubles /\ Max(S) \in Doubles
    BY <2>1, <2>4, <2>5, NumberFacts
  <2>8. ASSUME NEW v \in Doubles, v # NaN,
               a <= v \/ b <= v \/ c <= v \/ d <= v,
               v <= a \/ v <= b \/ v <= c \/ v <= d
        PROVE  Min(S) <= v /\ v <= Max(S)
    <3>1. v \in Int /\ \A x \in S : x \in Int
      BY <2>1, <2>8, DoublesAre, NumberFacts
    <3>2. \A x \in S : Min(S) <= x /\ x <= Max(S)
      BY <2>1, <2>4, <2>5, <3>1
    <3>3. a \in S /\ b \in S /\ c \in S /\ d \in S /\ Min(S) \in Int /\ Max(S) \in Int
      BY <2>7, NumberFacts
    <3>. HIDE DEF S
    <3>. QED
      BY <2>8, <3>1, <3>2, <3>3
  <2>. HIDE DEF S
  <2>9. Spanned(S) \in Intervals
    BY <2>6, <2>7, SanitisedFacts
  <2>10. ASSUME NEW v \in Doubles, v # NaN => Min(S) <= v /\ v <= Max(S)
         PROVE  Bounds(Spanned(S), v)
    BY <2>6, <2>7, <2>10, SanitisedFacts
  <2>11. a # NaN /\ b # NaN /\ c # NaN /\ d # NaN
    BY <2>1, NumberFacts
  <2>12. ASSUME NEW v \in Doubles,
                v # NaN =>
                 /\ a <= v \/ b <= v \/ c <= v \/ d <= v
                 /\ v <= a \/ v <= b \/ v <= c \/ v <= d
         PROVE  Bounds(Spanned(S), v)
    BY <2>8, <2>10, <2>12
  <2>. QED
    BY <2>9, <2>11, <2>12 DEF S
<1>. QED
  BY <1>1, <1>2

\* A product lies in what the four products of the ends span.
LEMMA MulBound ==
  ASSUME NEW a \in Intervals, NEW b \in Intervals, NEW v \in Doubles, NEW w \in Doubles,
         Bounds(a, v), Bounds(b, w)
  PROVE  Bounds(Multiplied(a, b), Times(v, w))
<1>. DEFINE ll == Times(a.lo, b.lo)
            lh == Times(a.lo, b.hi)
            hl == Times(a.hi, b.lo)
            hh == Times(a.hi, b.hi)
            p == Times(v, w)
<1>1. a.lo \in Doubles /\ a.hi \in Doubles /\ b.lo \in Doubles /\ b.hi \in Doubles
  BY EndsAre
<1>2. ll \in Doubles /\ lh \in Doubles /\ hl \in Doubles /\ hh \in Doubles /\ p \in Doubles
  BY <1>1, TimesFacts
<1>3. ASSUME p # NaN, ll # NaN, lh # NaN, hl # NaN, hh # NaN
      PROVE  /\ ll <= p \/ lh <= p \/ hl <= p \/ hh <= p
             /\ p <= ll \/ p <= lh \/ p <= hl \/ p <= hh
  <2>1. /\ v \in Numbers /\ a.lo \in Numbers /\ a.hi \in Numbers /\ a.lo <= v /\ v <= a.hi
        /\ w \in Numbers /\ b.lo \in Numbers /\ b.hi \in Numbers /\ b.lo <= w /\ w <= b.hi
    <3>1. v # NaN /\ w # NaN
      BY <1>3, TimesFacts
    <3>. QED
      BY <3>1, DoublesAre DEF Bounds
  <2>2. CASE w = 0 /\ (Infinite(a.lo) \/ Infinite(a.hi))
    <3>1. b.lo < 0 /\ b.hi > 0
      <4>1. b.lo # 0 /\ b.hi # 0
        BY <1>1, <1>3, <2>2, TimesFacts
      <4>. QED
        BY <2>1, <2>2, <4>1, NumberFacts
    <3>2. PICK e \in {a.lo, a.hi} : Infinite(e)
      BY <2>2
    <3>3. e # NaN /\ e # 0 /\ b.lo # NaN /\ b.hi # NaN
      BY <2>1, <3>2, NumberFacts DEF Infinite
    <3>4. /\ Times(e, b.lo) = Signed((e > 0) = (b.lo > 0))
          /\ Times(e, b.hi) = Signed((e > 0) = (b.hi > 0))
      BY <2>1, <3>1, <3>2, <3>3, NumberFacts DEF Times
    <3>5. \/ Times(e, b.lo) = Inf /\ Times(e, b.hi) = -Inf
          \/ Times(e, b.lo) = -Inf /\ Times(e, b.hi) = Inf
      BY <2>1, <3>1, <3>2, <3>4, NumberFacts DEF Signed, Infinite
    <3>6. p \in Numbers
      BY <1>2, <1>3, DoublesAre
    <3>. HIDE DEF p
    <3>. QED
      BY <3>2, <3>5, <3>6, NumberFacts DEF Numbers
  <2>3. CASE ~(w = 0 /\ (Infinite(a.lo) \/ Infinite(a.hi)))
    <3>1. Times(a.lo, w) # NaN /\ Times(a.hi, w) # NaN
      <4>1. ASSUME NEW e \in {a.lo, a.hi}, Times(e, w) = NaN
            PROVE  FALSE
        <5>1. e = 0 /\ Infinite(w) /\ e \in Doubles
          BY <1>1, <2>1, <2>3, <4>1, TimesFacts, NumberFacts
        <5>2. w = b.lo \/ w = b.hi
          BY <2>1, <5>1, NumberFacts DEF Infinite, Numbers
        <5>. QED
          BY <1>1, <1>3, <5>1, <5>2, TimesFacts
      <4>. QED
        BY <4>1
    <3>2. Between(p, Times(a.lo, w), Times(a.hi, w))
      BY <1>3, <2>1, <3>1, TimesBetween
    <3>3. Between(Times(a.lo, w), ll, lh) /\ Between(Times(a.hi, w), hl, hh)
      <4>1. \A e \in {a.lo, a.hi} : \A x \in Doubles : Times(e, x) = Times(x, e)
        BY <1>1, TimesFacts
      <4>2. w \in Doubles
        OBVIOUS
      <4>3. Between(Times(w, a.lo), Times(b.lo, a.lo), Times(b.hi, a.lo))
        BY <1>1, <1>3, <2>1, <3>1, <4>1, TimesBetween
      <4>4. Between(Times(w, a.hi), Times(b.lo, a.hi), Times(b.hi, a.hi))
        BY <1>1, <1>3, <2>1, <3>1, <4>1, TimesBetween
      <4>. QED
        BY <1>1, <4>1, <4>2, <4>3, <4>4
    <3>4. /\ ll \in Int /\ lh \in Int /\ hl \in Int /\ hh \in Int /\ p \in Int
          /\ Times(a.lo, w) \in Int /\ Times(a.hi, w) \in Int
      <4>1. Times(a.lo, w) \in Doubles /\ Times(a.hi, w) \in Doubles
        BY <1>1, TimesFacts
      <4>. HIDE DEF ll, lh, hl, hh, p
      <4>. QED
        BY <1>2, <1>3, <3>1, <4>1, DoublesAre, NumberFacts
    <3>. HIDE DEF ll, lh, hl, hh, p
    <3>. QED
      BY <3>2, <3>3, <3>4 DEF Between
  <2>. QED
    BY <2>2, <2>3
<1>4. Multiplied(a, b) = Spanned({ll, lh, hl, hh})
  BY DEF Multiplied
<1>. HIDE DEF ll, lh, hl, hh, p
<1>5. Bounds(Spanned({ll, lh, hl, hh}), p)
  BY <1>2, <1>3, SpannedFacts
<1>. QED
  BY <1>4, <1>5 DEF p

\* What a number over a positive one is.
LEMMA OverPositive ==
  ASSUME NEW x \in Numbers, NEW y \in Numbers, y > 0
  PROVE  /\ (x * One) \div y \in Int
         /\ Over(x, y) =
              CASE Infinite(x) /\ y = Inf -> NaN
                [] ~Infinite(x) /\ y = Inf -> 0
                [] Infinite(x) /\ y # Inf -> x
                [] OTHER -> Rounded((x * One) \div y)
         /\ Over(-x, -y) = Over(x, y)
         /\ Over(x, y) \in Doubles
<1>1. /\ x \in Int /\ y \in Nat /\ y # 0 /\ x # NaN /\ y # NaN /\ -x # NaN /\ -y # NaN
      /\ -x \in Int /\ -y \in Int
  BY NumberFacts
<1>2. x * One \in Int /\ (x * One) \div y \in Int
  <2>1. x * One \in Int
    BY <1>1, NumberFacts
  <2>. QED
    BY <1>1, <2>1, Quotient
<1>. DEFINE q == Rounded((x * One) \div y)
<1>3. q \in Numbers
  BY <1>2, RoundedFacts
<1>4. /\ Infinite(y) <=> y = Inf
      /\ Infinite(-y) <=> y = Inf
      /\ Infinite(-x) <=> Infinite(x)
      /\ Infinite(x) => x # 0 /\ Signed(x > 0) = x /\ Signed(~(-x > 0)) = x
      /\ -x = 0 <=> x = 0
      /\ ~(-y >= 0) /\ ~(-y > 0) /\ -y # 0
  BY <1>1, NumberFacts DEF Infinite, Signed, Numbers
<1>5. Over(x, y) = CASE Infinite(x) /\ y = Inf -> NaN
                     [] ~Infinite(x) /\ y = Inf -> 0
                     [] Infinite(x) /\ y # Inf -> x
                     [] OTHER -> q
  <2>. HIDE DEF q
  <2>1. y > 0 => (IF y > 0 THEN (x * One) \div y ELSE ((-x) * One) \div (-y)) = (x * One) \div y
    OBVIOUS
  <2>2. Over(x, y) = IF Infinite(x) /\ y = Inf THEN NaN
                     ELSE IF y = Inf THEN 0
                     ELSE IF Infinite(x) THEN Signed((x > 0) = (y >= 0))
                     ELSE q
    BY <1>1, <1>4 DEF Over, q
  <2>3. Infinite(x) => Signed((x > 0) = (y >= 0)) = x
    BY <1>1, <1>4, NumberFacts DEF Signed, Infinite
  <2>. QED
    BY <2>2, <2>3
<1>6. Over(-x, -y) = IF Infinite(x) /\ y = Inf THEN NaN
                     ELSE IF y = Inf THEN 0
                     ELSE IF Infinite(x) THEN x
                     ELSE q
  <2>1. -(-x) = x /\ -(-y) = y
    BY <1>1
  <2>2. (IF -y > 0 THEN ((-x) * One) \div (-y) ELSE ((-(-x)) * One) \div (-(-y))) = (x * One) \div y
    BY <1>4, <2>1
  <2>. HIDE DEF q
  <2>3. Over(-x, -y) = IF Infinite(x) /\ y = Inf THEN NaN
                     ELSE IF y = Inf THEN 0
                     ELSE IF Infinite(x) THEN Signed((-x > 0) = (-y >= 0))
                     ELSE q
    BY <1>1, <1>4, <2>2 DEF Over, q
  <2>4. Infinite(x) => Signed((-x > 0) = (-y >= 0)) = x
    BY <1>1, <1>4, NumberFacts DEF Signed, Infinite
  <2>. QED
    BY <2>3, <2>4
<1>. HIDE DEF q
<1>7. Over(x, y) \in Doubles
  BY <1>3, <1>5, NumberFacts
<1>. QED
  BY <1>2, <1>5, <1>6, <1>7 DEF q

\* A quotient of doubles is one, and is no number where either is none.
LEMMA OverFacts ==
  ASSUME NEW x \in Doubles, NEW y \in Doubles
  PROVE  /\ Over(x, y) \in Doubles
         /\ x = NaN \/ y = NaN => Over(x, y) = NaN
<1>1. CASE x = NaN \/ y = NaN
  BY <1>1, NumberFacts DEF Over
<1>2. CASE x \in Numbers /\ y \in Numbers /\ y > 0
  BY <1>2, OverPositive, NumberFacts
<1>3. CASE x \in Numbers /\ y \in Numbers /\ y < 0
  <2>1. -x \in Numbers /\ -y \in Numbers /\ -y > 0 /\ -(-x) = x /\ -(-y) = y
    BY <1>3, NumberFacts DEF Numbers
  <2>. QED
    BY <1>3, <2>1, OverPositive, NumberFacts
<1>4. CASE x \in Numbers /\ y = 0
  <2>1. Over(x, y) \in {NaN, Inf, -Inf}
    BY <1>4, NumberFacts DEF Over, Signed, Infinite
  <2>. QED
    BY <1>4, <2>1, NumberFacts
<1>. QED
  BY <1>1, <1>2, <1>3, <1>4, DoublesAre, NumberFacts

\* A quotient grows with what is divided by a positive number.
LEMMA OverGrows ==
  ASSUME NEW x \in Numbers, NEW u \in Numbers, NEW y \in Numbers, y > 0, x <= u,
         Over(x, y) # NaN, Over(u, y) # NaN
  PROVE  Over(x, y) <= Over(u, y)
<1>1. x \in Int /\ u \in Int /\ y \in Nat /\ One \in Nat
  BY NumberFacts
<1>. DEFINE F(a) == (a * One) \div y
<1>2. F(x) \in Int /\ F(u) \in Int
  BY OverPositive
<1>3. F(x) <= F(u)
  <2>1. x * One \in Int /\ u * One \in Int /\ x * One <= u * One
    BY <1>1, ProductGrows
  <2>. QED
    BY <1>1, <2>1, QuotientGrows
<1>. HIDE DEF F
<1>4. Rounded(F(x)) <= Rounded(F(u)) /\ Rounded(F(x)) \in Numbers /\ Rounded(F(u)) \in Numbers
  BY <1>2, <1>3, RoundedFacts
<1>5. \A a \in {x, u} : Over(a, y) = CASE Infinite(a) /\ y = Inf -> NaN
                                      [] ~Infinite(a) /\ y = Inf -> 0
                                      [] Infinite(a) /\ y # Inf -> a
                                      [] OTHER -> Rounded(F(a))
  BY OverPositive DEF F
<1>6. \A a \in {x, u} : Over(a, y) = IF y = Inf THEN 0 ELSE IF Infinite(a) THEN a ELSE Rounded(F(a))
  BY <1>5
<1>. QED
  BY <1>1, <1>4, <1>6, NumberFacts DEF Infinite, Numbers

\* In the divisor: down for a number above zero, up for one below.
LEMMA OverShrinks ==
  ASSUME NEW x \in Numbers, NEW y \in Numbers, NEW z \in Numbers, y > 0, y <= z,
         Over(x, y) # NaN, Over(x, z) # NaN
  PROVE  /\ x >= 0 => Over(x, z) <= Over(x, y)
         /\ x <= 0 => Over(x, y) <= Over(x, z)
<1>1. x \in Int /\ y \in Nat /\ z \in Nat /\ One \in Nat /\ z > 0 /\ One > 0
  BY NumberFacts
<1>. DEFINE F(d) == (x * One) \div d
<1>2. F(y) \in Int /\ F(z) \in Int
  BY <1>1, OverPositive
<1>3. /\ x >= 0 => F(z) <= F(y) /\ 0 <= F(z)
      /\ x < 0 => F(y) <= F(z) /\ F(z) < 0
  <2>1. x * One \in Int /\ (x >= 0 => x * One >= 0) /\ (x < 0 => x * One < 0)
    BY <1>1, NumberFacts
  <2>. QED
    BY <1>1, <2>1, QuotientShrinks
<1>4. x = 0 => F(y) = 0 /\ F(z) = 0
  BY <1>1
<1>5. F(y) > 0 => x # 0
  BY <1>4
<1>. HIDE DEF F
<1>6. /\ Rounded(F(y)) \in Numbers /\ Rounded(F(z)) \in Numbers
      /\ x >= 0 => Rounded(F(z)) <= Rounded(F(y)) /\ 0 <= Rounded(F(z)) /\ 0 <= Rounded(F(y))
      /\ x <= 0 => Rounded(F(y)) <= Rounded(F(z)) /\ Rounded(F(z)) <= 0 /\ Rounded(F(y)) <= 0
  BY <1>1, <1>2, <1>3, <1>4, NumberFacts DEF Rounded, Numbers
<1>7. \A d \in {y, z} : Over(x, d) = CASE Infinite(x) /\ d = Inf -> NaN
                                      [] ~Infinite(x) /\ d = Inf -> 0
                                      [] Infinite(x) /\ d # Inf -> x
                                      [] OTHER -> Rounded(F(d))
  BY <1>1, OverPositive DEF F
<1>8. \A d \in {y, z} : Over(x, d) = IF d = Inf THEN 0 ELSE IF Infinite(x) THEN x ELSE Rounded(F(d))
  BY <1>7
<1>9. Infinite(x) => y # Inf /\ z # Inf
  BY <1>7
<1>. QED
  BY <1>1, <1>6, <1>8, <1>9, NumberFacts DEF Infinite, Numbers

\* A quotient by what is above zero lies among the four quotients of the ends.
LEMMA OverAmongCorners ==
  ASSUME NEW l \in Numbers, NEW h \in Numbers, NEW m \in Numbers, NEW n \in Numbers,
         NEW v \in Numbers, NEW w \in Numbers,
         l <= v, v <= h, m <= w, w <= n, 0 < m,
         Over(v, w) # NaN, Over(l, m) # NaN, Over(l, n) # NaN, Over(h, m) # NaN, Over(h, n) # NaN
  PROVE  /\ Over(l, m) <= Over(v, w) \/ Over(l, n) <= Over(v, w)
         /\ Over(v, w) <= Over(h, m) \/ Over(v, w) <= Over(h, n)
<1>1. /\ l \in Int /\ h \in Int /\ m \in Int /\ n \in Int /\ v \in Int /\ w \in Int
      /\ w > 0 /\ n > 0
  BY NumberFacts
<1>2. \A x \in {l, h} : Over(x, w) # NaN
  <2>. SUFFICES ASSUME NEW x \in {l, h}, Over(x, w) = NaN
                PROVE  FALSE
    OBVIOUS
  <2>1. Infinite(x) /\ w = Inf
    <3>1. Rounded((x * One) \div w) # NaN /\ x # NaN /\ 0 # NaN
      <4>1. (x * One) \div w \in Int
        BY <1>1, OverPositive
      <4>. QED
        BY <4>1, RoundedFacts, NumberFacts
    <3>. QED
      BY <1>1, <3>1, OverPositive
  <2>2. n = Inf
    BY <1>1, <2>1, NumberFacts DEF Numbers
  <2>. QED
    BY <1>1, <2>1, <2>2, OverPositive
<1>3. Over(l, w) <= Over(v, w) /\ Over(v, w) <= Over(h, w)
  BY <1>1, <1>2, OverGrows
<1>4. Over(l, m) <= Over(l, w) \/ Over(l, n) <= Over(l, w)
  BY <1>1, <1>2, OverShrinks
<1>5. Over(h, w) <= Over(h, m) \/ Over(h, w) <= Over(h, n)
  BY <1>1, <1>2, OverShrinks
<1>6. \A x \in {l, h, v}, y \in {m, n, w} : Over(x, y) # NaN => Over(x, y) \in Int
  <2>. SUFFICES ASSUME NEW x \in {l, h, v}, NEW y \in {m, n, w}, Over(x, y) # NaN
                PROVE  Over(x, y) \in Int
    OBVIOUS
  <2>1. Over(x, y) \in Doubles
    BY <1>1, OverPositive
  <2>. QED
    BY <2>1, DoublesAre, NumberFacts
<1>7. /\ Over(l, m) \in Int /\ Over(l, n) \in Int /\ Over(h, m) \in Int /\ Over(h, n) \in Int
      /\ Over(l, w) \in Int /\ Over(h, w) \in Int /\ Over(v, w) \in Int
  BY <1>2, <1>6
<1>. QED
  BY <1>3, <1>4, <1>5, <1>7

\* rdiv: among the quotients of the ends, if the divisor is never zero.
LEMMA DivBound ==
  ASSUME NEW a \in Intervals, NEW b \in Intervals, NEW v \in Doubles, NEW w \in Doubles,
         Bounds(a, v), Bounds(b, w)
  PROVE  Bounds(Divided(a, b), Over(v, w))
<1>. DEFINE ll == Over(a.lo, b.lo)
            lh == Over(a.lo, b.hi)
            hl == Over(a.hi, b.lo)
            hh == Over(a.hi, b.hi)
            p == Over(v, w)
<1>1. a.lo \in Doubles /\ a.hi \in Doubles /\ b.lo \in Doubles /\ b.hi \in Doubles /\ 0 \in Doubles
  BY EndsAre, NumberFacts
<1>2. ll \in Doubles /\ lh \in Doubles /\ hl \in Doubles /\ hh \in Doubles /\ p \in Doubles
  BY <1>1, OverFacts
<1>3. CASE ~(IsTrue("GT", b.lo, 0) \/ IsTrue("LT", b.hi, 0))
  BY <1>2, <1>3, UnknownBounds DEF Divided
<1>4. CASE IsTrue("GT", b.lo, 0) \/ IsTrue("LT", b.hi, 0)
  <2>1. ASSUME p # NaN, ll # NaN, lh # NaN, hl # NaN, hh # NaN
        PROVE  /\ ll <= p \/ lh <= p \/ hl <= p \/ hh <= p
               /\ p <= ll \/ p <= lh \/ p <= hl \/ p <= hh
    <3>1. /\ v \in Numbers /\ a.lo \in Numbers /\ a.hi \in Numbers /\ a.lo <= v /\ v <= a.hi
          /\ w \in Numbers /\ b.lo \in Numbers /\ b.hi \in Numbers /\ b.lo <= w /\ w <= b.hi
      <4>1. v # NaN /\ w # NaN
        BY <2>1, OverFacts
      <4>. QED
        BY <4>1, DoublesAre DEF Bounds
    <3>2. CASE b.lo > 0
      BY <2>1, <3>1, <3>2, OverAmongCorners
    <3>3. CASE b.hi < 0
      <4>1. \A x \in Numbers : x \in Int /\ -x \in Numbers /\ -(-x) = x
        BY NumberFacts DEF Numbers
      <4>2. \A x \in Numbers, y \in Numbers : y < 0 => Over(-x, -y) = Over(x, y)
        <5>. SUFFICES ASSUME NEW x \in Numbers, NEW y \in Numbers, y < 0
                      PROVE  Over(-x, -y) = Over(x, y)
          OBVIOUS
        <5>1. -y > 0 /\ -y \in Numbers /\ -x \in Numbers
          BY <4>1
        <5>2. Over(-(-x), -(-y)) = Over(-x, -y)
          BY <5>1, OverPositive
        <5>. QED
          BY <4>1, <5>2
      <4>3. /\ Over(-v, -w) = p /\ Over(-a.lo, -b.lo) = ll /\ Over(-a.lo, -b.hi) = lh
            /\ Over(-a.hi, -b.lo) = hl /\ Over(-a.hi, -b.hi) = hh
        BY <3>1, <3>3, <4>1, <4>2
      <4>4. /\ -a.hi <= -v /\ -v <= -a.lo /\ -b.hi <= -w /\ -w <= -b.lo /\ 0 < -b.hi
            /\ -v \in Numbers /\ -w \in Numbers /\ -a.lo \in Numbers /\ -a.hi \in Numbers
            /\ -b.lo \in Numbers /\ -b.hi \in Numbers
        BY <3>1, <3>3, <4>1
      <4>. HIDE DEF ll, lh, hl, hh, p
      <4>. QED
        BY <2>1, <4>3, <4>4, OverAmongCorners
    <3>. QED
      BY <1>1, <1>4, <3>2, <3>3, TrueFacts
  <2>2. Divided(a, b) = Spanned({ll, lh, hl, hh})
    BY <1>4 DEF Divided
  <2>. HIDE DEF ll, lh, hl, hh, p
  <2>3. Bounds(Spanned({ll, lh, hl, hh}), p)
    BY <1>2, <2>1, SpannedFacts
  <2>. QED
    BY <2>2, <2>3 DEF p
<1>. QED
  BY <1>3, <1>4

-----------------------------------------------------------------------------
(* exp, and years from clicks.                                              *)

\* The powers of two that exp is worked out with.
LEMMA DoubledFacts ==
  ASSUME NEW n \in 0 .. 6
  PROVE  Doubled(n) \in 1 .. 64 /\ \A m \in 0 .. n : Doubled(m) \in 1 .. 64 /\ Doubled(m) <= Doubled(n)
BY DEF Doubled

\* The parts exp is made of.
LEMMA ExponentialOf ==
  ASSUME NEW x \in Numbers
  PROVE  /\ x >= 5 * One => Exponential(x) = Inf
         /\ x < -6 * One => Exponential(x) = 0
         /\ x < 0 /\ ~(x < -6 * One) =>
              /\ (-x) \div One \in 0 .. 6
              /\ Exponential(x) = One \div Doubled((-x) \div One)
              /\ Exponential(x) \in 0 .. One
         /\ 0 <= x /\ x < 5 * One =>
              /\ x \div One \in 0 .. 6
              /\ Exponential(x) = Rounded(One * Doubled(x \div One))
              /\ Exponential(x) \in One .. Inf
<1>1. x \in Int /\ x # NaN
  BY NumberFacts
<1>2. \A y \in 0 .. 6 * One : y \div One \in 0 .. 6
  <2>. SUFFICES ASSUME NEW y \in 0 .. 6 * One
                PROVE  y \div One \in 0 .. 6
    OBVIOUS
  <2>1. (6 * One) \div One = 6
    BY NumberFacts
  <2>2. y \in Int /\ y >= 0 /\ y <= 6 * One /\ 6 * One \in Int
    BY NumberFacts
  <2>3. y \div One <= 6 /\ 0 <= y \div One /\ y \div One \in Int
    BY <2>1, <2>2, Quotient, QuotientGrows, QuotientShrinks, NumberFacts
  <2>. QED
    BY <2>3
<1>3. CASE x >= 5 * One
  BY <1>1, <1>3, NumberFacts DEF Exponential
<1>4. CASE x < -6 * One
  BY <1>1, <1>4, NumberFacts DEF Exponential
<1>5. CASE x < 0 /\ ~(x < -6 * One)
  <2>1. (-x) \div One \in 0 .. 6
    BY <1>1, <1>2, <1>5, NumberFacts
  <2>2. Exponential(x) = One \div Doubled((-x) \div One)
    BY <1>1, <1>5, NumberFacts DEF Exponential
  <2>3. PICK d \in 1 .. 64 : d = Doubled((-x) \div One)
    BY <2>1, DoubledFacts
  <2>4. One \div d \in Int /\ 0 <= One \div d /\ One \div d <= One \div 1 /\ One \div 1 = One
    BY <2>3, Quotient, QuotientShrinks, NumberFacts
  <2>. QED
    BY <1>1, <1>5, <2>1, <2>2, <2>3, <2>4, NumberFacts
<1>6. CASE 0 <= x /\ x < 5 * One
  <2>1. x \div One \in 0 .. 6
    BY <1>1, <1>2, <1>6, NumberFacts
  <2>2. Exponential(x) = Rounded(One * Doubled(x \div One))
    BY <1>1, <1>6, NumberFacts DEF Exponential
  <2>3. PICK d \in 1 .. 64 : d = Doubled(x \div One)
    BY <2>1, DoubledFacts
  <2>4. One * d \in Int /\ One * d >= One
    BY <2>3, NumberFacts
  <2>5. Rounded(One * d) \in One .. Inf
    BY <2>4, NumberFacts DEF Rounded
  <2>. QED
    BY <1>1, <1>6, <2>1, <2>2, <2>3, <2>5, NumberFacts
<1>. QED
  BY <1>3, <1>4, <1>5, <1>6

\* An exponential is a double.
LEMMA ExponentialFacts ==
  ASSUME NEW x \in Doubles
  PROVE  /\ Exponential(x) \in Doubles
         /\ x = NaN => Exponential(x) = NaN
         /\ x # NaN => Exponential(x) \in Numbers
<1>1. CASE x = NaN
  BY <1>1, NumberFacts DEF Exponential
<1>2. CASE x # NaN
  <2>1. x \in Numbers /\ x \in Int
    BY <1>2, DoublesAre, NumberFacts
  <2>2. Exponential(x) \in 0 .. Inf
    BY <2>1, ExponentialOf, NumberFacts
  <2>. QED
    BY <1>2, <2>2, NumberFacts DEF Numbers
<1>. QED
  BY <1>1, <1>2

\* exp grows.
LEMMA ExponentialGrows ==
  ASSUME NEW x \in Numbers, NEW y \in Numbers, x <= y
  PROVE  Exponential(x) <= Exponential(y)
<1>1. x \in Int /\ y \in Int
  BY NumberFacts
<1>2. CASE 0 <= x /\ y < 5 * One
  <2>1. x \div One <= y \div One
    BY <1>1, NumberFacts, QuotientGrows
  <2>2. /\ x \div One \in 0 .. 6 /\ y \div One \in 0 .. 6
        /\ Exponential(x) = Rounded(One * Doubled(x \div One))
        /\ Exponential(y) = Rounded(One * Doubled(y \div One))
    BY <1>1, <1>2, ExponentialOf, NumberFacts
  <2>3. PICK c \in 1 .. 64, d \in 1 .. 64 : c = Doubled(x \div One) /\ d = Doubled(y \div One) /\ c <= d
    <3>1. PICK m \in 0 .. 6, n \in 0 .. 6 : m = x \div One /\ n = y \div One /\ m <= n
      BY <2>1, <2>2
    <3>2. Doubled(n) \in 1 .. 64 /\ Doubled(m) \in 1 .. 64 /\ Doubled(m) <= Doubled(n)
      BY <3>1, DoubledFacts
    <3>. QED
      BY <3>1, <3>2
  <2>4. c * One \in Int /\ d * One \in Int /\ c * One <= d * One /\ One * c = c * One /\ One * d = d * One
    BY <2>3, ProductGrows, NumberFacts
  <2>. QED
    BY <2>2, <2>3, <2>4, RoundedFacts
<1>3. CASE ~(x < -6 * One) /\ y < 0
  <2>1. (-y) \div One <= (-x) \div One
    BY <1>1, NumberFacts, QuotientGrows
  <2>2. /\ (-x) \div One \in 0 .. 6 /\ (-y) \div One \in 0 .. 6
        /\ Exponential(x) = One \div Doubled((-x) \div One)
        /\ Exponential(y) = One \div Doubled((-y) \div One)
    BY <1>1, <1>3, ExponentialOf, NumberFacts
  <2>3. PICK c \in 1 .. 64, d \in 1 .. 64 :
          c = Doubled((-x) \div One) /\ d = Doubled((-y) \div One) /\ d <= c
    <3>1. PICK m \in 0 .. 6, n \in 0 .. 6 : m = (-y) \div One /\ n = (-x) \div One /\ m <= n
      BY <2>1, <2>2
    <3>2. Doubled(n) \in 1 .. 64 /\ Doubled(m) \in 1 .. 64 /\ Doubled(m) <= Doubled(n)
      BY <3>1, DoubledFacts
    <3>. QED
      BY <3>1, <3>2
  <2>. QED
    BY <2>2, <2>3, QuotientShrinks, NumberFacts
<1>. QED
  BY <1>1, <1>2, <1>3, ExponentialOf, NumberFacts

\* exp: between the exponentials of the ends.
LEMMA ExpBound ==
  ASSUME NEW a \in Intervals, NEW v \in Doubles, Bounds(a, v)
  PROVE  Bounds(Sanitised(Exponential(a.lo), Exponential(a.hi)), Exponential(v))
<1>1. a.lo \in Doubles /\ a.hi \in Doubles
  BY EndsAre
<1>2. Exponential(a.lo) \in Doubles /\ Exponential(a.hi) \in Doubles /\ Exponential(v) \in Doubles
  BY <1>1, ExponentialFacts
<1>3. ASSUME Exponential(v) # NaN
      PROVE  Exponential(a.lo) <= Exponential(v) /\ Exponential(v) <= Exponential(a.hi)
  <2>1. v # NaN
    BY <1>3, ExponentialFacts
  <2>2. v \in Numbers /\ a.lo \in Numbers /\ a.hi \in Numbers /\ a.lo <= v /\ v <= a.hi
    BY <2>1, DoublesAre DEF Bounds
  <2>. QED
    BY <2>2, ExponentialGrows
<1>. QED
  BY <1>2, <1>3, SanitisedFacts

\* Clicks as years are a number, and keep order.
LEMMA YearsFacts ==
  ASSUME NEW c \in Int
  PROVE  Years(c) \in Numbers /\ \A d \in Int : c <= d => Years(c) <= Years(d)
<1>1. ClicksPerYear \in Nat /\ ClicksPerYear > 0
  BY WholeClicks
<1>2. \A e \in Int : e * One \in Int /\ (e * One) \div ClicksPerYear \in Int
  BY <1>1, NumberFacts, Quotient
<1>3. ASSUME NEW d \in Int, c <= d
      PROVE  Years(c) <= Years(d)
  <2>1. c * One <= d * One
    BY <1>3, ProductGrows, NumberFacts
  <2>2. (c * One) \div ClicksPerYear <= (d * One) \div ClicksPerYear
    BY <1>1, <1>2, <2>1, QuotientGrows
  <2>. QED
    BY <1>2, <2>2, RoundedFacts DEF Years
<1>. QED
  BY <1>2, <1>3, RoundedFacts DEF Years

\* Clicks and logicals as numbers; a number that is converted may be any.
LEMMA ConvertBound ==
  ASSUME NEW a \in Intervals, NEW type, NEW v,
         \/ type \in ClickTypes /\ v \in 1 - Inf .. Inf - 1 /\ a.lo \in Numbers /\ a.hi \in Numbers
         \/ type = "bool" /\ v \in {0, 1} /\ {a.lo, a.hi} \subseteq {-Inf, 0, 1, Inf}
         \/ type \notin ClickTypes \union {"bool"} /\ v \in Doubles,
         Bounds(a, v)
  PROVE  AsNumber(type, v) \in Doubles /\ Bounds(Converted(type, a), AsNumber(type, v))
<1>1. CASE type \in ClickTypes
  <2>1. v \in 1 - Inf .. Inf - 1 /\ v \in Int /\ v # NaN /\ type # "bool"
    BY <1>1, NumberFacts DEF ClickTypes
  <2>2. /\ a.lo \in Numbers /\ a.hi \in Numbers /\ a.lo <= v /\ v <= a.hi
        /\ a.lo \in Int /\ a.hi \in Int /\ Years(v) \in Numbers
        /\ Years(a.lo) \in Numbers /\ Years(a.hi) \in Numbers
    BY <1>1, <2>1, NumberFacts, YearsFacts DEF Bounds, ClickTypes
  <2>3. \A b \in {a.lo, a.hi} : Rescaled(type, b) = (IF Infinite(b) THEN b ELSE Years(b)) /\ Rescaled(type, b) \in Numbers
    BY <1>1, <2>2 DEF Rescaled, AsNumber
  <2>4. Rescaled(type, a.lo) <= Years(v)
    <3>1. CASE Infinite(a.lo)
      BY <2>1, <2>2, <2>3, <3>1, NumberFacts DEF Infinite, Numbers
    <3>2. CASE ~Infinite(a.lo)
      BY <2>1, <2>2, <2>3, <3>2, YearsFacts
    <3>. QED
      BY <3>1, <3>2
  <2>5. Years(v) <= Rescaled(type, a.hi)
    <3>1. CASE Infinite(a.hi)
      BY <2>1, <2>2, <2>3, <3>1, NumberFacts DEF Infinite, Numbers
    <3>2. CASE ~Infinite(a.hi)
      BY <2>1, <2>2, <2>3, <3>2, YearsFacts
    <3>. QED
      BY <3>1, <3>2
  <2>6. /\ AsNumber(type, v) = Years(v)
        /\ Converted(type, a) = Sanitised(Rescaled(type, a.lo), Rescaled(type, a.hi))
    BY <1>1, <2>1 DEF AsNumber, Converted
  <2>7. Years(v) \in Doubles /\ Rescaled(type, a.lo) \in Doubles /\ Rescaled(type, a.hi) \in Doubles
    BY <2>2, <2>3, NumberFacts
  <2>. QED
    BY <2>4, <2>5, <2>6, <2>7, SanitisedFacts
<1>2. CASE type = "bool"
  <2>1. v \in {0, 1} /\ {a.lo, a.hi} \subseteq {-Inf, 0, 1, Inf} /\ type \notin ClickTypes
    BY <1>2, NumberFacts DEF ClickTypes
  <2>2. /\ AsNumber(type, v) = v * One
        /\ Converted(type, a).lo = Rescaled(type, a.lo) /\ Converted(type, a).hi = Rescaled(type, a.hi)
    BY <1>2, <2>1 DEF AsNumber, Converted
  <2>3. \A b \in {a.lo, a.hi} : Rescaled(type, b) = IF Infinite(b) THEN b ELSE b * One
    BY <1>2, <2>1 DEF Rescaled, AsNumber
  <2>4. 0 * One = 0 /\ 1 * One = One
    BY NumberFacts
  <2>. QED
    BY <2>1, <2>2, <2>3, <2>4, NumberFacts DEF Bounds, Infinite, Numbers, Doubles
<1>3. CASE type \notin ClickTypes \union {"bool"}
  BY <1>3, UnknownBounds, NumberFacts DEF AsNumber, Converted, ClickTypes
<1>. QED
  BY <1>1, <1>2, <1>3

-----------------------------------------------------------------------------
(* One call.                                                                *)

\* What the interval of a node of a type may be.
IntervalFits(type, i) ==
  /\ i \in Intervals
  /\ type # "double" => i.lo \in Numbers /\ i.hi \in Numbers
  /\ type = "bool" => {i.lo, i.hi} \subseteq {-Inf, 0, 1, Inf}

\* A value of a type, in an interval that a node of the type may have.
Fits(type, i, v) == IsOfType(type, v) /\ IntervalFits(type, i) /\ Bounds(i, v)

\* The values each type has.
LEMMA TypesAre ==
  /\ \A v : IsOfType("double", v) <=> v \in Doubles
  /\ \A v : IsOfType("bool", v) <=> v \in {0, 1}
  /\ \A type, v : type \notin {"double", "bool"} => (IsOfType(type, v) <=> v \in 1 - Inf .. Inf - 1)
  /\ \A v : v \in 1 - Inf .. Inf - 1 => v \in Numbers /\ v \in Doubles /\ v \in Int /\ v # NaN /\ ~Infinite(v)
  /\ "double" \notin ClickTypes /\ "bool" \notin ClickTypes /\ ClickTypes = {"datey", "durationy"}
BY NumberFacts DEF IsOfType, IsDouble, Doubles, Numbers, ClickTypes, Infinite

\* What is not known fits any value of a type.
LEMMA UnknownFits ==
  ASSUME NEW type, NEW v, IsOfType(type, v)
  PROVE  Fits(type, Unknown, v)
<1>1. v \in Doubles
  BY TypesAre, NumberFacts DEF Numbers, Doubles
<1>2. Unknown.lo = -Inf /\ Unknown.hi = Inf
  BY DEF Unknown
<1>. QED
  BY <1>1, <1>2, UnknownBounds, NumberFacts DEF Fits, IntervalFits

\* Sanitised ends are ends any type but a logical may have.
LEMMA SanitisedFits ==
  ASSUME NEW type, type # "bool", NEW lo \in Doubles, NEW hi \in Doubles
  PROVE  IntervalFits(type, Sanitised(lo, hi))
BY SanitisedFacts DEF IntervalFits

\* What is worked out for each operation.
LEMMA NumberIs ==
  ASSUME NEW a, NEW x, NEW y, NEW z, x = a[1], y = a[2], z = a[3]
  PROVE  /\ Number("pos", a) = x
         /\ Number("neg", a) = Negative(x)
         /\ Number("abs", a) = IF x = NaN THEN NaN ELSE Greater(x, -x)
         /\ Number("exp", a) = Exponential(x)
         /\ Number("sign", a) = SignOf(x)
         /\ Number("add", a) = Plus(x, y)
         /\ Number("sub", a) = Minus(x, y)
         /\ Number("mul", a) = Times(x, y)
         /\ Number("rdiv", a) = Over(x, y)
         /\ Number("min", a) = Minimum(x, y)
         /\ Number("max", a) = Maximum(x, y)
         /\ Number("clamp", a) = Minimum(Maximum(x, y), z)
BY DEF Number

\* What is said of each operation.
LEMMA CallIntervalIs ==
  ASSUME NEW i, NEW x, NEW y, NEW z, x = i[1], y = i[2], z = i[3], NEW type
  PROVE  /\ CallInterval("pos", i, type) = x
         /\ CallInterval("neg", i, type) = Negated(x)
         /\ CallInterval("abs", i, type) = Absolute(x)
         /\ CallInterval("exp", i, type) = Sanitised(Exponential(x.lo), Exponential(x.hi))
         /\ CallInterval("sign", i, type) = Sanitised(SignOfBound(x.lo), SignOfBound(x.hi))
         /\ CallInterval("add", i, type) = Sanitised(Plus(x.lo, y.lo), Plus(x.hi, y.hi))
         /\ CallInterval("sub", i, type) = Sanitised(Minus(x.lo, y.hi), Minus(x.hi, y.lo))
         /\ CallInterval("mul", i, type) = Multiplied(x, y)
         /\ CallInterval("rdiv", i, type) = Divided(x, y)
         /\ CallInterval("min", i, type) = Sanitised(Smaller(x.lo, y.lo), Smaller(x.hi, y.hi))
         /\ CallInterval("max", i, type) = Sanitised(Larger(x.lo, y.lo), Larger(x.hi, y.hi))
         /\ CallInterval("clamp", i, type) = Sanitised(y.lo, z.hi)
         /\ CallInterval("select", i, type) = Sanitised(Smaller(y.lo, z.lo), Larger(y.hi, z.hi))
         /\ CallInterval("double", i, type) = Converted(type, x)
BY DEF CallInterval, AlwaysBool, Comparisons, Ordering, Logicals

\* The interval of a logical.
LEMMA IsAlwaysBool ==
  ASSUME NEW op \in AlwaysBool, NEW i, NEW type
  PROVE  CallInterval(op, i, type) = OneOrZero
BY DEF CallInterval, AlwaysBool, Comparisons, Ordering, Logicals

\* Nothing is said of what is worked out over time.
LEMMA IsOverTime ==
  ASSUME NEW op \in Finalisers \union {"vector_log_mu"}, NEW i, NEW type
  PROVE  CallInterval(op, i, type) = Unknown
BY DEF CallInterval, AlwaysBool, Comparisons, Ordering, Logicals, Finalisers

\* What a number comes to fits what is said of it: a number, its interval sanitised.
Good(op, type, i, v) ==
  v \in Doubles /\ IntervalFits("double", CallInterval(op, i, type))
    /\ Bounds(CallInterval(op, i, type), v)

\* pos, neg, abs, exp and sign.
LEMMA UnaryFits ==
  ASSUME NEW op \in {"pos", "neg", "abs", "exp", "sign"}, NEW a, NEW i, NEW type,
         NEW x \in Doubles, NEW p \in Intervals, Bounds(p, x), x = a[1], p = i[1]
  PROVE  Good(op, type, i, Number(op, a))
<1>. USE DEF Good
<1>1. p.lo \in Doubles /\ p.hi \in Doubles
  BY EndsAre
<1>2. \A l \in Doubles, h \in Doubles : IntervalFits("double", Sanitised(l, h))
  BY SanitisedFits
<1>3. \A j \in Intervals : IntervalFits("double", j)
  BY DEF IntervalFits
<1>4. CASE op = "pos"
  BY <1>3, <1>4, NumberIs, CallIntervalIs
<1>5. CASE op = "neg"
  <2>1. Negative(x) \in Doubles /\ Negative(p.lo) \in Doubles /\ Negative(p.hi) \in Doubles
    BY <1>1, NegativeFacts
  <2>. QED
    BY <1>2, <1>5, <2>1, NumberIs, CallIntervalIs, NegativeBound DEF Negated
<1>6. CASE op = "abs"
  <2>1. (IF x = NaN THEN NaN ELSE Greater(x, -x)) \in Doubles
    BY DoublesAre, NumberFacts DEF Greater, Numbers, Doubles
  <2>2. Absolute(p) \in Intervals
    <3>1. Negative(p.lo) \in Doubles /\ Negative(p.hi) \in Doubles /\ 0 \in Doubles
      BY <1>1, NegativeFacts, NumberFacts
    <3>2. Larger(Negative(p.lo), p.hi) \in Doubles
      BY <1>1, <3>1, EndsOfTwo
    <3>. QED
      BY <3>1, <3>2, SanitisedFacts DEF Absolute, Negated
  <2>3. Bounds(Absolute(p), IF x = NaN THEN NaN ELSE Greater(x, -x))
    BY AbsBound
  <2>. QED
    BY <1>3, <1>6, <2>1, <2>2, <2>3, NumberIs, CallIntervalIs
<1>7. CASE op = "exp"
  <2>1. Exponential(x) \in Doubles /\ Exponential(p.lo) \in Doubles /\ Exponential(p.hi) \in Doubles
    BY <1>1, ExponentialFacts
  <2>. QED
    BY <1>2, <1>7, <2>1, NumberIs, CallIntervalIs, ExpBound
<1>8. CASE op = "sign"
  <2>1. SignOf(x) \in Doubles
    BY NumberFacts DEF SignOf, Doubles
  <2>2. \A b \in Doubles : SignOfBound(b) \in Doubles
    <3>. SUFFICES ASSUME NEW b \in Doubles PROVE SignOfBound(b) \in Doubles
      OBVIOUS
    <3>1. One * 0 = 0 /\ One * 1 = One /\ One * (-1) = -One
      BY NumberFacts
    <3>2. Compare("GT", b, 0) - Compare("LT", b, 0) \in {-1, 0, 1}
      BY DEF Compare, Truth
    <3>. QED
      BY <3>1, <3>2, NumberFacts DEF SignOfBound, Doubles
  <2>. QED
    BY <1>1, <1>2, <1>8, <2>1, <2>2, NumberIs, CallIntervalIs, SignBound
<1>. QED
  BY <1>4, <1>5, <1>6, <1>7, <1>8

\* An operation on two doubles is a double.
LEMMA TwoFacts ==
  ASSUME NEW x \in Doubles, NEW y \in Doubles
  PROVE  /\ Plus(x, y) \in Doubles /\ Minus(x, y) \in Doubles
         /\ Minimum(x, y) \in Doubles /\ Maximum(x, y) \in Doubles
<1>1. Negative(y) \in Doubles
  BY NegativeFacts
<1>. QED
  BY <1>1, PlusFacts DEF Minus, Minimum, Maximum, Lesser, Greater

\* add, sub, mul, rdiv, min and max.
LEMMA BinaryFits ==
  ASSUME NEW op \in {"add", "sub", "mul", "rdiv", "min", "max"}, NEW a, NEW i, NEW type,
         NEW x \in Doubles, NEW p \in Intervals, Bounds(p, x), x = a[1], p = i[1],
         NEW y \in Doubles, NEW q \in Intervals, Bounds(q, y), y = a[2], q = i[2]
  PROVE  Good(op, type, i, Number(op, a))
<1>. USE DEF Good
<1>1. p.lo \in Doubles /\ p.hi \in Doubles /\ q.lo \in Doubles /\ q.hi \in Doubles
  BY EndsAre
<1>2. \A l \in Doubles, h \in Doubles : IntervalFits("double", Sanitised(l, h))
  BY SanitisedFits
<1>3. \A j \in Intervals : IntervalFits("double", j)
  BY DEF IntervalFits
<1>4. CASE op = "add"
  <2>1. Plus(p.lo, q.lo) \in Doubles /\ Plus(p.hi, q.hi) \in Doubles /\ Plus(x, y) \in Doubles
    BY <1>1, TwoFacts
  <2>. QED
    BY <1>2, <1>4, <2>1, NumberIs, CallIntervalIs, AddBound
<1>5. CASE op = "sub"
  <2>1. Minus(p.lo, q.hi) \in Doubles /\ Minus(p.hi, q.lo) \in Doubles /\ Minus(x, y) \in Doubles
    BY <1>1, TwoFacts
  <2>. QED
    BY <1>2, <1>5, <2>1, NumberIs, CallIntervalIs, SubBound
<1>6. CASE op = "mul"
  <2>1. /\ Times(p.lo, q.lo) \in Doubles /\ Times(p.lo, q.hi) \in Doubles /\ Times(p.hi, q.lo) \in Doubles
        /\ Times(p.hi, q.hi) \in Doubles /\ Times(x, y) \in Doubles
    BY <1>1, TimesFacts
  <2>2. Multiplied(p, q) \in Intervals
    BY <2>1, SpannedFacts DEF Multiplied
  <2>. QED
    BY <1>3, <1>6, <2>1, <2>2, NumberIs, CallIntervalIs, MulBound
<1>7. CASE op = "rdiv"
  <2>1. /\ Over(p.lo, q.lo) \in Doubles /\ Over(p.lo, q.hi) \in Doubles /\ Over(p.hi, q.lo) \in Doubles
        /\ Over(p.hi, q.hi) \in Doubles /\ Over(x, y) \in Doubles
    BY <1>1, OverFacts
  <2>2. Divided(p, q) \in Intervals
    BY <2>1, SpannedFacts, UnknownBounds DEF Divided
  <2>. QED
    BY <1>3, <1>7, <2>1, <2>2, NumberIs, CallIntervalIs, DivBound
<1>8. CASE op = "min"
  <2>1. Smaller(p.lo, q.lo) \in Doubles /\ Smaller(p.hi, q.hi) \in Doubles /\ Minimum(x, y) \in Doubles
    BY <1>1, TwoFacts, EndsOfTwo
  <2>. QED
    BY <1>2, <1>8, <2>1, NumberIs, CallIntervalIs, MinBound
<1>9. CASE op = "max"
  <2>1. Larger(p.lo, q.lo) \in Doubles /\ Larger(p.hi, q.hi) \in Doubles /\ Maximum(x, y) \in Doubles
    BY <1>1, TwoFacts, EndsOfTwo
  <2>. QED
    BY <1>2, <1>9, <2>1, NumberIs, CallIntervalIs, MinBound
<1>. QED
  BY <1>4, <1>5, <1>6, <1>7, <1>8, <1>9

\* clamp, its bounds not crossed.
LEMMA ClampFits ==
  ASSUME NEW a, NEW i, NEW type,
         NEW x \in Doubles, x = a[1],
         NEW y \in Doubles, NEW q \in Intervals, Bounds(q, y), y = a[2], q = i[2],
         NEW z \in Doubles, NEW r \in Intervals, Bounds(r, z), z = a[3], r = i[3],
         Compare("GT", y, z) = 0
  PROVE  Good("clamp", type, i, Number("clamp", a))
<1>1. q.lo \in Doubles /\ r.hi \in Doubles
  BY EndsAre
<1>2. Minimum(Maximum(x, y), z) \in Doubles
  BY TwoFacts
<1>3. /\ Number("clamp", a) = Minimum(Maximum(x, y), z)
      /\ CallInterval("clamp", i, type) = Sanitised(q.lo, r.hi)
  BY NumberIs, CallIntervalIs
<1>. QED
  BY <1>1, <1>2, <1>3, ClampBound, SanitisedFits DEF Good

-----------------------------------------------------------------------------
(* Clicks are added and compared as numbers are, while none is out of reach. *)

\* Clicks that are in reach: a value out of it would be one an interval takes for infinite.
Clicks == 1 - Inf .. Inf - 1

\* What is worked out in clicks.
ClickOps == {"pos", "neg", "abs", "add", "sub", "min", "max", "clamp"}

\* Worked out in clicks, within reach, an operation is what it is of numbers.
LEMMA ClicksAreNumbers ==
  ASSUME NEW op \in ClickOps, NEW a, NEW x \in Clicks, x = a[1],
         Arity(op) > 1 => a[2] \in Clicks,
         Arity(op) > 2 => a[3] \in Clicks,
         op = "clamp" => Compare("GT", a[2], a[3]) = 0,
         ClickArithmetic(op, a) \in Clicks
  PROVE  ClickArithmetic(op, a) = Number(op, a)
<1>1. PICK y, z : y = a[2] /\ z = a[3]
  OBVIOUS
<1>2. \A c \in Clicks : c \in Int /\ c # NaN /\ ~Infinite(c) /\ Rounded(c) = c /\ c # -Inf /\ c # Inf
  BY NumberFacts DEF Clicks, Infinite, Rounded
<1>3. CASE op \in {"pos", "neg", "abs"}
  BY <1>2, <1>3 DEF ClickArithmetic, Number, Negative
<1>4. CASE op \in {"add", "sub"}
  <2>1. y \in Clicks /\ -y \in Clicks /\ y \in Int
    BY <1>1, <1>2, <1>4, NumberFacts DEF Arity, Clicks, Finalisers
  <2>2. CASE op = "add"
    <3>1. x + y \in Clicks
      BY <1>1, <2>2 DEF ClickArithmetic
    <3>2. Number(op, a) = Plus(x, y) /\ ClickArithmetic(op, a) = x + y
      BY <1>1, <2>2 DEF ClickArithmetic, Number
    <3>. QED
      BY <1>2, <2>1, <3>1, <3>2 DEF Plus
  <2>3. CASE op = "sub"
    <3>1. x - y \in Clicks /\ x - y = x + (-y)
      BY <1>1, <1>2, <2>1, <2>3 DEF ClickArithmetic
    <3>2. Number(op, a) = Plus(x, -y) /\ ClickArithmetic(op, a) = x - y
      BY <1>1, <1>2, <2>1, <2>3 DEF ClickArithmetic, Number, Minus, Negative
    <3>. QED
      BY <1>2, <2>1, <3>1, <3>2 DEF Plus
  <2>. QED
    BY <1>4, <2>2, <2>3
<1>5. CASE op \in {"min", "max"}
  <2>1. y \in Clicks
    BY <1>1, <1>5 DEF Arity, Finalisers
  <2>. QED
    BY <1>1, <1>2, <1>5, <2>1 DEF ClickArithmetic, Number, Minimum, Maximum
<1>6. CASE op = "clamp"
  <2>1. y \in Clicks /\ z \in Clicks
    BY <1>1, <1>6 DEF Arity, Finalisers
  <2>2. ~(y > z)
    BY <1>1, <1>2, <1>6, <2>1 DEF Compare, Truth
  <2>3. /\ ClickArithmetic(op, a) = IF x < y THEN y ELSE Lesser(x, z)
        /\ Number(op, a) = Minimum(Maximum(x, y), z)
    BY <1>1, <1>6 DEF ClickArithmetic, Number
  <2>. QED
    BY <1>2, <2>1, <2>2, <2>3 DEF Minimum, Maximum, Lesser, Greater
<1>. QED
  BY <1>3, <1>4, <1>5, <1>6 DEF ClickOps

-----------------------------------------------------------------------------
(* A call whose types are right.                                            *)

\* How the types of a call and its arguments go together once the conversions are in.
Ruled(op, type, t) ==
  /\ op \in AlwaysBool => type = "bool"
  /\ op \in Arithmetic =>
       \/ type = "double" /\ \A k \in 1 .. Arity(op) : t[k] = "double"
       \/ type \in ClickTypes /\ op \in ClickOps /\ \A k \in 1 .. Arity(op) : t[k] \in ClickTypes
  /\ op = "double" => type = "double" /\ t[1] \in Numeric
  /\ op = "select" =>
       t[1] = "bool" /\ t[2] = type /\ t[3] = type /\ type \in {"double", "bool", "category"} \union ClickTypes
  /\ op \in Finalisers => type = "double" /\ t[1] \in Numeric
  /\ op = "vector_log_mu" => type = "double" /\ t[2] = "datey"

\* The kinds of operation, and how many arguments each has.
LEMMA OpsAre ==
  /\ AlwaysBool \intersect Arithmetic = {} /\ "double" \notin AlwaysBool /\ "double" \notin Arithmetic
  /\ "select" \notin AlwaysBool /\ "select" \notin Arithmetic
  /\ Arithmetic = {"pos", "neg", "abs", "exp", "sign"}
                    \union {"add", "sub", "mul", "rdiv", "min", "max"} \union {"clamp"}
  /\ \A op \in {"pos", "neg", "abs", "exp", "sign", "double"} : Arity(op) = 1
  /\ \A op \in {"add", "sub", "mul", "rdiv", "min", "max"} : Arity(op) = 2
  /\ \A op \in {"clamp", "select"} : Arity(op) = 3
  /\ "double" \notin Logicals /\ "double" \notin Comparisons
  /\ "select" \notin Logicals /\ "select" \notin Comparisons
  /\ Arithmetic \intersect Logicals = {} /\ Arithmetic \intersect Comparisons = {}
  /\ "is_na" \notin Arithmetic
  /\ AlwaysBool = Comparisons \union Logicals \union {"is_na"}
BY DEF AlwaysBool, Arithmetic, Comparisons, Ordering, Logicals, Arity, Finalisers

\* What each call comes to.
NumbersOf(t, x) == [k \in DOMAIN x |-> AsNumber(t[k], x[k])]
\* The argument a select answers.
Branch(x) == IF x[1] = 1 THEN 2 ELSE 3

\* The conversion to a number.
LEMMA DoubleIs ==
  ASSUME NEW type, NEW t, NEW x
  PROVE  Apply("double", type, t, x) = NumbersOf(t, x)[1]
<1>1. "double" \notin Logicals /\ "double" \notin Comparisons /\ "double" \notin Arithmetic
  BY DEF Logicals, Comparisons, Ordering, Arithmetic
<1>. QED
  BY <1>1 DEF Apply, NumbersOf

\* The branch that is selected, as a number if the select is one.
LEMMA SelectIs ==
  ASSUME NEW type, NEW t, NEW x
  PROVE  Apply("select", type, t, x) =
           IF type = "double" THEN NumbersOf(t, x)[Branch(x)] ELSE x[Branch(x)]
<1>1. "select" \notin Logicals /\ "select" \notin Comparisons /\ "select" \notin Arithmetic
  BY DEF Logicals, Comparisons, Ordering, Arithmetic
<1>. QED
  BY <1>1 DEF Apply, NumbersOf, Branch

\* Arithmetic is on numbers, or in clicks.
LEMMA ArithmeticIs ==
  ASSUME NEW op \in Arithmetic, NEW type, NEW t, NEW x
  PROVE  Apply(op, type, t, x) =
           IF type = "double" THEN Number(op, NumbersOf(t, x)) ELSE ClickArithmetic(op, x)
<1>1. op \notin Logicals /\ op \notin Comparisons /\ op # "is_na" /\ op # "double" /\ op # "select"
  BY DEF Logicals, Comparisons, Ordering, Arithmetic
<1>. QED
  BY <1>1 DEF Apply, NumbersOf

\* A logical is one or zero.
LEMMA LogicalIs ==
  ASSUME NEW op \in AlwaysBool, NEW type, NEW t, NEW x
  PROVE  Apply(op, type, t, x) \in {0, 1}
<1>1. CASE op = "is_na"
  <2>1. "is_na" \notin Logicals /\ "is_na" \notin Comparisons /\ "is_na" \notin Arithmetic
    BY DEF Logicals, Comparisons, Ordering, Arithmetic
  <2>2. Apply("is_na", type, t, x) = IsMissing(t[1], x[1])
    BY <2>1 DEF Apply
  <2>. QED
    BY <1>1, <2>2 DEF IsMissing, Truth
<1>2. CASE op \in Logicals
  <2>1. op \notin Arithmetic /\ op \notin Comparisons /\ op # "is_na" /\ op # "double" /\ op # "select"
    BY <1>2 DEF Logicals, Comparisons, Ordering, Arithmetic
  <2>2. Apply(op, type, t, x) = Logic(op, x)
    BY <1>2, <2>1 DEF Apply
  <2>. QED
    BY <2>2 DEF Logic, Truth
<1>3. CASE op \in Comparisons
  <2>1. op \notin Logicals /\ op \notin Arithmetic /\ op # "is_na" /\ op # "double" /\ op # "select"
    BY <1>3 DEF Logicals, Comparisons, Ordering, Arithmetic
  <2>2. Apply(op, type, t, x) = CompareTyped(op, t, x)
    BY <1>3, <2>1 DEF Apply
  <2>3. \A u, v : Compare(op, u, v) \in {0, 1}
    BY DEF Compare, Truth
  <2>. QED
    BY <2>2, <2>3 DEF CompareTyped
<1>. QED
  BY <1>1, <1>2, <1>3 DEF AlwaysBool

\* An interval in years is one.
LEMMA ConvertedIs ==
  ASSUME NEW i \in Intervals, NEW type,
         \/ type \in ClickTypes /\ i.lo \in Numbers /\ i.hi \in Numbers
         \/ type = "bool" /\ {i.lo, i.hi} \subseteq {-Inf, 0, 1, Inf}
         \/ type \notin ClickTypes \union {"bool"}
  PROVE  Converted(type, i) \in Intervals
<1>1. CASE type \in ClickTypes
  <2>1. \A x \in Numbers : Rescaled(type, x) \in Doubles
    <3>. SUFFICES ASSUME NEW x \in Numbers PROVE Rescaled(type, x) \in Doubles
      OBVIOUS
    <3>1. Years(x) \in Numbers
      BY YearsFacts, NumberFacts
    <3>. QED
      BY <1>1, <3>1, NumberFacts DEF Rescaled, AsNumber
  <2>. QED
    BY <1>1, <2>1, SanitisedFacts, TypesAre DEF Converted
<1>2. CASE type = "bool"
  <2>1. \A x \in {-Inf, 0, 1, Inf} : Rescaled(type, x) \in Doubles
    <3>1. 0 * One = 0 /\ 1 * One = One
      BY NumberFacts
    <3>. QED
      BY <1>2, <3>1, TypesAre, NumberFacts DEF Rescaled, AsNumber, Infinite
  <2>2. Converted(type, i) = [lo |-> Rescaled(type, i.lo), hi |-> Rescaled(type, i.hi)]
    BY <1>2, TypesAre DEF Converted
  <2>. QED
    BY <1>2, <2>1, <2>2, TypesAre DEF Intervals
<1>3. CASE type \notin ClickTypes \union {"bool"}
  <2>1. Converted(type, i) = Unknown
    BY <1>3 DEF Converted
  <2>. QED
    BY <2>1, UnknownBounds, NumberFacts
<1>. QED
  BY <1>1, <1>2, <1>3

\* Two values of a type, either of which a select may answer.
LEMMA SelectFits ==
  ASSUME NEW type, NEW p, NEW q, NEW x, NEW y, Fits(type, p, x), Fits(type, q, y), NEW v \in {x, y}
  PROVE  Fits(type, Sanitised(Smaller(p.lo, q.lo), Larger(p.hi, q.hi)), v)
<1>. DEFINE lo == Smaller(p.lo, q.lo)
            hi == Larger(p.hi, q.hi)
<1>1. p \in Intervals /\ q \in Intervals /\ Bounds(p, x) /\ Bounds(q, y)
  BY DEF Fits, IntervalFits
<1>2. p.lo \in Doubles /\ p.hi \in Doubles /\ q.lo \in Doubles /\ q.hi \in Doubles
  BY <1>1, EndsAre
<1>3. lo \in Doubles /\ hi \in Doubles
  BY <1>2, EndsOfTwo
<1>4. v \in Doubles /\ IsOfType(type, v)
  BY TypesAre, NumberFacts DEF Fits, Doubles, Numbers
<1>5. Bounds(Sanitised(lo, hi), v)
  BY <1>1, <1>4, SelectBound
<1>6. lo \in {p.lo, q.lo} /\ hi \in {p.hi, q.hi}
  BY DEF Smaller, Larger
<1>. HIDE DEF lo, hi
<1>7. Sanitised(lo, hi) \in Intervals /\ Sanitised(lo, hi).lo \in Numbers /\ Sanitised(lo, hi).hi \in Numbers
  BY <1>3, SanitisedFacts
<1>8. type = "bool" => {Sanitised(lo, hi).lo, Sanitised(lo, hi).hi} \subseteq {-Inf, 0, 1, Inf}
  BY <1>6 DEF Fits, IntervalFits, Sanitised, Unknown
<1>9. Fits(type, Sanitised(lo, hi), v)
  BY <1>4, <1>5, <1>7, <1>8 DEF Fits, IntervalFits
<1>. QED
  BY <1>9 DEF lo, hi

\* The soundness of one step of the interval pass: if each argument has a value of its
\* type, within its interval, so has the call.
LEMMA CallFits ==
  ASSUME NEW op \in Arithmetic \union AlwaysBool \union {"double", "select"}, NEW type, NEW t, NEW x, NEW i,
         DOMAIN x = 1 .. Arity(op), Ruled(op, type, t),
         op \notin AlwaysBool => \A k \in 1 .. Arity(op) : Fits(t[k], i[k], x[k]),
         op = "clamp" => Compare("GT", x[2], x[3]) = 0,
         type \in ClickTypes => Apply(op, type, t, x) \in Clicks
  PROVE  Fits(type, CallInterval(op, i, IF op = "double" THEN t[1] ELSE NoType), Apply(op, type, t, x))
<1>. DEFINE arg == IF op = "double" THEN t[1] ELSE NoType
            v == Apply(op, type, t, x)
            j == CallInterval(op, i, arg)
            numbers == NumbersOf(t, x)
<1>1. CASE op \in AlwaysBool
  <2>1. type = "bool" /\ v \in {0, 1} /\ j = OneOrZero
    <3>1. type = "bool"
      BY <1>1 DEF Ruled
    <3>2. v \in {0, 1}
      BY <1>1, LogicalIs
    <3>3. j = OneOrZero
      BY <1>1, IsAlwaysBool
    <3>. QED
      BY <3>1, <3>2, <3>3
  <2>2. 0 \in Doubles /\ 1 \in Doubles /\ OneOrZero \in Intervals
    BY NumberFacts DEF OneOrZero, Intervals
  <2>. HIDE DEF v, j
  <2>3. Fits(type, j, v)
    BY <2>1, <2>2, TypesAre, NumberFacts DEF Fits, IntervalFits, Bounds, OneOrZero
  <2>. QED
    BY <2>3 DEF j, v
<1>2. CASE op \in Arithmetic /\ type = "double"
  <2>1. \A k \in 1 .. Arity(op) : t[k] = "double"
    BY <1>2, TypesAre DEF Ruled
  <2>2. \A k \in 1 .. Arity(op) : numbers[k] = x[k] /\ numbers[k] \in Doubles /\ i[k] \in Intervals
                                /\ Bounds(i[k], numbers[k])
    <3>. SUFFICES ASSUME NEW k \in 1 .. Arity(op)
                  PROVE  numbers[k] = x[k] /\ numbers[k] \in Doubles /\ i[k] \in Intervals
                         /\ Bounds(i[k], numbers[k])
      OBVIOUS
    <3>1. Fits("double", i[k], x[k]) /\ t[k] = "double"
      BY <1>2, <2>1, OpsAre
    <3>2. numbers[k] = x[k]
      BY <3>1, TypesAre DEF AsNumber, NumbersOf
    <3>. HIDE DEF numbers
    <3>. QED
      BY <3>1, <3>2, TypesAre DEF Fits, IntervalFits
  <2>3. v = Number(op, numbers)
    BY <1>2, ArithmeticIs
  <2>. HIDE DEF numbers, v
  <2>4. Good(op, arg, i, Number(op, numbers))
    <3>1. CASE op \in {"pos", "neg", "abs", "exp", "sign"}
      BY <2>2, <3>1, OpsAre, UnaryFits
    <3>2. CASE op \in {"add", "sub", "mul", "rdiv", "min", "max"}
      BY <2>2, <3>2, OpsAre, BinaryFits
    <3>3. CASE op = "clamp"
      <4>1. Compare("GT", numbers[2], numbers[3]) = 0 /\ Arity(op) = 3
        BY <2>2, <3>3, OpsAre
      <4>. QED
        BY <2>2, <3>3, <4>1, ClampFits
    <3>. QED
      BY <1>2, <3>1, <3>2, <3>3, OpsAre
  <2>5. Fits(type, j, v)
    BY <1>2, <2>3, <2>4, TypesAre DEF Fits, Good
  <2>. QED
    BY <2>5 DEF j, v
<1>3. CASE op \in Arithmetic /\ type # "double"
  <2>1. type \in ClickTypes /\ op \in ClickOps /\ \A k \in 1 .. Arity(op) : t[k] \in ClickTypes
    BY <1>3 DEF Ruled
  <2>2. \A k \in 1 .. Arity(op) : x[k] \in Clicks /\ x[k] \in Doubles /\ i[k] \in Intervals /\ Bounds(i[k], x[k])
                                /\ i[k].lo \in Numbers /\ i[k].hi \in Numbers
    <3>. SUFFICES ASSUME NEW k \in 1 .. Arity(op)
                  PROVE  x[k] \in Clicks /\ x[k] \in Doubles /\ i[k] \in Intervals /\ Bounds(i[k], x[k])
                         /\ i[k].lo \in Numbers /\ i[k].hi \in Numbers
      OBVIOUS
    <3>1. Fits(t[k], i[k], x[k]) /\ t[k] \in ClickTypes
      BY <1>3, <2>1, OpsAre
    <3>. QED
      BY <3>1, TypesAre DEF Fits, IntervalFits, Clicks
  <2>3. v = ClickArithmetic(op, x) /\ v \in Clicks
    <3>1. v = ClickArithmetic(op, x)
      BY <1>3, ArithmeticIs
    <3>2. v \in Clicks
      BY <2>1
    <3>. QED
      BY <3>1, <3>2
  <2>4. Arity(op) >= 1 /\ (Arity(op) > 1 => 2 \in 1 .. Arity(op)) /\ (Arity(op) > 2 => 3 \in 1 .. Arity(op))
        /\ 1 \in 1 .. Arity(op)
    BY <1>3, OpsAre
  <2>. HIDE DEF v
  <2>5. v = Number(op, x)
    BY <2>1, <2>2, <2>3, <2>4, ClicksAreNumbers
  <2>6. Good(op, arg, i, Number(op, x))
    <3>1. CASE op \in {"pos", "neg", "abs", "exp", "sign"}
      BY <2>2, <3>1, OpsAre, UnaryFits
    <3>2. CASE op \in {"add", "sub", "mul", "rdiv", "min", "max"}
      BY <2>2, <3>2, OpsAre, BinaryFits
    <3>3. CASE op = "clamp"
      <4>1. Compare("GT", x[2], x[3]) = 0 /\ Arity(op) = 3
        BY <3>3, OpsAre
      <4>. QED
        BY <2>2, <3>3, <4>1, ClampFits
    <3>. QED
      BY <1>3, <3>1, <3>2, <3>3, OpsAre
  <2>7. j.lo \in Numbers /\ j.hi \in Numbers
    <3>1. v # NaN /\ Bounds(j, v)
      BY <2>3, <2>5, <2>6, TypesAre DEF Good, Clicks
    <3>. QED
      BY <3>1 DEF Bounds
  <2>8. Fits(type, j, v)
    BY <1>3, <2>1, <2>3, <2>5, <2>6, <2>7, TypesAre DEF Fits, Good, IntervalFits, Clicks
  <2>. QED
    BY <2>8 DEF j, v
<1>4. CASE op = "double"
  <2>1. type = "double" /\ t[1] \in Numeric /\ arg = t[1] /\ Fits(t[1], i[1], x[1])
    BY <1>4, OpsAre DEF Ruled
  <2>2. numbers[1] = AsNumber(t[1], x[1])
    BY <1>4, OpsAre DEF NumbersOf
  <2>3. v = AsNumber(t[1], x[1])
    <3>1. v = NumbersOf(t, x)[1]
      BY <1>4, DoubleIs
    <3>. QED
      BY <2>2, <3>1
  <2>4. j = Converted(t[1], i[1])
    <3>1. \A p : CallInterval("double", i, p) = Converted(p, i[1])
      BY CallIntervalIs
    <3>. QED
      BY <1>4, <2>1, <3>1
  <2>. HIDE DEF v, j
  <2>5. i[1] \in Intervals /\ Bounds(i[1], x[1])
    BY <2>1 DEF Fits, IntervalFits
  <2>6. /\ \/ t[1] \in ClickTypes /\ x[1] \in 1 - Inf .. Inf - 1 /\ i[1].lo \in Numbers /\ i[1].hi \in Numbers
           \/ t[1] = "bool" /\ x[1] \in {0, 1} /\ {i[1].lo, i[1].hi} \subseteq {-Inf, 0, 1, Inf}
           \/ t[1] \notin ClickTypes \union {"bool"} /\ x[1] \in Doubles
    BY <2>1, TypesAre DEF Fits, IntervalFits, Numeric, DoubleFamily
  <2>7. AsNumber(t[1], x[1]) \in Doubles /\ Bounds(Converted(t[1], i[1]), AsNumber(t[1], x[1]))
    BY <2>5, <2>6, ConvertBound
  <2>8. Converted(t[1], i[1]) \in Intervals
    BY <2>6, <2>5, ConvertedIs
  <2>9. Fits(type, j, v)
    BY <2>1, <2>3, <2>4, <2>7, <2>8, TypesAre DEF Fits, IntervalFits
  <2>. QED
    BY <2>9 DEF j, v
<1>5. CASE op = "select"
  <2>1. /\ t[2] = type /\ t[3] = type
        /\ Fits(type, i[2], x[2]) /\ Fits(type, i[3], x[3])
    BY <1>5, OpsAre DEF Ruled
  <2>2. v \in {x[2], x[3]}
    <3>1. v = IF type = "double" THEN numbers[Branch(x)] ELSE x[Branch(x)]
      BY <1>5, SelectIs
    <3>2. Branch(x) \in {2, 3} /\ 2 \in DOMAIN x /\ 3 \in DOMAIN x
      BY <1>5, OpsAre DEF Branch
    <3>3. type = "double" => numbers[2] = x[2] /\ numbers[3] = x[3]
      BY <2>1, <3>2, TypesAre DEF NumbersOf, AsNumber
    <3>. HIDE DEF v, numbers
    <3>. QED
      BY <3>1, <3>2, <3>3
  <2>3. j = Sanitised(Smaller(i[2].lo, i[3].lo), Larger(i[2].hi, i[3].hi))
    <3>1. \A p : CallInterval("select", i, p)
                   = Sanitised(Smaller(i[2].lo, i[3].lo), Larger(i[2].hi, i[3].hi))
      BY CallIntervalIs
    <3>. QED
      BY <1>5, <3>1
  <2>. HIDE DEF v, j
  <2>4. Fits(type, j, v)
    BY <2>1, <2>2, <2>3, SelectFits
  <2>. QED
    BY <2>4 DEF j, v
<1>. QED
  BY <1>1, <1>2, <1>3, <1>4, <1>5

-----------------------------------------------------------------------------
(* The order in which the passes look at the nodes.                         *)

\* The turns of the walk along a tree.
TurnStep(nodes, walk, turn) == Turn(nodes, walk)
Turning == INSTANCE DataInduction WITH madeOf <- TurnStep

\* An arena: its nodes' arguments are among them.
IsArena(nodes) ==
  /\ nodes \in Seq({nodes[id] : id \in DOMAIN nodes})
  /\ \A id \in DOMAIN nodes : nodes[id].args \in Seq(DOMAIN nodes)

\* Each node at most once, and after its arguments.
IsOrder(nodes, settled) ==
  /\ settled \in Seq(DOMAIN nodes)
  /\ \A m, n \in 1 .. Len(settled) : settled[m] = settled[n] => m = n
  /\ \A n \in 1 .. Len(settled) : IsCall(nodes[settled[n]]) =>
       \A a \in Range(nodes[settled[n]].args) : \E m \in 1 .. n - 1 : settled[m] = a

\* What is on the stack.
Frames(nodes) == [id : DOMAIN nodes, childrenScheduled : BOOLEAN]

\* What a frame whose children were put on the frames waits for is settled or above it.
Waits(nodes, frames, settled) ==
  \A p \in 1 .. Len(frames) : frames[p].childrenScheduled =>
    \A a \in Range(nodes[frames[p].id].args) :
      a \in Range(settled) \/ \E q \in p + 1 .. Len(frames) : frames[q].id = a

\* What every turn of the walk finds, and leaves.
IsWalking(nodes, walk) ==
  /\ walk \in [stack : Seq(Frames(nodes)), settled : Seq(DOMAIN nodes)]
  /\ IsOrder(nodes, walk.settled)
  /\ Waits(nodes, walk.stack, walk.settled)

\* A sequence, its places and what is in it.
LEMMA SeqFacts ==
  ASSUME NEW S, NEW s \in Seq(S)
  PROVE  /\ Len(s) \in Nat /\ DOMAIN s = 1 .. Len(s) /\ \A n \in 1 .. Len(s) : s[n] \in S
         /\ Range(s) = {s[n] : n \in 1 .. Len(s)}
BY DEF Range

\* A function of the first naturals is a sequence.
LEMMA MadeSeq ==
  ASSUME NEW n \in Nat, NEW S, NEW f \in [1 .. n -> S]
  PROVE  f \in Seq(S) /\ Len(f) = n /\ DOMAIN f = 1 .. n
OBVIOUS

\* One more element.
LEMMA AppendFacts ==
  ASSUME NEW S, NEW s \in Seq(S), NEW e \in S
  PROVE  /\ Append(s, e) \in Seq(S) /\ Len(Append(s, e)) = Len(s) + 1
         /\ \A n \in 1 .. Len(s) : Append(s, e)[n] = s[n]
         /\ Append(s, e)[Len(s) + 1] = e
         /\ Range(Append(s, e)) = Range(s) \union {e}
<1>1. /\ Append(s, e) \in Seq(S) /\ Len(Append(s, e)) = Len(s) + 1
      /\ \A n \in 1 .. Len(s) : Append(s, e)[n] = s[n]
      /\ Append(s, e)[Len(s) + 1] = e
  OBVIOUS
<1>2. PICK t : t = Append(s, e)
  OBVIOUS
<1>3. PICK top \in Nat : top = Len(s)
  OBVIOUS
<1>4. t \in Seq(S) /\ Len(t) = top + 1 /\ (\A n \in 1 .. top : t[n] = s[n]) /\ t[top + 1] = e
  BY <1>1, <1>2, <1>3
<1>5. Range(s) = {s[n] : n \in 1 .. top}
  BY <1>3, SeqFacts
<1>6. Range(t) = {t[n] : n \in 1 .. top + 1}
  BY <1>4, SeqFacts
<1>7. 1 .. top + 1 = (1 .. top) \union {top + 1}
  OBVIOUS
<1>8. Range(t) = Range(s) \union {e}
  BY <1>4, <1>5, <1>6, <1>7
<1>. QED
  BY <1>1, <1>2, <1>8

\* The frames of some nodes, none of them with its children on the stack yet.
LEMMA FramesAre ==
  ASSUME NEW nodes, NEW ids \in Seq(DOMAIN nodes)
  PROVE  /\ FramesOf(ids) \in Seq(Frames(nodes)) /\ Len(FramesOf(ids)) = Len(ids)
         /\ \A n \in 1 .. Len(ids) : FramesOf(ids)[n] = Frame(ids[n], FALSE)
<1>1. PICK n \in Nat : n = Len(ids) /\ DOMAIN ids = 1 .. n /\ \A k \in 1 .. n : ids[k] \in DOMAIN nodes
  BY SeqFacts
<1>2. FramesOf(ids) = [k \in 1 .. n |-> Frame(ids[k], FALSE)]
  BY <1>1 DEF FramesOf
<1>3. \A k \in 1 .. n : Frame(ids[k], FALSE) \in Frames(nodes)
  BY <1>1 DEF Frame, Frames
<1>. HIDE DEF Frame
<1>4. FramesOf(ids) \in [1 .. n -> Frames(nodes)] /\ \A k \in 1 .. n : FramesOf(ids)[k] = Frame(ids[k], FALSE)
  BY <1>2, <1>3
<1>5. FramesOf(ids) \in Seq(Frames(nodes)) /\ Len(FramesOf(ids)) = n
  BY <1>4, MadeSeq
<1>. QED
  BY <1>1, <1>4, <1>5

\* The top taken off a stack.
LEMMA Below ==
  ASSUME NEW S, NEW frames \in Seq(S), frames # <<>>
  PROVE  LET below == SubSeq(frames, 1, Len(frames) - 1)
         IN /\ below \in Seq(S) /\ Len(below) = Len(frames) - 1 /\ Len(frames) \in Nat \ {0}
            /\ \A n \in 1 .. Len(frames) - 1 : below[n] = frames[n]
            /\ frames[Len(frames)] \in S
<1>1. PICK n \in Nat : n = Len(frames) /\ n # 0
  OBVIOUS
<1>2. PICK below : below = SubSeq(frames, 1, n - 1)
  OBVIOUS
<1>3. below \in Seq(S) /\ Len(below) = n - 1 /\ \A k \in 1 .. n - 1 : below[k] = frames[k]
  <2>1. \A k \in 1 .. n - 1 : frames[k] \in S
    BY <1>1
  <2>2. /\ below \in Seq(S) /\ Len(below) = IF 1 <= n - 1 THEN (n - 1) - 1 + 1 ELSE 0
        /\ \A k \in 1 .. (n - 1) - 1 + 1 : below[k] = frames[1 + k - 1]
    BY <1>1, <1>2, <2>1, SubSeqProperties
  <2>. QED
    BY <1>1, <2>2
<1>4. frames[n] \in S
  BY <1>1
<1>. QED
  BY <1>1, <1>2, <1>3, <1>4

\* A frame put back under those of its arguments.
LEMMA PutBack ==
  ASSUME NEW S, NEW below \in Seq(S), NEW frame \in S, NEW above \in Seq(S)
  PROVE  LET frames == below \o <<frame>> \o above
         IN /\ frames \in Seq(S) /\ Len(frames) = Len(below) + 1 + Len(above)
            /\ \A n \in 1 .. Len(below) : frames[n] = below[n]
            /\ frames[Len(below) + 1] = frame
            /\ \A n \in 1 .. Len(above) : frames[Len(below) + 1 + n] = above[n]
<1>1. PICK b \in Nat : b = Len(below)
  OBVIOUS
<1>2. PICK a \in Nat : a = Len(above)
  OBVIOUS
<1>3. PICK one : one = <<frame>>
  OBVIOUS
<1>4. one \in Seq(S) /\ Len(one) = 1 /\ one[1] = frame
  BY <1>3
<1>5. PICK under : under = below \o one
  OBVIOUS
<1>6. /\ under \in Seq(S) /\ Len(under) = b + 1
      /\ \A n \in 1 .. b : under[n] = below[n]
      /\ under[b + 1] = frame
  <2>1. /\ under \in Seq(S) /\ Len(under) = b + 1
        /\ \A n \in 1 .. b + 1 : under[n] = IF n <= b THEN below[n] ELSE one[n - b]
    <3>1. /\ below \o one \in Seq(S) /\ Len(below \o one) = Len(below) + Len(one)
          /\ \A n \in 1 .. Len(below) + Len(one) :
               (below \o one)[n] = IF n <= Len(below) THEN below[n] ELSE one[n - Len(below)]
      BY <1>4, ConcatProperties
    <3>. QED
      BY <1>1, <1>4, <1>5, <3>1
  <2>. QED
    BY <1>1, <1>4, <2>1
<1>7. PICK frames : frames = under \o above
  OBVIOUS
<1>8. /\ frames \in Seq(S) /\ Len(frames) = b + 1 + a
      /\ \A n \in 1 .. b + 1 : frames[n] = under[n]
      /\ \A n \in 1 .. a : frames[b + 1 + n] = above[n]
  <2>1. /\ frames \in Seq(S) /\ Len(frames) = b + 1 + a
        /\ \A n \in 1 .. b + 1 + a : frames[n] = IF n <= b + 1 THEN under[n] ELSE above[n - (b + 1)]
    <3>1. /\ under \o above \in Seq(S) /\ Len(under \o above) = Len(under) + Len(above)
          /\ \A n \in 1 .. Len(under) + Len(above) :
               (under \o above)[n] = IF n <= Len(under) THEN under[n] ELSE above[n - Len(under)]
      BY <1>6, ConcatProperties
    <3>. QED
      BY <1>2, <1>6, <1>7, <3>1
  <2>2. \A n \in 1 .. a : /\ b + 1 + n \in 1 .. b + 1 + a /\ ~(b + 1 + n <= b + 1)
                          /\ (b + 1 + n) - (b + 1) = n
    BY <1>1, <1>2
  <2>3. \A n \in 1 .. a : frames[b + 1 + n] = above[n]
    BY <2>1, <2>2
  <2>. QED
    BY <1>1, <1>2, <2>1, <2>3
<1>9. /\ \A n \in 1 .. b : frames[n] = below[n]
      /\ frames[b + 1] = frame
  BY <1>6, <1>8
<1>. QED
  BY <1>1, <1>2, <1>3, <1>5, <1>7, <1>8, <1>9

\* One turn: a node is settled, passed over, or put back under its arguments.
LEMMA TurnKeeps ==
  ASSUME NEW nodes, IsArena(nodes), NEW walk, IsWalking(nodes, walk)
  PROVE  IsWalking(nodes, Turn(nodes, walk))
<1>. DEFINE st == walk.stack
            done == walk.settled
            top == Len(st)
            frame == st[top]
            below == SubSeq(st, 1, top - 1)
            args == nodes[frame.id].args
<1>1. /\ st \in Seq(Frames(nodes)) /\ done \in Seq(DOMAIN nodes)
      /\ walk = [stack |-> st, settled |-> done]
      /\ IsOrder(nodes, done) /\ Waits(nodes, st, done)
  BY DEF IsWalking
<1>2. CASE st = <<>>
  BY <1>2 DEF Turn
<1>. SUFFICES ASSUME st # <<>> PROVE IsWalking(nodes, Turn(nodes, walk))
  BY <1>2
<1>3. /\ below \in Seq(Frames(nodes)) /\ Len(below) = top - 1 /\ top \in Nat \ {0}
      /\ \A n \in 1 .. top - 1 : below[n] = st[n]
      /\ frame \in Frames(nodes)
  BY <1>1, Below
<1>4. frame.id \in DOMAIN nodes /\ frame.childrenScheduled \in BOOLEAN
  BY <1>3 DEF Frames
<1>5. args \in Seq(DOMAIN nodes)
  BY <1>4 DEF IsArena
<1>6. CASE frame.id \in Range(done)
  <2>1. Turn(nodes, walk) = [stack |-> below, settled |-> done]
    BY <1>1, <1>6 DEF Turn
  <2>2. Waits(nodes, below, done)
    <3>. SUFFICES ASSUME NEW p \in 1 .. top - 1, below[p].childrenScheduled,
                         NEW a \in Range(nodes[below[p].id].args)
                  PROVE  a \in Range(done) \/ \E q \in p + 1 .. top - 1 : below[q].id = a
      BY <1>3 DEF Waits
    <3>. HIDE DEF st, top, below, done, frame
    <3>1. a \in Range(done) \/ \E q \in p + 1 .. top : st[q].id = a
      BY <1>1, <1>3 DEF Waits, top
    <3>2. st[top].id \in Range(done)
      BY <1>6 DEF frame
    <3>. QED
      BY <1>3, <3>1, <3>2
  <2>. QED
    BY <1>1, <1>3, <2>1, <2>2 DEF IsWalking
<1>7. CASE frame.id \notin Range(done) /\ ~frame.childrenScheduled /\ IsCall(nodes[frame.id])
  <2>. DEFINE back == Frame(frame.id, TRUE)
              above == FramesOf(args)
              new == below \o <<back>> \o above
  <2>1. Turn(nodes, walk) = [stack |-> new, settled |-> done]
    BY <1>1, <1>7 DEF Turn
  <2>2. back \in Frames(nodes) /\ back.id = frame.id
    BY <1>4 DEF Frames, Frame
  <2>3. /\ above \in Seq(Frames(nodes)) /\ Len(above) = Len(args)
        /\ \A n \in 1 .. Len(args) : above[n].id = args[n] /\ above[n].childrenScheduled = FALSE
    <3>. HIDE DEF args
    <3>1. \A id : Frame(id, FALSE).id = id /\ Frame(id, FALSE).childrenScheduled = FALSE
      BY DEF Frame
    <3>2. /\ above \in Seq(Frames(nodes)) /\ Len(above) = Len(args)
          /\ \A n \in 1 .. Len(args) : above[n] = Frame(args[n], FALSE)
      BY <1>5, FramesAre
    <3>. QED
      BY <3>1, <3>2
  <2>. HIDE DEF above, back, args, frame, st, done, below, top
  <2>4. /\ new \in Seq(Frames(nodes)) /\ Len(new) = Len(below) + 1 + Len(above)
        /\ \A n \in 1 .. Len(below) : new[n] = below[n]
        /\ new[Len(below) + 1] = back
        /\ \A n \in 1 .. Len(above) : new[Len(below) + 1 + n] = above[n]
    <3>1. below \in Seq(Frames(nodes)) /\ back \in Frames(nodes) /\ above \in Seq(Frames(nodes))
      BY <1>3, <2>2, <2>3
    <3>. QED
      BY <3>1, PutBack
  <2>. HIDE DEF new
  <2>5. PICK A \in Nat : A = Len(args) /\ Range(args) = {args[n] : n \in 1 .. A}
    BY <1>5, SeqFacts
  <2>6. /\ Len(new) = top + A
        /\ \A n \in 1 .. top - 1 : new[n] = st[n]
        /\ new[top] = back
        /\ \A n \in 1 .. A : new[top + n] = above[n]
    BY <1>3, <2>3, <2>4, <2>5
  <2>7. Waits(nodes, new, done)
    <3>. SUFFICES ASSUME NEW p \in 1 .. top + A, new[p].childrenScheduled,
                         NEW a \in Range(nodes[new[p].id].args)
                  PROVE  a \in Range(done) \/ \E q \in p + 1 .. top + A : new[q].id = a
      BY <2>6 DEF Waits
    <3>1. CASE p \in 1 .. top - 1
      <4>1. new[p] = st[p]
        BY <2>6, <3>1
      <4>2. a \in Range(done) \/ \E q \in p + 1 .. top : st[q].id = a
        BY <1>1, <3>1, <4>1 DEF Waits, top
      <4>3. ASSUME NEW q \in p + 1 .. top, st[q].id = a
            PROVE  new[q].id = a
        <5>1. CASE q = top
          BY <2>2, <2>6, <4>3, <5>1 DEF frame
        <5>2. CASE q # top
          BY <1>3, <2>6, <3>1, <4>3, <5>2
        <5>. QED
          BY <5>1, <5>2
      <4>. QED
        BY <1>3, <3>1, <4>2, <4>3
    <3>2. CASE p = top
      <4>1. a \in Range(args)
        BY <2>2, <2>6, <3>2 DEF args
      <4>2. PICK k \in 1 .. A : args[k] = a
        BY <2>5, <4>1
      <4>3. new[top + k].id = a /\ top + k \in p + 1 .. top + A
        BY <1>3, <2>3, <2>5, <2>6, <3>2, <4>2
      <4>. QED
        BY <4>3
    <3>3. CASE p \in top + 1 .. top + A
      <4>1. p - top \in 1 .. A /\ p = top + (p - top)
        BY <1>3, <3>3
      <4>2. new[p].childrenScheduled = FALSE
        BY <2>3, <2>5, <2>6, <4>1
      <4>. QED
        BY <4>2
    <3>. QED
      BY <1>3, <3>1, <3>2, <3>3
  <2>. QED
    BY <1>1, <2>1, <2>4, <2>7 DEF IsWalking
<1>8. CASE frame.id \notin Range(done) /\ (frame.childrenScheduled \/ ~IsCall(nodes[frame.id]))
  <2>. DEFINE more == Append(done, frame.id)
  <2>1. Turn(nodes, walk) = [stack |-> below, settled |-> more]
    BY <1>1, <1>8 DEF Turn
  <2>. HIDE DEF st, top, below, done, frame
  <2>2. /\ more \in Seq(DOMAIN nodes) /\ Len(more) = Len(done) + 1
        /\ \A n \in 1 .. Len(done) : more[n] = done[n]
        /\ more[Len(done) + 1] = frame.id
        /\ Range(more) = Range(done) \union {frame.id}
    BY <1>1, <1>4, AppendFacts
  <2>. HIDE DEF more
  <2>3. PICK D \in Nat : D = Len(done) /\ Range(done) = {done[n] : n \in 1 .. D}
    BY <1>1, SeqFacts
  <2>4. IsOrder(nodes, more)
    <3>1. \A m, n \in 1 .. D + 1 : more[m] = more[n] => m = n
      <4>1. \A m, n \in 1 .. D : done[m] = done[n] => m = n
        BY <1>1, <2>3 DEF IsOrder
      <4>2. \A m \in 1 .. D : done[m] # frame.id
        BY <1>8, <2>3
      <4>3. \A m \in 1 .. D + 1 : m \in 1 .. D \/ m = D + 1
        OBVIOUS
      <4>. QED
        BY <2>2, <2>3, <4>1, <4>2, <4>3
    <3>2. ASSUME NEW n \in 1 .. D + 1, IsCall(nodes[more[n]]), NEW a \in Range(nodes[more[n]].args)
          PROVE  \E m \in 1 .. n - 1 : more[m] = a
      <4>1. CASE n \in 1 .. D
        <5>1. more[n] = done[n]
          BY <2>2, <2>3, <4>1
        <5>2. PICK m \in 1 .. n - 1 : done[m] = a
          BY <1>1, <2>3, <3>2, <4>1, <5>1 DEF IsOrder
        <5>. QED
          BY <2>2, <2>3, <4>1, <5>2
      <4>2. CASE n = D + 1
        <5>1. more[n] = frame.id
          BY <2>2, <2>3, <4>2
        <5>2. frame.childrenScheduled
          BY <1>8, <3>2, <5>1
        <5>3. a \in Range(done)
          <6>1. top \in 1 .. Len(st) /\ st[top] = frame
            BY <1>3 DEF top, frame
          <6>2. a \in Range(done) \/ \E q \in top + 1 .. Len(st) : st[q].id = a
            BY <1>1, <3>2, <5>1, <5>2, <6>1 DEF Waits
          <6>. QED
            BY <1>3, <6>2 DEF top
        <5>4. PICK m \in 1 .. D : done[m] = a
          BY <2>3, <5>3
        <5>. QED
          BY <2>2, <2>3, <4>2, <5>4
      <4>. QED
        BY <4>1, <4>2
    <3>. QED
      BY <2>2, <2>3, <3>1, <3>2 DEF IsOrder
  <2>5. Waits(nodes, below, more)
    <3>. SUFFICES ASSUME NEW p \in 1 .. top - 1, below[p].childrenScheduled,
                         NEW a \in Range(nodes[below[p].id].args)
                  PROVE  a \in Range(more) \/ \E q \in p + 1 .. top - 1 : below[q].id = a
      BY <1>3 DEF Waits
    <3>1. a \in Range(done) \/ \E q \in p + 1 .. top : st[q].id = a
      BY <1>1, <1>3 DEF Waits, top
    <3>2. st[top].id \in Range(more)
      BY <2>2 DEF frame
    <3>. QED
      BY <1>3, <2>2, <3>1, <3>2
  <2>. QED
    BY <1>1, <1>3, <2>1, <2>2, <2>4, <2>5 DEF IsWalking
<1>. QED
  BY <1>4, <1>6, <1>7, <1>8

\* What a walk of the tree is: no node twice, and none before its arguments.
THEOREM ChildrenComeFirst ==
  ASSUME NEW nodes, IsArena(nodes)
  PROVE  IsOrder(nodes, ChildrenFirst(nodes))
<1>. DEFINE begun == [stack |-> FramesOf(Ids(nodes)), settled |-> <<>>]
            turns == [turn \in 1 .. 5 * Len(nodes) |-> turn]
<1>1. ChildrenFirst(nodes) = Turning!LoopOf(nodes, begun, turns).settled
  BY DEF ChildrenFirst, Turning!LoopOf, Turning!Loop, Turning!Steps, Loop, Steps, TurnStep
<1>2. Len(nodes) \in Nat /\ DOMAIN nodes = 1 .. Len(nodes) /\ Ids(nodes) \in Seq(DOMAIN nodes)
  BY DEF IsArena, Ids
<1>3. turns \in Seq(Nat) /\ Len(turns) \in Nat
  BY <1>2
<1>4. IsWalking(nodes, begun)
  <2>1. FramesOf(Ids(nodes)) \in Seq(Frames(nodes))
        /\ \A n \in 1 .. Len(FramesOf(Ids(nodes))) : ~FramesOf(Ids(nodes))[n].childrenScheduled
    <3>1. \A id : Frame(id, FALSE).childrenScheduled = FALSE
      BY DEF Frame
    <3>2. /\ FramesOf(Ids(nodes)) \in Seq(Frames(nodes))
          /\ Len(FramesOf(Ids(nodes))) = Len(Ids(nodes))
          /\ \A n \in 1 .. Len(Ids(nodes)) : FramesOf(Ids(nodes))[n] = Frame(Ids(nodes)[n], FALSE)
      BY <1>2, FramesAre
    <3>. QED
      BY <3>1, <3>2
  <2>2. IsOrder(nodes, <<>>)
    BY DEF IsOrder
  <2>3. Waits(nodes, FramesOf(Ids(nodes)), <<>>)
    BY <2>1 DEF Waits
  <2>4. <<>> \in Seq(DOMAIN nodes)
    OBVIOUS
  <2>. QED
    BY <2>1, <2>2, <2>3, <2>4 DEF IsWalking
<1>. HIDE DEF begun, turns
<1>5. PICK h : /\ Turning!IsRun(h, Len(turns), nodes, begun, turns)
               /\ Turning!LoopOf(nodes, begun, turns) = h[Len(turns)]
  BY <1>3, Turning!LoopRuns
<1>6. PICK T \in Nat : T = Len(turns)
  BY <1>3
<1>7. h[0] = begun /\ \A n \in 1 .. T : h[n] = Turn(nodes, h[n - 1])
  BY <1>5, <1>6 DEF Turning!IsRun, TurnStep
<1>. DEFINE S == {n \in 0 .. T : IsWalking(nodes, h[n])}
<1>8. 0 \in S
  BY <1>4, <1>7
<1>9. ASSUME NEW n \in 0 .. T - 1, n \in S
      PROVE  n + 1 \in S
  <2>1. n + 1 \in 1 .. T /\ n + 1 \in 0 .. T /\ (n + 1) - 1 = n
    OBVIOUS
  <2>2. IsWalking(nodes, Turn(nodes, h[n]))
    BY <1>9, TurnKeeps
  <2>3. h[n + 1] = Turn(nodes, h[n])
    BY <1>7, <2>1
  <2>. QED
    BY <2>1, <2>2, <2>3
<1>. HIDE DEF S
<1>10. T \in S
  <2>1. 0 .. T \subseteq S
    BY <1>8, <1>9, UpTo
  <2>. QED
    BY <2>1
<1>. QED
  BY <1>1, <1>5, <1>6, <1>10 DEF S, IsWalking

-----------------------------------------------------------------------------
(* What the nodes of a tree come to.                                        *)

\* Evaluation, a node at a time.
ValueStep(c, known, id) == [known EXCEPT ![id] = ValuesGiven(c.nodes, id, c.around, known)]
Evaluating == INSTANCE DataInduction WITH madeOf <- ValueStep

\* Only calls have arguments.
LeavesAreBare(nodes) == \A id \in DOMAIN nodes : ~IsCall(nodes[id]) => nodes[id].args = <<>>

\* Each of the first n nodes has the value its arguments give it, and the others none.
IsValued(nodes, around, order, n, known) ==
  /\ DOMAIN known = DOMAIN nodes
  /\ \A m \in 1 .. n : known[order[m]] = ValuesGiven(nodes, order[m], around, known)
  /\ \A id \in DOMAIN nodes : (\A m \in 1 .. n : order[m] # id) => known[id] = <<>>

\* A node's arguments are settled before it.
LEMMA ArgumentsAreBefore ==
  ASSUME NEW nodes, IsArena(nodes), LeavesAreBare(nodes), NEW order, IsOrder(nodes, order),
         NEW n \in 1 .. Len(order), NEW a \in Range(nodes[order[n]].args)
  PROVE  \E m \in 1 .. n - 1 : order[m] = a
<1>1. order[n] \in DOMAIN nodes
  <2>1. order \in Seq(DOMAIN nodes)
    BY DEF IsOrder
  <2>. QED
    BY <2>1, SeqFacts
<1>2. Range(<<>>) = {}
  BY DEF Range
<1>. QED
  BY <1>1, <1>2 DEF IsOrder, LeavesAreBare

\* The values of a node depend on nothing but its arguments'.
LEMMA ValuesAgree ==
  ASSUME NEW nodes, NEW id, NEW around, NEW known, NEW other,
         \A a \in Range(nodes[id].args) : known[a] = other[a]
  PROVE  ValuesGiven(nodes, id, around, known) = ValuesGiven(nodes, id, around, other)
<1>1. \A k \in DOMAIN nodes[id].args : known[nodes[id].args[k]] = other[nodes[id].args[k]]
  BY DEF Range
<1>2. [k \in DOMAIN nodes[id].args |-> known[nodes[id].args[k]]]
        = [k \in DOMAIN nodes[id].args |-> other[nodes[id].args[k]]]
  BY <1>1
<1>. QED
  BY <1>2 DEF ValuesGiven

\* The value of one more node disturbs none of those before it.
LEMMA OneMoreValued ==
  ASSUME NEW nodes, IsArena(nodes), LeavesAreBare(nodes), NEW around,
         NEW order, IsOrder(nodes, order), NEW n \in 0 .. Len(order) - 1,
         NEW known, IsValued(nodes, around, order, n, known)
  PROVE  LET id == order[n + 1]
         IN IsValued(nodes, around, order, n + 1,
                     [known EXCEPT ![id] = ValuesGiven(nodes, id, around, known)])
<1>. DEFINE id == order[n + 1]
            new == [known EXCEPT ![id] = ValuesGiven(nodes, id, around, known)]
<1>1. /\ Len(order) \in Nat /\ n \in Nat /\ n + 1 \in 1 .. Len(order)
      /\ \A m \in 1 .. Len(order) : order[m] \in DOMAIN nodes
      /\ \A m \in 1 .. n : order[m] # id
  <2>1. order \in Seq(DOMAIN nodes)
    BY DEF IsOrder
  <2>2. Len(order) \in Nat /\ \A m \in 1 .. Len(order) : order[m] \in DOMAIN nodes
    BY <2>1, SeqFacts
  <2>3. n \in Nat /\ n + 1 \in 1 .. Len(order) /\ \A m \in 1 .. n : m \in 1 .. Len(order) /\ m # n + 1
    BY <2>2
  <2>. QED
    BY <2>2, <2>3 DEF IsOrder
<1>2. DOMAIN new = DOMAIN nodes /\ new[id] = ValuesGiven(nodes, id, around, known)
      /\ \A other \in DOMAIN nodes : other # id => new[other] = known[other]
  BY <1>1 DEF IsValued
<1>. HIDE DEF new
<1>3. ASSUME NEW m \in 1 .. n + 1
      PROVE  ValuesGiven(nodes, order[m], around, new) = ValuesGiven(nodes, order[m], around, known)
  <2>1. \A a \in Range(nodes[order[m]].args) : \E j \in 1 .. m - 1 : order[j] = a
    <3>1. m \in 1 .. Len(order)
      BY <1>1
    <3>2. PICK k : k = m
      OBVIOUS
    <3>3. k \in 1 .. Len(order)
      BY <3>1, <3>2
    <3>4. \A a \in Range(nodes[order[k]].args) : \E j \in 1 .. k - 1 : order[j] = a
      BY <3>3, ArgumentsAreBefore
    <3>. QED
      BY <3>2, <3>4
  <2>2. \A j \in 1 .. m - 1 : j \in 1 .. n /\ j \in 1 .. Len(order)
    BY <1>1
  <2>3. \A a \in Range(nodes[order[m]].args) : new[a] = known[a]
    BY <1>1, <1>2, <2>1, <2>2
  <2>. QED
    BY <2>3, ValuesAgree
<1>4. ASSUME NEW m \in 1 .. n + 1
      PROVE  new[order[m]] = ValuesGiven(nodes, order[m], around, new)
  <2>1. CASE m = n + 1
    BY <1>2, <1>3, <2>1
  <2>2. CASE m # n + 1
    <3>1. m \in 1 .. n /\ m \in 1 .. Len(order)
      BY <1>1, <2>2
    <3>2. new[order[m]] = known[order[m]]
      BY <1>1, <1>2, <3>1
    <3>. QED
      BY <1>3, <3>1, <3>2 DEF IsValued
  <2>. QED
    BY <2>1, <2>2
<1>5. ASSUME NEW other \in DOMAIN nodes, \A m \in 1 .. n + 1 : order[m] # other
      PROVE  new[other] = <<>>
  <2>1. \A m \in 1 .. n : m \in 1 .. n + 1
    BY <1>1
  <2>2. n + 1 \in 1 .. n + 1
    BY <1>1
  <2>. QED
    BY <1>2, <1>5, <2>1, <2>2 DEF IsValued
<1>6. IsValued(nodes, around, order, n + 1, new)
  BY <1>2, <1>4, <1>5 DEF IsValued
<1>. QED
  BY <1>6 DEF new

\* Evaluate is such a loop.
LEMMA EvaluatesBy ==
  ASSUME NEW c
  PROVE  Evaluate(c.nodes, c.around)
           = Evaluating!LoopOf(c, [id \in DOMAIN c.nodes |-> <<>>], ChildrenFirst(c.nodes))
BY DEF Evaluate, Evaluating!LoopOf, Evaluating!Loop, Evaluating!Steps, Loop, Steps, ValueStep

\* What a tree is evaluated to: a solution of the equations its nodes are.
THEOREM EvaluateSolves ==
  ASSUME NEW nodes, IsArena(nodes), LeavesAreBare(nodes), NEW around
  PROVE  IsValued(nodes, around, ChildrenFirst(nodes), Len(ChildrenFirst(nodes)),
                  Evaluate(nodes, around))
<1>1. PICK c : c = [nodes |-> nodes, around |-> around]
  OBVIOUS
<1>2. c.nodes = nodes /\ c.around = around
  BY <1>1
<1>3. PICK order : order = ChildrenFirst(nodes) /\ IsOrder(nodes, order)
  BY ChildrenComeFirst
<1>4. PICK L \in Nat : L = Len(order) /\ order \in Seq(DOMAIN nodes)
  BY <1>3 DEF IsOrder
<1>. DEFINE none == [id \in DOMAIN nodes |-> <<>>]
<1>5. Evaluate(nodes, around) = Evaluating!LoopOf(c, none, order)
  BY <1>2, <1>3, EvaluatesBy
<1>6. PICK h : Evaluating!IsRun(h, L, c, none, order) /\ Evaluating!LoopOf(c, none, order) = h[L]
  BY <1>4, Evaluating!LoopRuns
<1>7. h[0] = none /\ \A n \in 1 .. L : h[n] = ValueStep(c, h[n - 1], order[n])
  BY <1>6 DEF Evaluating!IsRun
<1>. DEFINE S == {n \in 0 .. L : IsValued(nodes, around, order, n, h[n])}
<1>8. 0 \in S
  BY <1>7 DEF IsValued
<1>9. ASSUME NEW n \in 0 .. L - 1, n \in S
      PROVE  n + 1 \in S
  <2>1. n + 1 \in 1 .. L /\ n + 1 \in 0 .. L /\ (n + 1) - 1 = n /\ n \in 0 .. Len(order) - 1
    BY <1>4
  <2>2. IsValued(nodes, around, order, n, h[n])
    BY <1>9
  <2>3. h[n + 1] = [h[n] EXCEPT ![order[n + 1]] = ValuesGiven(nodes, order[n + 1], around, h[n])]
    BY <1>2, <1>7, <2>1 DEF ValueStep
  <2>4. IsValued(nodes, around, order, n + 1, h[n + 1])
    BY <1>3, <2>1, <2>2, <2>3, OneMoreValued
  <2>. QED
    BY <2>1, <2>4
<1>. HIDE DEF S
<1>10. L \in S
  <2>1. 0 .. L \subseteq S
    BY <1>8, <1>9, UpTo
  <2>. QED
    BY <2>1
<1>. QED
  BY <1>3, <1>4, <1>5, <1>6, <1>10 DEF S

-----------------------------------------------------------------------------
(* What is added up, and what is read from a table.                         *)

\* An integral adds up, a slot at a time.
PlusStep(c, x, y) == Plus(x, y)
Adding == INSTANCE DataInduction WITH madeOf <- PlusStep

\* A sum of numbers is one, or none.
LEMMA SumIsADouble ==
  ASSUME NEW xs \in Seq(Doubles)
  PROVE  AddUp(xs) \in Doubles
<1>1. PICK L \in Nat : L = Len(xs)
  OBVIOUS
<1>2. AddUp(xs) = Adding!LoopOf(0, 0, xs)
  BY DEF AddUp, Adding!LoopOf, Adding!Loop, Adding!Steps, Loop, Steps, PlusStep
<1>3. PICK h : Adding!IsRun(h, L, 0, 0, xs) /\ Adding!LoopOf(0, 0, xs) = h[L]
  BY <1>1, Adding!LoopRuns
<1>4. h[0] = 0 /\ \A n \in 1 .. L : h[n] = Plus(h[n - 1], xs[n])
  BY <1>3 DEF Adding!IsRun, PlusStep
<1>. DEFINE S == {n \in 0 .. L : h[n] \in Doubles}
<1>5. 0 \in S
  BY <1>4, NumberFacts
<1>6. ASSUME NEW n \in 0 .. L - 1, n \in S
      PROVE  n + 1 \in S
  <2>1. n + 1 \in 1 .. L /\ n + 1 \in 0 .. L /\ (n + 1) - 1 = n
    OBVIOUS
  <2>2. xs[n + 1] \in Doubles
    BY <1>1, <2>1, SeqFacts
  <2>3. Plus(h[n], xs[n + 1]) \in Doubles
    BY <1>6, <2>2, TwoFacts
  <2>. QED
    BY <1>4, <2>1, <2>3
<1>. HIDE DEF S
<1>7. L \in S
  <2>1. 0 .. L \subseteq S
    BY <1>5, <1>6, UpTo
  <2>. QED
    BY <2>1
<1>. QED
  BY <1>2, <1>3, <1>7 DEF S

\* The table has a number for every age, or none.
LEMMA TableIsRead ==
  ASSUME NEW age \in Int
  PROVE  LogMuAt(age) \in Doubles
<1>1. FirstClick \in Int /\ LastClick \in Int /\ FirstClick <= LastClick
  BY WholeClicks, TableAssumption
<1>2. Greater(FirstClick - LastClick, Lesser(age, LastClick - FirstClick)) \in Ages
  BY <1>1 DEF Greater, Lesser, Ages
<1>. QED
  BY <1>2, TableAssumption DEF LogMuAt, IsDouble, Doubles

-----------------------------------------------------------------------------
(* One node.                                                                *)

\* What the conversions leave of each node.
IsRuled(nodes, id, params) ==
  LET n == nodes[id] IN
  \/ /\ n.kind = "lit" /\ n.op = "none" /\ n.args = <<>>
     /\ n.type \in {"text"} \union ClickTypes \/ IsOfType(n.type, n.val)
  \/ /\ n.kind = "field" /\ n.op = "none" /\ n.args = <<>>
     /\ n.val \in DOMAIN ColumnTypes /\ n.type = ColumnTypes[n.val]
  \/ n.kind = "time" /\ n.op = "none" /\ n.args = <<>> /\ n.type = "datey"
  \/ n.kind = "param" /\ n.op = "none" /\ n.args = <<>> /\ n.val \in params /\ n.type = "double"
  \/ n.kind = "obj" /\ n.op = "none" /\ n.args = <<>> /\ n.type = NoType
  \/ /\ n.kind = "call" /\ n.op \in Calculations /\ Len(n.args) = Arity(n.op)
     /\ Ruled(n.op, n.type, TypesOf(nodes, n.args))

\* Nor any of them anything but the tree's.
IsRuledTree(nodes, params) ==
  IsArena(nodes) /\ \A id \in DOMAIN nodes : IsRuled(nodes, id, params)

\* A grid that has its slots, each within the interval that time is said to be in.
IsGrid(g, time) ==
  /\ g.integrationSlots \in Nat /\ g.hasDeathSlot \in BOOLEAN
  /\ \A s \in 1 .. g.integrationSlots : WidthOf(g, s) \in Int
  /\ \A s \in Slots(g) : Fits("datey", time, ClicksAt(g, s))

\* What a tree is evaluated with is within what its intervals are worked out from.
IsAround(around, params, scans, time) ==
  /\ \A column \in DOMAIN ColumnTypes :
       Fits(ColumnTypes[column], ColumnInterval(scans[column]), around.row[column])
  /\ \A p \in params : around.beta[p] \in Doubles
  /\ IsGrid(around.grid, time)

\* Every value of a node lies in its interval.
NodeFits(type, i, values) ==
  type # "text" => \A s \in DOMAIN values : Fits(type, i, values[s])

\* A node's lower bound is never above its upper, and its clicks are in reach.
IsTame(nodes, id, g, known) ==
  LET n == nodes[id] IN
  /\ Calls(n, "clamp") =>
       \A s \in Slots(g) : Compare("GT", known[n.args[2]][s], known[n.args[3]][s]) = 0
  /\ n.type \in ClickTypes => \A s \in Slots(g) : known[id][s] \in Clicks

\* The values of a node that is no call.
LEMMA LeafValues ==
  ASSUME NEW n, NEW t, NEW around, NEW x, n.op = "none"
  PROVE  LET v == ValuesOf(n, t, around, x)
             S == Slots(around.grid)
         IN /\ n.kind = "lit" => v = [s \in S |-> n.val]
            /\ n.kind = "field" => v = [s \in S |-> around.row[n.val]]
            /\ n.kind = "param" => v = [s \in S |-> around.beta[n.val]]
            /\ n.kind = "time" => v = [s \in S |-> ClicksAt(around.grid, s)]
            /\ n.kind = "obj" => v = [s \in S |-> 0]
BY DEF ValuesOf

\* The values of a call's arguments at a slot, and those of an integrand by the width of each.
AtSlot(x, s) == [k \in DOMAIN x |-> x[k][s]]
Weighted(t, x, g) ==
  [s \in 1 .. g.integrationSlots |-> Times(AsNumber(t[1], AtSlot(x, s)[1]), Years(WidthOf(g, s)))]

\* The values of a call of each kind.
LEMMA CallValues ==
  ASSUME NEW n, NEW t, NEW around, NEW x, n.kind = "call"
  PROVE  LET v == ValuesOf(n, t, around, x)
             g == around.grid
         IN /\ n.op = "vector_log_mu" =>
                 v = [s \in Slots(g) |-> LogMuAt(ClicksAt(g, s) - AtSlot(x, s)[2])]
            /\ n.op = "integrate" => v = [s \in Slots(g) |-> AddUp(Weighted(t, x, g))]
            /\ n.op = "died_value" =>
                 v = [s \in Slots(g) |->
                        IF g.hasDeathSlot THEN AsNumber(t[1], AtSlot(x, SlotCount(g))[1]) ELSE 0]
            /\ n.op \notin Finalisers \union {"vector_log_mu"} =>
                 v = [s \in Slots(g) |-> Apply(n.op, n.type, t, AtSlot(x, s))]
BY DEF ValuesOf, AtSlot, Weighted, Finalisers

\* The operations are in one list each.
LEMMA KindsOfCall ==
  /\ Calculations = Arithmetic \union AlwaysBool \union {"double", "select"}
                      \union Finalisers \union {"vector_log_mu"}
  /\ (Arithmetic \union AlwaysBool \union {"double", "select"})
       \intersect (Finalisers \union {"vector_log_mu"}) = {}
  /\ Arity("integrate") = 1 /\ Arity("died_value") = 1 /\ Arity("vector_log_mu") = 2
BY DEF Calculations, Arithmetic, AlwaysBool, Comparisons, Ordering, Logicals, Finalisers, Arity

\* The interval of each kind of node.
LEMMA IntervalOf ==
  ASSUME NEW nodes, NEW id, NEW scans, NEW time, NEW found
  PROVE  LET n == nodes[id]
             i == NodeInterval(nodes, id, scans, time, found)
         IN /\ n.kind = "lit" /\ n.type # "text" => i = Point(n.val)
            /\ n.kind = "field" => i = ColumnInterval(scans[n.val])
            /\ n.kind = "time" => i = time
            /\ n.kind \in {"param", "obj"} => i = Unknown
            /\ n.kind = "call" =>
                 i = CallInterval(n.op, [k \in DOMAIN n.args |-> found[n.args[k]]],
                                  IF n.op = "double" THEN nodes[n.args[1]].type ELSE NoType)
BY DEF NodeInterval, IsLit, IsCall

\* A leaf's values are where it is said they are.
LEMMA LeafFits ==
  ASSUME NEW nodes, NEW id, NEW params, IsRuled(nodes, id, params), ~IsCall(nodes[id]),
         NEW around, NEW scans, NEW time, IsAround(around, params, scans, time),
         NEW known, IsTame(nodes, id, around.grid, known),
         known[id] = ValuesGiven(nodes, id, around, known), NEW found
  PROVE  NodeFits(nodes[id].type, NodeInterval(nodes, id, scans, time, found), known[id])
         /\ DOMAIN known[id] = Slots(around.grid)
<1>. DEFINE n == nodes[id]
            i == NodeInterval(nodes, id, scans, time, found)
            v == known[id]
            S == Slots(around.grid)
<1>1. PICK x, t : v = ValuesOf(n, t, around, x)
  BY DEF ValuesGiven
<1>2. n.op = "none" /\ n.kind \in {"lit", "field", "time", "param", "obj"}
  BY DEF IsRuled, IsCall
<1>3. CASE n.kind = "lit"
  <2>1. v = [s \in S |-> n.val]
    BY <1>1, <1>2, <1>3, LeafValues
  <2>2. ASSUME n.type # "text", NEW s \in S
        PROVE  Fits(n.type, Point(n.val), n.val)
    <3>1. IsOfType(n.type, n.val)
      <4>1. n.type \in ClickTypes => n.val \in Clicks
        BY <2>1 DEF IsTame
      <4>2. n.type \in ClickTypes \/ IsOfType(n.type, n.val)
        BY <1>3, <2>2 DEF IsRuled
      <4>. QED
        BY <4>1, <4>2, TypesAre DEF Clicks
    <3>2. n.val \in Doubles /\ (n.type # "double" => n.val \in Numbers)
          /\ (n.type = "bool" => n.val \in {0, 1})
      BY <3>1, TypesAre, NumberFacts
    <3>. QED
      BY <3>1, <3>2, DoublesAre, NumberFacts DEF Fits, IntervalFits, Intervals, Bounds, Point, Numbers
  <2>3. n.type # "text" => i = Point(n.val)
    BY <1>3, IntervalOf
  <2>. HIDE DEF n, i, v, S
  <2>4. NodeFits(n.type, i, v) /\ DOMAIN v = S
    BY <2>1, <2>2, <2>3 DEF NodeFits
  <2>. QED
    BY <2>4 DEF n, i, v, S
<1>4. CASE n.kind = "field"
  <2>1. v = [s \in S |-> around.row[n.val]]
    BY <1>1, <1>2, <1>4, LeafValues
  <2>2. i = ColumnInterval(scans[n.val])
    BY <1>4, IntervalOf
  <2>3. Fits(n.type, ColumnInterval(scans[n.val]), around.row[n.val])
    BY <1>4 DEF IsRuled, IsAround
  <2>. HIDE DEF n, i, v, S
  <2>4. NodeFits(n.type, i, v) /\ DOMAIN v = S
    BY <2>1, <2>2, <2>3 DEF NodeFits
  <2>. QED
    BY <2>4 DEF n, i, v, S
<1>5. CASE n.kind = "time"
  <2>1. v = [s \in S |-> ClicksAt(around.grid, s)]
    BY <1>1, <1>2, <1>5, LeafValues
  <2>2. i = time
    BY <1>5, IntervalOf
  <2>3. n.type = "datey" /\ \A s \in S : Fits("datey", time, ClicksAt(around.grid, s))
    BY <1>5 DEF IsRuled, IsAround, IsGrid
  <2>. HIDE DEF n, i, v, S
  <2>4. NodeFits(n.type, i, v) /\ DOMAIN v = S
    BY <2>1, <2>2, <2>3 DEF NodeFits
  <2>. QED
    BY <2>4 DEF n, i, v, S
<1>6. CASE n.kind = "param"
  <2>1. v = [s \in S |-> around.beta[n.val]]
    BY <1>1, <1>2, <1>6, LeafValues
  <2>2. i = Unknown
    BY <1>6, IntervalOf
  <2>3. n.type = "double" /\ around.beta[n.val] \in Doubles
    BY <1>6 DEF IsRuled, IsAround
  <2>. HIDE DEF n, i, v, S
  <2>4. Fits("double", Unknown, around.beta[n.val])
    BY <2>3, TypesAre, UnknownFits
  <2>5. NodeFits(n.type, i, v) /\ DOMAIN v = S
    BY <2>1, <2>2, <2>3, <2>4 DEF NodeFits
  <2>. QED
    BY <2>5 DEF n, i, v, S
<1>7. CASE n.kind = "obj"
  <2>1. v = [s \in S |-> 0]
    BY <1>1, <1>2, <1>7, LeafValues
  <2>2. i = Unknown
    BY <1>7, IntervalOf
  <2>3. n.type = NoType
    BY <1>7 DEF IsRuled
  <2>. HIDE DEF n, i, v, S
  <2>4. NoType # "double" /\ NoType # "bool" /\ 0 \in 1 - Inf .. Inf - 1
    BY NumberFacts DEF NoType
  <2>5. Fits(NoType, Unknown, 0)
    BY <2>4, TypesAre, UnknownFits
  <2>6. NodeFits(n.type, i, v) /\ DOMAIN v = S
    BY <2>1, <2>2, <2>3, <2>5 DEF NodeFits
  <2>. QED
    BY <2>6 DEF n, i, v, S
<1>. QED
  BY <1>2, <1>3, <1>4, <1>5, <1>6, <1>7

\* A value that is read as a number is a double.
LEMMA AsNumberIsADouble ==
  ASSUME NEW type \in Numeric, NEW x, IsOfType(type, x)
  PROVE  AsNumber(type, x) \in Doubles
<1>1. CASE type \in ClickTypes
  <2>1. x \in Int
    BY <1>1, TypesAre
  <2>. QED
    BY <1>1, <2>1, YearsFacts, NumberFacts DEF AsNumber
<1>2. CASE type = "bool"
  <2>1. 0 * One = 0 /\ 1 * One = One
    BY NumberFacts
  <2>. QED
    BY <1>2, <2>1, TypesAre, NumberFacts DEF AsNumber
<1>3. CASE type = "double"
  BY <1>3, TypesAre DEF AsNumber
<1>. QED
  BY <1>1, <1>2, <1>3 DEF Numeric, DoubleFamily

\* The slots of a grid.
LEMMA SlotFacts ==
  ASSUME NEW g, NEW time, IsGrid(g, time)
  PROVE  /\ \A s \in 1 .. g.integrationSlots : s \in Slots(g) /\ Years(WidthOf(g, s)) \in Doubles
         /\ g.hasDeathSlot => SlotCount(g) \in Slots(g)
         /\ \A s \in Slots(g) : ClicksAt(g, s) \in Int
<1>1. g.integrationSlots \in Nat /\ g.hasDeathSlot \in BOOLEAN
  BY DEF IsGrid
<1>2. \A s \in 1 .. g.integrationSlots : WidthOf(g, s) \in Int
  BY DEF IsGrid
<1>3. \A s \in 1 .. g.integrationSlots : Years(WidthOf(g, s)) \in Doubles
  BY <1>2, YearsFacts, NumberFacts
<1>4. \A s \in Slots(g) : ClicksAt(g, s) \in Int
  <2>1. "datey" \notin {"double", "bool"}
    OBVIOUS
  <2>2. \A v : IsOfType("datey", v) => v \in Int
    BY <2>1, TypesAre
  <2>. QED
    BY <2>2 DEF IsGrid, Fits
<1>5. /\ \A s \in 1 .. g.integrationSlots : s \in Slots(g)
      /\ g.hasDeathSlot => SlotCount(g) \in Slots(g)
  BY <1>1 DEF Slots, SlotCount
<1>. QED
  BY <1>3, <1>4, <1>5

\* So are a call's, if its arguments' are.
LEMMA CallNodeFits ==
  ASSUME NEW nodes, NEW id, NEW params, IsRuled(nodes, id, params), IsCall(nodes[id]),
         nodes[id].args \in Seq(DOMAIN nodes),
         NEW around, NEW scans, NEW time, IsAround(around, params, scans, time),
         NEW known, IsTame(nodes, id, around.grid, known),
         known[id] = ValuesGiven(nodes, id, around, known), NEW found,
         \A a \in Range(nodes[id].args) :
           NodeFits(nodes[a].type, found[a], known[a]) /\ DOMAIN known[a] = Slots(around.grid)
  PROVE  NodeFits(nodes[id].type, NodeInterval(nodes, id, scans, time, found), known[id])
         /\ DOMAIN known[id] = Slots(around.grid)
<1>. DEFINE n == nodes[id]
            i == NodeInterval(nodes, id, scans, time, found)
            v == known[id]
            g == around.grid
            S == Slots(g)
            A == Arity(n.op)
            t == TypesOf(nodes, n.args)
            x == [k \in DOMAIN n.args |-> known[n.args[k]]]
            j == [k \in DOMAIN n.args |-> found[n.args[k]]]
            from == IF n.op = "double" THEN t[1] ELSE NoType
<1>1. v = ValuesOf(n, t, around, x) /\ n.kind = "call"
  BY DEF ValuesGiven, IsCall
<1>2. n.op \in Calculations /\ Ruled(n.op, n.type, t) /\ DOMAIN n.args = 1 .. A
  <2>1. n.op \in Calculations /\ Ruled(n.op, n.type, t) /\ Len(n.args) = A
    BY <1>1 DEF IsRuled
  <2>2. DOMAIN n.args = 1 .. Len(n.args)
    BY SeqFacts
  <2>. QED
    BY <2>1, <2>2
<1>3. /\ DOMAIN x = 1 .. A /\ DOMAIN t = 1 .. A /\ DOMAIN j = 1 .. A
      /\ \A k \in 1 .. A : t[k] = nodes[n.args[k]].type /\ DOMAIN x[k] = S /\ NodeFits(t[k], j[k], x[k])
  <2>1. \A k \in 1 .. A : n.args[k] \in Range(n.args)
    BY <1>2 DEF Range
  <2>. QED
    BY <1>2, <2>1 DEF TypesOf
<1>4. \A s \in S : DOMAIN AtSlot(x, s) = 1 .. A /\ \A k \in 1 .. A : AtSlot(x, s)[k] = x[k][s]
  BY <1>3 DEF AtSlot
<1>5. \A s \in S, k \in 1 .. A : t[k] # "text" => Fits(t[k], j[k], AtSlot(x, s)[k])
  BY <1>3, <1>4 DEF NodeFits
<1>6. 1 \in 1 .. A => nodes[n.args[1]].type = t[1]
  BY <1>3
<1>7. A >= 1 /\ A \in Nat
  BY <1>2 DEF Calculations, Arithmetic, Comparisons, Ordering, Logicals, Finalisers, Arity
<1>8. i = CallInterval(n.op, j, from)
  <2>1. i = CallInterval(n.op, j, IF n.op = "double" THEN nodes[n.args[1]].type ELSE NoType)
    BY <1>1, IntervalOf
  <2>. QED
    BY <1>6, <1>7, <2>1
<1>9. /\ n.type \in ClickTypes => \A s \in S : v[s] \in Clicks
      /\ n.op = "clamp" => \A s \in S : Compare("GT", AtSlot(x, s)[2], AtSlot(x, s)[3]) = 0
  <2>1. n.type \in ClickTypes => \A s \in S : v[s] \in Clicks
    BY DEF IsTame
  <2>2. ASSUME n.op = "clamp", NEW s \in S
        PROVE  Compare("GT", AtSlot(x, s)[2], AtSlot(x, s)[3]) = 0
    <3>1. A = 3
      BY <2>2, OpsAre
    <3>2. x[2] = known[n.args[2]] /\ x[3] = known[n.args[3]]
      BY <1>2, <3>1
    <3>3. AtSlot(x, s)[2] = known[n.args[2]][s] /\ AtSlot(x, s)[3] = known[n.args[3]][s]
      BY <1>4, <3>1, <3>2
    <3>4. Compare("GT", known[n.args[2]][s], known[n.args[3]][s]) = 0
      BY <1>1, <2>2 DEF IsTame, Calls, IsCall
    <3>. QED
      BY <3>3, <3>4
  <2>. QED
    BY <2>1, <2>2
<1>10. IsGrid(g, time)
  BY DEF IsAround
<1>. HIDE DEF n, i, v, g, S, A, t, x, j, from
<1>11. CASE n.op \in Arithmetic \union AlwaysBool \union {"double", "select"}
  <2>1. v = [s \in S |-> Apply(n.op, n.type, t, AtSlot(x, s))]
    BY <1>1, <1>11, CallValues, KindsOfCall DEF g, S
  <2>2. n.op \notin AlwaysBool => \A k \in 1 .. A : t[k] # "text"
    <3>. SUFFICES ASSUME n.op \notin AlwaysBool PROVE \A k \in 1 .. A : t[k] # "text"
      OBVIOUS
    <3>1. "text" \notin Numeric /\ "text" \notin ClickTypes
      BY DEF Numeric, DoubleFamily, ClickTypes
    <3>2. CASE n.op \in Arithmetic
      BY <1>2, <3>1, <3>2 DEF Ruled, A
    <3>3. CASE n.op = "double"
      BY <1>2, <3>1, <3>3, OpsAre DEF Ruled, A
    <3>4. CASE n.op = "select"
      <4>1. A = 3
        BY <3>4, OpsAre DEF A
      <4>. QED
        BY <1>2, <3>1, <3>4, <4>1 DEF Ruled
    <3>. QED
      BY <1>11, <3>2, <3>3, <3>4
  <2>3. ASSUME NEW s \in S
        PROVE  Fits(n.type, i, v[s])
    <3>1. PICK y : y = AtSlot(x, s) /\ v[s] = Apply(n.op, n.type, t, y) /\ DOMAIN y = 1 .. Arity(n.op)
      BY <1>4, <2>1 DEF A
    <3>2. n.op \notin AlwaysBool => \A k \in 1 .. Arity(n.op) : Fits(t[k], j[k], y[k])
      BY <1>5, <2>2, <3>1 DEF A
    <3>3. n.op = "clamp" => Compare("GT", y[2], y[3]) = 0
      BY <1>9, <3>1
    <3>4. n.type \in ClickTypes => Apply(n.op, n.type, t, y) \in Clicks
      BY <1>9, <3>1
    <3>5. Fits(n.type, CallInterval(n.op, j, IF n.op = "double" THEN t[1] ELSE NoType),
               Apply(n.op, n.type, t, y))
      BY <1>2, <1>11, <3>1, <3>2, <3>3, <3>4, CallFits
    <3>. QED
      BY <1>8, <3>1, <3>5 DEF from
  <2>4. NodeFits(n.type, i, v) /\ DOMAIN v = S
    BY <2>1, <2>3 DEF NodeFits
  <2>. QED
    BY <2>4 DEF n, i, v, S, g
<1>12. CASE n.op \in Finalisers \union {"vector_log_mu"}
  <2>1. i = Unknown
    BY <1>8, <1>12, IsOverTime
  <2>2. n.type = "double"
    BY <1>2, <1>12 DEF Ruled
  <2>3. DOMAIN v = S /\ \A s \in S : v[s] \in Doubles
    <3>1. CASE n.op = "vector_log_mu"
      <4>1. v = [s \in S |-> LogMuAt(ClicksAt(g, s) - AtSlot(x, s)[2])]
        BY <1>1, <3>1, CallValues DEF g, S
      <4>2. ASSUME NEW s \in S
            PROVE  ClicksAt(g, s) - AtSlot(x, s)[2] \in Int
        <5>1. 2 \in 1 .. A /\ t[2] = "datey"
          BY <1>2, <3>1, KindsOfCall DEF Ruled, A
        <5>2. Fits("datey", j[2], AtSlot(x, s)[2])
          BY <1>5, <5>1
        <5>3. AtSlot(x, s)[2] \in Int
          BY <5>2, TypesAre DEF Fits
        <5>4. ClicksAt(g, s) \in Int
          BY <1>10, SlotFacts DEF S
        <5>. QED
          BY <5>3, <5>4
      <4>3. \A s \in S : LogMuAt(ClicksAt(g, s) - AtSlot(x, s)[2]) \in Doubles
        BY <4>2, TableIsRead
      <4>. QED
        BY <4>1, <4>3
    <3>2. CASE n.op \in Finalisers
      <4>1. A = 1 /\ t[1] \in Numeric
        BY <1>2, <3>2, KindsOfCall DEF Ruled, A, Finalisers
      <4>2. ASSUME NEW s \in S
            PROVE  AsNumber(t[1], AtSlot(x, s)[1]) \in Doubles
        <5>1. t[1] # "text"
          BY <4>1 DEF Numeric, DoubleFamily, ClickTypes
        <5>2. IsOfType(t[1], AtSlot(x, s)[1])
          BY <1>5, <4>1, <5>1 DEF Fits
        <5>. QED
          BY <4>1, <5>2, AsNumberIsADouble
      <4>3. CASE n.op = "integrate"
        <5>1. v = [s \in S |-> AddUp(Weighted(t, x, g))]
          BY <1>1, <4>3, CallValues DEF g, S
        <5>2. g.integrationSlots \in Nat
          BY <1>10 DEF IsGrid
        <5>3. ASSUME NEW s \in 1 .. g.integrationSlots
              PROVE  Times(AsNumber(t[1], AtSlot(x, s)[1]), Years(WidthOf(g, s))) \in Doubles
          <6>1. s \in S /\ Years(WidthOf(g, s)) \in Doubles
            BY <1>10, SlotFacts DEF S
          <6>. QED
            BY <4>2, <6>1, TimesFacts
        <5>4. Weighted(t, x, g) \in [1 .. g.integrationSlots -> Doubles]
          BY <5>3 DEF Weighted
        <5>5. Weighted(t, x, g) \in Seq(Doubles)
          BY <5>2, <5>4, MadeSeq
        <5>6. AddUp(Weighted(t, x, g)) \in Doubles
          BY <5>5, SumIsADouble
        <5>. QED
          BY <5>1, <5>6
      <4>4. CASE n.op = "died_value"
        <5>1. v = [s \in S |-> IF g.hasDeathSlot THEN AsNumber(t[1], AtSlot(x, SlotCount(g))[1]) ELSE 0]
          BY <1>1, <4>4, CallValues DEF g, S
        <5>2. g.hasDeathSlot => SlotCount(g) \in S
          BY <1>10, SlotFacts DEF S
        <5>. QED
          BY <4>2, <5>1, <5>2, NumberFacts
      <4>. QED
        BY <3>2, <4>3, <4>4 DEF Finalisers
    <3>. QED
      BY <1>12, <3>1, <3>2
  <2>4. \A s \in S : Fits("double", Unknown, v[s])
    BY <2>3, TypesAre, UnknownFits
  <2>5. NodeFits(n.type, i, v) /\ DOMAIN v = S
    BY <2>1, <2>2, <2>3, <2>4 DEF NodeFits
  <2>. QED
    BY <2>5 DEF n, i, v, S, g
<1>. QED
  BY <1>2, <1>11, <1>12, KindsOfCall

-----------------------------------------------------------------------------
(* The whole tree.                                                          *)

\* passPropagateIntervals, a node at a time.
BoundStep(c, found, id) ==
  [found EXCEPT ![id] = NodeInterval(c.nodes, id, c.scans, c.time, found)]
Bounding == INSTANCE DataInduction WITH madeOf <- BoundStep

\* The pass is such a loop.
LEMMA BoundsBy ==
  ASSUME NEW c
  PROVE  PropagateIntervals(c.nodes, c.scans, c.time)
           = Bounding!LoopOf(c, [id \in DOMAIN c.nodes |-> Unknown], ChildrenFirst(c.nodes))
BY DEF PropagateIntervals, Bounding!LoopOf, Bounding!Loop, Bounding!Steps, Loop, Steps, BoundStep

\* A node has a value at every slot.
LEMMA EverySlotHasAValue ==
  ASSUME NEW nodes, NEW id, NEW params, IsRuled(nodes, id, params), NEW around, NEW known
  PROVE  DOMAIN ValuesGiven(nodes, id, around, known) = Slots(around.grid)
<1>. DEFINE n == nodes[id]
<1>1. PICK x, t : ValuesGiven(nodes, id, around, known) = ValuesOf(n, t, around, x)
  BY DEF ValuesGiven
<1>2. \/ n.kind \in {"lit", "field", "time", "param", "obj"} /\ n.op = "none"
      \/ n.kind = "call"
  BY DEF IsRuled
<1>. HIDE DEF n
<1>3. CASE n.kind = "call"
  <2>1. CASE n.op \in Finalisers \union {"vector_log_mu"}
    BY <1>1, <1>3, <2>1, CallValues DEF Finalisers
  <2>2. CASE n.op \notin Finalisers \union {"vector_log_mu"}
    BY <1>1, <1>3, <2>2, CallValues
  <2>. QED
    BY <2>1, <2>2
<1>4. CASE n.kind \in {"lit", "field", "time", "param", "obj"} /\ n.op = "none"
  BY <1>1, <1>4, LeafValues
<1>. QED
  BY <1>2, <1>3, <1>4

\* A node that is no call has no arguments.
LEMMA LeavesHaveNoArguments ==
  ASSUME NEW nodes, NEW params, IsRuledTree(nodes, params)
  PROVE  LeavesAreBare(nodes)
BY DEF IsRuledTree, IsRuled, LeavesAreBare, IsCall

\* What the walk of the intervals has come to after n nodes.
IsBounded(nodes, order, n, known, found) ==
  /\ DOMAIN found = DOMAIN nodes
  /\ \A m \in 1 .. n : NodeFits(nodes[order[m]].type, found[order[m]], known[order[m]])

\* The interval of one more node, its arguments' values within theirs.
LEMMA OneMoreBounded ==
  ASSUME NEW nodes, NEW params, IsRuledTree(nodes, params),
         NEW order, IsOrder(nodes, order),
         NEW around, NEW scans, NEW time, IsAround(around, params, scans, time),
         NEW known, IsValued(nodes, around, order, Len(order), known),
         \A m \in 1 .. Len(order) : IsTame(nodes, order[m], around.grid, known),
         NEW n \in 0 .. Len(order) - 1, NEW found, IsBounded(nodes, order, n, known, found)
  PROVE  IsBounded(nodes, order, n + 1, known,
                   [found EXCEPT ![order[n + 1]] = NodeInterval(nodes, order[n + 1], scans, time, found)])
<1>. DEFINE id == order[n + 1]
            i == NodeInterval(nodes, id, scans, time, found)
            new == [found EXCEPT ![id] = i]
<1>1. /\ Len(order) \in Nat /\ n \in Nat /\ n + 1 \in 1 .. Len(order)
      /\ \A m \in 1 .. Len(order) : order[m] \in DOMAIN nodes
      /\ \A m \in 1 .. n : order[m] # id /\ m \in 1 .. Len(order)
  <2>1. order \in Seq(DOMAIN nodes)
    BY DEF IsOrder
  <2>2. Len(order) \in Nat /\ \A m \in 1 .. Len(order) : order[m] \in DOMAIN nodes
    BY <2>1, SeqFacts
  <2>3. n \in Nat /\ n + 1 \in 1 .. Len(order) /\ \A m \in 1 .. n : m \in 1 .. Len(order) /\ m # n + 1
    BY <2>2
  <2>. QED
    BY <2>2, <2>3 DEF IsOrder
<1>2. id \in DOMAIN nodes /\ IsRuled(nodes, id, params) /\ nodes[id].args \in Seq(DOMAIN nodes)
  BY <1>1 DEF IsRuledTree, IsArena
<1>3. known[id] = ValuesGiven(nodes, id, around, known)
  BY <1>1 DEF IsValued
<1>4. IsTame(nodes, id, around.grid, known)
  BY <1>1
<1>5. ASSUME NEW a \in Range(nodes[id].args)
      PROVE  NodeFits(nodes[a].type, found[a], known[a]) /\ DOMAIN known[a] = Slots(around.grid)
  <2>1. IsArena(nodes) /\ LeavesAreBare(nodes)
    BY LeavesHaveNoArguments DEF IsRuledTree
  <2>2. PICK p \in 1 .. Len(order) : p = n + 1
    BY <1>1
  <2>3. \A b \in Range(nodes[order[p]].args) : \E m \in 1 .. p - 1 : order[m] = b
    BY <2>1, ArgumentsAreBefore
  <2>4. PICK m \in 1 .. n : order[m] = a
    BY <1>1, <2>2, <2>3
  <2>5. IsRuled(nodes, a, params) /\ known[a] = ValuesGiven(nodes, a, around, known)
    BY <1>1, <2>4 DEF IsRuledTree, IsValued
  <2>6. DOMAIN known[a] = Slots(around.grid)
    BY <2>5, EverySlotHasAValue
  <2>. QED
    BY <2>4, <2>6 DEF IsBounded
<1>6. NodeFits(nodes[id].type, i, known[id])
  <2>. HIDE DEF id
  <2>1. CASE IsCall(nodes[id])
    BY <1>2, <1>3, <1>4, <1>5, <2>1, CallNodeFits
  <2>2. CASE ~IsCall(nodes[id])
    BY <1>2, <1>3, <1>4, <2>2, LeafFits
  <2>. QED
    BY <2>1, <2>2
<1>. HIDE DEF i
<1>7. DOMAIN new = DOMAIN nodes /\ new[id] = i /\ \A other \in DOMAIN nodes : other # id => new[other] = found[other]
  BY <1>2 DEF IsBounded
<1>. HIDE DEF new
<1>8. ASSUME NEW m \in 1 .. n + 1
      PROVE  NodeFits(nodes[order[m]].type, new[order[m]], known[order[m]])
  <2>1. CASE m = n + 1
    BY <1>6, <1>7, <2>1
  <2>2. CASE m # n + 1
    <3>1. m \in 1 .. n
      BY <1>1, <2>2
    <3>. QED
      BY <1>1, <1>7, <3>1 DEF IsBounded
  <2>. QED
    BY <2>1, <2>2
<1>9. IsBounded(nodes, order, n + 1, known, new)
  BY <1>7, <1>8 DEF IsBounded
<1>. QED
  BY <1>9 DEF new, id, i

\* The soundness of passPropagateIntervals: in a tree whose conversions are in, every value of
\* a node lies in the interval it found, if no node clamps to bounds that are out of order and
\* no click is out of reach.
THEOREM IntervalsAreSound ==
  ASSUME NEW nodes, NEW params, IsRuledTree(nodes, params),
         NEW around, NEW scans, NEW time, IsAround(around, params, scans, time),
         NEW known, known = Evaluate(nodes, around),
         \A id \in DOMAIN nodes : DOMAIN known[id] # {} => IsTame(nodes, id, around.grid, known)
  PROVE  \A id \in DOMAIN nodes :
           NodeFits(nodes[id].type, PropagateIntervals(nodes, scans, time)[id], known[id])
<1>1. PICK c : c = [nodes |-> nodes, scans |-> scans, time |-> time]
  OBVIOUS
<1>2. c.nodes = nodes /\ c.scans = scans /\ c.time = time
  BY <1>1
<1>3. IsArena(nodes) /\ LeavesAreBare(nodes)
  BY LeavesHaveNoArguments DEF IsRuledTree
<1>4. PICK order : order = ChildrenFirst(nodes)
  OBVIOUS
<1>5. IsOrder(nodes, order) /\ IsValued(nodes, around, order, Len(order), known)
  BY <1>3, <1>4, ChildrenComeFirst, EvaluateSolves
<1>6. PICK L \in Nat : L = Len(order) /\ order \in Seq(DOMAIN nodes)
  BY <1>5 DEF IsOrder
<1>7. \A m \in 1 .. L : order[m] \in DOMAIN nodes
  BY <1>6, SeqFacts
<1>8. CASE Slots(around.grid) = {}
  <2>1. ASSUME NEW id \in DOMAIN nodes
        PROVE  DOMAIN known[id] = {}
    <3>1. CASE \E m \in 1 .. L : order[m] = id
      <4>1. known[id] = ValuesGiven(nodes, id, around, known) /\ IsRuled(nodes, id, params)
        BY <1>5, <1>6, <3>1 DEF IsValued, IsRuledTree
      <4>. QED
        BY <1>8, <4>1, EverySlotHasAValue
    <3>2. CASE \A m \in 1 .. L : order[m] # id
      BY <1>5, <1>6, <3>2 DEF IsValued
    <3>. QED
      BY <3>1, <3>2
  <2>. QED
    BY <2>1 DEF NodeFits
<1>9. CASE Slots(around.grid) # {}
  <2>1. ASSUME NEW m \in 1 .. L
        PROVE  IsTame(nodes, order[m], around.grid, known)
    <3>1. order[m] \in DOMAIN nodes /\ known[order[m]] = ValuesGiven(nodes, order[m], around, known)
          /\ IsRuled(nodes, order[m], params)
      BY <1>5, <1>6, <1>7 DEF IsValued, IsRuledTree
    <3>2. DOMAIN known[order[m]] # {}
      BY <1>9, <3>1, EverySlotHasAValue
    <3>. QED
      BY <3>1, <3>2
  <2>. DEFINE none == [id \in DOMAIN nodes |-> Unknown]
  <2>2. PropagateIntervals(nodes, scans, time) = Bounding!LoopOf(c, none, order)
    BY <1>2, <1>4, BoundsBy
  <2>3. PICK h : Bounding!IsRun(h, L, c, none, order) /\ Bounding!LoopOf(c, none, order) = h[L]
    BY <1>6, Bounding!LoopRuns
  <2>4. h[0] = none /\ \A n \in 1 .. L : h[n] = BoundStep(c, h[n - 1], order[n])
    BY <2>3 DEF Bounding!IsRun
  <2>. DEFINE S == {n \in 0 .. L : IsBounded(nodes, order, n, known, h[n])}
  <2>5. 0 \in S
    BY <2>4 DEF IsBounded
  <2>6. ASSUME NEW n \in 0 .. L - 1, n \in S
        PROVE  n + 1 \in S
    <3>1. n + 1 \in 1 .. L /\ n + 1 \in 0 .. L /\ (n + 1) - 1 = n /\ n \in 0 .. Len(order) - 1
      BY <1>6
    <3>2. IsBounded(nodes, order, n, known, h[n])
      BY <2>6
    <3>3. h[n + 1] = [h[n] EXCEPT ![order[n + 1]] = NodeInterval(nodes, order[n + 1], scans, time, h[n])]
      BY <1>2, <2>4, <3>1 DEF BoundStep
    <3>4. IsBounded(nodes, order, n + 1, known, h[n + 1])
      BY <1>5, <1>6, <2>1, <3>1, <3>2, <3>3, OneMoreBounded
    <3>. QED
      BY <3>1, <3>4
  <2>. HIDE DEF S
  <2>7. L \in S
    <3>1. 0 .. L \subseteq S
      BY <2>5, <2>6, UpTo
    <3>. QED
      BY <3>1
  <2>8. IsBounded(nodes, order, L, known, h[L])
    BY <2>7 DEF S
  <2>9. ASSUME NEW id \in DOMAIN nodes
        PROVE  NodeFits(nodes[id].type, h[L][id], known[id])
    <3>1. CASE \E m \in 1 .. L : order[m] = id
      BY <2>8, <3>1 DEF IsBounded
    <3>2. CASE \A m \in 1 .. L : order[m] # id
      BY <1>5, <1>6, <3>2 DEF IsValued, NodeFits
    <3>. QED
      BY <3>1, <3>2
  <2>. QED
    BY <2>2, <2>3, <2>9
<1>. QED
  BY <1>8, <1>9

-----------------------------------------------------------------------------
(* What a tree is evaluated with.                                           *)

\* A finite set of doubles that are numbers has ends.
LEMMA EndsOfASet ==
  ASSUME NEW S \in SUBSET Numbers, S # {}
  PROVE  /\ Min(S) \in S /\ \A x \in S : Min(S) <= x
         /\ Max(S) \in S /\ \A x \in S : x <= Max(S)
<1>1. \A x \in S : x \in Int /\ -Inf <= x /\ x <= Inf
  BY NumberFacts DEF Numbers
<1>2. \E m \in S : \A x \in S : m <= x
  <2>. DEFINE T == {x + Inf : x \in S}
  <2>1. T \in SUBSET Nat /\ T # {}
    BY <1>1, NumberFacts
  <2>2. PICK n \in T : \A k \in T : n <= k
    <3>. HIDE DEF T
    <3>. QED
      BY <2>1, LeastNatural
  <2>3. PICK m \in S : n = m + Inf
    BY <2>2
  <2>4. ASSUME NEW x \in S PROVE m <= x
    <3>1. m + Inf <= x + Inf
      BY <2>2, <2>3
    <3>. QED
      BY <3>1, <1>1, NumberFacts
  <2>. QED
    BY <2>4
<1>3. \E m \in S : \A x \in S : m >= x
  <2>. DEFINE T == {Inf - x : x \in S}
  <2>1. T \in SUBSET Nat /\ T # {}
    BY <1>1, NumberFacts
  <2>2. PICK n \in T : \A k \in T : n <= k
    <3>. HIDE DEF T
    <3>. QED
      BY <2>1, LeastNatural
  <2>3. PICK m \in S : n = Inf - m
    BY <2>2
  <2>4. ASSUME NEW x \in S PROVE m >= x
    <3>1. Inf - m <= Inf - x
      BY <2>2, <2>3
    <3>. QED
      BY <3>1, <1>1, NumberFacts
  <2>. QED
    BY <2>4
<1>4. Min(S) \in S /\ \A x \in S : Min(S) <= x
  BY <1>2 DEF Min
<1>5. Max(S) \in S /\ \A x \in S : Max(S) >= x
  BY <1>3 DEF Max
<1>. QED
  BY <1>1, <1>4, <1>5

\* A column's interval is one its type may have, and every value of it is in it.
LEMMA ColumnFits ==
  ASSUME NEW type \in {"double", "bool", "category"} \union ClickTypes,
         NEW values, \A v \in values : IsOfType(type, v), NEW v \in values
  PROVE  Fits(type, ColumnInterval(Scan(type, values)), v)
<1>. DEFINE s == Scan(type, values)
            present == IF type \in ClickTypes \union {"double"}
                       THEN {u \in values : IsMissing(type, u) = 0} ELSE values
<1>1. /\ s.hasNAs = (present # values) /\ s.hasValues = (present # {})
      /\ s.min = (IF present = {} THEN Inf ELSE Min(present))
      /\ s.max = (IF present = {} THEN -Inf ELSE Max(present))
  BY DEF Scan
<1>2. IsOfType(type, v)
  OBVIOUS
<1>. HIDE DEF s
<1>3. CASE s.hasNAs \/ ~s.hasValues
  BY <1>2, <1>3, UnknownFits DEF ColumnInterval, s
<1>4. CASE ~s.hasNAs /\ s.hasValues
  <2>1. present = values
    BY <1>1, <1>4
  <2>2. \A u \in values : u \in Numbers
    <3>. SUFFICES ASSUME NEW u \in values PROVE u \in Numbers
      OBVIOUS
    <3>1. IsOfType(type, u)
      OBVIOUS
    <3>2. CASE type = "double"
      <4>1. IsMissing(type, u) = 0
        BY <2>1, <3>2
      <4>2. u # NaN
        BY <3>2, <4>1, TypesAre DEF IsMissing, Truth
      <4>. QED
        BY <3>1, <3>2, <4>2, TypesAre, DoublesAre
    <3>3. CASE type = "bool"
      BY <3>1, <3>3, TypesAre, NumberFacts
    <3>4. CASE type \notin {"double", "bool"}
      BY <3>1, <3>4, TypesAre
    <3>. QED
      BY <3>2, <3>3, <3>4
  <2>3. PICK lo, hi : lo = s.min /\ hi = s.max
    OBVIOUS
  <2>4. lo \in values /\ hi \in values /\ \A u \in values : lo <= u /\ u <= hi
    <3>. HIDE DEF present
    <3>1. lo = Min(values) /\ hi = Max(values)
      BY <1>1, <2>1, <2>3
    <3>2. values \in SUBSET Numbers /\ values # {}
      BY <2>2
    <3>. QED
      BY <3>1, <3>2, EndsOfASet
  <2>5. lo \in Numbers /\ hi \in Numbers /\ v \in Numbers /\ lo <= v /\ v <= hi /\ lo <= hi
    BY <2>2, <2>4
  <2>6. ColumnInterval(s) = [lo |-> lo, hi |-> hi]
    BY <1>4, <2>3, <2>5, NumberFacts DEF ColumnInterval, Sanitised
  <2>7. type = "bool" => lo \in {0, 1} /\ hi \in {0, 1}
    BY <2>4, TypesAre
  <2>. HIDE DEF present
  <2>8. Fits(type, [lo |-> lo, hi |-> hi], v)
    BY <1>2, <2>5, <2>7, NumberFacts DEF Fits, IntervalFits, Intervals, Bounds
  <2>. QED
    BY <2>6, <2>8 DEF s
<1>. QED
  BY <1>1, <1>3, <1>4

\* Every slot of an exposure is within it.
LEMMA SlotsAreWithin ==
  ASSUME NEW e \in [start : Int, end : Int, died : BOOLEAN], ~Unusable(e), NEW dt \in TimeScales
  PROVE  LET g == BuildTimeGrid(e, dt)
         IN /\ g.integrationSlots \in Nat /\ g.hasDeathSlot \in BOOLEAN
            /\ \A s \in 1 .. g.integrationSlots : WidthOf(g, s) \in Int
            /\ \A s \in Slots(g) :
                 ClicksAt(g, s) \in Int /\ e.start <= ClicksAt(g, s) /\ ClicksAt(g, s) <= e.end
<1>1. PICK s \in Int, t \in Int : s = e.start /\ t = e.end /\ s < t
  BY DEF Unusable
<1>2. dt \in Nat /\ dt > 0 /\ dt % 2 = 0
  <2>1. PICK n \in IntervalsPerYear : dt = ClicksPerYear \div n
    BY DEF TimeScales
  <2>2. n \in Nat /\ n > 0 /\ ClicksPerYear \in Nat
    BY WholeClicks
  <2>3. dt \in Nat
    BY <2>1, <2>2, DivisionWithRemainder
  <2>. QED
    BY <2>1, <2>3, WholeClicks
<1>3. PICK half \in Int : half = dt \div 2 /\ 2 * half = dt
  BY <1>2, EvenIsTwiceItsHalf
<1>4. PICK full \in Nat, rest \in Nat, width \in Nat :
        /\ full = (t - s) \div dt /\ rest = (t - s) % dt
        /\ width = full * dt /\ t = s + width + rest /\ rest < dt
  <2>1. PICK w \in Nat : w = t - s
    BY <1>1
  <2>2. w \div dt \in Nat /\ w % dt \in Nat /\ w = (w \div dt) * dt + (w % dt) /\ w % dt < dt
    BY <1>2, DivisionWithRemainder
  <2>3. PICK q \in Nat : q = w \div dt
    BY <2>2
  <2>4. q * dt \in Nat
    BY <1>2
  <2>. QED
    BY <1>1, <2>1, <2>2, <2>3, <2>4
<1>5. PICK g : g = BuildTimeGrid(e, dt)
  OBVIOUS
<1>6. PICK slots \in Nat : slots = full + (IF rest > 0 THEN 1 ELSE 0)
  OBVIOUS
<1>7. /\ g.fullSlots = full /\ g.integrationSlots = slots /\ g.hasDeathSlot = e.died
      /\ g.firstSlot = s + half /\ g.deltaT = dt /\ g.finalWidth = rest /\ g.deathSlot = t
      /\ rest > 0 => g.finalSlot = HalveClicks(s + width + t)
  BY <1>1, <1>3, <1>4, <1>5, <1>6 DEF BuildTimeGrid, HasRemainder
<1>8. ASSUME NEW n \in 1 .. full
      PROVE  s <= s + half + (n - 1) * dt /\ s + half + (n - 1) * dt <= t
             /\ s + half + (n - 1) * dt \in Int
  <2>1. PICK m \in Nat, k \in Nat : m = n - 1 /\ full = m + k /\ k >= 1
    <3>1. n - 1 \in Nat /\ full - (n - 1) \in Nat /\ full - (n - 1) >= 1 /\ full = (n - 1) + (full - (n - 1))
      OBVIOUS
    <3>. QED
      BY <3>1
  <2>2. PICK before \in Nat, after \in Nat : before = m * dt /\ after = k * dt /\ after >= dt
    <3>1. PICK j \in Nat : k = j + 1
      <4>1. k - 1 \in Nat /\ k = (k - 1) + 1
        BY <2>1
      <4>. QED
        BY <4>1
    <3>2. k * dt = j * dt + dt /\ j * dt \in Nat /\ m * dt \in Nat
      BY <1>2, <3>1
    <3>. QED
      BY <1>2, <3>2
  <2>3. width = before + after
    <3>1. full * dt = m * dt + k * dt
      BY <1>2, <2>1
    <3>. QED
      BY <1>4, <2>2, <3>1
  <2>4. (n - 1) * dt = before
    BY <2>1, <2>2
  <2>5. t = s + before + after + rest /\ 0 <= half /\ half <= dt
    BY <1>2, <1>3, <1>4, <2>3
  <2>6. s <= s + half + before /\ s + half + before <= t /\ s + half + before \in Int
    BY <1>2, <2>2, <2>5
  <2>. QED
    BY <2>4, <2>6
<1>9. rest > 0 => s <= HalveClicks(s + width + t) /\ HalveClicks(s + width + t) <= t
                  /\ HalveClicks(s + width + t) \in Int
  <2>1. PICK v \in Int : v = s + width + t
    BY <1>1, <1>4
  <2>2. v \div 2 \in Int /\ (v \div 2) % 2 \in {0, 1} /\ (v + ((v \div 2) % 2)) \div 2 \in Int
    OBVIOUS
  <2>3. PICK up \in {0, 1} : up = (v \div 2) % 2
    BY <2>2
  <2>4. PICK h \in Int : h = (v + up) \div 2 /\ 2 * h <= v + up /\ v + up <= 2 * h + 1
    <3>1. PICK y \in Int : y = v + up
      BY <2>3
    <3>2. y \div 2 \in Int /\ 2 * (y \div 2) <= y /\ y <= 2 * (y \div 2) + 1
      OBVIOUS
    <3>. QED
      BY <3>1, <3>2
  <2>5. HalveClicks(v) = h
    BY <2>3, <2>4 DEF HalveClicks
  <2>6. rest > 0 => 2 * s < v /\ v < 2 * t
    <3>1. t = s + width + rest
      BY <1>4
    <3>. QED
      BY <2>1, <3>1
  <2>7. rest > 0 => s <= h /\ h <= t
    BY <1>1, <2>3, <2>4, <2>6
  <2>. QED
    BY <2>1, <2>5, <2>7
<1>10. ASSUME NEW n \in Slots(g)
       PROVE  ClicksAt(g, n) \in Int /\ s <= ClicksAt(g, n) /\ ClicksAt(g, n) <= t
  <2>1. n \in Nat /\ n >= 1 /\ n <= slots + 1
    BY <1>7 DEF Slots, SlotCount
  <2>2. CASE n <= full
    <3>1. ClicksAt(g, n) = s + half + (n - 1) * dt
      BY <1>7, <2>2 DEF ClicksAt
    <3>. QED
      BY <1>8, <2>1, <2>2, <3>1
  <2>3. CASE n > full /\ n <= slots
    <3>1. rest > 0
      BY <1>6, <2>1, <2>3
    <3>2. ClicksAt(g, n) = HalveClicks(s + width + t)
      BY <1>7, <2>1, <2>3, <3>1 DEF ClicksAt
    <3>. QED
      BY <1>9, <3>1, <3>2
  <2>4. CASE n > full /\ n > slots
    <3>1. ClicksAt(g, n) = t
      BY <1>7, <2>1, <2>4 DEF ClicksAt
    <3>. QED
      BY <1>1, <3>1
  <2>. QED
    BY <2>1, <2>2, <2>3, <2>4
<1>11. \A n \in 1 .. slots : WidthOf(g, n) \in Int
  BY <1>2, <1>7 DEF WidthOf
<1>12. g.integrationSlots \in Nat /\ g.hasDeathSlot \in BOOLEAN
  BY <1>7
<1>. QED
  BY <1>1, <1>5, <1>7, <1>10, <1>11, <1>12

\* What ValuesBefore evaluates a tree with.
AroundOf(row) ==
  [row |-> row, beta |-> J.beta,
   grid |-> IF exposure.given THEN BuildTimeGrid(WholeExposure(row, exposure), exposure.scale)
            ELSE OneSample]

\* A click between the first and the last, in their interval.
LEMMA ClickFits ==
  ASSUME NEW lo \in Numbers, NEW hi \in Numbers, NEW c \in Int, lo <= c, c <= hi,
         FirstClick <= c, c <= LastClick
  PROVE  Fits("datey", [lo |-> lo, hi |-> hi], c)
<1>1. -Inf < FirstClick /\ LastClick < Inf /\ FirstClick \in Int /\ LastClick \in Int
  BY JobsAssumption, WholeClicks
<1>2. c \in 1 - Inf .. Inf - 1
  BY <1>1, NumberFacts
<1>3. "datey" # "double" /\ "datey" # "bool"
  OBVIOUS
<1>4. IsOfType("datey", c)
  BY <1>2, <1>3, TypesAre
<1>5. IntervalFits("datey", [lo |-> lo, hi |-> hi])
  BY <1>3, NumberFacts DEF IntervalFits, Intervals
<1>6. Bounds([lo |-> lo, hi |-> hi], c)
  BY DEF Bounds
<1>. QED
  BY <1>4, <1>5, <1>6 DEF Fits

\* No time is sampled outside the interval it is said to be in.
LEMMA TimeFits ==
  ASSUME job \in DOMAIN Jobs, exposure = J.exposure, NEW row \in J.data
  PROVE  IsGrid(AroundOf(row).grid, TimeInterval)
<1>. DEFINE g == AroundOf(row).grid
<1>1. FirstClick \in Numbers /\ LastClick \in Numbers /\ FirstClick \in Int /\ LastClick \in Int
      /\ FirstClick <= LastClick
  BY JobsAssumption, WholeClicks, NumberFacts, TableAssumption DEF Numbers
<1>2. J = Jobs[job] /\ IsExposure(exposure, J.data) /\ exposure.given \in BOOLEAN
      /\ (J.recipe \in Answering => exposure.given)
      /\ \A column \in DOMAIN ColumnTypes :
           /\ ColumnTypes[column] \in {"double", "bool", "category"} \union ClickTypes
           /\ \A r \in J.data : IsOfType(ColumnTypes[column], r[column])
  BY JobsAssumption DEF J
<1>3. CASE ~exposure.given
  <2>1. TimeInterval = [lo |-> FirstClick, hi |-> LastClick]
    BY <1>2, <1>3 DEF TimeInterval
  <2>2. g = OneSample
    BY <1>3 DEF AroundOf
  <2>3. OneSample.integrationSlots = 1 /\ OneSample.fullSlots = 1 /\ OneSample.hasDeathSlot = FALSE
        /\ OneSample.firstSlot = FirstClick /\ OneSample.deltaT = 0
    BY DEF OneSample, EmptyTimeGrid
  <2>4. Slots(OneSample) = {1}
    BY <2>3 DEF Slots, SlotCount
  <2>5. ClicksAt(OneSample, 1) = FirstClick
    BY <1>1, <2>3 DEF ClicksAt
  <2>6. \A s \in 1 .. 1 : WidthOf(OneSample, s) = 0
    BY <2>3 DEF WidthOf
  <2>7. Fits("datey", [lo |-> FirstClick, hi |-> LastClick], FirstClick)
    BY <1>1, ClickFits
  <2>8. PICK grid : grid = OneSample
    OBVIOUS
  <2>9. \A s \in Slots(grid) : Fits("datey", TimeInterval, ClicksAt(grid, s))
    BY <2>1, <2>4, <2>5, <2>7, <2>8
  <2>10. /\ grid.integrationSlots \in Nat /\ grid.hasDeathSlot \in BOOLEAN
         /\ \A s \in 1 .. grid.integrationSlots : WidthOf(grid, s) \in Int
    <3>1. grid.integrationSlots = 1 /\ grid.hasDeathSlot = FALSE
      BY <2>3, <2>8
    <3>2. \A s \in 1 .. 1 : WidthOf(grid, s) \in Int
      BY <2>6, <2>8
    <3>3. grid.integrationSlots \in Nat
      BY <3>1
    <3>4. grid.hasDeathSlot \in BOOLEAN
      BY <3>1, Zenon
    <3>. QED
      BY <3>1, <3>2, <3>3, <3>4, Zenon
  <2>11. IsGrid(grid, TimeInterval)
    BY <2>9, <2>10 DEF IsGrid
  <2>. QED
    BY <2>2, <2>8, <2>11
<1>4. CASE exposure.given
  <2>. DEFINE e == WholeExposure(row, exposure)
              start == ColumnInterval(Scans[exposure.start])
              end == ColumnInterval(Scans[exposure.end])
  <2>1. /\ exposure.scale \in TimeScales
        /\ exposure.start \in DOMAIN ColumnTypes /\ exposure.end \in DOMAIN ColumnTypes
        /\ ColumnTypes[exposure.start] = "datey" /\ ColumnTypes[exposure.end] = "datey"
        /\ ~Unusable(e)
    BY <1>2, <1>4 DEF IsExposure
  <2>2. g = BuildTimeGrid(e, exposure.scale)
    BY <1>4 DEF AroundOf
  <2>3. e.start = row[exposure.start] /\ e.end = row[exposure.end]
    BY DEF WholeExposure
  <2>4. \A c \in {exposure.start, exposure.end} :
          Fits("datey", ColumnInterval(Scans[c]), row[c])
    <3>. SUFFICES ASSUME NEW c \in {exposure.start, exposure.end}
                  PROVE  Fits("datey", ColumnInterval(Scans[c]), row[c])
      OBVIOUS
    <3>1. PICK values : values = {r[c] : r \in J.data}
      OBVIOUS
    <3>2. c \in DOMAIN ColumnTypes /\ ColumnTypes[c] = "datey" /\ Scans[c] = Scan("datey", values)
      BY <2>1, <3>1 DEF Scans
    <3>3. (\A v \in values : IsOfType("datey", v)) /\ row[c] \in values
      BY <1>2, <3>1, <3>2
    <3>4. "datey" \in {"double", "bool", "category"} \union ClickTypes
      BY DEF ClickTypes
    <3>. QED
      BY <3>2, <3>3, <3>4, ColumnFits
  <2>5. /\ e.start \in Int /\ e.end \in Int /\ e.start < e.end
        /\ FirstClick <= e.start /\ e.end <= LastClick
        /\ start.lo \in Numbers /\ start.lo <= e.start
        /\ end.hi \in Numbers /\ e.end <= end.hi
    <3>1. "datey" \notin {"double", "bool"}
      OBVIOUS
    <3>2. \A c \in {exposure.start, exposure.end} :
            /\ row[c] \in Int /\ row[c] # NaN
            /\ ColumnInterval(Scans[c]).lo \in Numbers /\ ColumnInterval(Scans[c]).hi \in Numbers
            /\ ColumnInterval(Scans[c]).lo <= row[c] /\ row[c] <= ColumnInterval(Scans[c]).hi
      BY <2>4, <3>1, TypesAre DEF Fits, Bounds
    <3>3. e.start \in Int /\ e.end \in Int /\ start.lo \in Numbers /\ end.hi \in Numbers
          /\ start.lo <= e.start /\ e.end <= end.hi
      BY <2>3, <3>2
    <3>4. FirstClick <= e.start /\ e.end <= LastClick /\ ~(e.end <= e.start)
      BY <2>1 DEF Unusable, IsValidDatey
    <3>. QED
      BY <3>3, <3>4
  <2>6. e \in [start : Int, end : Int, died : BOOLEAN]
    BY <2>3, <2>5 DEF WholeExposure
  <2>7. TimeInterval.lo \in Numbers /\ TimeInterval.hi \in Numbers
        /\ TimeInterval = [lo |-> TimeInterval.lo, hi |-> TimeInterval.hi]
        /\ TimeInterval.lo <= e.start /\ e.end <= TimeInterval.hi
    <3>1. CASE J.recipe \in Answering
      <4>1. TimeInterval = [lo |-> IF Infinite(start.lo) THEN FirstClick ELSE start.lo,
                            hi |-> IF Infinite(end.hi) THEN LastClick ELSE end.hi]
        BY <3>1 DEF TimeInterval, ExposureInterval
      <4>. HIDE DEF start, end, e
      <4>. QED
        BY <1>1, <2>5, <4>1
    <3>2. CASE J.recipe \notin Answering
      <4>1. TimeInterval = [lo |-> FirstClick, hi |-> LastClick]
        BY <3>2 DEF TimeInterval
      <4>. HIDE DEF start, end, e
      <4>. QED
        BY <1>1, <2>5, <4>1
    <3>. QED
      BY <3>1, <3>2
  <2>. HIDE DEF e, start, end
  <2>8. PICK grid : grid = BuildTimeGrid(e, exposure.scale)
    OBVIOUS
  <2>9. /\ grid.integrationSlots \in Nat /\ grid.hasDeathSlot \in BOOLEAN
        /\ \A s \in 1 .. grid.integrationSlots : WidthOf(grid, s) \in Int
        /\ \A s \in Slots(grid) :
             ClicksAt(grid, s) \in Int /\ e.start <= ClicksAt(grid, s) /\ ClicksAt(grid, s) <= e.end
    BY <2>1, <2>6, <2>8, SlotsAreWithin
  <2>10. ASSUME NEW s \in Slots(grid)
         PROVE  Fits("datey", TimeInterval, ClicksAt(grid, s))
    <3>1. PICK c \in Int : c = ClicksAt(grid, s) /\ e.start <= c /\ c <= e.end
      BY <2>9
    <3>2. PICK lo \in Numbers, hi \in Numbers :
            lo = TimeInterval.lo /\ hi = TimeInterval.hi /\ TimeInterval = [lo |-> lo, hi |-> hi]
      BY <2>7
    <3>3. lo <= c /\ c <= hi /\ FirstClick <= c /\ c <= LastClick
      BY <1>1, <2>5, <2>7, <3>1, <3>2, NumberFacts
    <3>4. Fits("datey", [lo |-> lo, hi |-> hi], c)
      BY <3>3, ClickFits
    <3>. QED
      BY <3>1, <3>2, <3>4
  <2>11. IsGrid(grid, TimeInterval)
    BY <2>9, <2>10 DEF IsGrid
  <2>. QED
    BY <2>2, <2>8, <2>11
<1>. QED
  BY <1>2, <1>3, <1>4

\* Whoever the individual.
THEOREM RowsAreWithin ==
  ASSUME job \in DOMAIN Jobs, exposure = J.exposure, NEW row \in J.data
  PROVE  IsAround(AroundOf(row), DOMAIN J.beta, Scans, TimeInterval)
<1>1. IsGrid(AroundOf(row).grid, TimeInterval)
  BY TimeFits
<1>2. ASSUME NEW column \in DOMAIN ColumnTypes
      PROVE  Fits(ColumnTypes[column], ColumnInterval(Scans[column]), row[column])
  <2>1. PICK values : values = {r[column] : r \in J.data}
    OBVIOUS
  <2>2. Scans[column] = Scan(ColumnTypes[column], values)
    BY <2>1 DEF Scans
  <2>3. /\ ColumnTypes[column] \in {"double", "bool", "category"} \union ClickTypes
        /\ \A v \in values : IsOfType(ColumnTypes[column], v)
    BY <2>1, JobsAssumption DEF J
  <2>4. row[column] \in values
    BY <2>1
  <2>. QED
    BY <2>2, <2>3, <2>4, ColumnFits
<1>3. \A p \in DOMAIN J.beta : J.beta[p] \in Doubles
  BY JobsAssumption DEF J, IsDouble, Doubles
<1>4. AroundOf(row).row = row /\ AroundOf(row).beta = J.beta
  BY DEF AroundOf
<1>. QED
  BY <1>1, <1>2, <1>3, <1>4 DEF IsAround

-----------------------------------------------------------------------------
(* What the passes make of a tree.                                          *)

\* A node has the fields of one, and no other.
IsNode(n) == n = Node(n.kind, n.op, n.args, n.val, n.type)

\* The types a branch of a select may have, and those of any node.
Branches == {"double", "bool", "category"} \union ClickTypes
Types == {NoType, IllTyped, "text"} \union Branches

\* How the types of a call and its arguments go together before the conversions are in.
Loose(op, type, t) ==
  /\ op \in AlwaysBool => type = "bool"
  /\ op \in Arithmetic =>
       \/ type = "double" /\ \A k \in 1 .. Arity(op) : t[k] \in Numeric
       \/ type \in ClickTypes /\ op \in ClickOps /\ \A k \in 1 .. Arity(op) : t[k] \in ClickTypes
  /\ op = "double" => type = "double" /\ t[1] \in Numeric
  /\ op = "select" =>
       /\ t[1] = "bool" /\ type \in Branches
       /\ (t[2] = type /\ t[3] = type) \/ (type = "double" /\ t[2] \in Numeric /\ t[3] \in Numeric)
  /\ op \in Finalisers => type = "double" /\ t[1] \in Numeric
  /\ op = "vector_log_mu" => type = "double" /\ t[2] = "datey"

\* What a node is, but for the types of a call's arguments.
IsShaped(n, params) ==
  \/ /\ n.kind = "lit" /\ n.op = "none" /\ n.args = <<>>
     /\ n.type \in {"text"} \union ClickTypes \/ IsOfType(n.type, n.val)
  \/ /\ n.kind = "field" /\ n.op = "none" /\ n.args = <<>>
     /\ n.val \in DOMAIN ColumnTypes /\ n.type = ColumnTypes[n.val]
  \/ n.kind = "time" /\ n.op = "none" /\ n.args = <<>> /\ n.type = "datey"
  \/ n.kind = "param" /\ n.op = "none" /\ n.args = <<>> /\ n.val \in params /\ n.type = "double"
  \/ n.kind = "obj" /\ n.op = "none" /\ n.args = <<>> /\ n.type = NoType
  \/ n.kind = "call" /\ n.op \in Calculations /\ Len(n.args) = Arity(n.op)

\* A node before the conversions, and a tree of them.
IsLoose(nodes, id, params) ==
  /\ IsShaped(nodes[id], params)
  /\ IsCall(nodes[id]) => Loose(nodes[id].op, nodes[id].type, TypesOf(nodes, nodes[id].args))

IsLooseTree(nodes, params) ==
  IsArena(nodes) /\ \A id \in DOMAIN nodes : IsNode(nodes[id]) /\ IsLoose(nodes, id, params)

\* A tree the conversions have been through.
IsStrictTree(nodes, params) ==
  IsRuledTree(nodes, params) /\ \A id \in DOMAIN nodes : IsNode(nodes[id])

\* A node after the conversions, put as it is before them.
LEMMA RuledIs ==
  ASSUME NEW nodes, NEW id, NEW params
  PROVE  IsRuled(nodes, id, params) <=>
           /\ IsShaped(nodes[id], params)
           /\ IsCall(nodes[id]) => Ruled(nodes[id].op, nodes[id].type, TypesOf(nodes, nodes[id].args))
BY DEF IsRuled, IsShaped, IsCall

\* A node is what it is made of.
LEMMA NodeIs ==
  ASSUME NEW kind, NEW op, NEW args, NEW val, NEW type
  PROVE  LET n == Node(kind, op, args, val, type)
         IN /\ n.kind = kind /\ n.op = op /\ n.args = args /\ n.val = val /\ n.type = type
            /\ IsNode(n)
BY DEF Node, IsNode

\* The types are apart.
LEMMA TypeNames ==
  /\ NoType \notin Numeric /\ NoType \notin Branches /\ IllTyped \notin Branches /\ NoType # IllTyped
  /\ "text" \notin Branches /\ Numeric = {"double", "bool"} \union ClickTypes
  /\ Numeric \subseteq Branches /\ ClickTypes = {"datey", "durationy"}
  /\ "text" \notin Numeric /\ NoType # "datey" /\ NoType # "double" /\ NoType # "bool"
  /\ IllTyped # "datey" /\ IllTyped # "double" /\ IllTyped # "bool"
BY DEF NoType, IllTyped, Numeric, DoubleFamily, Branches, ClickTypes

\* What all elements of a sequence are.
LEMMA RangeFacts ==
  ASSUME NEW a, NEW n \in Nat, DOMAIN a = 1 .. n, NEW S
  PROVE  /\ Range(a) \subseteq S <=> \A k \in 1 .. n : a[k] \in S
         /\ \A k \in 1 .. n : a[k] \in Range(a)
         /\ \A x \in Range(a) : \E k \in 1 .. n : a[k] = x
BY DEF Range

\* How many arguments an operation has.
LEMMA ArityFacts ==
  ASSUME NEW op \in Calculations
  PROVE  /\ Arity(op) \in {1, 2, 3}
         /\ op \in Comparisons => Arity(op) = 2
         /\ op \in {"select", "clamp"} => Arity(op) = 3
         /\ op \in {"double", "is_na"} \union Finalisers => Arity(op) = 1
         /\ op = "vector_log_mu" => Arity(op) = 2
BY DEF Calculations, Arithmetic, Comparisons, Ordering, Logicals, Finalisers, Arity

\* What is made of clicks.
LEMMA ClickResultIs ==
  ASSUME NEW op \in Arithmetic, op \notin AlwaysDouble, NEW a, DOMAIN a = 1 .. Arity(op),
         \A k \in 1 .. Arity(op) : a[k] \in ClickTypes, ClickResult(op, a) # IllTyped
  PROVE  ClickResult(op, a) \in ClickTypes /\ op \in ClickOps
<1>1. Arity(op) \in Nat /\ 1 \in 1 .. Arity(op)
  BY DEF Arithmetic, Arity, Finalisers
<1>2. a[1] \in ClickTypes
  BY <1>1
<1>. QED
  BY <1>2 DEF ClickResult, ClickOps, ClickTypes, Arithmetic, AlwaysDouble, IllTyped

\* What a call comes to by its arguments' types, if it comes to a type at all.
LEMMA ResultIsLoose ==
  ASSUME NEW op \in Calculations \ {"vector_log_mu"}, NEW a, DOMAIN a = 1 .. Arity(op),
         \A k \in 1 .. Arity(op) : a[k] \in Types,
         NEW type, type = ResultType(op, a), type # IllTyped
  PROVE  /\ Loose(op, type, a) /\ type \in Types
         /\ \A k \in 1 .. Arity(op) : a[k] # NoType
<1>1. PICK n \in {1, 2, 3} : n = Arity(op)
  BY ArityFacts
<1>2. /\ \A S : Range(a) \subseteq S <=> \A k \in 1 .. n : a[k] \in S
      /\ \A k \in 1 .. n : a[k] \in Range(a)
      /\ \A x \in Range(a) : \E k \in 1 .. n : a[k] = x
  BY <1>1, RangeFacts
<1>3. {NoType, IllTyped} \intersect Range(a) = {}
  BY DEF ResultType
<1>4. \A k \in 1 .. n : a[k] # NoType /\ a[k] # IllTyped /\ a[k] \in Types
  BY <1>1, <1>2, <1>3
<1>5. CASE op \in AlwaysBool
  <2>1. op \notin Arithmetic /\ op # "double" /\ op # "select" /\ op \notin Finalisers
        /\ op # "vector_log_mu"
    BY <1>5 DEF AlwaysBool, Comparisons, Ordering, Logicals, Arithmetic, Finalisers
  <2>2. type = "bool"
    <3>1. CASE op \in Logicals
      BY <1>3, <3>1 DEF ResultType
    <3>2. CASE op = "is_na"
      BY <1>3, <3>2 DEF ResultType, Logicals
    <3>3. CASE op \in Comparisons
      <4>1. op \notin Logicals /\ op # "is_na"
        BY <3>3 DEF Comparisons, Ordering, Logicals
      <4>. QED
        BY <1>3, <3>3, <4>1 DEF ResultType
    <3>. QED
      BY <1>5, <3>1, <3>2, <3>3 DEF AlwaysBool
  <2>3. Loose(op, type, a)
    BY <2>1, <2>2 DEF Loose
  <2>. QED
    BY <1>1, <1>4, <2>2, <2>3 DEF Types, Branches
<1>8. CASE op = "select"
  <2>1. n = 3
    BY <1>1, <1>8, ArityFacts
  <2>2. a[1] = "bool" /\ type = BranchType(a[2], a[3])
    BY <1>3, <1>8 DEF ResultType, Logicals, Comparisons, Ordering
  <2>3. a[2] \in Types /\ a[3] \in Types /\ a[2] # NoType /\ a[3] # NoType /\ a[2] # IllTyped /\ a[3] # IllTyped
    BY <1>4, <2>1
  <2>4. /\ type \in Branches
        /\ (a[2] = type /\ a[3] = type) \/ (type = "double" /\ a[2] \in Numeric /\ a[3] \in Numeric)
    BY <2>2, <2>3, TypeNames DEF BranchType, Types, Branches, Numeric, DoubleFamily
  <2>5. Loose(op, type, a)
    BY <1>8, <2>2, <2>4 DEF Loose, AlwaysBool, Comparisons, Ordering, Logicals, Arithmetic, Finalisers
  <2>. QED
    BY <1>1, <1>4, <2>4, <2>5 DEF Types
<1>9. CASE op \in Arithmetic \union {"double"} \union Finalisers
  <2>1. op \notin Logicals /\ op # "is_na" /\ op \notin Comparisons /\ op # "select" /\ op \notin AlwaysBool
    BY <1>9 DEF Arithmetic, Finalisers, Logicals, Comparisons, Ordering, AlwaysBool
  <2>2. Range(a) \subseteq Numeric
    BY <1>3, <2>1 DEF ResultType
  <2>3. \A k \in 1 .. n : a[k] \in Numeric
    BY <1>2, <2>2
  <2>4. CASE op \in AlwaysDouble \/ Range(a) \intersect DoubleFamily # {}
    <3>1. type = "double"
      BY <1>3, <2>1, <2>2, <2>4 DEF ResultType
    <3>2. op \notin Arithmetic => n = 1
      BY <1>1, <1>9, ArityFacts
    <3>3. Loose(op, type, a)
      BY <1>1, <1>9, <2>1, <2>3, <3>1, <3>2 DEF Loose
    <3>. QED
      BY <1>1, <1>4, <3>1, <3>3 DEF Types, Branches
  <2>5. CASE op \notin AlwaysDouble /\ Range(a) \intersect DoubleFamily = {}
    <3>1. type = ClickResult(op, a)
      BY <1>3, <2>1, <2>2, <2>5 DEF ResultType
    <3>2. \A k \in 1 .. n : a[k] \in ClickTypes
      BY <1>2, <2>3, <2>5 DEF Numeric
    <3>3. op \in Arithmetic
      BY <1>9, <2>5 DEF AlwaysDouble
    <3>4. type \in ClickTypes /\ op \in ClickOps
      BY <1>1, <2>5, <3>1, <3>2, <3>3, ClickResultIs
    <3>5. Loose(op, type, a)
      BY <1>1, <2>1, <3>2, <3>3, <3>4 DEF Loose, Arithmetic, Finalisers
    <3>. QED
      BY <1>1, <1>4, <3>4, <3>5 DEF Types, Branches
  <2>. QED
    BY <2>4, <2>5
<1>. QED
  BY <1>5, <1>8, <1>9 DEF Calculations, AlwaysBool

-----------------------------------------------------------------------------
(* passAnnotateTypes.                                                       *)

\* passAnnotateTypes, a node at a time.
TypeStep(c, nodes, id) == Typed(nodes, id)
Typing == INSTANCE DataInduction WITH madeOf <- TypeStep

\* The pass is such a loop.
LEMMA AnnotatesBy ==
  ASSUME NEW nodes
  PROVE  AnnotateTypes(nodes) = Typing!LoopOf(0, nodes, Ids(nodes))
BY DEF AnnotateTypes, Typing!LoopOf, Typing!Loop, Typing!Steps, Loop, Steps, TypeStep

\* The arguments of a call whose types settled its own have theirs.
IsFixed(nodes, id) ==
  LET n == nodes[id]
      t == TypesOf(nodes, n.args)
  IN /\ Loose(n.op, n.type, t)
     /\ \A k \in 1 .. Arity(n.op) : t[k] # NoType \/ (n.op = "vector_log_mu" /\ k = 1)

\* A node, of another type.
SameBut(n, type) == Node(n.kind, n.op, n.args, n.val, type)

\* What the walk has made of the nodes after n of them.
IsTyping(nodes, n, typed, params) ==
  /\ typed = [id \in DOMAIN nodes |-> typed[id]]
  /\ \A id \in DOMAIN nodes :
       /\ typed[id] = SameBut(nodes[id], typed[id].type) /\ typed[id].type \in Types
       /\ id > n => typed[id] = nodes[id]
       /\ id <= n /\ typed[id].type # IllTyped =>
            IsShaped(typed[id], params) /\ (IsCall(typed[id]) => IsFixed(typed, id))

\* A call goes with any types that are its arguments' types.
LEMMA LooseAgrees ==
  ASSUME NEW op \in Calculations, NEW type, NEW t, NEW u, Loose(op, type, t),
         \A k \in 1 .. Arity(op) : u[k] = t[k] \/ (op = "vector_log_mu" /\ k = 1)
  PROVE  Loose(op, type, u)
<1>1. PICK n \in {1, 2, 3} : n = Arity(op) /\ \A k \in 1 .. n : u[k] = t[k] \/ (op = "vector_log_mu" /\ k = 1)
  BY ArityFacts
<1>2. op = "select" => n = 3
  BY <1>1, ArityFacts
<1>3. op \in {"double"} \union Finalisers => n = 1
  BY <1>1, ArityFacts
<1>4. op = "vector_log_mu" => n = 2
  BY <1>1, ArityFacts
<1>5. CASE op \in Arithmetic
  BY <1>1, <1>5 DEF Loose, AlwaysBool, Comparisons, Ordering, Logicals, Arithmetic, Finalisers
<1>6. CASE op = "select"
  <2>1. u[1] = t[1] /\ u[2] = t[2] /\ u[3] = t[3]
    BY <1>1, <1>2, <1>6
  <2>. QED
    BY <1>6, <2>1 DEF Loose, AlwaysBool, Comparisons, Ordering, Logicals, Arithmetic, Finalisers
<1>7. CASE op \in {"double"} \union Finalisers
  <2>1. u[1] = t[1]
    BY <1>1, <1>3, <1>7 DEF Finalisers
  <2>. QED
    BY <1>7, <2>1 DEF Loose, AlwaysBool, Comparisons, Ordering, Logicals, Arithmetic, Finalisers
<1>8. CASE op = "vector_log_mu"
  <2>1. u[2] = t[2]
    BY <1>1, <1>4, <1>8
  <2>. QED
    BY <1>8, <2>1 DEF Loose, AlwaysBool, Comparisons, Ordering, Logicals, Arithmetic, Finalisers
<1>9. CASE op \notin Arithmetic /\ op # "select" /\ op \notin {"double"} \union Finalisers /\ op # "vector_log_mu"
  BY <1>9 DEF Loose
<1>. QED
  BY <1>5, <1>6, <1>7, <1>8, <1>9

\* The type a node is given.
LEMMA TypeOfIs ==
  ASSUME NEW nodes, NEW id
  PROVE  LET n == nodes[id]
             a == TypesOf(nodes, n.args)
             type == TypeOf(nodes, id)
         IN /\ n.kind = "time" => type = "datey"
            /\ n.kind = "field" => type = ColumnTypes[n.val]
            /\ n.kind = "obj" => type = NoType
            /\ n.kind = "call" /\ n.op = "vector_log_mu" =>
                 type = IF nodes[n.args[1]].kind = "obj" /\ a[2] = "datey" THEN "double" ELSE IllTyped
            /\ n.kind = "call" /\ n.op # "vector_log_mu" => type = ResultType(n.op, a)
BY DEF TypeOf, Calls, IsCall

\* A node as it is ingested.
LEMMA WrittenIs ==
  ASSUME NEW n, IsWritten(n)
  PROVE  /\ n = SameBut(n, n.type) /\ n.type \in Types /\ n.type # IllTyped
         /\ n.type # NoType => IsShaped(n, DOMAIN J.beta) /\ ~IsCall(n)
         /\ n.type = NoType => n.kind \in {"field", "time", "obj", "call"}
         /\ n.kind \in {"field", "time", "obj"} => n.op = "none" /\ n.args = <<>>
         /\ n.kind = "field" => n.val \in DOMAIN ColumnTypes
         /\ n.kind = "call" => n.op \in Calculations /\ Len(n.args) = Arity(n.op)
<1>1. CASE n = Lit(n.type, n.val) /\ (n.type = "text" \/ IsOfType(n.type, n.val))
           /\ n.type \in {"text", "double", "bool"} \union ClickTypes
  <2>1. n.kind = "lit" /\ n.op = "none" /\ n.args = <<>> /\ n = SameBut(n, n.type)
    BY <1>1 DEF Lit, Node, SameBut
  <2>2. n.type \in Types /\ n.type # IllTyped /\ n.type # NoType
    <3>1. n.type \in {"text", "double", "bool"} \union ClickTypes
      BY <1>1
    <3>. QED
      BY <3>1 DEF Types, Branches, ClickTypes, NoType, IllTyped
  <2>3. n.type \in {"text"} \union ClickTypes \/ IsOfType(n.type, n.val)
    BY <1>1
  <2>4. IsShaped(n, DOMAIN J.beta)
    BY <2>1, <2>3 DEF IsShaped
  <2>. QED
    BY <2>1, <2>2, <2>4 DEF IsCall
<1>2. CASE n = Field(n.val) /\ n.val \in DOMAIN ColumnTypes
  <2>1. n.kind = "field" /\ n.op = "none" /\ n.args = <<>> /\ n = SameBut(n, n.type) /\ n.type = NoType
    BY <1>2 DEF Field, Node, SameBut
  <2>. QED
    BY <1>2, <2>1, TypeNames DEF Types
<1>3. CASE n = Time
  <2>1. n.kind = "time" /\ n.op = "none" /\ n.args = <<>> /\ n = SameBut(n, n.type) /\ n.type = NoType
    BY <1>3 DEF Time, Node, SameBut
  <2>. QED
    BY <2>1, TypeNames DEF Types
<1>4. CASE n = Param(n.val) /\ n.val \in DOMAIN J.beta
  <2>1. n.kind = "param" /\ n.op = "none" /\ n.args = <<>> /\ n = SameBut(n, n.type) /\ n.type = "double"
    BY <1>4 DEF Param, Node, SameBut
  <2>. QED
    BY <1>4, <2>1, TypeNames DEF IsShaped, IsCall, Types, Branches
<1>5. CASE n = Obj(n.val)
  <2>1. n.kind = "obj" /\ n.op = "none" /\ n.args = <<>> /\ n = SameBut(n, n.type) /\ n.type = NoType
    BY <1>5 DEF Obj, Node, SameBut
  <2>. QED
    BY <2>1, TypeNames DEF Types
<1>6. CASE n = Call(n.op, n.args) /\ n.op \in Calculations /\ Len(n.args) = Arity(n.op)
  <2>1. n.kind = "call" /\ n = SameBut(n, n.type) /\ n.type = NoType
    BY <1>6 DEF Call, Node, SameBut
  <2>. QED
    BY <1>6, <2>1, TypeNames DEF Types
<1>. QED
  BY <1>1, <1>2, <1>3, <1>4, <1>5, <1>6 DEF IsWritten

\* One more node is typed, after its arguments.
LEMMA OneMoreTyped ==
  ASSUME job \in DOMAIN Jobs, NEW nodes, Written(nodes), NEW n \in 0 .. Len(nodes) - 1,
         NEW typed, IsTyping(nodes, n, typed, DOMAIN J.beta)
  PROVE  IsTyping(nodes, n + 1, Typed(typed, n + 1), DOMAIN J.beta)
<1>. DEFINE P == DOMAIN J.beta
<1>1. PICK L \in Nat, id \in Nat :
        L = Len(nodes) /\ id = n + 1 /\ id \in 1 .. L /\ DOMAIN nodes = 1 .. L
  <2>1. Len(nodes) \in Nat /\ DOMAIN nodes = 1 .. Len(nodes)
    BY SeqFacts DEF Written
  <2>2. n + 1 \in Nat /\ n + 1 \in 1 .. Len(nodes)
    BY <2>1
  <2>. QED
    BY <2>1, <2>2
<1>2. PICK old : old = nodes[id]
  OBVIOUS
<1>3. typed[id] = old /\ old.args \in Seq(DOMAIN nodes) /\ IsWritten(old)
  <2>1. id \in DOMAIN nodes /\ id > n
    BY <1>1
  <2>2. typed[id] = nodes[id]
    BY <2>1 DEF IsTyping
  <2>. QED
    BY <1>2, <2>1, <2>2 DEF Written
<1>4. /\ old = SameBut(old, old.type) /\ old.type \in Types /\ old.type # IllTyped
      /\ old.type # NoType => IsShaped(old, P) /\ ~IsCall(old)
      /\ old.type = NoType => old.kind \in {"field", "time", "obj", "call"}
      /\ old.kind \in {"field", "time", "obj"} => old.op = "none" /\ old.args = <<>>
      /\ old.kind = "field" => old.val \in DOMAIN ColumnTypes
      /\ old.kind = "call" => old.op \in Calculations /\ Len(old.args) = Arity(old.op)
  BY <1>3, WrittenIs
<1>. HIDE DEF P
<1>5. CASE old.type # NoType
  <2>1. Typed(typed, id) = typed
    BY <1>3, <1>5 DEF Typed
  <2>2. IsTyping(nodes, id, typed, P)
    <3>1. ASSUME NEW k \in DOMAIN nodes, k <= id, typed[k].type # IllTyped
          PROVE  IsShaped(typed[k], P) /\ (IsCall(typed[k]) => IsFixed(typed, k))
      <4>1. CASE k = id
        BY <1>3, <1>4, <1>5, <4>1
      <4>2. CASE k # id
        <5>1. k <= n
          BY <1>1, <3>1, <4>2
        <5>. QED
          BY <3>1, <5>1 DEF IsTyping, P
      <4>. QED
        BY <4>1, <4>2
    <3>2. \A k \in DOMAIN nodes : k > id => k > n
      BY <1>1
    <3>. QED
      BY <3>1, <3>2 DEF IsTyping
  <2>. QED
    BY <1>1, <2>1, <2>2 DEF P
<1>6. CASE old.type = NoType
  <2>. DEFINE type == TypeOf(typed, id)
              new == [typed EXCEPT ![id].type = type]
  <2>1. Typed(typed, id) = new
    BY <1>3, <1>6 DEF Typed
  <2>2. /\ new = [k \in DOMAIN nodes |-> new[k]]
        /\ new[id] = SameBut(old, type)
        /\ \A k \in DOMAIN nodes : k # id => new[k] = typed[k]
    <3>1. typed = [k \in DOMAIN nodes |-> typed[k]]
      BY DEF IsTyping
    <3>2. [old EXCEPT !.type = type] = SameBut(old, type)
      BY <1>4 DEF SameBut, Node
    <3>3. DOMAIN typed = DOMAIN nodes /\ id \in DOMAIN nodes
      BY <1>1, <3>1
    <3>4. new = [typed EXCEPT ![id] = [old EXCEPT !.type = type]]
      BY <1>3
    <3>. QED
      BY <3>1, <3>2, <3>3, <3>4
  <2>. HIDE DEF new, type
  <2>3. /\ new[id].kind = old.kind /\ new[id].op = old.op /\ new[id].args = old.args
        /\ new[id].val = old.val /\ new[id].type = type
    BY <2>2 DEF SameBut, Node
  <2>4. \A k \in DOMAIN nodes : new[k].type = IF k = id THEN type ELSE typed[k].type
    BY <2>2, <2>3
  <2>5. typed[id].type = NoType
    BY <1>3, <1>6
  \* the types of the others' arguments are as they were
  <2>6. ASSUME NEW k \in DOMAIN nodes, k <= n, typed[k].type # IllTyped
        PROVE  IsShaped(new[k], P) /\ (IsCall(new[k]) => IsFixed(new, k))
    <3>1. k # id /\ new[k] = typed[k]
      BY <1>1, <2>2, <2>6
    <3>2. IsShaped(typed[k], P) /\ (IsCall(typed[k]) => IsFixed(typed, k))
      BY <2>6 DEF IsTyping, P
    <3>3. ASSUME IsCall(typed[k])
          PROVE  IsFixed(new, k)
      <4>1. PICK op, args : op = typed[k].op /\ args = typed[k].args
        OBVIOUS
      <4>2. op \in Calculations /\ Len(args) = Arity(op)
        BY <3>2, <3>3, <4>1 DEF IsShaped, IsCall
      <4>3. args \in Seq(DOMAIN nodes)
        <5>1. typed[k] = SameBut(nodes[k], typed[k].type)
          BY DEF IsTyping
        <5>2. typed[k].args = nodes[k].args
          BY <5>1 DEF SameBut, Node
        <5>. QED
          BY <4>1, <5>2 DEF Written
      <4>4. DOMAIN args = 1 .. Arity(op) /\ \A j \in 1 .. Arity(op) : args[j] \in DOMAIN nodes
        BY <4>2, <4>3, SeqFacts
      <4>5. PICK t, u : t = TypesOf(typed, args) /\ u = TypesOf(new, args)
        OBVIOUS
      <4>6. \A j \in 1 .. Arity(op) : t[j] = typed[args[j]].type /\ u[j] = new[args[j]].type
        BY <4>4, <4>5 DEF TypesOf
      <4>7. Loose(op, typed[k].type, t)
            /\ \A j \in 1 .. Arity(op) : t[j] # NoType \/ (op = "vector_log_mu" /\ j = 1)
        BY <3>2, <3>3, <4>1, <4>5 DEF IsFixed
      <4>8. \A j \in 1 .. Arity(op) : u[j] = t[j] \/ (op = "vector_log_mu" /\ j = 1)
        BY <2>4, <2>5, <4>4, <4>6, <4>7
      <4>9. Loose(op, typed[k].type, u)
        BY <4>2, <4>7, <4>8, LooseAgrees
      <4>10. \A j \in 1 .. Arity(op) : u[j] # NoType \/ (op = "vector_log_mu" /\ j = 1)
        BY <4>7, <4>8
      <4>. QED
        BY <3>1, <4>1, <4>5, <4>9, <4>10 DEF IsFixed
    <3>. QED
      BY <3>1, <3>2, <3>3
  \* and this node's is settled by its own
  <2>7. /\ type \in Types
        /\ type # IllTyped => IsShaped(new[id], P) /\ (IsCall(new[id]) => IsFixed(new, id))
    <3>1. CASE old.kind \in {"field", "time", "obj"}
      <4>1. type = IF old.kind = "field" THEN ColumnTypes[old.val]
                   ELSE IF old.kind = "time" THEN "datey" ELSE NoType
        BY <1>3, <3>1, TypeOfIs DEF type
      <4>2. type \in Types
        <5>1. old.kind = "field" => ColumnTypes[old.val] \in Branches
          BY <1>4, JobsAssumption DEF Branches
        <5>. QED
          BY <4>1, <5>1, TypeNames DEF Types, Branches
      <4>3. ~IsCall(new[id])
        BY <2>3, <3>1 DEF IsCall
      <4>4. IsShaped(new[id], P)
        BY <1>4, <2>3, <3>1, <4>1 DEF IsShaped
      <4>. QED
        BY <4>2, <4>3, <4>4
    <3>2. CASE old.kind = "call"
      <4>1. PICK op, args : op = old.op /\ args = old.args /\ op \in Calculations
                            /\ Len(args) = Arity(op) /\ args \in Seq(DOMAIN nodes)
        BY <1>3, <1>4, <3>2
      <4>2. DOMAIN args = 1 .. Arity(op) /\ \A j \in 1 .. Arity(op) : args[j] \in DOMAIN nodes
        BY <4>1, SeqFacts
      <4>3. PICK t, u : t = TypesOf(typed, args) /\ u = TypesOf(new, args)
        OBVIOUS
      <4>4. /\ DOMAIN t = 1 .. Arity(op)
            /\ \A j \in 1 .. Arity(op) : t[j] = typed[args[j]].type /\ u[j] = new[args[j]].type
        BY <4>2, <4>3 DEF TypesOf
      <4>5. \A j \in 1 .. Arity(op) : t[j] \in Types
        BY <4>2, <4>4 DEF IsTyping
      <4>6. \A j \in 1 .. Arity(op) : t[j] # NoType => u[j] = t[j]
        BY <2>4, <2>5, <4>2, <4>4
      <4>7. new[id].kind = "call" /\ new[id].op = op /\ new[id].args = args /\ new[id].type = type
        BY <2>3, <3>2, <4>1
      <4>8. IsShaped(new[id], P)
        BY <4>1, <4>7 DEF IsShaped
      <4>9. CASE op = "vector_log_mu"
        <5>1. Arity(op) = 2
          BY <4>9, KindsOfCall
        <5>2. type = IF typed[args[1]].kind = "obj" /\ t[2] = "datey" THEN "double" ELSE IllTyped
          BY <1>3, <3>2, <4>1, <4>3, <4>9, TypeOfIs DEF type
        <5>3. type \in Types
          BY <5>2 DEF Types, Branches
        <5>4. type # IllTyped => type = "double" /\ t[2] = "datey" /\ u[2] = "datey"
          BY <4>6, <5>1, <5>2, TypeNames
        <5>5. type # IllTyped => Loose(op, type, u)
          BY <4>9, <5>4 DEF Loose, AlwaysBool, Comparisons, Ordering, Logicals, Arithmetic, Finalisers
        <5>6. type # IllTyped =>
                \A j \in 1 .. Arity(op) : u[j] # NoType \/ (op = "vector_log_mu" /\ j = 1)
          BY <4>9, <5>1, <5>4, TypeNames
        <5>7. type # IllTyped => IsFixed(new, id)
          BY <4>3, <4>7, <5>5, <5>6 DEF IsFixed
        <5>. QED
          BY <4>8, <5>3, <5>7
      <4>10. CASE op # "vector_log_mu"
        <5>1. type = ResultType(op, t)
          BY <1>3, <3>2, <4>1, <4>3, <4>10, TypeOfIs DEF type
        <5>2. type # IllTyped =>
                Loose(op, type, t) /\ type \in Types /\ \A j \in 1 .. Arity(op) : t[j] # NoType
          BY <4>1, <4>4, <4>5, <4>10, <5>1, ResultIsLoose
        <5>3. ASSUME type # IllTyped
              PROVE  IsFixed(new, id)
          <6>1. \A j \in 1 .. Arity(op) : u[j] = t[j] /\ t[j] # NoType
            BY <4>6, <5>2, <5>3
          <6>2. Loose(op, type, u)
            BY <4>1, <5>2, <5>3, <6>1, LooseAgrees
          <6>. QED
            BY <4>3, <4>7, <6>1, <6>2 DEF IsFixed
        <5>4. type \in Types
          BY <5>2 DEF Types
        <5>. QED
          BY <4>8, <5>3, <5>4
      <4>. QED
        BY <4>9, <4>10
    <3>. QED
      BY <1>4, <1>6, <3>1, <3>2
  <2>8. ASSUME NEW k \in DOMAIN nodes
        PROVE  /\ new[k] = SameBut(nodes[k], new[k].type) /\ new[k].type \in Types
               /\ k > id => new[k] = nodes[k]
               /\ k <= id /\ new[k].type # IllTyped =>
                    IsShaped(new[k], P) /\ (IsCall(new[k]) => IsFixed(new, k))
    <3>1. CASE k = id
      BY <1>1, <1>2, <2>2, <2>3, <2>7, <3>1
    <3>2. CASE k # id
      <4>1. new[k] = typed[k] /\ (k > id => k > n) /\ (k <= id => k <= n)
        BY <1>1, <2>2, <3>2
      <4>2. /\ typed[k] = SameBut(nodes[k], typed[k].type) /\ typed[k].type \in Types
            /\ k > n => typed[k] = nodes[k]
        BY DEF IsTyping
      <4>. QED
        BY <2>6, <4>1, <4>2
    <3>. QED
      BY <3>1, <3>2
  <2>9. IsTyping(nodes, id, new, P)
    BY <2>2, <2>8 DEF IsTyping
  <2>. QED
    BY <1>1, <2>1, <2>9 DEF P
<1>. QED
  BY <1>5, <1>6

\* passAnnotateTypes: the types of a tree it does not refuse go together.
THEOREM AnnotatedIsLoose ==
  ASSUME job \in DOMAIN Jobs, NEW nodes, Written(nodes), WellTyped(AnnotateTypes(nodes))
  PROVE  IsLooseTree(AnnotateTypes(nodes), DOMAIN J.beta)
<1>. DEFINE P == DOMAIN J.beta
<1>1. PICK L \in Nat : L = Len(nodes) /\ DOMAIN nodes = 1 .. L
  BY SeqFacts DEF Written
<1>2. PICK ids : ids = Ids(nodes)
  OBVIOUS
<1>3. ids \in Seq(DOMAIN nodes) /\ Len(ids) = L /\ \A k \in 1 .. L : ids[k] = k
  <2>1. ids = [k \in 1 .. L |-> k]
    BY <1>1, <1>2 DEF Ids
  <2>2. ids \in [1 .. L -> DOMAIN nodes]
    BY <1>1, <2>1
  <2>. QED
    BY <2>1, <2>2, MadeSeq
<1>4. AnnotateTypes(nodes) = Typing!LoopOf(0, nodes, ids)
  BY <1>2, AnnotatesBy
<1>5. PICK h : Typing!IsRun(h, L, 0, nodes, ids) /\ Typing!LoopOf(0, nodes, ids) = h[L]
  BY <1>3, Typing!LoopRuns
<1>6. h[0] = nodes /\ \A k \in 1 .. L : h[k] = Typed(h[k - 1], k)
  BY <1>3, <1>5 DEF Typing!IsRun, TypeStep
<1>. DEFINE S == {k \in 0 .. L : IsTyping(nodes, k, h[k], P)}
<1>7. 0 \in S
  <2>1. nodes = [id \in DOMAIN nodes |-> nodes[id]]
    BY DEF Written
  <2>2. ASSUME NEW id \in DOMAIN nodes
        PROVE  nodes[id] = SameBut(nodes[id], nodes[id].type) /\ nodes[id].type \in Types /\ ~(id <= 0)
    <3>1. IsWritten(nodes[id])
      BY DEF Written
    <3>. QED
      BY <1>1, <3>1, WrittenIs
  <2>. QED
    BY <1>6, <2>1, <2>2 DEF IsTyping
<1>8. ASSUME NEW k \in 0 .. L - 1, k \in S
      PROVE  k + 1 \in S
  <2>1. k + 1 \in 1 .. L /\ k + 1 \in 0 .. L /\ (k + 1) - 1 = k /\ k \in 0 .. Len(nodes) - 1
    BY <1>1
  <2>2. IsTyping(nodes, k, h[k], P)
    BY <1>8
  <2>3. IsTyping(nodes, k + 1, Typed(h[k], k + 1), P)
    BY <2>1, <2>2, OneMoreTyped
  <2>. QED
    BY <1>6, <2>1, <2>3
<1>. HIDE DEF S
<1>9. L \in S
  <2>1. 0 .. L \subseteq S
    BY <1>7, <1>8, UpTo
  <2>. QED
    BY <2>1
<1>10. PICK typed : typed = AnnotateTypes(nodes) /\ IsTyping(nodes, L, typed, P)
  BY <1>4, <1>5, <1>9 DEF S
<1>11. typed = [id \in 1 .. L |-> typed[id]]
  BY <1>1, <1>10 DEF IsTyping
<1>12. DOMAIN typed = DOMAIN nodes
  BY <1>1, <1>11
<1>13. ASSUME NEW id \in DOMAIN nodes
       PROVE  /\ IsNode(typed[id]) /\ typed[id].args \in Seq(DOMAIN nodes)
              /\ IsLoose(typed, id, P)
  <2>1. typed[id] = SameBut(nodes[id], typed[id].type)
    BY <1>10 DEF IsTyping
  <2>2. IsNode(typed[id]) /\ typed[id].args = nodes[id].args
    BY <2>1 DEF SameBut, IsNode, Node
  <2>3. typed[id].type # IllTyped
    BY <1>10, <1>12 DEF WellTyped
  <2>4. id <= L
    BY <1>1
  <2>5. IsShaped(typed[id], P) /\ (IsCall(typed[id]) => IsFixed(typed, id))
    BY <1>10, <2>3, <2>4 DEF IsTyping
  <2>. QED
    BY <2>2, <2>5 DEF Written, IsLoose, IsFixed
<1>14. typed \in Seq({typed[id] : id \in DOMAIN typed})
  <2>1. typed \in [1 .. L -> {typed[id] : id \in DOMAIN typed}]
    BY <1>1, <1>11, <1>12
  <2>. QED
    BY <2>1, MadeSeq
<1>15. IsLooseTree(typed, P)
  BY <1>12, <1>13, <1>14 DEF IsLooseTree, IsArena
<1>. QED
  BY <1>10, <1>15

-----------------------------------------------------------------------------
(* passEncodeText.                                                          *)

\* Text is compared, and nothing else is done with it.
LEMMA NoTextButCompared ==
  ASSUME NEW op \in Calculations, op \notin AlwaysBool, NEW type, NEW t, Loose(op, type, t)
  PROVE  \A k \in 1 .. Arity(op) : t[k] # "text" \/ (op = "vector_log_mu" /\ k = 1)
<1>1. PICK n \in {1, 2, 3} : n = Arity(op)
  BY ArityFacts
<1>2. "text" \notin Numeric /\ "text" \notin Branches /\ "text" \notin ClickTypes
  BY TypeNames DEF ClickTypes
<1>3. CASE op \in Arithmetic
  BY <1>2, <1>3 DEF Loose
<1>4. CASE op = "select"
  <2>1. n = 3
    BY <1>1, <1>4, ArityFacts
  <2>2. t[1] # "text" /\ t[2] # "text" /\ t[3] # "text"
    BY <1>2, <1>4 DEF Loose
  <2>. QED
    BY <1>1, <2>1, <2>2
<1>5. CASE op \in {"double"} \union Finalisers
  <2>1. n = 1
    BY <1>1, <1>5, ArityFacts
  <2>2. t[1] # "text"
    BY <1>2, <1>5 DEF Loose, Finalisers
  <2>. QED
    BY <1>1, <2>1, <2>2
<1>6. CASE op = "vector_log_mu"
  <2>1. n = 2
    BY <1>1, <1>6, ArityFacts
  <2>2. t[2] # "text"
    BY <1>6 DEF Loose
  <2>. QED
    BY <1>1, <1>6, <2>1, <2>2
<1>. QED
  BY <1>3, <1>4, <1>5, <1>6 DEF Calculations, AlwaysBool

\* A call that is left as it is still goes with what its arguments have become.
LEMMA EncodedCallIsLoose ==
  ASSUME NEW op \in Calculations, NEW type, NEW t, NEW u, Loose(op, type, t),
         \A k \in 1 .. Arity(op) : u[k] = t[k] \/ t[k] = "text"
  PROVE  Loose(op, type, u)
<1>1. CASE op \in AlwaysBool
  BY <1>1 DEF Loose, AlwaysBool, Comparisons, Ordering, Logicals, Arithmetic, Finalisers
<1>2. CASE op \notin AlwaysBool
  <2>1. \A k \in 1 .. Arity(op) : u[k] = t[k] \/ (op = "vector_log_mu" /\ k = 1)
    BY <1>2, NoTextButCompared
  <2>. QED
    BY <2>1, LooseAgrees
<1>. QED
  BY <1>1, <1>2

\* The operation of a call.
LEMMA CallsHaveOperations ==
  ASSUME NEW n, NEW params, IsShaped(n, params), n.op # "none"
  PROVE  IsCall(n) /\ n.op \in Calculations /\ Len(n.args) = Arity(n.op)
BY DEF IsShaped, IsCall

\* What a node that is encoded is.
LEMMA EncodedNode ==
  ASSUME NEW nodes, NEW params, IsLooseTree(nodes, params), NEW id \in DOMAIN nodes,
         NEW new, new = EncodeText(nodes)
  PROVE  \/ /\ nodes[id].type = "bool"
            /\ \E v \in {0, 1} : new[id] = Lit("bool", v)
         \/ /\ nodes[id].type = "text"
            /\ \E v : new[id] = Lit("category", v) /\ IsOfType("category", v)
         \/ new[id] = nodes[id]
<1>1. DOMAIN new = DOMAIN nodes
  BY DEF EncodeText
<1>2. IsLoose(nodes, id, params)
  BY DEF IsLooseTree
<1>3. CASE \E a \in Range(nodes[id].args) : TestsText(nodes, id, a) /\ IsStranded(nodes, a)
  <2>1. new[id] = Lit("bool", Truth(nodes[id].op = "NE"))
    BY <1>3 DEF EncodeText
  <2>2. nodes[id].op \in {"EQ", "NE"}
    BY <1>3 DEF TestsText
  <2>3. IsCall(nodes[id]) /\ Loose(nodes[id].op, nodes[id].type, TypesOf(nodes, nodes[id].args))
    BY <1>2, <2>2, CallsHaveOperations DEF IsLoose
  <2>4. nodes[id].type = "bool"
    BY <2>2, <2>3 DEF Loose, AlwaysBool, Comparisons
  <2>5. Truth(nodes[id].op = "NE") \in {0, 1}
    BY DEF Truth
  <2>. QED
    BY <2>1, <2>4, <2>5
<1>4. CASE /\ ~\E a \in Range(nodes[id].args) : TestsText(nodes, id, a) /\ IsStranded(nodes, a)
           /\ \E test \in DOMAIN nodes : TestsText(nodes, test, id) /\ ~IsStranded(nodes, id)
  <2>1. new[id] = Lit("category", Levels[nodes[id].val])
    BY <1>4 DEF EncodeText
  <2>2. nodes[id].type = "text" /\ nodes[id].val \in DOMAIN Levels
    BY <1>4 DEF TestsText, IsStranded
  <2>3. IsOfType("category", Levels[nodes[id].val])
    BY <2>2, JobsAssumption
  <2>. QED
    BY <2>1, <2>2, <2>3
<1>5. CASE /\ ~\E a \in Range(nodes[id].args) : TestsText(nodes, id, a) /\ IsStranded(nodes, a)
           /\ ~\E test \in DOMAIN nodes : TestsText(nodes, test, id) /\ ~IsStranded(nodes, id)
  BY <1>5 DEF EncodeText
<1>. QED
  BY <1>3, <1>4, <1>5

\* A function of the nodes of a tree is one, too.
LEMMA MadeOfNodes ==
  ASSUME NEW nodes, IsArena(nodes), NEW new, new = [id \in DOMAIN nodes |-> new[id]],
         \A id \in DOMAIN nodes : new[id].args = <<>> \/ new[id].args = nodes[id].args
  PROVE  IsArena(new) /\ DOMAIN new = DOMAIN nodes
<1>1. PICK L \in Nat : L = Len(nodes) /\ DOMAIN nodes = 1 .. L
  BY SeqFacts DEF IsArena
<1>2. DOMAIN new = 1 .. L /\ new = [id \in 1 .. L |-> new[id]]
  BY <1>1
<1>3. new \in Seq({new[id] : id \in DOMAIN new})
  <2>1. new \in [1 .. L -> {new[id] : id \in DOMAIN new}]
    BY <1>2
  <2>. QED
    BY <2>1, MadeSeq
<1>4. ASSUME NEW id \in DOMAIN new
      PROVE  new[id].args \in Seq(DOMAIN new)
  <2>1. id \in DOMAIN nodes /\ nodes[id].args \in Seq(DOMAIN nodes) /\ DOMAIN new = DOMAIN nodes
    BY <1>1, <1>2 DEF IsArena
  <2>2. <<>> \in Seq(DOMAIN new)
    OBVIOUS
  <2>. QED
    BY <2>1, <2>2
<1>. QED
  BY <1>1, <1>2, <1>3, <1>4 DEF IsArena

\* A literal is a leaf.
LEMMA LitIs ==
  ASSUME NEW type, NEW v
  PROVE  LET n == Lit(type, v)
         IN /\ n.kind = "lit" /\ n.op = "none" /\ n.args = <<>> /\ n.val = v /\ n.type = type
            /\ IsNode(n) /\ ~IsCall(n)
BY DEF Lit, Node, IsNode, IsCall

\* passEncodeText: the types still go together.
THEOREM EncodedIsLoose ==
  ASSUME NEW nodes, NEW params, IsLooseTree(nodes, params)
  PROVE  IsLooseTree(EncodeText(nodes), params)
<1>1. PICK new : new = EncodeText(nodes)
  OBVIOUS
<1>2. new = [id \in DOMAIN nodes |-> new[id]]
  BY <1>1 DEF EncodeText
<1>3. ASSUME NEW id \in DOMAIN nodes
      PROVE  \/ /\ nodes[id].type = "bool"
                /\ \E v \in {0, 1} : new[id] = Lit("bool", v)
             \/ /\ nodes[id].type = "text"
                /\ \E v : new[id] = Lit("category", v) /\ IsOfType("category", v)
             \/ new[id] = nodes[id]
  BY <1>1, EncodedNode
<1>4. \A id \in DOMAIN nodes :
        /\ new[id].args = <<>> \/ new[id].args = nodes[id].args
        /\ new[id].type = nodes[id].type \/ nodes[id].type = "text"
  BY <1>3, LitIs
<1>5. IsArena(nodes) /\ \A id \in DOMAIN nodes : IsNode(nodes[id]) /\ IsLoose(nodes, id, params)
  BY DEF IsLooseTree
<1>6. IsArena(new) /\ DOMAIN new = DOMAIN nodes
  BY <1>2, <1>4, <1>5, MadeOfNodes
<1>7. ASSUME NEW id \in DOMAIN nodes
      PROVE  IsNode(new[id]) /\ IsLoose(new, id, params)
  <2>1. CASE \E v : /\ new[id] = Lit("bool", v) /\ v \in {0, 1}
    <3>1. PICK v \in {0, 1} : new[id] = Lit("bool", v)
      BY <2>1
    <3>2. IsOfType("bool", v)
      BY TypesAre
    <3>3. IsShaped(new[id], params)
      BY <3>1, <3>2, LitIs DEF IsShaped
    <3>. QED
      BY <3>1, <3>3, LitIs DEF IsLoose
  <2>2. CASE \E v : new[id] = Lit("category", v) /\ IsOfType("category", v)
    <3>1. PICK v : new[id] = Lit("category", v) /\ IsOfType("category", v)
      BY <2>2
    <3>2. IsShaped(new[id], params)
      BY <3>1, LitIs DEF IsShaped
    <3>. QED
      BY <3>1, <3>2, LitIs DEF IsLoose
  <2>3. CASE new[id] = nodes[id]
    <3>1. IsNode(new[id]) /\ IsShaped(new[id], params)
      BY <1>5, <2>3 DEF IsLoose
    <3>2. ASSUME IsCall(new[id])
          PROVE  Loose(new[id].op, new[id].type, TypesOf(new, new[id].args))
      <4>1. PICK op, args : op = nodes[id].op /\ args = nodes[id].args
        OBVIOUS
      <4>2. op \in Calculations /\ Len(args) = Arity(op) /\ args \in Seq(DOMAIN nodes)
        BY <1>5, <2>3, <3>1, <3>2, <4>1 DEF IsShaped, IsCall, IsArena
      <4>3. DOMAIN args = 1 .. Arity(op) /\ \A k \in 1 .. Arity(op) : args[k] \in DOMAIN nodes
        BY <4>2, SeqFacts
      <4>4. PICK t, u : t = TypesOf(nodes, args) /\ u = TypesOf(new, args)
        OBVIOUS
      <4>5. \A k \in 1 .. Arity(op) : t[k] = nodes[args[k]].type /\ u[k] = new[args[k]].type
        BY <4>3, <4>4 DEF TypesOf
      <4>6. \A k \in 1 .. Arity(op) : u[k] = t[k] \/ t[k] = "text"
        BY <1>4, <4>3, <4>5
      <4>7. Loose(op, nodes[id].type, t)
        BY <1>5, <2>3, <3>2, <4>1, <4>4 DEF IsLoose
      <4>8. Loose(op, nodes[id].type, u)
        BY <4>2, <4>6, <4>7, EncodedCallIsLoose
      <4>. QED
        BY <2>3, <4>1, <4>4, <4>8
    <3>. QED
      BY <3>1, <3>2 DEF IsLoose
  <2>. QED
    BY <1>3, <2>1, <2>2, <2>3
<1>. QED
  BY <1>1, <1>6, <1>7 DEF IsLooseTree

-----------------------------------------------------------------------------
(* passInsertCoercions.                                                     *)

\* passInsertCoercions: for each node, a conversion for each argument that wants one.
CoerceStep(id, nodes, k) == Coerce(nodes, id, k)
Coercing == INSTANCE DataInduction WITH madeOf <- CoerceStep
CoerceArgs(c, nodes, id) == Loop(LAMBDA ms, k : Coerce(ms, id, k), nodes, Ids(nodes[id].args))
Inserting == INSTANCE DataInduction WITH madeOf <- CoerceArgs

\* The pass is such a loop, and so is what it does at each node.
LEMMA InsertsBy ==
  ASSUME NEW nodes
  PROVE  InsertCoercions(nodes) = Inserting!LoopOf(0, nodes, Ids(nodes))
BY DEF InsertCoercions, Inserting!LoopOf, Inserting!Loop, Inserting!Steps, Loop, Steps, CoerceArgs

\* For one node's arguments.
LEMMA CoercesBy ==
  ASSUME NEW c, NEW nodes, NEW id
  PROVE  CoerceArgs(c, nodes, id) = Coercing!LoopOf(id, nodes, Ids(nodes[id].args))
BY DEF CoerceArgs, Coercing!LoopOf, Coercing!Loop, Coercing!Steps, Loop, Steps, CoerceStep

\* The nodes' numbers, in order.
LEMMA IdsAre ==
  ASSUME NEW S, NEW s \in Seq(S)
  PROVE  /\ Ids(s) \in Seq(1 .. Len(s)) /\ Len(Ids(s)) = Len(s) /\ Len(s) \in Nat
         /\ \A k \in 1 .. Len(s) : Ids(s)[k] = k
<1>1. PICK L \in Nat : L = Len(s) /\ DOMAIN s = 1 .. L
  BY SeqFacts
<1>2. Ids(s) = [k \in 1 .. L |-> k]
  BY <1>1 DEF Ids
<1>3. Ids(s) \in [1 .. L -> 1 .. L] /\ \A k \in 1 .. L : Ids(s)[k] = k
  BY <1>2
<1>4. Ids(s) \in Seq(1 .. L) /\ Len(Ids(s)) = L
  BY <1>3, MadeSeq
<1>. QED
  BY <1>1, <1>3, <1>4

\* A node, one of its arguments repointed.
LEMMA RepointedNode ==
  ASSUME NEW old, IsNode(old), NEW k, NEW x
  PROVE  [old EXCEPT !.args[k] = x]
           = Node(old.kind, old.op, [old.args EXCEPT ![k] = x], old.val, old.type)
<1>1. PICK kind, o, a, v, t :
        /\ old = [kind |-> kind, op |-> o, args |-> a, val |-> v, type |-> t]
        /\ kind = old.kind /\ o = old.op /\ a = old.args /\ v = old.val /\ t = old.type
  BY DEF IsNode, Node
<1>2. PICK args : args = [old.args EXCEPT ![k] = x]
  OBVIOUS
<1>3. [old EXCEPT !.args = args] = [kind |-> kind, op |-> o, args |-> args, val |-> v, type |-> t]
  BY <1>1
<1>4. [old EXCEPT !.args[k] = x] = [old EXCEPT !.args = [old.args EXCEPT ![k] = x]]
  BY Zenon
<1>5. Node(old.kind, old.op, args, old.val, old.type)
        = [kind |-> kind, op |-> o, args |-> args, val |-> v, type |-> t]
  BY <1>1 DEF Node
<1>. QED
  BY <1>2, <1>3, <1>4, <1>5

\* A node that is added, and one that is pointed at it instead of one of its arguments.
IsGrown(nodes, id, k, op, node, put, new) ==
  /\ IsArena(nodes) /\ id \in DOMAIN nodes /\ k \in DOMAIN nodes[id].args
  /\ node.args \in Seq(DOMAIN nodes)
  /\ put = Node(nodes[id].kind, op, [nodes[id].args EXCEPT ![k] = Len(nodes) + 1],
                nodes[id].val, nodes[id].type)
  /\ new = Append([nodes EXCEPT ![id] = put], node)

\* It is an arena still, the other nodes as they were.
LEMMA BuiltArena ==
  ASSUME NEW nodes, NEW id, NEW k, NEW op, NEW node, NEW put, NEW new,
         IsGrown(nodes, id, k, op, node, put, new), NEW L, L = Len(nodes)
  PROVE  /\ IsArena(new) /\ L \in Nat /\ DOMAIN nodes = 1 .. L /\ DOMAIN new = 1 .. L + 1
         /\ \A other \in 1 .. L : other # id => new[other] = nodes[other]
         /\ new[L + 1] = node
         /\ new[id] = put
<1>. PICK old : old = nodes[id]
  OBVIOUS
<1>0. /\ IsArena(nodes) /\ id \in DOMAIN nodes /\ k \in DOMAIN old.args
      /\ node.args \in Seq(DOMAIN nodes)
      /\ put = Node(old.kind, op, [old.args EXCEPT ![k] = L + 1], old.val, old.type)
      /\ new = Append([nodes EXCEPT ![id] = put], node)
  BY DEF IsGrown
<1>1. L \in Nat /\ DOMAIN nodes = 1 .. L /\ id \in 1 .. L
  BY <1>0, SeqFacts DEF IsArena
<1>2. PICK args : args = [old.args EXCEPT ![k] = L + 1]
  OBVIOUS
<1>3. put = Node(old.kind, op, args, old.val, old.type)
  BY <1>0, <1>2
<1>5. PICK first : first = [nodes EXCEPT ![id] = put]
  OBVIOUS
<1>6. /\ nodes = [n \in 1 .. L |-> nodes[n]]
      /\ \A n \in 1 .. L : nodes[n].args \in Seq(1 .. L)
  BY <1>0, <1>1 DEF IsArena
<1>7. /\ first = [n \in 1 .. L |-> first[n]]
      /\ first[id] = put /\ \A n \in 1 .. L : n # id => first[n] = nodes[n]
  BY <1>1, <1>5, <1>6
<1>8. PICK T : T = {first[n] : n \in 1 .. L} \union {node}
  OBVIOUS
<1>9. first \in Seq(T) /\ Len(first) = L
  <2>1. first \in [1 .. L -> T]
    BY <1>7, <1>8
  <2>. QED
    BY <1>1, <2>1, MadeSeq
<1>10. new = Append(first, node)
  BY <1>0, <1>5
<1>11. /\ new \in Seq(T) /\ Len(new) = L + 1
       /\ \A n \in 1 .. L : new[n] = first[n]
       /\ new[L + 1] = node
  <2>1. node \in T
    BY <1>8
  <2>2. /\ Append(first, node) \in Seq(T) /\ Len(Append(first, node)) = Len(first) + 1
        /\ \A n \in 1 .. Len(first) : Append(first, node)[n] = first[n]
        /\ Append(first, node)[Len(first) + 1] = node
    BY <1>9, <2>1, AppendFacts
  <2>. QED
    BY <1>9, <1>10, <2>2
<1>12. DOMAIN new = 1 .. L + 1 /\ new = [n \in 1 .. L + 1 |-> new[n]]
  BY <1>1, <1>11
<1>13. new[id] = put
  BY <1>1, <1>7, <1>11
<1>14. args \in Seq(1 .. L + 1)
  <2>1. old.args \in Seq(1 .. L)
    BY <1>1, <1>6
  <2>2. PICK m \in Nat : m = Len(old.args) /\ DOMAIN old.args = 1 .. m
                         /\ (\A n \in 1 .. m : old.args[n] \in 1 .. L) /\ k \in 1 .. m
    <3>1. k \in DOMAIN old.args
      BY <1>0
    <3>2. Len(old.args) \in Nat /\ DOMAIN old.args = 1 .. Len(old.args)
          /\ \A n \in 1 .. Len(old.args) : old.args[n] \in 1 .. L
      BY <2>1, SeqFacts
    <3>. QED
      BY <3>1, <3>2
  <2>3. old.args = [n \in 1 .. m |-> old.args[n]]
    <3>1. PICK a : a = old.args
      OBVIOUS
    <3>2. a \in Seq(1 .. L) /\ Len(a) = m
      BY <2>1, <2>2, <3>1
    <3>3. a \in [1 .. m -> 1 .. L]
      BY <3>2
    <3>4. a = [n \in 1 .. m |-> a[n]]
      BY <3>3
    <3>. QED
      BY <3>1, <3>4
  <2>4. \A n \in 1 .. L : n \in 1 .. L + 1
    BY <1>1
  <2>5. args \in [1 .. m -> 1 .. L + 1]
    <3>1. L + 1 \in 1 .. L + 1
      BY <1>1
    <3>2. args = [n \in 1 .. m |-> IF n = k THEN L + 1 ELSE old.args[n]]
      BY <1>2, <2>2, <2>3
    <3>. QED
      BY <2>2, <2>4, <3>1, <3>2
  <2>. QED
    BY <2>5, MadeSeq
<1>15. ASSUME NEW n \in 1 .. L + 1
       PROVE  new[n].args \in Seq(1 .. L + 1)
  <2>1. CASE n = id
    <3>1. new[n].args = args
      <4>1. new[id].args = put.args
        BY <1>13
      <4>2. put.args = args
        BY <1>3 DEF Node
      <4>. QED
        BY <2>1, <4>1, <4>2
    <3>. QED
      BY <1>14, <3>1
  <2>2. CASE n = L + 1
    <3>1. new[n].args \in Seq(1 .. L)
      BY <1>0, <1>1, <1>11, <2>2
    <3>. QED
      BY <1>1, <3>1
  <2>3. CASE n # id /\ n # L + 1
    <3>1. n \in 1 .. L
      BY <1>1, <2>3
    <3>2. new[n].args \in Seq(1 .. L)
      BY <1>6, <1>7, <1>11, <2>3, <3>1
    <3>. QED
      BY <1>1, <3>2
  <2>. QED
    BY <2>1, <2>2, <2>3
<1>16. new \in Seq({new[n] : n \in DOMAIN new})
  <2>1. new \in [1 .. L + 1 -> {new[n] : n \in DOMAIN new}]
    BY <1>12
  <2>2. L + 1 \in Nat
    BY <1>1
  <2>. QED
    BY <2>1, <2>2, MadeSeq
<1>17. IsArena(new)
  BY <1>12, <1>15, <1>16 DEF IsArena
<1>. QED
  BY <1>1, <1>7, <1>11, <1>12, <1>13, <1>17

\* What the conversions have made of the first n of last nodes, and of those they have added.
IsCoercing(nodes, n, last, params) ==
  /\ IsArena(nodes) /\ last <= Len(nodes)
  /\ \A id \in DOMAIN nodes :
       /\ IsNode(nodes[id]) /\ IsLoose(nodes, id, params)
       /\ id \notin n + 1 .. last => IsRuled(nodes, id, params)

\* A call and its arguments' types, one of which has become a number.
LEMMA ConvertedCallIsLoose ==
  ASSUME NEW op, op \in Arithmetic \/ op = "select", NEW t, NEW u, Loose(op, "double", t),
         NEW k \in 1 .. Arity(op), op = "select" => k # 1, u[k] = "double",
         \A j \in 1 .. Arity(op) : j # k => u[j] = t[j]
  PROVE  Loose(op, "double", u) /\ t[k] \in Numeric
<1>1. "double" \in Numeric /\ "double" \notin ClickTypes /\ "double" \in Branches
  BY TypeNames DEF Branches
<1>2. CASE op \in Arithmetic
  <2>1. \A j \in 1 .. Arity(op) : t[j] \in Numeric
    BY <1>1, <1>2 DEF Loose
  <2>2. \A j \in 1 .. Arity(op) : u[j] \in Numeric
    BY <1>1, <2>1
  <2>. QED
    BY <1>2, <2>1, <2>2 DEF Loose, AlwaysBool, Comparisons, Ordering, Logicals, Arithmetic, Finalisers
<1>3. CASE op = "select"
  <2>1. Arity(op) = 3
    BY <1>3, OpsAre
  <2>2. t[1] = "bool" /\ t[2] \in Numeric /\ t[3] \in Numeric
    BY <1>1, <1>3 DEF Loose
  <2>3. u[1] = "bool" /\ u[2] \in Numeric /\ u[3] \in Numeric /\ t[k] \in Numeric
    BY <1>1, <1>3, <2>1, <2>2
  <2>. QED
    BY <1>1, <1>3, <2>3 DEF Loose, AlwaysBool, Comparisons, Ordering, Logicals, Arithmetic, Finalisers
<1>. QED
  BY <1>2, <1>3

\* A tree that has grown, the types of its nodes the same: what a node was it is.
LEMMA StillGoes ==
  ASSUME NEW nodes, IsArena(nodes), NEW new, NEW id \in DOMAIN nodes, new[id] = nodes[id],
         \A other \in DOMAIN nodes : new[other].type = nodes[other].type, NEW params
  PROVE  /\ IsLoose(nodes, id, params) => IsLoose(new, id, params)
         /\ IsRuled(nodes, id, params) => IsRuled(new, id, params)
<1>1. PICK args : args = nodes[id].args /\ args \in Seq(DOMAIN nodes)
  BY DEF IsArena
<1>2. \A k \in DOMAIN args : args[k] \in DOMAIN nodes
  BY <1>1, SeqFacts
<1>3. TypesOf(new, args) = TypesOf(nodes, args)
  BY <1>2 DEF TypesOf
<1>. QED
  BY <1>1, <1>3, RuledIs DEF IsLoose

\* One conversion: the argument is no longer wanted as a number, and no other is that was not.
LEMMA OneMoreCoerced ==
  ASSUME NEW n \in Nat, NEW last \in Nat, NEW nodes, NEW params, IsCoercing(nodes, n, last, params),
         NEW id, id = n + 1, id \in 1 .. last, IsCall(nodes[id]),
         NEW k \in 1 .. Arity(nodes[id].op), WantsNumber(nodes, id, k),
         NEW new, new = Coerce(nodes, id, k)
  PROVE  /\ IsCoercing(new, n, last, params)
         /\ new[id].op = nodes[id].op /\ IsCall(new[id])
         /\ ~WantsNumber(new, id, k)
         /\ \A j \in 1 .. Arity(nodes[id].op) : ~WantsNumber(nodes, id, j) => ~WantsNumber(new, id, j)
<1>1. PICK L \in Nat : L = Len(nodes) /\ DOMAIN nodes = 1 .. L /\ last <= L /\ id \in 1 .. L
  <2>1. last <= Len(nodes) /\ IsArena(nodes)
    BY DEF IsCoercing
  <2>2. Len(nodes) \in Nat /\ DOMAIN nodes = 1 .. Len(nodes)
    BY <2>1, SeqFacts DEF IsArena
  <2>3. PICK L \in Nat : L = Len(nodes)
    BY <2>2
  <2>4. DOMAIN nodes = 1 .. L /\ last <= L
    BY <2>1, <2>2, <2>3
  <2>5. id \in 1 .. L
    BY <2>4
  <2>. QED
    BY <2>3, <2>4, <2>5
<1>2. IsArena(nodes) /\ \A m \in 1 .. L : IsNode(nodes[m]) /\ IsLoose(nodes, m, params)
  BY <1>1 DEF IsCoercing
<1>3. PICK old, op, args, t :
        old = nodes[id] /\ op = old.op /\ args = old.args /\ t = TypesOf(nodes, args)
  OBVIOUS
<1>4. /\ op \in Calculations /\ Len(args) = Arity(op) /\ Loose(op, old.type, t) /\ old.kind = "call"
      /\ args \in Seq(1 .. L)
  BY <1>1, <1>2, <1>3 DEF IsLoose, IsShaped, IsCall, IsArena
<1>5. DOMAIN args = 1 .. Arity(op) /\ (\A j \in 1 .. Arity(op) : args[j] \in 1 .. L) /\ k \in 1 .. Arity(op)
  BY <1>3, <1>4, SeqFacts
<1>6. \A j \in 1 .. Arity(op) : t[j] = nodes[args[j]].type
  BY <1>3, <1>5 DEF TypesOf
<1>7. old.type = "double" /\ (op \in Arithmetic \/ (op = "select" /\ k # 1))
  BY <1>3 DEF WantsNumber
<1>8. "select" \notin Arithmetic
  BY OpsAre
<1>9. PICK put, node, moved :
        /\ moved = [args EXCEPT ![k] = L + 1]
        /\ put = Node(old.kind, op, moved, old.val, old.type)
        /\ node = TypedCall("double", <<args[k]>>, "double")
  OBVIOUS
<1>10. /\ node.kind = "call" /\ node.op = "double" /\ node.args = <<args[k]>> /\ node.type = "double"
       /\ IsNode(node)
  BY <1>9 DEF TypedCall, Node, IsNode
<1>11. new = Append([nodes EXCEPT ![id] = put], node)
  <2>1. [old EXCEPT !.args[k] = L + 1] = put
    <3>1. IsNode(old)
      BY <1>1, <1>2, <1>3
    <3>2. [old EXCEPT !.args[k] = L + 1]
            = Node(old.kind, old.op, [old.args EXCEPT ![k] = L + 1], old.val, old.type)
      BY <3>1, RepointedNode
    <3>. QED
      BY <1>3, <1>9, <3>2
  <2>2. [nodes EXCEPT ![id].args[k] = L + 1] = [nodes EXCEPT ![id] = [old EXCEPT !.args[k] = L + 1]]
    BY <1>3
  <2>3. new = Build([nodes EXCEPT ![id].args[k] = L + 1], node)
    BY <1>1, <1>3, <1>9 DEF Coerce
  <2>. QED
    BY <2>1, <2>2, <2>3 DEF Build
<1>12. /\ IsArena(new) /\ DOMAIN new = 1 .. L + 1
       /\ \A other \in 1 .. L : other # id => new[other] = nodes[other]
       /\ new[L + 1] = node /\ new[id] = put
  <2>1. id \in DOMAIN nodes /\ k \in DOMAIN nodes[id].args
    BY <1>1, <1>3, <1>5
  <2>2. node.args \in Seq(DOMAIN nodes)
    BY <1>1, <1>5, <1>10
  <2>3. put = Node(old.kind, op, [old.args EXCEPT ![k] = L + 1], old.val, old.type)
    BY <1>3, <1>9
  <2>4. IsArena(nodes) /\ L = Len(nodes) /\ old = nodes[id]
    BY <1>1, <1>2, <1>3
  <2>5. /\ IsArena(new) /\ DOMAIN nodes = 1 .. L /\ DOMAIN new = 1 .. L + 1
        /\ \A other \in 1 .. L : other # id => new[other] = nodes[other]
        /\ new[L + 1] = node /\ new[id] = put
    <3>1. IsGrown(nodes, id, k, op, node, put, new)
      BY <1>11, <2>1, <2>2, <2>3, <2>4 DEF IsGrown
    <3>. QED
      BY <2>4, <3>1, BuiltArena
  <2>. QED
    BY <2>5
<1>13. /\ put.kind = "call" /\ put.op = op /\ put.args = moved /\ put.type = old.type
       /\ IsNode(put)
  BY <1>4, <1>9 DEF Node, IsNode
<1>14. \A other \in 1 .. L : new[other].type = nodes[other].type
  BY <1>3, <1>12, <1>13
<1>15. /\ DOMAIN moved = 1 .. Arity(op) /\ moved[k] = L + 1
       /\ \A j \in 1 .. Arity(op) : j # k => moved[j] = args[j]
       /\ Len(moved) = Arity(op)
  <2>1. /\ DOMAIN moved = 1 .. Arity(op) /\ moved[k] = L + 1
        /\ \A j \in 1 .. Arity(op) : j # k => moved[j] = args[j]
    BY <1>5, <1>9
  <2>2. Arity(op) \in Nat
    BY <1>4, ArityFacts
  <2>. QED
    BY <2>1, <2>2
<1>16. PICK u : u = TypesOf(new, moved)
  OBVIOUS
<1>17. u[k] = "double" /\ \A j \in 1 .. Arity(op) : j # k => u[j] = t[j]
  <2>1. \A j \in 1 .. Arity(op) : u[j] = new[moved[j]].type
    BY <1>15, <1>16 DEF TypesOf
  <2>2. u[k] = "double"
    BY <1>5, <1>10, <1>12, <1>15, <2>1
  <2>3. ASSUME NEW j \in 1 .. Arity(op), j # k
        PROVE  u[j] = t[j]
    <3>1. args[j] \in 1 .. L /\ moved[j] = args[j]
      BY <1>5, <1>15, <2>3
    <3>. QED
      BY <1>6, <1>14, <2>1, <3>1
  <2>. QED
    BY <2>2, <2>3
<1>18. Loose(op, "double", u) /\ t[k] \in Numeric
  BY <1>4, <1>5, <1>7, <1>8, <1>17, ConvertedCallIsLoose
\* the node that is added
<1>19. IsRuled(new, L + 1, params) /\ IsLoose(new, L + 1, params)
  <2>1. PICK v : v = TypesOf(new, node.args)
    OBVIOUS
  <2>2. v[1] \in Numeric
    <3>1. DOMAIN node.args = {1} /\ node.args[1] = args[k]
      BY <1>10
    <3>2. v[1] = new[args[k]].type
      BY <2>1, <3>1 DEF TypesOf
    <3>. QED
      BY <1>5, <1>6, <1>14, <1>18, <3>2
  <2>3. "double" \in Calculations /\ Len(node.args) = Arity("double")
    BY <1>10, OpsAre DEF Calculations
  <2>4. IsShaped(node, params)
    BY <1>10, <2>3 DEF IsShaped
  <2>5. /\ "double" \notin AlwaysBool /\ "double" \notin Arithmetic /\ "double" \notin Finalisers
    BY OpsAre DEF Finalisers
  <2>6. Ruled("double", "double", v) /\ Loose("double", "double", v)
    BY <2>2, <2>5 DEF Ruled, Loose
  <2>. QED
    BY <1>10, <1>12, <2>1, <2>4, <2>6, RuledIs DEF IsLoose
\* the node it is added for
<1>20. IsLoose(new, id, params) /\ IsNode(new[id])
  <2>1. IsShaped(put, params)
    BY <1>4, <1>13, <1>15 DEF IsShaped
  <2>. QED
    BY <1>7, <1>12, <1>13, <1>16, <1>18, <2>1 DEF IsLoose
<1>21. ASSUME NEW m \in DOMAIN new
       PROVE  /\ IsNode(new[m]) /\ IsLoose(new, m, params)
              /\ m \notin n + 1 .. last => IsRuled(new, m, params)
  <2>1. CASE m = L + 1
    BY <1>10, <1>12, <1>19, <2>1
  <2>2. CASE m = id
    <3>1. m \in n + 1 .. last
      BY <1>1, <2>2
    <3>. QED
      BY <1>20, <2>2, <3>1
  <2>3. CASE m # id /\ m # L + 1
    <3>1. m \in 1 .. L /\ new[m] = nodes[m]
      BY <1>1, <1>12, <2>3
    <3>2. m \in DOMAIN nodes /\ \A other \in DOMAIN nodes : new[other].type = nodes[other].type
      BY <1>1, <1>14, <3>1
    <3>3. /\ IsLoose(nodes, m, params) => IsLoose(new, m, params)
          /\ IsRuled(nodes, m, params) => IsRuled(new, m, params)
      BY <1>2, <3>1, <3>2, StillGoes
    <3>4. m \notin n + 1 .. last => IsRuled(nodes, m, params)
      BY <3>2 DEF IsCoercing
    <3>. QED
      BY <1>2, <3>1, <3>3, <3>4
  <2>. QED
    BY <2>1, <2>2, <2>3
<1>22. last <= Len(new)
  <2>1. Len(new) = L + 1
    <3>1. Len(new) \in Nat /\ DOMAIN new = 1 .. Len(new)
      BY <1>12, SeqFacts DEF IsArena
    <3>. QED
      BY <1>12, <3>1
  <2>. QED
    BY <1>1, <2>1
<1>23. IsCoercing(new, n, last, params)
  BY <1>12, <1>21, <1>22 DEF IsCoercing
<1>24. ASSUME NEW j \in 1 .. Arity(op)
       PROVE  /\ WantsNumber(nodes, id, j) <=>
                   (op \in Arithmetic \/ (op = "select" /\ j # 1)) /\ t[j] \notin {"double", NoType}
              /\ WantsNumber(new, id, j) <=>
                   (op \in Arithmetic \/ (op = "select" /\ j # 1)) /\ u[j] \notin {"double", NoType}
  <2>1. u[j] = new[new[id].args[j]].type
    BY <1>12, <1>13, <1>15, <1>16 DEF TypesOf
  <2>2. t[j] = nodes[nodes[id].args[j]].type
    BY <1>3, <1>6
  <2>3. nodes[id].type = "double" /\ nodes[id].op = op /\ new[id].type = "double" /\ new[id].op = op
    BY <1>3, <1>7, <1>12, <1>13
  <2>. QED
    BY <2>1, <2>2, <2>3 DEF WantsNumber
<1>25. ~WantsNumber(new, id, k)
       /\ \A j \in 1 .. Arity(op) : ~WantsNumber(nodes, id, j) => ~WantsNumber(new, id, j)
  <2>1. ASSUME NEW j \in 1 .. Arity(op), ~WantsNumber(nodes, id, j)
        PROVE  ~WantsNumber(new, id, j)
    <3>1. j # k
      BY <2>1
    <3>. QED
      BY <1>17, <1>24, <2>1, <3>1
  <2>. QED
    BY <1>5, <1>17, <1>24, <2>1
<1>. QED
  BY <1>3, <1>12, <1>13, <1>23, <1>25 DEF IsCall

\* A call none of whose arguments is still to be converted.
LEMMA ConvertedCallIsRuled ==
  ASSUME NEW nodes, NEW id, NEW params, IsLoose(nodes, id, params), IsCall(nodes[id]),
         nodes[id].args \in Seq(DOMAIN nodes),
         \A k \in 1 .. Arity(nodes[id].op) : ~WantsNumber(nodes, id, k)
  PROVE  IsRuled(nodes, id, params)
<1>1. PICK op, type, args, t :
        op = nodes[id].op /\ type = nodes[id].type /\ args = nodes[id].args /\ t = TypesOf(nodes, args)
  OBVIOUS
<1>2. IsShaped(nodes[id], params) /\ Loose(op, type, t) /\ op \in Calculations /\ Len(args) = Arity(op)
  BY <1>1 DEF IsLoose, IsShaped, IsCall
<1>3. DOMAIN args = 1 .. Arity(op)
  BY <1>1, <1>2, SeqFacts
<1>4. ASSUME NEW k \in 1 .. Arity(op), type = "double", op \in Arithmetic \/ (op = "select" /\ k # 1)
      PROVE  t[k] \in {"double", NoType}
  <2>1. t[k] = nodes[args[k]].type
    BY <1>1, <1>3 DEF TypesOf
  <2>2. ~WantsNumber(nodes, id, k)
    BY <1>1
  <2>. QED
    BY <1>1, <1>4, <2>1, <2>2 DEF WantsNumber
<1>5. NoType \notin Numeric /\ "double" \notin ClickTypes /\ NoType # "double"
  BY TypeNames
<1>6. CASE op \in Arithmetic
  <2>1. op \notin AlwaysBool /\ op # "double" /\ op # "select" /\ op \notin Finalisers /\ op # "vector_log_mu"
    BY <1>6 DEF AlwaysBool, Comparisons, Ordering, Logicals, Arithmetic, Finalisers
  <2>2. CASE type = "double"
    <3>1. \A k \in 1 .. Arity(op) : t[k] \in Numeric
      BY <1>2, <1>5, <1>6, <2>2 DEF Loose
    <3>2. \A k \in 1 .. Arity(op) : t[k] = "double"
      BY <1>4, <1>5, <1>6, <2>2, <3>1
    <3>3. Ruled(op, type, t)
      BY <2>1, <2>2, <3>2 DEF Ruled
    <3>. QED
      BY <1>1, <1>2, <3>3, RuledIs
  <2>3. CASE type # "double"
    <3>1. Ruled(op, type, t)
      BY <1>2, <1>6, <2>1, <2>3 DEF Loose, Ruled
    <3>. QED
      BY <1>1, <1>2, <3>1, RuledIs
  <2>. QED
    BY <2>2, <2>3
<1>7. CASE op = "select"
  <2>1. op \notin AlwaysBool /\ op # "double" /\ op \notin Arithmetic /\ op \notin Finalisers /\ op # "vector_log_mu"
    BY <1>7 DEF AlwaysBool, Comparisons, Ordering, Logicals, Arithmetic, Finalisers
  <2>2. Arity(op) = 3
    BY <1>7, OpsAre
  <2>3. /\ t[1] = "bool" /\ type \in Branches
        /\ (t[2] = type /\ t[3] = type) \/ (type = "double" /\ t[2] \in Numeric /\ t[3] \in Numeric)
    BY <1>2, <1>7 DEF Loose
  <2>4. t[2] = type /\ t[3] = type
    <3>1. CASE type = "double"
      <4>1. t[2] \in {"double", NoType} /\ t[3] \in {"double", NoType}
        BY <1>4, <1>7, <2>2, <3>1
      <4>. QED
        BY <1>5, <2>3, <3>1, <4>1
    <3>2. CASE type # "double"
      BY <2>3, <3>2
    <3>. QED
      BY <3>1, <3>2
  <2>5. Ruled(op, type, t)
    BY <1>7, <2>1, <2>3, <2>4 DEF Ruled, Branches
  <2>. QED
    BY <1>1, <1>2, <2>5, RuledIs
<1>8. CASE op \notin Arithmetic /\ op # "select"
  <2>1. Ruled(op, type, t)
    BY <1>2, <1>8 DEF Loose, Ruled
  <2>. QED
    BY <1>1, <1>2, <2>1, RuledIs
<1>. QED
  BY <1>6, <1>7, <1>8

\* The conversions of one node's arguments.
LEMMA ArgumentsAreCoerced ==
  ASSUME NEW n \in Nat, NEW last \in Nat, NEW nodes, NEW params, IsCoercing(nodes, n, last, params),
         NEW id, id = n + 1, id \in 1 .. last
  PROVE  IsCoercing(CoerceArgs(0, nodes, id), n + 1, last, params)
<1>1. \A g : IsCoercing(g, n, last, params) =>
        /\ IsArena(g) /\ last <= Len(g) /\ id \in DOMAIN g
        /\ IsLoose(g, id, params) /\ g[id].args \in Seq(DOMAIN g)
  <2>. SUFFICES ASSUME NEW g, IsCoercing(g, n, last, params)
                PROVE  /\ IsArena(g) /\ last <= Len(g) /\ id \in DOMAIN g
                       /\ IsLoose(g, id, params) /\ g[id].args \in Seq(DOMAIN g)
    OBVIOUS
  <2>1. IsArena(g) /\ last <= Len(g)
    BY DEF IsCoercing
  <2>2. Len(g) \in Nat /\ DOMAIN g = 1 .. Len(g)
    BY <2>1, SeqFacts DEF IsArena
  <2>3. id \in DOMAIN g
    BY <2>1, <2>2
  <2>. QED
    BY <2>1, <2>3 DEF IsCoercing, IsArena
<1>2. ASSUME NEW g, IsCoercing(g, n, last, params), IsRuled(g, id, params)
      PROVE  IsCoercing(g, n + 1, last, params)
  <2>1. \A m \in DOMAIN g : m \notin (n + 1) + 1 .. last => m \notin n + 1 .. last \/ m = id
    OBVIOUS
  <2>. QED
    BY <1>2, <2>1 DEF IsCoercing
<1>3. PICK args, A : args = nodes[id].args /\ A = Len(args)
  OBVIOUS
<1>4. args \in Seq(DOMAIN nodes) /\ A \in Nat /\ IsLoose(nodes, id, params)
  BY <1>1, <1>3
<1>5. /\ Ids(args) \in Seq(1 .. A) /\ Len(Ids(args)) = A
      /\ \A k \in 1 .. A : Ids(args)[k] = k
  BY <1>3, <1>4, IdsAre
<1>6. PICK h : Coercing!IsRun(h, A, id, nodes, Ids(args)) /\ Coercing!LoopOf(id, nodes, Ids(args)) = h[A]
  BY <1>5, Coercing!LoopRuns
<1>7. h[0] = nodes /\ \A k \in 1 .. A : h[k] = Coerce(h[k - 1], id, k)
  BY <1>5, <1>6 DEF Coercing!IsRun, CoerceStep
<1>8. CoerceArgs(0, nodes, id) = h[A]
  BY <1>3, <1>6, CoercesBy
<1>9. CASE ~IsCall(nodes[id])
  <2>1. args = <<>>
    BY <1>3, <1>4, <1>9 DEF IsLoose, IsShaped, IsCall
  <2>2. A = 0
    BY <1>3, <2>1
  <2>3. IsRuled(nodes, id, params)
    BY <1>4, <1>9, RuledIs DEF IsLoose
  <2>4. IsCoercing(nodes, n + 1, last, params)
    BY <1>2, <2>3
  <2>. QED
    BY <1>7, <1>8, <2>2, <2>4
<1>10. CASE IsCall(nodes[id])
  <2>1. PICK op : op = nodes[id].op /\ A = Arity(op)
    BY <1>3, <1>4, <1>10 DEF IsLoose, IsShaped, IsCall
  <2>. DEFINE Inner(g, k) ==
                /\ IsCoercing(g, n, last, params) /\ IsCall(g[id]) /\ g[id].op = op
                /\ \A j \in 1 .. k : ~WantsNumber(g, id, j)
              S == {k \in 0 .. A : Inner(h[k], k)}
  <2>2. 0 \in S
    BY <1>4, <1>7, <1>10, <2>1
  <2>3. ASSUME NEW k \in 0 .. A - 1, k \in S
        PROVE  k + 1 \in S
    <3>1. k + 1 \in 1 .. A /\ k + 1 \in 0 .. A /\ (k + 1) - 1 = k
      BY <1>4
    <3>2. PICK g : g = h[k] /\ Inner(g, k)
      BY <2>3
    <3>3. PICK new : new = Coerce(g, id, k + 1) /\ new = h[k + 1]
      BY <1>7, <3>1, <3>2
    <3>4. CASE ~WantsNumber(g, id, k + 1)
      <4>1. new = g
        BY <3>3, <3>4 DEF Coerce
      <4>2. \A j \in 1 .. k + 1 : j \in 1 .. k \/ j = k + 1
        BY <3>1
      <4>3. Inner(new, k + 1)
        BY <3>2, <3>4, <4>1, <4>2
      <4>. QED
        BY <3>1, <3>3, <4>3
    <3>5. CASE WantsNumber(g, id, k + 1)
      <4>1. k + 1 \in 1 .. Arity(g[id].op)
        BY <2>1, <3>1, <3>2
      <4>2. /\ IsCoercing(new, n, last, params)
            /\ new[id].op = g[id].op /\ IsCall(new[id])
            /\ ~WantsNumber(new, id, k + 1)
            /\ \A j \in 1 .. Arity(g[id].op) : ~WantsNumber(g, id, j) => ~WantsNumber(new, id, j)
        BY <3>2, <3>3, <3>5, <4>1, OneMoreCoerced
      <4>3. ASSUME NEW j \in 1 .. k + 1
            PROVE  (j \in 1 .. k /\ j \in 1 .. A) \/ j = k + 1
        <5>1. k \in Int /\ k <= A - 1 /\ A \in Nat
          BY <1>4
        <5>. QED
          BY <5>1
      <4>4. Inner(new, k + 1)
        BY <2>1, <3>2, <4>2, <4>3
      <4>. QED
        BY <3>1, <3>3, <4>4
    <3>. QED
      BY <3>4, <3>5
  <2>. HIDE DEF S, Inner
  <2>4. A \in S
    <3>1. 0 .. A \subseteq S
      BY <1>4, <2>2, <2>3, UpTo
    <3>. QED
      BY <1>4, <3>1
  <2>5. PICK g : g = h[A] /\ Inner(g, A)
    BY <2>4 DEF S
  <2>6. /\ IsCoercing(g, n, last, params) /\ IsCall(g[id])
        /\ \A j \in 1 .. Arity(g[id].op) : ~WantsNumber(g, id, j)
    BY <2>1, <2>5 DEF Inner
  <2>7. IsRuled(g, id, params)
    BY <1>1, <2>6, ConvertedCallIsRuled
  <2>. QED
    BY <1>2, <1>8, <2>5, <2>6, <2>7
<1>. QED
  BY <1>9, <1>10

\* passInsertCoercions: what is read as a number is one.
THEOREM CoercedIsStrict ==
  ASSUME NEW nodes, NEW params, IsLooseTree(nodes, params)
  PROVE  IsStrictTree(InsertCoercions(nodes), params)
<1>1. PICK L \in Nat : L = Len(nodes) /\ DOMAIN nodes = 1 .. L
  <2>1. IsArena(nodes)
    BY DEF IsLooseTree
  <2>. QED
    BY <2>1, SeqFacts DEF IsArena
<1>2. IsArena(nodes) /\ \A id \in 1 .. L : IsNode(nodes[id]) /\ IsLoose(nodes, id, params)
  BY <1>1 DEF IsLooseTree
<1>3. /\ Ids(nodes) \in Seq(1 .. L) /\ Len(Ids(nodes)) = L
      /\ \A k \in 1 .. L : Ids(nodes)[k] = k
  BY <1>1, <1>2, IdsAre DEF IsArena
<1>4. PICK h : Inserting!IsRun(h, L, 0, nodes, Ids(nodes)) /\ Inserting!LoopOf(0, nodes, Ids(nodes)) = h[L]
  BY <1>3, Inserting!LoopRuns
<1>5. h[0] = nodes /\ \A k \in 1 .. L : h[k] = CoerceArgs(0, h[k - 1], k)
  BY <1>3, <1>4 DEF Inserting!IsRun
<1>6. InsertCoercions(nodes) = h[L]
  BY <1>4, InsertsBy
<1>. DEFINE S == {k \in 0 .. L : IsCoercing(h[k], k, L, params)}
<1>7. 0 \in S
  <2>1. \A m \in 1 .. L : m \in 0 + 1 .. L
    OBVIOUS
  <2>2. IsCoercing(nodes, 0, L, params)
    BY <1>1, <1>2, <2>1 DEF IsCoercing
  <2>. QED
    BY <1>5, <2>2
<1>8. ASSUME NEW k \in 0 .. L - 1, k \in S
      PROVE  k + 1 \in S
  <2>1. k \in Nat /\ k + 1 \in 1 .. L /\ k + 1 \in 0 .. L /\ (k + 1) - 1 = k
    BY <1>1
  <2>2. IsCoercing(CoerceArgs(0, h[k], k + 1), k + 1, L, params)
    BY <1>8, <2>1, ArgumentsAreCoerced
  <2>. QED
    BY <1>5, <2>1, <2>2
<1>. HIDE DEF S
<1>9. L \in S
  <2>1. 0 .. L \subseteq S
    BY <1>7, <1>8, UpTo
  <2>. QED
    BY <2>1
<1>10. PICK g : g = h[L] /\ IsCoercing(g, L, L, params)
  BY <1>9 DEF S
<1>11. IsArena(g) /\ \A id \in DOMAIN g : IsNode(g[id]) /\ IsRuled(g, id, params)
  <2>1. \A id : id \notin L + 1 .. L
    OBVIOUS
  <2>. QED
    BY <1>10, <2>1 DEF IsCoercing
<1>. QED
  BY <1>6, <1>10, <1>11 DEF IsStrictTree, IsRuledTree

-----------------------------------------------------------------------------
(* passFoldConstants.                                                       *)

\* The one value of a settled column is of its type.
LEMMA SettledIsOfType ==
  ASSUME NEW type \in {"double", "bool", "category"} \union ClickTypes,
         NEW values, \A v \in values : IsOfType(type, v), Settled(Scan(type, values))
  PROVE  IsOfType(type, Scan(type, values).min)
<1>. DEFINE s == Scan(type, values)
            present == IF type \in ClickTypes \union {"double"}
                       THEN {u \in values : IsMissing(type, u) = 0} ELSE values
<1>1. /\ s.hasNAs = (present # values) /\ s.hasValues = (present # {})
      /\ s.min = (IF present = {} THEN Inf ELSE Min(present))
  BY DEF Scan
<1>. HIDE DEF s
<1>2. present = values /\ present # {} /\ s.min = Min(present)
  BY <1>1 DEF Settled, s
<1>3. ASSUME NEW u \in values
      PROVE  u \in Numbers
  <2>1. IsOfType(type, u)
    OBVIOUS
  <2>2. CASE type = "double"
    <3>1. IsMissing(type, u) = 0
      BY <1>2, <2>2
    <3>2. u # NaN
      BY <2>2, <3>1, TypesAre DEF IsMissing, Truth
    <3>. QED
      BY <2>1, <2>2, <3>2, TypesAre, DoublesAre
  <2>3. CASE type = "bool"
    BY <2>1, <2>3, TypesAre, NumberFacts
  <2>4. CASE type \notin {"double", "bool"}
    BY <2>1, <2>4, TypesAre
  <2>. QED
    BY <2>2, <2>3, <2>4
<1>. HIDE DEF present
<1>4. values \in SUBSET Numbers /\ values # {} /\ s.min = Min(values)
  BY <1>2, <1>3
<1>5. Min(values) \in values
  BY <1>4, EndsOfASet
<1>. QED
  BY <1>4, <1>5 DEF s

\* What a node is folded to.
LEMMA FoldedNode ==
  ASSUME job \in DOMAIN Jobs, NEW nodes, NEW params, IsStrictTree(nodes, params),
         NEW id \in DOMAIN nodes, NEW new, new = FoldConstants(nodes, Scans)
  PROVE  \/ new[id] = nodes[id]
         \/ \E v : new[id] = Lit(nodes[id].type, v) /\ IsOfType(nodes[id].type, v)
<1>1. PICK n : n = nodes[id]
  OBVIOUS
<1>2. IsRuled(nodes, id, params) /\ IsShaped(n, params)
  BY <1>1, RuledIs DEF IsStrictTree, IsRuledTree
<1>3. PICK answer : answer = IF Calls(n, "is_na")
                             THEN IsNaAnswer(FoldField(nodes[n.args[1]], Scans), Scans) ELSE {}
  OBVIOUS
<1>4. new[id] = IF answer # {} THEN Lit("bool", CHOOSE v \in answer : TRUE) ELSE FoldField(n, Scans)
  BY <1>1, <1>3 DEF FoldConstants
<1>5. CASE answer # {}
  <2>1. Calls(n, "is_na")
    BY <1>3, <1>5
  <2>2. answer \subseteq {0, 1}
    <3>. DEFINE f == FoldField(nodes[n.args[1]], Scans)
    <3>1. answer = IsNaAnswer(f, Scans)
      BY <1>3, <2>1
    <3>. HIDE DEF f
    <3>2. Truth(f.val = NaN) \in {0, 1}
      BY DEF Truth
    <3>. QED
      BY <3>1, <3>2 DEF IsNaAnswer
  <2>3. PICK v : v = (CHOOSE u \in answer : TRUE)
    OBVIOUS
  <2>4. v \in {0, 1}
    BY <1>5, <2>2, <2>3
  <2>5. n.type = "bool"
    <3>1. Ruled(n.op, n.type, TypesOf(nodes, n.args)) /\ n.op = "is_na"
      BY <1>1, <1>2, <2>1, RuledIs DEF Calls
    <3>. QED
      BY <3>1 DEF Ruled, AlwaysBool
  <2>6. IsOfType("bool", v)
    BY <2>4, TypesAre
  <2>. QED
    BY <1>1, <1>4, <1>5, <2>3, <2>5, <2>6
<1>6. CASE answer = {}
  <2>1. new[id] = FoldField(n, Scans)
    BY <1>4, <1>6
  <2>2. CASE n.kind = "field" /\ Settled(Scans[n.val])
    <3>1. PICK column, type, values :
            column = n.val /\ type = ColumnTypes[column] /\ values = {r[column] : r \in J.data}
      OBVIOUS
    <3>2. column \in DOMAIN ColumnTypes /\ n.type = type
      BY <1>2, <2>2, <3>1 DEF IsShaped
    <3>3. Scans[column] = Scan(type, values)
      BY <3>1, <3>2 DEF Scans
    <3>4. /\ type \in {"double", "bool", "category"} \union ClickTypes
          /\ \A v \in values : IsOfType(type, v)
      BY <3>1, <3>2, JobsAssumption DEF J
    <3>5. Settled(Scan(type, values))
      BY <2>2, <3>1, <3>3
    <3>6. IsOfType(type, Scan(type, values).min)
      BY <3>4, <3>5, SettledIsOfType
    <3>7. new[id] = Lit(type, Scan(type, values).min)
      BY <2>1, <2>2, <3>1, <3>2, <3>3 DEF FoldField
    <3>. QED
      BY <1>1, <3>2, <3>6, <3>7
  <2>3. CASE ~(n.kind = "field" /\ Settled(Scans[n.val]))
    BY <1>1, <2>1, <2>3 DEF FoldField
  <2>. QED
    BY <2>2, <2>3
<1>. QED
  BY <1>5, <1>6

\* passFoldConstants: a value of a node's type is as good as the node.
THEOREM FoldedIsStrict ==
  ASSUME job \in DOMAIN Jobs, NEW nodes, NEW params, IsStrictTree(nodes, params)
  PROVE  IsStrictTree(FoldConstants(nodes, Scans), params)
<1>1. PICK new : new = FoldConstants(nodes, Scans)
  OBVIOUS
<1>2. new = [id \in DOMAIN nodes |-> new[id]]
  BY <1>1 DEF FoldConstants
<1>3. ASSUME NEW id \in DOMAIN nodes
      PROVE  \/ new[id] = nodes[id]
             \/ \E v : new[id] = Lit(nodes[id].type, v) /\ IsOfType(nodes[id].type, v)
  BY <1>1, FoldedNode
<1>4. \A id \in DOMAIN nodes :
        /\ new[id].args = <<>> \/ new[id].args = nodes[id].args
        /\ new[id].type = nodes[id].type
  BY <1>3, LitIs
<1>5. IsArena(nodes) /\ \A id \in DOMAIN nodes : IsNode(nodes[id]) /\ IsRuled(nodes, id, params)
  BY DEF IsStrictTree, IsRuledTree
<1>6. IsArena(new) /\ DOMAIN new = DOMAIN nodes
  BY <1>2, <1>4, <1>5, MadeOfNodes
<1>7. ASSUME NEW id \in DOMAIN nodes
      PROVE  IsNode(new[id]) /\ IsRuled(new, id, params)
  <2>1. CASE new[id] = nodes[id]
    <3>1. IsRuled(nodes, id, params) => IsRuled(new, id, params)
      BY <1>4, <1>5, <2>1, StillGoes
    <3>. QED
      BY <1>5, <2>1, <3>1
  <2>2. CASE \E v : new[id] = Lit(nodes[id].type, v) /\ IsOfType(nodes[id].type, v)
    <3>1. PICK v : new[id] = Lit(nodes[id].type, v) /\ IsOfType(nodes[id].type, v)
      BY <2>2
    <3>2. IsShaped(new[id], params) /\ IsNode(new[id]) /\ ~IsCall(new[id])
      BY <3>1, LitIs DEF IsShaped
    <3>. QED
      BY <3>2, RuledIs
  <2>. QED
    BY <1>3, <2>1, <2>2
<1>. QED
  BY <1>1, <1>6, <1>7 DEF IsStrictTree, IsRuledTree

-----------------------------------------------------------------------------
(* passNarrowComparisons.                                                   *)

\* passNarrowComparisons, a node at a time.
NarrowStep(c, nodes, id) == NarrowOne(nodes, id)
Narrowing == INSTANCE DataInduction WITH madeOf <- NarrowStep

\* The pass is such a loop.
LEMMA NarrowsBy ==
  ASSUME NEW nodes
  PROVE  NarrowComparisons(nodes) = Narrowing!LoopOf(0, nodes, Ids(nodes))
BY DEF NarrowComparisons, Narrowing!LoopOf, Narrowing!Loop, Narrowing!Steps, Loop, Steps, NarrowStep

\* A comparison that is turned about, or that is no longer strict, is one.
LEMMA StillCompares ==
  ASSUME NEW op \in Comparisons
  PROVE  NotStrict(op) \in Comparisons /\ ReverseComparison(op) \in Comparisons
BY DEF NotStrict, ReverseComparison, Comparisons, Ordering

\* A node with another operation.
LEMMA ReoperatedNode ==
  ASSUME NEW old, IsNode(old), NEW op
  PROVE  [old EXCEPT !.op = op] = Node(old.kind, op, old.args, old.val, old.type)
<1>1. PICK kind, o, a, v, t :
        /\ old = [kind |-> kind, op |-> o, args |-> a, val |-> v, type |-> t]
        /\ kind = old.kind /\ o = old.op /\ a = old.args /\ v = old.val /\ t = old.type
  BY DEF IsNode, Node
<1>2. [old EXCEPT !.op = op] = [kind |-> kind, op |-> op, args |-> a, val |-> v, type |-> t]
  BY <1>1
<1>. QED
  BY <1>1, <1>2 DEF Node

\* One comparison.
LEMMA OneMoreNarrowed ==
  ASSUME NEW nodes, NEW params, IsStrictTree(nodes, params), NEW id \in DOMAIN nodes,
         NEW new, new = NarrowOne(nodes, id)
  PROVE  IsStrictTree(new, params) /\ Len(nodes) <= Len(new)
<1>1. PICK L \in Nat : L = Len(nodes) /\ DOMAIN nodes = 1 .. L /\ id \in 1 .. L
  <2>1. IsArena(nodes)
    BY DEF IsStrictTree, IsRuledTree
  <2>. QED
    BY <2>1, SeqFacts DEF IsArena
<1>2. IsArena(nodes) /\ \A m \in 1 .. L : IsNode(nodes[m]) /\ IsRuled(nodes, m, params)
  BY <1>1 DEF IsStrictTree, IsRuledTree
<1>3. CASE NarrowedPlace(nodes, id) = {}
  <2>1. new = nodes
    BY <1>3 DEF NarrowOne
  <2>. QED
    BY <1>1, <2>1
<1>4. CASE NarrowedPlace(nodes, id) # {}
  <2>1. PICK k, old, args, was :
          /\ k = (CHOOSE p \in NarrowedPlace(nodes, id) : TRUE)
          /\ old = nodes[id] /\ args = old.args /\ was = old.op
    OBVIOUS
  <2>2. k \in NarrowedPlace(nodes, id)
    BY <1>4, <2>1
  <2>3. /\ k \in DOMAIN args /\ was \in Comparisons /\ nodes[args[3 - k]].type \in ClickTypes
    <3>1. ASSUME NEW p \in NarrowedPlace(nodes, id)
          PROVE  /\ p \in DOMAIN nodes[id].args /\ nodes[id].op \in Comparisons
                 /\ nodes[nodes[id].args[3 - p]].type \in ClickTypes
      BY <3>1 DEF NarrowedPlace
    <3>. QED
      BY <2>1, <2>2, <3>1
  <2>. DEFINE facing(o) == IF k = 2 THEN o ELSE ReverseComparison(o)
              clicks == (nodes[nodes[id].args[k]].val * ClicksPerYear) \div One
  <2>4. PICK type, op, node :
          /\ type = nodes[args[3 - k]].type /\ op = facing(NotStrict(facing(was)))
          /\ node = Lit(type, Threshold(facing(was), clicks))
    OBVIOUS
  <2>5. new = Build([nodes EXCEPT ![id].args[k] = Len(nodes) + 1, ![id].op = op], node)
    BY <1>4, <2>1, <2>4 DEF NarrowOne
  <2>6. op \in Comparisons
    BY <2>3, <2>4, StillCompares
  <2>7. /\ node.kind = "lit" /\ node.op = "none" /\ node.args = <<>> /\ node.type = type
        /\ IsNode(node) /\ ~IsCall(node)
    BY <2>4, LitIs
  <2>. HIDE DEF facing, clicks
  <2>8. PICK put, moved :
          /\ moved = [args EXCEPT ![k] = L + 1]
          /\ put = Node(old.kind, op, moved, old.val, old.type)
    OBVIOUS
  <2>9. PICK half : /\ half = [old EXCEPT !.args[k] = L + 1]
                    /\ [half EXCEPT !.op = op] = put
    <3>1. PICK h : h = [old EXCEPT !.args[k] = L + 1]
      OBVIOUS
    <3>2. IsNode(old)
      BY <1>1, <1>2, <2>1
    <3>3. [old EXCEPT !.args[k] = L + 1]
            = Node(old.kind, old.op, [old.args EXCEPT ![k] = L + 1], old.val, old.type)
      BY <3>2, RepointedNode
    <3>4. h = Node(old.kind, old.op, moved, old.val, old.type)
      BY <2>1, <2>8, <3>1, <3>3
    <3>5. IsNode(h) /\ Node(h.kind, op, h.args, h.val, h.type) = put
      BY <2>8, <3>4, NodeIs
    <3>6. [h EXCEPT !.op = op] = put
      BY <3>5, ReoperatedNode
    <3>. QED
      BY <3>1, <3>6
  <2>10. [nodes EXCEPT ![id].args[k] = L + 1, ![id].op = op] = [nodes EXCEPT ![id] = put]
    <3>2. PICK first : first = [nodes EXCEPT ![id] = half]
      OBVIOUS
    <3>3. [nodes EXCEPT ![id].args[k] = L + 1] = first
      BY <2>1, <2>9, <3>2
    <3>4. [nodes EXCEPT ![id].args[k] = L + 1, ![id].op = op]
            = [[nodes EXCEPT ![id].args[k] = L + 1] EXCEPT ![id].op = op]
      BY Zenon
    <3>5. first[id] = half
      BY <1>1, <3>2
    <3>6. [first EXCEPT ![id].op = op] = [first EXCEPT ![id] = [half EXCEPT !.op = op]]
      BY <3>5
    <3>7. [half EXCEPT !.op = op] = put
      BY <2>9
    <3>8. [first EXCEPT ![id] = put] = [nodes EXCEPT ![id] = put]
      <4>1. nodes = [m \in 1 .. L |-> nodes[m]]
        BY <1>1, <1>2 DEF IsArena
      <4>. QED
        BY <1>1, <3>2, <4>1
    <3>. QED
      BY <3>3, <3>4, <3>6, <3>7, <3>8
  <2>11. new = Append([nodes EXCEPT ![id] = put], node)
    BY <1>1, <2>5, <2>10 DEF Build
  <2>12. IsGrown(nodes, id, k, op, node, put, new)
    <3>1. node.args \in Seq(DOMAIN nodes)
      BY <2>7
    <3>. QED
      BY <1>1, <1>2, <2>1, <2>3, <2>8, <2>11, <3>1 DEF IsGrown
  <2>13. /\ IsArena(new) /\ DOMAIN new = 1 .. L + 1
         /\ \A other \in 1 .. L : other # id => new[other] = nodes[other]
         /\ new[L + 1] = node /\ new[id] = put
    <3>1. L = Len(nodes)
      BY <1>1
    <3>2. /\ IsArena(new) /\ L \in Nat /\ DOMAIN nodes = 1 .. L /\ DOMAIN new = 1 .. L + 1
          /\ \A other \in 1 .. L : other # id => new[other] = nodes[other]
          /\ new[L + 1] = node /\ new[id] = put
      BY <2>12, <3>1, BuiltArena
    <3>. QED
      BY <3>2
  <2>14. /\ put.kind = old.kind /\ put.op = op /\ put.args = moved /\ put.type = old.type
         /\ IsNode(put)
    BY <2>8, NodeIs
  <2>15. \A other \in 1 .. L : new[other].type = nodes[other].type
    BY <2>1, <2>13, <2>14
  <2>16. IsRuled(nodes, id, params) /\ IsShaped(old, params)
    BY <1>1, <1>2, <2>1, RuledIs
  <2>17. IsCall(old) /\ Len(args) = Arity(was) /\ Arity(was) = 2
    <3>1. was # "none"
      BY <2>3 DEF Comparisons, Ordering
    <3>2. IsCall(old) /\ was \in Calculations /\ Len(args) = Arity(was)
      BY <2>1, <2>16, <3>1, CallsHaveOperations
    <3>. QED
      BY <2>3, <3>2, ArityFacts
  <2>18. op \in Calculations /\ Arity(op) = 2 /\ op \in AlwaysBool /\ was \in AlwaysBool
    <3>1. op \in Calculations /\ op \in AlwaysBool /\ was \in AlwaysBool
      BY <2>3, <2>6 DEF Calculations, AlwaysBool
    <3>. QED
      BY <2>6, <3>1, ArityFacts
  <2>19. old.type = "bool"
    <3>1. Ruled(was, old.type, TypesOf(nodes, args))
      BY <2>1, <2>16, <2>17, RuledIs
    <3>. QED
      BY <2>18, <3>1 DEF Ruled
  <2>20. Len(moved) = 2
    <3>1. DOMAIN args = 1 .. 2
      <4>1. args \in Seq(DOMAIN nodes)
        BY <1>1, <1>2, <2>1 DEF IsArena
      <4>. QED
        BY <2>17, <4>1, SeqFacts
    <3>2. DOMAIN moved = 1 .. 2
      BY <2>8, <3>1
    <3>. QED
      BY <3>2
  <2>21. IsRuled(new, id, params)
    <3>1. IsShaped(put, params)
      BY <2>14, <2>17, <2>18, <2>20 DEF IsShaped, IsCall
    <3>2. op \notin Arithmetic /\ op # "double" /\ op # "select" /\ op \notin Finalisers /\ op # "vector_log_mu"
      BY <2>6 DEF Comparisons, Ordering, Arithmetic, Finalisers
    <3>3. Ruled(op, "bool", TypesOf(new, moved))
      BY <2>18, <3>2 DEF Ruled
    <3>. QED
      BY <2>13, <2>14, <2>19, <3>1, <3>3, RuledIs
  <2>22. IsRuled(new, L + 1, params)
    <3>1. IsShaped(node, params)
      BY <2>3, <2>4, <2>7 DEF IsShaped
    <3>. QED
      BY <2>7, <2>13, <3>1, RuledIs
  <2>23. ASSUME NEW m \in DOMAIN new
         PROVE  IsNode(new[m]) /\ IsRuled(new, m, params)
    <3>1. CASE m = L + 1
      BY <2>7, <2>13, <2>22, <3>1
    <3>2. CASE m = id
      BY <2>13, <2>14, <2>21, <3>2
    <3>3. CASE m # id /\ m # L + 1
      <4>1. m \in 1 .. L /\ new[m] = nodes[m]
        BY <1>1, <2>13, <3>3
      <4>2. m \in DOMAIN nodes /\ \A other \in DOMAIN nodes : new[other].type = nodes[other].type
        BY <1>1, <2>15, <4>1
      <4>3. IsRuled(nodes, m, params) => IsRuled(new, m, params)
        BY <1>2, <4>1, <4>2, StillGoes
      <4>. QED
        BY <1>2, <4>1, <4>3
    <3>. QED
      BY <3>1, <3>2, <3>3
  <2>24. Len(nodes) <= Len(new)
    <3>1. Len(new) \in Nat /\ DOMAIN new = 1 .. Len(new)
      BY <2>13, SeqFacts DEF IsArena
    <3>. QED
      BY <1>1, <2>13, <3>1
  <2>. QED
    BY <2>13, <2>23, <2>24 DEF IsStrictTree, IsRuledTree
<1>. QED
  BY <1>3, <1>4

\* passNarrowComparisons: a comparison is one still.
THEOREM NarrowedIsStrict ==
  ASSUME NEW nodes, NEW params, IsStrictTree(nodes, params)
  PROVE  IsStrictTree(NarrowComparisons(nodes), params)
<1>1. PICK L \in Nat : L = Len(nodes) /\ DOMAIN nodes = 1 .. L
  <2>1. IsArena(nodes)
    BY DEF IsStrictTree, IsRuledTree
  <2>. QED
    BY <2>1, SeqFacts DEF IsArena
<1>2. /\ Ids(nodes) \in Seq(1 .. L) /\ Len(Ids(nodes)) = L
      /\ \A k \in 1 .. L : Ids(nodes)[k] = k
  BY <1>1, IdsAre DEF IsStrictTree, IsRuledTree, IsArena
<1>3. PICK h : Narrowing!IsRun(h, L, 0, nodes, Ids(nodes)) /\ Narrowing!LoopOf(0, nodes, Ids(nodes)) = h[L]
  BY <1>2, Narrowing!LoopRuns
<1>4. h[0] = nodes /\ \A k \in 1 .. L : h[k] = NarrowOne(h[k - 1], k)
  BY <1>2, <1>3 DEF Narrowing!IsRun, NarrowStep
<1>. DEFINE S == {k \in 0 .. L : IsStrictTree(h[k], params) /\ L <= Len(h[k])}
<1>5. 0 \in S
  BY <1>1, <1>4
<1>6. ASSUME NEW k \in 0 .. L - 1, k \in S
      PROVE  k + 1 \in S
  <2>1. k + 1 \in 1 .. L /\ k + 1 \in 0 .. L /\ (k + 1) - 1 = k
    BY <1>1
  <2>2. PICK g : g = h[k] /\ IsStrictTree(g, params) /\ L <= Len(g)
    BY <1>6
  <2>3. Len(g) \in Nat /\ DOMAIN g = 1 .. Len(g)
    BY <2>2, SeqFacts DEF IsStrictTree, IsRuledTree, IsArena
  <2>4. k + 1 \in DOMAIN g
    BY <2>1, <2>2, <2>3
  <2>5. PICK new : new = NarrowOne(g, k + 1) /\ new = h[k + 1]
    BY <1>4, <2>1, <2>2
  <2>6. IsStrictTree(new, params) /\ Len(g) <= Len(new)
    BY <2>2, <2>4, <2>5, OneMoreNarrowed
  <2>7. Len(new) \in Nat
    BY <2>6, SeqFacts DEF IsStrictTree, IsRuledTree, IsArena
  <2>8. L <= Len(new)
    BY <2>2, <2>3, <2>6, <2>7
  <2>. QED
    BY <2>1, <2>5, <2>6, <2>8
<1>. HIDE DEF S
<1>7. L \in S
  <2>1. 0 .. L \subseteq S
    BY <1>5, <1>6, UpTo
  <2>. QED
    BY <2>1
<1>. QED
  BY <1>3, <1>7, NarrowsBy DEF S

-----------------------------------------------------------------------------
(* The passes, one after the other.                                         *)

\* The coefficients of the analysis.
Params == DOMAIN J.beta

\* What each pass finds of the tree it is given.
TreeIsReady ==
  /\ job \in DOMAIN Jobs /\ exposure = J.exposure /\ "nodes" \in DOMAIN tree
  /\ stage = "annotate" => Written(tree.nodes)
  /\ stage \in {"encode", "coerce"} => IsLooseTree(tree.nodes, Params)
  /\ stage \in {"invariance", "constants", "narrow", "intervals", "comparisons"} =>
       IsStrictTree(tree.nodes, Params)
  /\ stage = "comparisons" => intervals = PropagateIntervals(tree.nodes, Scans, TimeInterval)

\* A step that puts other nodes in the tree's place.
LEMMA OnePass ==
  ASSUME NEW nodes, NEW next, NodesBecome(nodes, next), "nodes" \in DOMAIN tree
  PROVE  /\ tree'.nodes = nodes /\ "nodes" \in DOMAIN tree' /\ stage' = next
         /\ job' = job /\ exposure' = exposure
BY DEF NodesBecome, Becomes, pipelineVars

\* What is worked out of the job alone stays with it.
LEMMA JobStays ==
  ASSUME job' = job
  PROVE  J' = J /\ Params' = Params /\ Scans' = Scans
BY DEF J, Params, Scans

\* PipelineSpec keeps this of every tree, whatever was ingested: each pass is given what it
\* takes for granted.
LEMMA PassesReady ==
  ASSUME TreeIsReady, [Analyse]_analysisVars
  PROVE  TreeIsReady'
<1>1. CASE UNCHANGED analysisVars
  <2>1. /\ job' = job /\ exposure' = exposure /\ tree' = tree /\ stage' = stage /\ intervals' = intervals
    BY <1>1 DEF analysisVars, loweringVars
  <2>2. J' = J /\ Params' = Params /\ Scans' = Scans
    BY <2>1, JobStays
  <2>3. TimeInterval' = TimeInterval
    BY <2>1, <2>2 DEF TimeInterval
  <2>4. Written(tree.nodes)' <=> Written(tree.nodes)
    BY <2>1, <2>2 DEF Written, IsWritten
  <2>. QED
    BY <2>1, <2>2, <2>3, <2>4 DEF TreeIsReady
<1>2. ASSUME NEW complaint, Complain(complaint)
      PROVE  TreeIsReady'
  <2>1. /\ job' = job /\ exposure' = exposure /\ tree' = tree /\ stage' = "refused"
    BY <1>2 DEF Complain, pipelineVars
  <2>2. J' = J
    BY <2>1, JobStays
  <2>. QED
    BY <2>1, <2>2 DEF TreeIsReady
<1>3. ASSUME NEW nodes, NEW next, NodesBecome(nodes, next),
             \/ next = "coerce" /\ IsLooseTree(nodes, Params)
             \/ /\ next \in {"invariance", "constants", "narrow", "intervals"}
                /\ IsStrictTree(nodes, Params)
             \/ next = "share"
      PROVE  TreeIsReady'
  <2>1. /\ tree'.nodes = nodes /\ "nodes" \in DOMAIN tree' /\ stage' = next
        /\ job' = job /\ exposure' = exposure
    BY <1>3, OnePass DEF TreeIsReady
  <2>2. J' = J /\ Params' = Params
    BY <2>1, JobStays
  <2>. QED
    BY <1>3, <2>1, <2>2 DEF TreeIsReady
<1>4. CASE Annotate
  <2>1. PICK typed : typed = AnnotateTypes(tree.nodes)
    OBVIOUS
  <2>2. CASE WellTyped(typed)
    <3>1. /\ stage = "annotate" /\ tree' = [tree EXCEPT !.nodes = typed] /\ stage' = "encode"
          /\ job' = job /\ exposure' = exposure
      BY <1>4, <2>1, <2>2 DEF Annotate, pipelineVars
    <3>2. IsLooseTree(typed, Params)
      BY <2>1, <2>2, <3>1, AnnotatedIsLoose DEF TreeIsReady, Params
    <3>3. tree'.nodes = typed /\ "nodes" \in DOMAIN tree'
      BY <3>1 DEF TreeIsReady
    <3>4. J' = J /\ Params' = Params
      BY <3>1, JobStays
    <3>. QED
      BY <3>1, <3>2, <3>3, <3>4 DEF TreeIsReady
  <2>3. CASE ~WellTyped(typed)
    BY <1>2, <1>4, <2>1, <2>3 DEF Annotate
  <2>. QED
    BY <2>2, <2>3
<1>5. CASE Encode
  <2>1. CASE LeavesText(tree.nodes)
    BY <1>2, <1>5, <2>1 DEF Encode
  <2>2. CASE ~LeavesText(tree.nodes)
    <3>1. IsLooseTree(EncodeText(tree.nodes), Params)
      BY <1>5, EncodedIsLoose DEF Encode, TreeIsReady
    <3>. QED
      BY <1>3, <1>5, <2>2, <3>1 DEF Encode
  <2>. QED
    BY <2>1, <2>2
<1>6. CASE InsertConversions
  <2>1. IsStrictTree(InsertCoercions(tree.nodes), Params)
    BY <1>6, CoercedIsStrict DEF InsertConversions, TreeIsReady
  <2>. QED
    BY <1>3, <1>6, <2>1 DEF InsertConversions
<1>7. CASE CheckTimeInvariance
  <2>1. IsStrictTree(tree.nodes, Params)
    BY <1>7 DEF CheckTimeInvariance, TreeIsReady
  <2>. QED
    BY <1>2, <1>3, <1>7, <2>1 DEF CheckTimeInvariance
<1>8. CASE FoldColumns
  <2>1. IsStrictTree(FoldConstants(tree.nodes, Scans), Params)
    BY <1>8, FoldedIsStrict DEF FoldColumns, TreeIsReady
  <2>. QED
    BY <1>3, <1>8, <2>1 DEF FoldColumns
<1>9. CASE NarrowAll
  <2>1. IsStrictTree(NarrowComparisons(tree.nodes), Params)
    BY <1>9, NarrowedIsStrict DEF NarrowAll, TreeIsReady
  <2>. QED
    BY <1>3, <1>9, <2>1 DEF NarrowAll
<1>10. CASE FindIntervals
  <2>1. /\ stage = "intervals" /\ stage' = "comparisons"
        /\ job' = job /\ exposure' = exposure /\ tree' = tree
        /\ intervals' = PropagateIntervals(tree.nodes, Scans, TimeInterval)
    BY <1>10 DEF FindIntervals, pipelineVars
  <2>2. J' = J /\ Params' = Params /\ Scans' = Scans
    BY <2>1, JobStays
  <2>3. TimeInterval' = TimeInterval
    BY <2>1, <2>2 DEF TimeInterval
  <2>. QED
    BY <2>1, <2>2, <2>3 DEF TreeIsReady
<1>11. CASE FoldSettled
  BY <1>3, <1>11 DEF FoldSettled
<1>. QED
  BY <1>1, <1>4, <1>5, <1>6, <1>7, <1>8, <1>9, <1>10, <1>11 DEF Analyse

\* PipelineSpec keeps TreeIsReady of every tree, whatever was ingested: the type invariant of
\* the passes, each of which is given what it takes for granted.
THEOREM PipelineKeepsReady == PipelineSpec => []TreeIsReady
<1>1. PipelineInit => TreeIsReady
  BY DEF PipelineInit, TreeIsReady
<1>2. TreeIsReady /\ [Analyse]_analysisVars => TreeIsReady'
  BY PassesReady
<1>. QED
  BY <1>1, <1>2, PTL DEF PipelineSpec

\* Whoever the individual, what is tame of a tree's values is what the intervals need.
LEMMA TameWhereItMatters ==
  ASSUME TreeIsReady, stage = "comparisons", ClampsAreOrdered, ClicksAreInReach,
         NEW row \in J.data, NEW known, known = Evaluate(tree.nodes, AroundOf(row)),
         NEW id \in DOMAIN tree.nodes, DOMAIN known[id] # {}
  PROVE  IsTame(tree.nodes, id, AroundOf(row).grid, known)
<1>1. PICK nodes, around, g : nodes = tree.nodes /\ around = AroundOf(row) /\ g = around.grid
  OBVIOUS
<1>2. IsRuledTree(nodes, Params) /\ id \in DOMAIN nodes /\ known = Evaluate(nodes, around)
  BY <1>1 DEF TreeIsReady, IsStrictTree
<1>3. IsRuled(nodes, id, Params) /\ IsArena(nodes) /\ LeavesAreBare(nodes)
  BY <1>2, LeavesHaveNoArguments DEF IsRuledTree
<1>4. PICK order : order = ChildrenFirst(nodes)
  OBVIOUS
<1>5. IsValued(nodes, around, order, Len(order), known)
  BY <1>2, <1>3, <1>4, EvaluateSolves
<1>6. PICK m \in 1 .. Len(order) : order[m] = id
  <2>1. ASSUME \A m \in 1 .. Len(order) : order[m] # id
        PROVE  FALSE
    <3>1. known[id] = <<>>
      BY <1>2, <1>5, <2>1 DEF IsValued
    <3>. QED
      BY <3>1
  <2>. QED
    BY <2>1
<1>7. DOMAIN known[id] = Slots(g)
  <2>1. known[id] = ValuesGiven(nodes, id, around, known)
    BY <1>5, <1>6 DEF IsValued
  <2>2. DOMAIN ValuesGiven(nodes, id, around, known) = Slots(around.grid)
    BY <1>3, EverySlotHasAValue
  <2>. QED
    BY <1>1, <2>1, <2>2
<1>8. known = ValuesBefore(tree.nodes, row)
  BY DEF ValuesBefore, AroundOf
<1>9. ASSUME Calls(nodes[id], "clamp"), NEW s \in Slots(g)
      PROVE  Compare("GT", known[nodes[id].args[2]][s], known[nodes[id].args[3]][s]) = 0
  <2>1. ~IsTrue("GT", known[nodes[id].args[2]][s], known[nodes[id].args[3]][s])
    BY <1>1, <1>7, <1>8, <1>9 DEF ClampsAreOrdered
  <2>2. \A x, y : Compare("GT", x, y) \in {0, 1}
    BY DEF Compare, Truth
  <2>. QED
    BY <2>1, <2>2 DEF IsTrue
<1>10. ASSUME nodes[id].type \in ClickTypes, NEW s \in Slots(g)
       PROVE  known[id][s] \in Clicks
  <2>1. Range(known[id]) \subseteq 1 - Inf .. Inf - 1
    BY <1>1, <1>8, <1>10 DEF ClicksAreInReach
  <2>. QED
    BY <1>7, <2>1 DEF Range, Clicks
<1>11. IsTame(nodes, id, g, known)
  BY <1>9, <1>10 DEF IsTame
<1>. QED
  BY <1>1, <1>11

\* So the intervals that were worked out bound the values.
LEMMA ReadyBounds ==
  ASSUME TreeIsReady, ClampsAreOrdered, ClicksAreInReach
  PROVE  IntervalsBoundTheValues
<1>1. stage = "annotate" => Written(tree.nodes)
  BY DEF TreeIsReady
<1>2. ASSUME stage = "comparisons", NEW row \in J.data,
             NEW id \in {n \in DOMAIN tree.nodes : tree.nodes[n].type # "text"},
             NEW v \in Range(ValuesBefore(tree.nodes, row)[id]) \ {NaN}
      PROVE  intervals[id].lo <= v /\ v <= intervals[id].hi
  <2>1. PICK nodes, around, known, type :
          /\ nodes = tree.nodes /\ around = AroundOf(row) /\ known = Evaluate(nodes, around)
          /\ type = nodes[id].type
    OBVIOUS
  <2>2. IsRuledTree(nodes, Params) /\ id \in DOMAIN nodes /\ type # "text"
    BY <1>2, <2>1 DEF TreeIsReady, IsStrictTree
  <2>3. known = ValuesBefore(nodes, row)
    BY <2>1 DEF ValuesBefore, AroundOf
  <2>4. IsAround(around, Params, Scans, TimeInterval)
    BY <2>1, RowsAreWithin DEF TreeIsReady, Params
  <2>5. \A other \in DOMAIN nodes :
          DOMAIN known[other] # {} => IsTame(nodes, other, around.grid, known)
    BY <1>2, <2>1, TameWhereItMatters
  <2>6. \A other \in DOMAIN nodes :
          NodeFits(nodes[other].type, PropagateIntervals(nodes, Scans, TimeInterval)[other],
                   known[other])
    BY <2>1, <2>2, <2>4, <2>5, IntervalsAreSound
  <2>7. intervals = PropagateIntervals(nodes, Scans, TimeInterval)
    BY <1>2, <2>1 DEF TreeIsReady
  <2>8. PICK i : i = intervals[id] /\ NodeFits(type, i, known[id])
    BY <2>1, <2>2, <2>6, <2>7
  <2>9. PICK s \in DOMAIN known[id] : known[id][s] = v
    BY <2>1, <2>3 DEF Range
  <2>10. Fits(type, i, v)
    BY <2>2, <2>8, <2>9 DEF NodeFits
  <2>. QED
    BY <2>8, <2>10 DEF Fits, Bounds
<1>. QED
  BY <1>1, <1>2 DEF IntervalsBoundTheValues

\* Whatever is ingested, and whatever the columns hold, the intervals bound the values wherever
\* no clamp is called with its ends crossed.
THEOREM PipelineBoundsTheValues ==
  PipelineSpec => [](ClampsAreOrdered /\ ClicksAreInReach => IntervalsBoundTheValues)
<1>1. TreeIsReady => (ClampsAreOrdered /\ ClicksAreInReach => IntervalsBoundTheValues)
  BY ReadyBounds
<1>. QED
  BY <1>1, PipelineKeepsReady, PTL

-----------------------------------------------------------------------------
(* The comparisons the intervals settle.                                    *)

\* Two numbers, each within its bounds: what always holds holds, and what never does does not.
LEMMA BoundsSettle ==
  ASSUME NEW op \in Comparisons, NEW a \in Intervals, NEW b \in Intervals,
         NEW u \in Numbers, NEW v \in Numbers, Bounds(a, u), Bounds(b, v)
  PROVE  /\ AlwaysHolds(op, a, b) => Compare(op, u, v) = 1
         /\ NeverHolds(op, a, b) => Compare(op, u, v) = 0
<1>1. u \in Int /\ v \in Int /\ u # NaN /\ v # NaN
  BY NumberFacts DEF Numbers
<1>2. PICK al \in Numbers, ah \in Numbers, bl \in Numbers, bh \in Numbers :
        al = a.lo /\ ah = a.hi /\ bl = b.lo /\ bh = b.hi
  BY <1>1 DEF Bounds
<1>3. al <= u /\ u <= ah /\ bl <= v /\ v <= bh
  BY <1>1, <1>2 DEF Bounds
<1>4. \A n \in Numbers : n \in Int /\ n # NaN /\ n \in Doubles
  BY NumberFacts DEF Numbers, Doubles
<1>. al \in Int /\ ah \in Int /\ bl \in Int /\ bh \in Int
  BY <1>4
<1>5. \A m, n \in Numbers :
        /\ IsTrue("LT", m, n) <=> m < n
        /\ IsTrue("LE", m, n) <=> m <= n
        /\ IsTrue("GT", m, n) <=> m > n
        /\ IsTrue("GE", m, n) <=> m >= n
  BY <1>4, TrueFacts
<1>6. /\ Compare("LT", u, v) = Truth(u < v) /\ Compare("LE", u, v) = Truth(u <= v)
      /\ Compare("GT", u, v) = Truth(u > v) /\ Compare("GE", u, v) = Truth(u >= v)
      /\ Compare("EQ", u, v) = Truth(u = v) /\ Compare("NE", u, v) = Truth(u # v)
  BY <1>1 DEF Compare
<1>7. /\ Apart(a, b) => u # v
      /\ SamePoint(a, b) => u = v
  <2>1. ASSUME Apart(a, b)
        PROVE  u # v
    <3>1. IsTrue("LT", ah, bl) \/ IsTrue("GT", al, bh)
      BY <1>2, <2>1 DEF Apart
    <3>2. ah < bl \/ al > bh
      BY <1>2, <1>5, <3>1
    <3>. QED
      BY <1>1, <1>3, <3>2
  <2>2. ASSUME SamePoint(a, b)
        PROVE  u = v
    <3>1. al = ah /\ bl = bh /\ al = bl
      BY <1>2, <2>2 DEF SamePoint, IsPoint
    <3>. QED
      BY <1>1, <1>3, <3>1
  <2>. QED
    BY <2>1, <2>2
<1>8. CASE op = "LT"
  BY <1>1, <1>2, <1>3, <1>4, <1>5, <1>6, <1>8 DEF AlwaysHolds, NeverHolds, Truth
<1>9. CASE op = "LE"
  BY <1>1, <1>2, <1>3, <1>4, <1>5, <1>6, <1>9 DEF AlwaysHolds, NeverHolds, Truth
<1>10. CASE op = "GT"
  BY <1>1, <1>2, <1>3, <1>4, <1>5, <1>6, <1>10 DEF AlwaysHolds, NeverHolds, Truth
<1>11. CASE op = "GE"
  BY <1>1, <1>2, <1>3, <1>4, <1>5, <1>6, <1>11 DEF AlwaysHolds, NeverHolds, Truth
<1>12. CASE op = "EQ"
  BY <1>6, <1>7, <1>12 DEF AlwaysHolds, NeverHolds, Truth
<1>13. CASE op = "NE"
  BY <1>6, <1>7, <1>13 DEF AlwaysHolds, NeverHolds, Truth
<1>. QED
  BY <1>8, <1>9, <1>10, <1>11, <1>12, <1>13 DEF Comparisons, Ordering

\* A side of a comparison that may be settled, as it is compared.
LEMMA SideFits ==
  ASSUME NEW type, NEW other, ComparableUnits(type, other) \/ ComparableUnits(other, type),
         NEW i, NEW v, Fits(type, i, v), v # NaN,
         NEW u, u = IF type = other THEN v ELSE AsNumber(type, v)
  PROVE  u \in Numbers /\ InUnits(type, other, i) \in Intervals /\ Bounds(InUnits(type, other, i), u)
<1>1. /\ type = other \/ (type = "bool" /\ other = "double") \/ (type = "double" /\ other = "bool")
  BY DEF ComparableUnits, DoubleFamily
<1>2. v \in Doubles /\ v \in Numbers /\ i \in Intervals /\ Bounds(i, v)
  BY TypesAre, NumberFacts, DoublesAre DEF Fits, IntervalFits
<1>3. CASE type = "bool" /\ other = "double"
  <2>1. InUnits(type, other, i) = Converted("bool", i) /\ u = AsNumber("bool", v)
    BY <1>3 DEF InUnits
  <2>2. v \in {0, 1} /\ {i.lo, i.hi} \subseteq {-Inf, 0, 1, Inf}
    BY <1>3, TypesAre DEF Fits, IntervalFits
  <2>3. AsNumber("bool", v) \in Doubles /\ Bounds(Converted("bool", i), AsNumber("bool", v))
    BY <1>2, <2>2, ConvertBound
  <2>4. Converted("bool", i) \in Intervals
    BY <1>2, <2>2, ConvertedIs
  <2>5. AsNumber("bool", v) \in {0, One}
    <3>1. AsNumber("bool", v) = v * One
      BY TypesAre DEF AsNumber
    <3>. QED
      BY <2>2, <3>1, NumberFacts
  <2>. QED
    BY <2>1, <2>3, <2>4, <2>5, NumberFacts
<1>4. CASE ~(type = "bool" /\ other = "double")
  <2>1. InUnits(type, other, i) = i
    BY <1>4 DEF InUnits
  <2>2. u = v
    BY <1>1, <1>4, TypesAre DEF AsNumber
  <2>. QED
    BY <1>2, <2>1, <2>2
<1>. QED
  BY <1>3, <1>4

\* One comparison that is settled.
LEMMA FoldedRightly ==
  ASSUME NEW op \in Comparisons, NEW t, NEW x, NEW i, NEW j,
         Fits(t[1], i, x[1]), Fits(t[2], j, x[2]), x[1] # NaN, x[2] # NaN,
         ComparableUnits(t[1], t[2])
  PROVE  LET a == InUnits(t[1], t[2], i)
             b == InUnits(t[2], t[1], j)
         IN /\ AlwaysHolds(op, a, b) => Apply(op, "bool", t, x) = 1
            /\ NeverHolds(op, a, b) => Apply(op, "bool", t, x) = 0
<1>1. PICK p, q, y, z : p = t[1] /\ q = t[2] /\ y = x[1] /\ z = x[2]
  OBVIOUS
<1>2. PICK u, v : /\ u = IF p = q THEN y ELSE AsNumber(p, y)
                  /\ v = IF q = p THEN z ELSE AsNumber(q, z)
  OBVIOUS
<1>3. PICK a, b : a = InUnits(p, q, i) /\ b = InUnits(q, p, j)
  OBVIOUS
<1>4. u \in Numbers /\ a \in Intervals /\ Bounds(a, u)
  <2>1. Fits(p, i, y) /\ y # NaN /\ ComparableUnits(p, q)
    BY <1>1
  <2>. QED
    BY <1>2, <1>3, <2>1, SideFits
<1>5. v \in Numbers /\ b \in Intervals /\ Bounds(b, v)
  <2>1. Fits(q, j, z) /\ z # NaN /\ ComparableUnits(p, q)
    BY <1>1
  <2>. QED
    BY <1>2, <1>3, <2>1, SideFits
<1>6. /\ AlwaysHolds(op, a, b) => Compare(op, u, v) = 1
      /\ NeverHolds(op, a, b) => Compare(op, u, v) = 0
  BY <1>4, <1>5, BoundsSettle
<1>7. Apply(op, "bool", t, x) = Compare(op, u, v)
  <2>1. op \notin Logicals /\ op \notin Arithmetic /\ op # "is_na" /\ op # "double" /\ op # "select"
    BY DEF Logicals, Comparisons, Ordering, Arithmetic
  <2>2. Apply(op, "bool", t, x) = CompareTyped(op, t, x)
    BY <2>1 DEF Apply
  <2>3. p = q \/ ~({p, q} \subseteq Textual)
    BY <1>1 DEF ComparableUnits, DoubleFamily, Textual
  <2>4. CASE p = q
    BY <1>1, <1>2, <2>2, <2>4 DEF CompareTyped
  <2>5. CASE p # q
    BY <1>1, <1>2, <2>2, <2>3, <2>5 DEF CompareTyped
  <2>. QED
    BY <2>4, <2>5
<1>. QED
  BY <1>1, <1>3, <1>6, <1>7

\* The value of a comparison.
LEMMA ComparisonIs ==
  ASSUME NEW nodes, NEW id, NEW params, IsRuled(nodes, id, params), nodes[id].op \in Comparisons,
         nodes[id].args \in Seq(DOMAIN nodes),
         NEW around, NEW known, known[id] = ValuesGiven(nodes, id, around, known),
         NEW s \in DOMAIN known[id]
  PROVE  \E t, x : /\ known[id][s] = Apply(nodes[id].op, "bool", t, x)
                   /\ DOMAIN nodes[id].args = {1, 2}
                   /\ \A k \in {1, 2} : /\ nodes[id].args[k] \in DOMAIN nodes
                                        /\ t[k] = nodes[nodes[id].args[k]].type
                                        /\ x[k] = known[nodes[id].args[k]][s]
<1>1. PICK n, op, args : n = nodes[id] /\ op = n.op /\ args = n.args
  OBVIOUS
<1>2. IsShaped(n, params) /\ op # "none"
  BY <1>1, RuledIs DEF Comparisons, Ordering
<1>3. IsCall(n) /\ op \in Calculations /\ Len(args) = Arity(op)
  BY <1>1, <1>2, CallsHaveOperations
<1>4. Arity(op) = 2 /\ DOMAIN args = {1, 2} /\ \A k \in {1, 2} : args[k] \in DOMAIN nodes
  <2>1. Arity(op) = 2
    BY <1>1, <1>3, ArityFacts
  <2>2. DOMAIN args = 1 .. 2 /\ \A k \in 1 .. 2 : args[k] \in DOMAIN nodes
    BY <1>1, <1>3, <2>1, SeqFacts
  <2>. QED
    BY <2>1, <2>2
<1>5. n.type = "bool"
  <2>1. Ruled(op, n.type, TypesOf(nodes, args))
    BY <1>1, <1>3, RuledIs
  <2>. QED
    BY <1>1, <2>1 DEF Ruled, AlwaysBool
<1>6. PICK t, xs, x : t = TypesOf(nodes, args) /\ xs = [k \in DOMAIN args |-> known[args[k]]]
                      /\ x = AtSlot(xs, s)
  OBVIOUS
<1>7. known[id] = [m \in Slots(around.grid) |-> Apply(op, "bool", t, AtSlot(xs, m))]
  <2>1. known[id] = ValuesOf(n, t, around, xs)
    BY <1>1, <1>6 DEF ValuesGiven
  <2>2. op \notin Finalisers \union {"vector_log_mu"} /\ n.kind = "call"
    BY <1>1, <1>3 DEF Comparisons, Ordering, Finalisers, IsCall
  <2>3. ValuesOf(n, t, around, xs) = [m \in Slots(around.grid) |-> Apply(n.op, n.type, t, AtSlot(xs, m))]
    BY <1>1, <2>2, CallValues
  <2>. QED
    BY <1>1, <1>5, <2>1, <2>3
<1>8. known[id][s] = Apply(op, "bool", t, x)
  BY <1>6, <1>7
<1>9. \A k \in {1, 2} : t[k] = nodes[args[k]].type /\ x[k] = known[args[k]][s]
  BY <1>4, <1>6 DEF TypesOf, AtSlot
<1>. QED
  BY <1>1, <1>4, <1>8, <1>9

\* So what is settled is what holds.
LEMMA ReadySettlesRightly ==
  ASSUME TreeIsReady, ClampsAreOrdered, ClicksAreInReach, FoldSettled
  PROVE  SettlesWhatHolds
<1>1. PICK nodes, new : nodes = tree.nodes /\ new = FoldIntervalComparisons(nodes, intervals)
  OBVIOUS
<1>2. stage = "comparisons" /\ tree'.nodes = new
  BY <1>1, OnePass DEF FoldSettled, TreeIsReady
<1>3. IsRuledTree(nodes, Params) /\ IsArena(nodes) /\ LeavesAreBare(nodes)
  BY <1>1, <1>2, LeavesHaveNoArguments DEF TreeIsReady, IsStrictTree, IsRuledTree
<1>4. ASSUME NEW row \in J.data, NEW known, known = ValuesBefore(nodes, row),
             NEW id \in DOMAIN nodes, nodes[id].op \in Comparisons, IsLit(new[id]),
             NEW s \in DOMAIN known[id],
             NaN \notin {known[a][s] : a \in Range(nodes[id].args)}
      PROVE  known[id][s] = new[id].val
  <2>1. PICK around, order : around = AroundOf(row) /\ order = ChildrenFirst(nodes)
    OBVIOUS
  <2>2. known = Evaluate(nodes, around)
    BY <1>4, <2>1 DEF ValuesBefore, AroundOf
  <2>3. IsOrder(nodes, order) /\ IsValued(nodes, around, order, Len(order), known)
    BY <1>3, <2>1, <2>2, EvaluateSolves, ChildrenComeFirst
  <2>4. PICK m \in 1 .. Len(order) : order[m] = id
    <3>1. ASSUME \A m \in 1 .. Len(order) : order[m] # id
          PROVE  FALSE
      <4>1. known[id] = <<>>
        BY <1>4, <2>3, <3>1 DEF IsValued
      <4>. QED
        BY <1>4, <4>1
    <3>. QED
      BY <3>1
  <2>5. known[id] = ValuesGiven(nodes, id, around, known)
    BY <2>3, <2>4 DEF IsValued
  <2>6. IsRuled(nodes, id, Params) /\ nodes[id].args \in Seq(DOMAIN nodes)
    BY <1>3, <1>4 DEF IsRuledTree, IsArena
  <2>7. PICK t, x : /\ known[id][s] = Apply(nodes[id].op, "bool", t, x)
                    /\ DOMAIN nodes[id].args = {1, 2}
                    /\ \A k \in {1, 2} : /\ nodes[id].args[k] \in DOMAIN nodes
                                         /\ t[k] = nodes[nodes[id].args[k]].type
                                         /\ x[k] = known[nodes[id].args[k]][s]
    BY <1>4, <2>5, <2>6, ComparisonIs
  <2>8. PICK op, first, second :
          op = nodes[id].op /\ first = nodes[id].args[1] /\ second = nodes[id].args[2]
    OBVIOUS
  <2>9. /\ first \in DOMAIN nodes /\ t[1] = nodes[first].type /\ x[1] = known[first][s]
        /\ second \in DOMAIN nodes /\ t[2] = nodes[second].type /\ x[2] = known[second][s]
        /\ first \in Range(nodes[id].args) /\ second \in Range(nodes[id].args)
    BY <2>7, <2>8 DEF Range
  <2>10. x[1] # NaN /\ x[2] # NaN
    BY <1>4, <2>9
  \* it is no literal as it stands, so it is one that was settled
  <2>11. ~IsLit(nodes[id])
    <3>1. IsShaped(nodes[id], Params)
      BY <2>6, RuledIs
    <3>2. op # "none"
      BY <1>4, <2>8 DEF Comparisons, Ordering
    <3>. QED
      BY <2>8, <3>1, <3>2, CallsHaveOperations DEF IsCall, IsLit
  <2>12. PICK a, b : /\ a = InUnits(t[1], t[2], intervals[first])
                     /\ b = InUnits(t[2], t[1], intervals[second])
    OBVIOUS
  <2>13. /\ ComparableUnits(t[1], t[2])
         /\ \/ AlwaysHolds(op, a, b) /\ new[id] = Lit("bool", 1)
            \/ NeverHolds(op, a, b) /\ new[id] = Lit("bool", 0)
    <3>1. new[id] = FoldComparison(nodes, nodes[id], intervals)
      BY <1>1, <1>4 DEF FoldIntervalComparisons
    <3>2. FoldComparison(nodes, nodes[id], intervals)
            = IF ~ComparableUnits(t[1], t[2]) THEN nodes[id]
              ELSE IF AlwaysHolds(op, a, b) THEN Lit("bool", 1)
              ELSE IF NeverHolds(op, a, b) THEN Lit("bool", 0)
              ELSE nodes[id]
      <4>1. 3 - 1 = 2 /\ 3 - 2 = 1
        OBVIOUS
      <4>. QED
        BY <2>8, <2>9, <2>12, <4>1 DEF FoldComparison
    <3>. QED
      BY <1>4, <2>11, <3>1, <3>2
  <2>14. /\ t[1] # "text" /\ t[2] # "text"
    BY <2>13 DEF ComparableUnits, DoubleFamily, ClickTypes
  <2>15. Fits(t[1], intervals[first], x[1]) /\ Fits(t[2], intervals[second], x[2])
    <3>1. \A other \in DOMAIN nodes :
            DOMAIN known[other] # {} => IsTame(nodes, other, around.grid, known)
      BY <1>1, <1>2, <1>4, <2>1, <2>2, TameWhereItMatters
    <3>2. IsAround(around, Params, Scans, TimeInterval)
      BY <1>4, <2>1, RowsAreWithin DEF TreeIsReady, Params
    <3>3. \A other \in DOMAIN nodes :
            NodeFits(nodes[other].type, PropagateIntervals(nodes, Scans, TimeInterval)[other],
                     known[other])
      BY <1>3, <2>2, <3>1, <3>2, IntervalsAreSound
    <3>4. intervals = PropagateIntervals(nodes, Scans, TimeInterval)
      BY <1>1, <1>2 DEF TreeIsReady
    <3>5. NodeFits(t[1], intervals[first], known[first]) /\ NodeFits(t[2], intervals[second], known[second])
      BY <2>9, <3>3, <3>4
    <3>6. s \in DOMAIN known[first] /\ s \in DOMAIN known[second]
      <4>1. s \in Slots(around.grid)
        BY <1>4, <2>5, <2>6, EverySlotHasAValue
      <4>2. \A k \in Range(nodes[id].args) : DOMAIN known[k] = Slots(around.grid)
        <5>. SUFFICES ASSUME NEW k \in Range(nodes[id].args)
                      PROVE  DOMAIN known[k] = Slots(around.grid)
          OBVIOUS
        <5>1. PICK p \in 1 .. m - 1 : order[p] = k
          BY <1>3, <2>3, <2>4, ArgumentsAreBefore
        <5>2. p \in 1 .. Len(order) /\ order[p] \in DOMAIN nodes
          <6>1. order \in Seq(DOMAIN nodes)
            BY <2>3 DEF IsOrder
          <6>2. Len(order) \in Nat /\ \A q \in 1 .. Len(order) : order[q] \in DOMAIN nodes
            BY <6>1, SeqFacts
          <6>3. p \in 1 .. Len(order)
            BY <6>2
          <6>. QED
            BY <6>2, <6>3
        <5>3. known[k] = ValuesGiven(nodes, k, around, known) /\ IsRuled(nodes, k, Params)
          BY <1>3, <2>3, <5>1, <5>2 DEF IsValued, IsRuledTree
        <5>. QED
          BY <5>3, EverySlotHasAValue
      <4>. QED
        BY <2>9, <4>1, <4>2
    <3>. QED
      BY <2>9, <2>14, <3>5, <3>6 DEF NodeFits
  <2>16. /\ AlwaysHolds(op, a, b) => Apply(op, "bool", t, x) = 1
         /\ NeverHolds(op, a, b) => Apply(op, "bool", t, x) = 0
    BY <1>4, <2>8, <2>10, <2>12, <2>13, <2>15, FoldedRightly
  <2>17. Lit("bool", 1).val = 1 /\ Lit("bool", 0).val = 0
    BY LitIs
  <2>. QED
    BY <2>7, <2>8, <2>13, <2>16, <2>17
<1>. QED
  BY <1>1, <1>2, <1>4 DEF SettlesWhatHolds

\* passFoldIntervalComparisons: a comparison that is settled is settled as it comes out, for
\* every individual and at every time it is read at, wherever neither side is NaN and no clamp
\* is called with its ends crossed.
THEOREM PipelineSettlesRightly ==
  PipelineSpec =>
    [][stage = "comparisons" /\ ClampsAreOrdered /\ ClicksAreInReach => SettlesWhatHolds]_analysisVars
<1>1. TreeIsReady /\ Analyse
        => (stage = "comparisons" /\ ClampsAreOrdered /\ ClicksAreInReach => SettlesWhatHolds)
  <2>. SUFFICES ASSUME TreeIsReady, Analyse, stage = "comparisons", ClampsAreOrdered, ClicksAreInReach
                PROVE  SettlesWhatHolds
    OBVIOUS
  <2>1. FoldSettled
    BY DEF Analyse, Annotate, Encode, InsertConversions, CheckTimeInvariance, FoldColumns,
           NarrowAll, FindIntervals
  <2>. QED
    BY <2>1, ReadySettlesRightly
<1>. QED
  BY <1>1, PipelineKeepsReady, PTL DEF PipelineSpec

\* So a run none of whose trees calls a clamp with its ends crossed settles every comparison
\* rightly.
THEOREM PipelineSettlesEachRightly ==
  PipelineSpec /\ [](ClampsAreOrdered /\ ClicksAreInReach) => ComparisonsSettleRightly
<1>1. [][stage = "comparisons" /\ ClampsAreOrdered /\ ClicksAreInReach => SettlesWhatHolds]_analysisVars
        /\ [](ClampsAreOrdered /\ ClicksAreInReach)
        => [][stage = "comparisons" => SettlesWhatHolds]_analysisVars
  BY PTL
<1>. QED
  BY <1>1, PipelineSettlesRightly, PTL DEF ComparisonsSettleRightly
=============================================================================
