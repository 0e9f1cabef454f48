---------------------------- MODULE DataInduction ----------------------------
(***************************************************************************)
(* Induction over data, for the proofs of the other modules.  The library's *)
(* induction theorems take an operator; a set of naturals will do instead,  *)
(* since it has a least element: those below a natural at which something   *)
(* holds are collected in a set, which is then shown to be all of them.     *)
(* A function defined by recursion exists for the same reason.  The facts    *)
(* about division several proofs need are here too.                         *)
(*                                                                         *)
(* A loop is the last of a sequence of values, the first of them what it was  *)
(* given and each what a turn makes of the one before.  A lemma cannot be     *)
(* given an operator either, so a turn is a constant here: a module that      *)
(* loops gives its own by INSTANCE ... WITH madeOf <- ..., with what its      *)
(* turns refer to as the first argument.                                     *)
(***************************************************************************)
EXTENDS Loops, WellFoundedInduction, TLAPS

CONSTANT madeOf(_, _, _)  \* what a turn makes of what is known and the next element

\* Division with remainder.
LEMMA DivisionWithRemainder ==
  ASSUME NEW a \in Nat, NEW d \in Nat, d > 0
  PROVE  /\ a \div d \in Nat /\ a % d \in Nat
         /\ a = (a \div d) * d + (a % d)
         /\ a % d < d
OBVIOUS

\* What is even is twice its half.
LEMMA EvenIsTwiceItsHalf ==
  ASSUME NEW d \in Int, d % 2 = 0
  PROVE  d \div 2 \in Int /\ 2 * (d \div 2) = d
OBVIOUS

\* Every set of naturals that is not empty has a least element.
LEMMA LeastNatural ==
  ASSUME NEW S \in SUBSET Nat, S # {}
  PROVE  \E n \in S : \A k \in S : n <= k
<1>. DEFINE R == {p \in Nat \X Nat : p[1] < p[2]}
<1>1. IsWellFoundedOn(R, Nat)
  BY NatLessThanWellFounded DEF OpToRel
<1>. HIDE DEF R
<1>2. PICK n \in S : \A k \in S : <<k, n>> \notin R
  BY <1>1, WFMin
<1>3. \A k \in S : ~(k < n)
  BY <1>2 DEF R
<1>. QED
  BY <1>3

\* Induction along an interval that begins at 0.
LEMMA UpTo ==
  ASSUME NEW N \in Nat, NEW S, 0 \in S,
         \A n \in 0 .. N - 1 : n \in S => n + 1 \in S
  PROVE  0 .. N \subseteq S
<1>. DEFINE T == {n \in 0 .. N : n \notin S}
<1>. SUFFICES ASSUME T # {} PROVE FALSE
  OBVIOUS
<1>1. PICK n \in T : \A k \in T : n <= k
  <2>1. T \in SUBSET Nat
    OBVIOUS
  <2>. HIDE DEF T
  <2>. QED
    BY <2>1, LeastNatural
<1>2. n \in 1 .. N /\ n - 1 \in 0 .. N - 1 /\ n - 1 \in Nat /\ ~(n <= n - 1)
  BY <1>1
<1>3. n - 1 \in S
  BY <1>1, <1>2
<1>. QED
  BY <1>1, <1>2, <1>3

\* f is what a recursion over 0 .. N defines, each value being made of the one before.
IsIterated(f, N, V, base, G) ==
  f \in [0 .. N -> V] /\ f[0] = base /\ \A c \in 1 .. N : f[c] = G[c][f[c - 1]]

LEMMA RecursionHasAValue ==
  ASSUME NEW N \in Nat, NEW V, NEW base \in V, NEW G \in [1 .. N -> [V -> V]]
  PROVE  \E f : IsIterated(f, N, V, base, G)
<1>. DEFINE Solves(f, n) ==
              f \in [0 .. n -> V] /\ f[0] = base /\ \A c \in 1 .. n : f[c] = G[c][f[c - 1]]
            S == {n \in Nat : \E f : Solves(f, n)}
<1>1. 0 \in S
  <2>. DEFINE f == [c \in 0 .. 0 |-> base]
  <2>1. Solves(f, 0)
    OBVIOUS
  <2>. QED
    BY <2>1
<1>2. ASSUME NEW n \in 0 .. N - 1, n \in S
      PROVE  n + 1 \in S
  <2>1. PICK f : Solves(f, n)
    BY <1>2
  <2>. DEFINE g == [c \in 0 .. n + 1 |-> IF c = n + 1 THEN G[n + 1][f[n]] ELSE f[c]]
  <2>2. f[n] \in V /\ G[n + 1][f[n]] \in V
    BY <2>1
  <2>3. g \in [0 .. n + 1 -> V] /\ g[0] = base
    BY <2>1, <2>2
  <2>4. ASSUME NEW c \in 1 .. n + 1
        PROVE  g[c] = G[c][g[c - 1]]
    <3>1. CASE c = n + 1
      BY <3>1
    <3>2. CASE c # n + 1
      <4>1. c \in 1 .. n /\ g[c] = f[c] /\ g[c - 1] = f[c - 1]
        BY <3>2
      <4>2. f[c] = G[c][f[c - 1]]
        BY <2>1, <4>1
      <4>. HIDE DEF g
      <4>. QED
        BY <4>1, <4>2
    <3>. QED
      BY <3>1, <3>2
  <2>. HIDE DEF g
  <2>5. Solves(g, n + 1)
    BY <2>3, <2>4
  <2>. HIDE DEF Solves
  <2>. QED
    BY <2>5
<1>. HIDE DEF S
<1>3. 0 .. N \subseteq S
  BY <1>1, <1>2, UpTo
<1>. QED
  BY <1>3 DEF S, IsIterated

-----------------------------------------------------------------------------
(* Loops.                                                                   *)

StepsOf(c, base, seq) == Steps(LAMBDA known, e : madeOf(c, known, e), base, seq)
PartsOf(c, base, parts) == Steps(LAMBDA known, part : StepsOf(c, known, part), base, parts)
LoopOf(c, base, seq) == Loop(LAMBDA known, e : madeOf(c, known, e), base, seq)

\* What is known after each of the first N elements.
IsRun(h, N, c, base, seq) ==
  h[0] = base /\ \A n \in 1 .. N : h[n] = madeOf(c, h[n - 1], seq[n])

IsRunOfParts(h, N, c, base, parts) ==
  h[0] = base /\ \A n \in 1 .. N : h[n] = StepsOf(c, h[n - 1], parts[n])

-----------------------------------------------------------------------------
\* Steps are the last of such a run.
LEMMA StepsRun ==
  ASSUME NEW c, NEW base, NEW seq, NEW N \in Nat, Len(seq) = N
  PROVE  \E h : IsRun(h, N, c, base, seq) /\ StepsOf(c, base, seq) = h[N]
<1>. DEFINE After(f, n) ==
              IF n = 0 THEN base
              ELSE CHOOSE next \in {madeOf(c, known, seq[n]) : known \in {f[n - 1]}} : TRUE
            Is(f, m) == f = [n \in 0 .. m |-> After(f, n)]
            S == {m \in 0 .. N : \E f : Is(f, m)}
<1>1. 0 \in S
  <2>. DEFINE f == [n \in 0 .. 0 |-> base]
  <2>1. Is(f, 0)
    OBVIOUS
  <2>. HIDE DEF Is, f
  <2>2. \E g : Is(g, 0)
    BY <2>1
  <2>. QED
    BY <2>2
<1>2. ASSUME NEW m \in 0 .. N - 1, m \in S
      PROVE  m + 1 \in S
  <2>1. PICK f : Is(f, m)
    BY <1>2
  <2>. DEFINE g == [n \in 0 .. m + 1 |-> IF n = m + 1 THEN After(f, n) ELSE f[n]]
  <2>2. \A n \in 0 .. m : g[n] = f[n] /\ f[n] = After(f, n)
    <3>. HIDE DEF After
    <3>. QED
      BY <2>1
  <2>3. \A n \in 0 .. m + 1 : n # 0 => g[n - 1] = f[n - 1]
    <3>. HIDE DEF g
    <3>. QED
      BY <2>2
  <2>4. \A n \in 0 .. m + 1 : After(g, n) = After(f, n)
    <3>. HIDE DEF g
    <3>. QED
      BY <2>3
  <2>5. \A n \in 0 .. m + 1 : g[n] = After(g, n)
    <3>1. g[m + 1] = After(f, m + 1)
      <4>. HIDE DEF After
      <4>. QED
        OBVIOUS
    <3>. HIDE DEF g, After
    <3>2. \A n \in 0 .. m + 1 : n \in 0 .. m \/ n = m + 1
      OBVIOUS
    <3>. QED
      BY <2>2, <2>4, <3>1, <3>2
  <2>6. g = [n \in 0 .. m + 1 |-> g[n]]
    <3>. HIDE DEF After
    <3>. QED
      OBVIOUS
  <2>. HIDE DEF g, After
  <2>7. Is(g, m + 1)
    BY <2>5, <2>6
  <2>. QED
    BY <2>7
<1>3. PICK f : Is(f, N)
  <2>. HIDE DEF S
  <2>1. 0 .. N \subseteq S
    BY <1>1, <1>2, UpTo
  <2>2. N \in S
    BY <2>1
  <2>. QED
    BY <2>2 DEF S
<1>. DEFINE h == CHOOSE g : Is(g, N)
<1>4. Is(h, N)
  <2>. HIDE DEF Is
  <2>. QED
    BY <1>3
<1>5. StepsOf(c, base, seq) = h[N]
  BY DEF StepsOf, Steps
<1>. HIDE DEF h
<1>6. h[0] = base /\ \A n \in 1 .. N : h[n] = madeOf(c, h[n - 1], seq[n])
  <2>1. \A n \in 0 .. N : h[n] = After(h, n)
    <3>. HIDE DEF After
    <3>. QED
      BY <1>4
  <2>. QED
    BY <2>1
<1>. QED
  BY <1>5, <1>6 DEF IsRun

\* So are steps over parts, each of them steps of its own.
LEMMA PartsRun ==
  ASSUME NEW c, NEW base, NEW parts, NEW N \in Nat, Len(parts) = N
  PROVE  \E h : IsRunOfParts(h, N, c, base, parts) /\ PartsOf(c, base, parts) = h[N]
<1>. DEFINE After(f, n) ==
              IF n = 0 THEN base
              ELSE CHOOSE next \in {StepsOf(c, known, parts[n]) : known \in {f[n - 1]}} : TRUE
            Is(f, m) == f = [n \in 0 .. m |-> After(f, n)]
            S == {m \in 0 .. N : \E f : Is(f, m)}
<1>1. 0 \in S
  <2>. DEFINE f == [n \in 0 .. 0 |-> base]
  <2>1. Is(f, 0)
    OBVIOUS
  <2>. HIDE DEF Is, f
  <2>2. \E g : Is(g, 0)
    BY <2>1
  <2>. QED
    BY <2>2
<1>2. ASSUME NEW m \in 0 .. N - 1, m \in S
      PROVE  m + 1 \in S
  <2>1. PICK f : Is(f, m)
    BY <1>2
  <2>. DEFINE g == [n \in 0 .. m + 1 |-> IF n = m + 1 THEN After(f, n) ELSE f[n]]
  <2>2. \A n \in 0 .. m : g[n] = f[n] /\ f[n] = After(f, n)
    <3>. HIDE DEF After
    <3>. QED
      BY <2>1
  <2>3. \A n \in 0 .. m + 1 : n # 0 => g[n - 1] = f[n - 1]
    <3>. HIDE DEF g
    <3>. QED
      BY <2>2
  <2>4. \A n \in 0 .. m + 1 : After(g, n) = After(f, n)
    <3>. HIDE DEF g
    <3>. QED
      BY <2>3
  <2>5. \A n \in 0 .. m + 1 : g[n] = After(g, n)
    <3>1. g[m + 1] = After(f, m + 1)
      <4>. HIDE DEF After
      <4>. QED
        OBVIOUS
    <3>. HIDE DEF g, After
    <3>2. \A n \in 0 .. m + 1 : n \in 0 .. m \/ n = m + 1
      OBVIOUS
    <3>. QED
      BY <2>2, <2>4, <3>1, <3>2
  <2>6. g = [n \in 0 .. m + 1 |-> g[n]]
    <3>. HIDE DEF After
    <3>. QED
      OBVIOUS
  <2>. HIDE DEF g, After
  <2>7. Is(g, m + 1)
    BY <2>5, <2>6
  <2>. QED
    BY <2>7
<1>3. PICK f : Is(f, N)
  <2>. HIDE DEF S
  <2>1. 0 .. N \subseteq S
    BY <1>1, <1>2, UpTo
  <2>2. N \in S
    BY <2>1
  <2>. QED
    BY <2>2 DEF S
<1>. DEFINE h == CHOOSE g : Is(g, N)
<1>4. Is(h, N)
  <2>. HIDE DEF Is
  <2>. QED
    BY <1>3
<1>5. PartsOf(c, base, parts) = h[N]
  BY DEF PartsOf, Steps
<1>. HIDE DEF h
<1>6. h[0] = base /\ \A n \in 1 .. N : h[n] = StepsOf(c, h[n - 1], parts[n])
  <2>1. \A n \in 0 .. N : h[n] = After(h, n)
    <3>. HIDE DEF After
    <3>. QED
      BY <1>4
  <2>. QED
    BY <2>1
<1>. QED
  BY <1>5, <1>6 DEF IsRunOfParts

\* So is one taken eight elements at a time.
LEMMA LoopRuns ==
  ASSUME NEW c, NEW base, NEW T, NEW seq \in Seq(T)
  PROVE  \E h : IsRun(h, Len(seq), c, base, seq) /\ LoopOf(c, base, seq) = h[Len(seq)]
<1>1. PICK N \in Nat : N = Len(seq)
  OBVIOUS
<1>2. PICK P \in Nat : P = (N + 7) \div 8 /\ 8 * P >= N /\ 8 * P <= N + 7
  OBVIOUS
<1>. DEFINE last(k) == IF k = P THEN N ELSE 8 * k
            parts == [k \in 1 .. P |-> SubSeq(seq, 8 * k - 7, last(k))]
<1>3. LoopOf(c, base, seq) = PartsOf(c, base, parts)
  BY <1>1, <1>2 DEF LoopOf, Loop, StepsOf, PartsOf
<1>4. Len(parts) = P
  OBVIOUS
<1>5. PICK f : IsRunOfParts(f, P, c, base, parts) /\ PartsOf(c, base, parts) = f[P]
  <2>. HIDE DEF parts
  <2>. QED
    BY <1>4, PartsRun
<1>. DEFINE Upto(h, k) == IsRun(h, last(k), c, base, seq) /\ h[last(k)] = f[k]
            S == {k \in 0 .. P : \E h : Upto(h, k)}
<1>6. 0 \in S
  <2>. DEFINE h == [n \in 0 .. 0 |-> base]
  <2>1. last(0) = 0 /\ f[0] = base /\ h[0] = base
    BY <1>2, <1>5 DEF IsRunOfParts
  <2>. HIDE DEF h, last
  <2>2. Upto(h, 0)
    BY <2>1 DEF IsRun
  <2>. QED
    BY <2>2
<1>7. ASSUME NEW k \in 0 .. P - 1, k \in S
      PROVE  k + 1 \in S
  <2>1. PICK h : Upto(h, k)
    BY <1>7
  <2>. DEFINE m == 8 * k
              M == last(k + 1) - m
              part == parts[k + 1]
  <2>2. /\ m \in Nat /\ last(k + 1) \in Nat /\ M \in Nat /\ m + M = last(k + 1) /\ last(k + 1) <= N
        /\ last(k) = m /\ 8 * (k + 1) - 7 = m + 1
    BY <1>2
  <2>3. part = SubSeq(seq, m + 1, last(k + 1))
    BY <2>2
  <2>4. Len(part) = M /\ \A i \in 1 .. M : part[i] = seq[m + i]
    <3>. HIDE DEF M, m, last, part, parts
    <3>1. PICK n \in Nat : n = last(k + 1) /\ m + M = n /\ n <= Len(seq)
      BY <1>1, <2>2
    <3>2. Len(SubSeq(seq, m + 1, n)) = M
      BY <2>2, <3>1
    <3>3. \A i \in 1 .. M : SubSeq(seq, m + 1, n)[i] = seq[m + i]
      BY <2>2, <3>1
    <3>. QED
      BY <2>3, <3>1, <3>2, <3>3
  <2>5. f[k + 1] = StepsOf(c, f[k], part)
    <3>. HIDE DEF parts
    <3>1. k + 1 \in 1 .. P /\ (k + 1) - 1 = k
      OBVIOUS
    <3>. QED
      BY <1>5, <3>1 DEF IsRunOfParts
  <2>. HIDE DEF part, M, m, last, parts
  <2>6. PICK g : IsRun(g, M, c, f[k], part) /\ StepsOf(c, f[k], part) = g[M]
    <3>1. PICK b, q : b = f[k] /\ q = part
      OBVIOUS
    <3>2. M \in Nat /\ Len(q) = M
      BY <2>2, <2>4, <3>1
    <3>3. \E g : IsRun(g, M, c, b, q) /\ StepsOf(c, b, q) = g[M]
      BY <3>2, StepsRun
    <3>. QED
      BY <3>1, <3>3
  <2>. DEFINE j == [n \in 0 .. m + M |-> IF n <= m THEN h[n] ELSE g[n - m]]
  <2>7. \A n \in 0 .. m : j[n] = h[n]
    BY <2>2
  <2>8. \A i \in 0 .. M : j[m + i] = g[i]
    <3>1. g[0] = h[m]
      BY <2>1, <2>2, <2>6 DEF IsRun
    <3>2. ASSUME NEW i \in 0 .. M
          PROVE  j[m + i] = g[i]
      <4>1. m + i \in 0 .. m + M /\ (m + i) - m = i
        BY <2>2
      <4>2. j[m + i] = IF m + i <= m THEN h[m + i] ELSE g[i]
        BY <4>1
      <4>3. m + i <= m => i = 0 /\ m + i = m
        BY <2>2
      <4>. HIDE DEF j
      <4>. QED
        BY <3>1, <4>2, <4>3
    <3>. QED
      BY <3>2
  <2>. HIDE DEF j
  <2>9. j[0] = base
    <3>1. h[0] = base /\ 0 \in 0 .. m
      BY <2>1, <2>2 DEF IsRun
    <3>. QED
      BY <2>7, <3>1
  <2>10. ASSUME NEW n \in 1 .. m + M
         PROVE  j[n] = madeOf(c, j[n - 1], seq[n])
    <3>1. CASE n <= m
      <4>1. n \in 1 .. m /\ n \in 0 .. m /\ n - 1 \in 0 .. m
        BY <2>2, <3>1
      <4>2. h[n] = madeOf(c, h[n - 1], seq[n])
        BY <2>1, <2>2, <4>1 DEF IsRun
      <4>. QED
        BY <2>7, <4>1, <4>2
    <3>2. CASE n > m
      <4>1. PICK i \in 1 .. M : n = m + i
        BY <2>2, <3>2
      <4>2. i \in 0 .. M /\ i - 1 \in 0 .. M /\ n - 1 = m + (i - 1)
        BY <2>2, <4>1
      <4>3. g[i] = madeOf(c, g[i - 1], part[i])
        BY <2>6 DEF IsRun
      <4>4. part[i] = seq[n]
        BY <2>4, <4>1
      <4>. QED
        BY <2>8, <4>1, <4>2, <4>3, <4>4
    <3>. QED
      BY <2>2, <3>1, <3>2
  <2>11. j[last(k + 1)] = f[k + 1]
    <3>1. M \in 0 .. M
      BY <2>2
    <3>. QED
      BY <2>2, <2>5, <2>6, <2>8, <3>1
  <2>12. Upto(j, k + 1)
    BY <2>2, <2>9, <2>10, <2>11 DEF IsRun
  <2>. QED
    BY <2>12
<1>8. last(P) = N
  OBVIOUS
<1>. HIDE DEF last, parts
<1>9. P \in S
  <2>. HIDE DEF S
  <2>1. 0 .. P \subseteq S
    BY <1>6, <1>7, UpTo
  <2>. QED
    BY <2>1
<1>. QED
  BY <1>1, <1>3, <1>5, <1>8, <1>9
=============================================================================
