----------------------------- MODULE RCodeProofs -----------------------------
(***************************************************************************)
(* Proofs about what is written in R: experience data and a call of batch(). *)
(*                                                                         *)
(* Of experience data, whoever makes it: given by a user, changed a column   *)
(* at a time, or drawn by simulate(), for any rows and populations, any       *)
(* periods and any permitted time scale.                                    *)
(*                                                                         *)
(* Of batch(), for any analyses, any defaults, any time scales and whatever   *)
(* each fit comes to: it answers each analysis as the analysis alone would be *)
(* answered, stops for nothing but a fault, and ranks what it compares.       *)
(* BatchInv is inductive.                                                   *)
(***************************************************************************)
EXTENDS Simulate, Batch, DataInduction, FiniteSetTheorems

-----------------------------------------------------------------------------
(* x[keep].                                                                 *)

\* f is the recursion Where is defined by.
IsWhere(f, rows, keep, T) ==
  /\ f \in [0 .. Len(rows) -> Seq(T)]
  /\ f[0] = <<>>
  /\ \A n \in 1 .. Len(rows) :
       f[n] = IF n \in keep THEN Append(f[n - 1], rows[n]) ELSE f[n - 1]
  /\ Where(rows, keep) = f[Len(rows)]

LEMMA WhereHasAValue ==
  ASSUME NEW T, NEW rows \in Seq(T), NEW keep
  PROVE  \E f : IsWhere(f, rows, keep, T)
<1>. DEFINE N == Len(rows)
            V == Seq(T)
            More(n, s) == IF n \in keep THEN Append(s, rows[n]) ELSE s
            Is(f) == f = [n \in 0 .. N |-> IF n = 0 THEN <<>> ELSE More(n, f[n - 1])]
            G == [n \in 1 .. N |-> [s \in V |-> More(n, s)]]
<1>1. N \in Nat /\ <<>> \in V
  OBVIOUS
<1>2. G \in [1 .. N -> [V -> V]]
  <2>1. \A n \in 1 .. N, s \in V : More(n, s) \in V
    OBVIOUS
  <2>. HIDE DEF V, N, More
  <2>. QED
    BY <2>1
<1>3. PICK f : IsIterated(f, N, V, <<>>, G)
  <2>. HIDE DEF G, N, V
  <2>. QED
    BY <1>1, <1>2, RecursionHasAValue
<1>4. Is(f)
  <2>. HIDE DEF V, N, More
  <2>1. ASSUME NEW n \in 0 .. N
        PROVE  f[n] = IF n = 0 THEN <<>> ELSE More(n, f[n - 1])
    <3>1. n # 0 => n \in 1 .. N /\ f[n - 1] \in V
      BY <1>1, <1>3 DEF IsIterated
    <3>. QED
      BY <1>3, <3>1 DEF IsIterated
  <2>. QED
    BY <1>3, <2>1 DEF IsIterated
<1>. DEFINE h == CHOOSE g : Is(g)
<1>5. Is(h)
  <2>. HIDE DEF Is
  <2>. QED
    BY <1>4
<1>6. Where(rows, keep) = h[N]
  BY DEF Where
<1>. HIDE DEF h
<1>7. f = h
  <2>. DEFINE S == {n \in 0 .. N : f[n] = h[n]}
  <2>. HIDE DEF N, More
  <2>1. 0 \in S
    BY <1>1, <1>4, <1>5
  <2>2. ASSUME NEW n \in 0 .. N - 1, n \in S
        PROVE  n + 1 \in S
    <3>1. n + 1 \in 0 .. N /\ n + 1 # 0 /\ (n + 1) - 1 = n
      BY <1>1
    <3>2. f[n + 1] = More(n + 1, f[n]) /\ h[n + 1] = More(n + 1, h[n])
      BY <1>4, <1>5, <3>1
    <3>. QED
      BY <2>2, <3>1, <3>2
  <2>3. 0 .. N \subseteq S
    <3>. HIDE DEF S
    <3>. QED
      BY <1>1, <2>1, <2>2, UpTo
  <2>. QED
    BY <1>4, <1>5, <2>3
<1>. HIDE DEF More
<1>8. \A n \in 1 .. N : f[n] = More(n, f[n - 1])
  BY <1>4
<1>9. f \in [0 .. N -> V] /\ f[0] = <<>>
  BY <1>3 DEF IsIterated
<1>10. IsWhere(f, rows, keep, T)
  BY <1>6, <1>7, <1>8, <1>9 DEF IsWhere, More
<1>. QED
  BY <1>10

\* Every row kept is one of the rows, and every row at a place kept is there.
AreKept(kept, rows, keep, T) ==
  /\ kept \in Seq(T)
  /\ \A k \in DOMAIN kept : \E n \in DOMAIN rows : n \in keep /\ kept[k] = rows[n]
  /\ \A n \in DOMAIN rows : n \in keep => \E k \in DOMAIN kept : kept[k] = rows[n]

LEMMA WhereKeeps ==
  ASSUME NEW T, NEW rows \in Seq(T), NEW keep
  PROVE  AreKept(Where(rows, keep), rows, keep, T)
<1>. DEFINE N == Len(rows)
<1>1. PICK f : IsWhere(f, rows, keep, T)
  BY WhereHasAValue
<1>2. N \in Nat /\ DOMAIN rows = 1 .. N
  OBVIOUS
<1>3. /\ \A n \in 0 .. N : f[n] \in Seq(T)
      /\ f[0] = <<>> /\ Where(rows, keep) = f[N]
      /\ \A n \in 1 .. N : f[n] = IF n \in keep THEN Append(f[n - 1], rows[n]) ELSE f[n - 1]
  BY <1>1 DEF IsWhere
<1>. DEFINE Good(m) ==
              /\ \A k \in DOMAIN f[m] : \E n \in 1 .. m : n \in keep /\ f[m][k] = rows[n]
              /\ \A n \in 1 .. m : n \in keep => \E k \in DOMAIN f[m] : f[m][k] = rows[n]
            S == {m \in 0 .. N : Good(m)}
<1>4. 0 \in S
  BY <1>2, <1>3
<1>5. ASSUME NEW m \in 0 .. N - 1, m \in S
      PROVE  m + 1 \in S
  <2>1. m + 1 \in 1 .. N /\ (m + 1) - 1 = m /\ m \in 0 .. N
    BY <1>2
  <2>2. f[m + 1] = (IF m + 1 \in keep THEN Append(f[m], rows[m + 1]) ELSE f[m]) /\ f[m] \in Seq(T)
    BY <1>3, <2>1
  <2>3. Good(m)
    BY <1>5
  <2>4. 1 .. m + 1 = 1 .. m \union {m + 1}
    BY <2>1
  <2>5. CASE m + 1 \notin keep
    BY <2>1, <2>2, <2>3, <2>4, <2>5
  <2>6. CASE m + 1 \in keep
    <3>. DEFINE L == Len(f[m])
    <3>1. /\ f[m + 1] = Append(f[m], rows[m + 1]) /\ L \in Nat
          /\ DOMAIN f[m] = 1 .. L /\ DOMAIN f[m + 1] = 1 .. L + 1
          /\ f[m + 1][L + 1] = rows[m + 1]
          /\ \A k \in 1 .. L : f[m + 1][k] = f[m][k]
      <4>1. f[m + 1] = Append(f[m], rows[m + 1])
        BY <2>2, <2>6
      <4>. QED
        BY <2>2, <4>1
    <3>2. \A k \in DOMAIN f[m + 1] : \E n \in 1 .. m + 1 : n \in keep /\ f[m + 1][k] = rows[n]
      <4>. SUFFICES ASSUME NEW k \in 1 .. L + 1
                    PROVE  \E n \in 1 .. m + 1 : n \in keep /\ f[m + 1][k] = rows[n]
        BY <3>1
      <4>1. CASE k = L + 1
        BY <2>4, <2>6, <3>1, <4>1
      <4>2. CASE k \in 1 .. L
        BY <2>3, <2>4, <3>1, <4>2
      <4>. QED
        BY <3>1, <4>1, <4>2
    <3>3. ASSUME NEW n \in 1 .. m + 1, n \in keep
          PROVE  \E k \in DOMAIN f[m + 1] : f[m + 1][k] = rows[n]
      <4>1. CASE n = m + 1
        <5>1. L + 1 \in DOMAIN f[m + 1]
          BY <3>1
        <5>. QED
          BY <3>1, <4>1, <5>1
      <4>2. CASE n \in 1 .. m
        <5>1. PICK k \in 1 .. L : f[m][k] = rows[n]
          BY <2>3, <3>1, <3>3, <4>2
        <5>2. k \in DOMAIN f[m + 1]
          BY <3>1
        <5>. QED
          BY <3>1, <5>1, <5>2
      <4>. QED
        BY <2>4, <4>1, <4>2
    <3>. QED
      BY <2>1, <3>2, <3>3
  <2>. QED
    BY <2>5, <2>6
<1>6. 0 .. N \subseteq S
  <2>. HIDE DEF S, N
  <2>. QED
    BY <1>2, <1>4, <1>5, UpTo
<1>7. Good(N)
  BY <1>2, <1>6
<1>8. f[N] \in Seq(T) /\ Where(rows, keep) = f[N] /\ 1 .. N = DOMAIN rows
  BY <1>2, <1>3
<1>. HIDE DEF N
<1>9. \A k \in DOMAIN f[N] : \E n \in DOMAIN rows : n \in keep /\ f[N][k] = rows[n]
  BY <1>7, <1>8
<1>10. \A n \in DOMAIN rows : n \in keep => \E k \in DOMAIN f[N] : f[N][k] = rows[n]
  BY <1>7, <1>8
<1>. QED
  BY <1>8, <1>9, <1>10 DEF AreKept

\* Where all are kept, nothing changes.
LEMMA WhereAll ==
  ASSUME NEW T, NEW rows \in Seq(T), NEW keep, DOMAIN rows \subseteq keep
  PROVE  Where(rows, keep) = rows
<1>. DEFINE N == Len(rows)
<1>1. PICK f : IsWhere(f, rows, keep, T)
  BY WhereHasAValue
<1>2. N \in Nat /\ DOMAIN rows = 1 .. N
  OBVIOUS
<1>3. /\ \A n \in 0 .. N : f[n] \in Seq(T)
      /\ f[0] = <<>> /\ Where(rows, keep) = f[N]
      /\ \A n \in 1 .. N : f[n] = Append(f[n - 1], rows[n])
  BY <1>1, <1>2 DEF IsWhere
<1>. DEFINE S == {m \in 0 .. N : Len(f[m]) = m /\ \A k \in 1 .. m : f[m][k] = rows[k]}
<1>4. 0 \in S
  BY <1>2, <1>3
<1>5. ASSUME NEW m \in 0 .. N - 1, m \in S
      PROVE  m + 1 \in S
  <2>1. m + 1 \in 1 .. N /\ (m + 1) - 1 = m /\ m \in 0 .. N /\ m \in Nat
    BY <1>2
  <2>2. f[m + 1] = Append(f[m], rows[m + 1]) /\ f[m] \in Seq(T) /\ Len(f[m]) = m
    BY <1>3, <1>5, <2>1
  <2>3. Len(f[m + 1]) = m + 1 /\ f[m + 1][m + 1] = rows[m + 1]
        /\ \A k \in 1 .. m : f[m + 1][k] = f[m][k]
    BY <2>1, <2>2
  <2>. QED
    BY <1>5, <2>1, <2>3
<1>6. 0 .. N \subseteq S
  <2>. HIDE DEF S, N
  <2>. QED
    BY <1>2, <1>4, <1>5, UpTo
<1>7. Len(f[N]) = N /\ \A k \in 1 .. N : f[N][k] = rows[k]
  BY <1>2, <1>6
<1>. QED
  BY <1>2, <1>3, <1>7

\* What is kept is told apart by a key if it was before.
LEMMA WhereTellsApart ==
  ASSUME NEW T, NEW rows \in Seq(T), NEW keep, NEW key,
         \A m, n \in DOMAIN rows : m \in keep /\ n \in keep /\ key[rows[m]] = key[rows[n]] => m = n
  PROVE  \A j, k \in DOMAIN Where(rows, keep) :
           key[Where(rows, keep)[j]] = key[Where(rows, keep)[k]] => j = k
<1>. DEFINE N == Len(rows)
<1>1. PICK f : IsWhere(f, rows, keep, T)
  BY WhereHasAValue
<1>2. N \in Nat /\ DOMAIN rows = 1 .. N
  OBVIOUS
<1>3. /\ \A n \in 0 .. N : f[n] \in Seq(T)
      /\ f[0] = <<>> /\ Where(rows, keep) = f[N]
      /\ \A n \in 1 .. N : f[n] = IF n \in keep THEN Append(f[n - 1], rows[n]) ELSE f[n - 1]
  BY <1>1 DEF IsWhere
<1>. DEFINE Good(m) ==
              /\ \A k \in DOMAIN f[m] : \E n \in 1 .. m : n \in keep /\ f[m][k] = rows[n]
              /\ \A j, k \in DOMAIN f[m] : key[f[m][j]] = key[f[m][k]] => j = k
            S == {m \in 0 .. N : Good(m)}
<1>4. 0 \in S
  BY <1>2, <1>3
<1>5. ASSUME NEW m \in 0 .. N - 1, m \in S
      PROVE  m + 1 \in S
  <2>1. m + 1 \in 1 .. N /\ (m + 1) - 1 = m /\ m \in 0 .. N
    BY <1>2
  <2>2. f[m + 1] = (IF m + 1 \in keep THEN Append(f[m], rows[m + 1]) ELSE f[m]) /\ f[m] \in Seq(T)
    BY <1>3, <2>1
  <2>3. Good(m)
    BY <1>5
  <2>4. 1 .. m + 1 = 1 .. m \union {m + 1}
    BY <2>1
  <2>5. CASE m + 1 \notin keep
    BY <2>1, <2>2, <2>3, <2>4, <2>5
  <2>6. CASE m + 1 \in keep
    <3>. DEFINE L == Len(f[m])
    <3>1. /\ f[m + 1] = Append(f[m], rows[m + 1]) /\ L \in Nat
          /\ DOMAIN f[m] = 1 .. L /\ DOMAIN f[m + 1] = 1 .. L + 1
          /\ f[m + 1][L + 1] = rows[m + 1]
          /\ \A k \in 1 .. L : f[m + 1][k] = f[m][k]
      <4>1. f[m + 1] = Append(f[m], rows[m + 1])
        BY <2>2, <2>6
      <4>. QED
        BY <2>2, <4>1
    <3>2. 1 .. L + 1 = 1 .. L \union {L + 1}
      BY <3>1
    <3>3. \A k \in 1 .. L : key[f[m][k]] # key[rows[m + 1]]
      <4>. SUFFICES ASSUME NEW k \in 1 .. L, key[f[m][k]] = key[rows[m + 1]] PROVE FALSE
        OBVIOUS
      <4>1. PICK n \in 1 .. m : n \in keep /\ f[m][k] = rows[n]
        BY <2>3, <3>1
      <4>2. n \in DOMAIN rows /\ m + 1 \in DOMAIN rows /\ n # m + 1
        BY <1>2, <2>1
      <4>. QED
        BY <2>6, <4>1, <4>2
    <3>4. \A k \in DOMAIN f[m + 1] : \E n \in 1 .. m + 1 : n \in keep /\ f[m + 1][k] = rows[n]
      BY <2>3, <2>4, <2>6, <3>1, <3>2
    <3>5. \A j, k \in 1 .. L + 1 : key[f[m + 1][j]] = key[f[m + 1][k]] => j = k
      <4>1. \A j, k \in 1 .. L : key[f[m][j]] = key[f[m][k]] => j = k
        BY <2>3, <3>1
      <4>. HIDE DEF Good, L
      <4>2. ASSUME NEW j \in 1 .. L + 1, NEW k \in 1 .. L + 1,
                   key[f[m + 1][j]] = key[f[m + 1][k]]
            PROVE  j = k
        <5>1. CASE j \in 1 .. L /\ k \in 1 .. L
          BY <3>1, <4>1, <4>2, <5>1
        <5>2. CASE j \in 1 .. L /\ k = L + 1
          BY <3>1, <3>3, <4>2, <5>2
        <5>3. CASE k \in 1 .. L /\ j = L + 1
          BY <3>1, <3>3, <4>2, <5>3
        <5>. QED
          BY <3>2, <5>1, <5>2, <5>3
      <4>. QED
        BY <4>2
    <3>6. \A j, k \in DOMAIN f[m + 1] : key[f[m + 1][j]] = key[f[m + 1][k]] => j = k
      BY <3>1, <3>5
    <3>7. m + 1 \in 0 .. N /\ Good(m + 1)
      BY <2>1, <3>4, <3>6
    <3>. HIDE DEF Good
    <3>. QED
      BY <3>7
  <2>. QED
    BY <2>5, <2>6
<1>6. 0 .. N \subseteq S
  <2>. HIDE DEF S, N
  <2>. QED
    BY <1>2, <1>4, <1>5, UpTo
<1>7. Good(N)
  BY <1>2, <1>6
<1>. QED
  BY <1>2, <1>3, <1>7

-----------------------------------------------------------------------------
(* unique().                                                                *)

\* Each value of the sequence once.
AreDistinct(values, x, T) ==
  /\ values \in Seq(T)
  /\ \A r \in DOMAIN values : \E n \in DOMAIN x : x[n] = values[r]
  /\ \A n \in DOMAIN x : \E r \in DOMAIN values : values[r] = x[n]
  /\ \A q, r \in DOMAIN values : values[q] = values[r] => q = r

LEMMA UniqueIsDistinct ==
  ASSUME NEW T, NEW x \in Seq(T)
  PROVE  AreDistinct(Unique(x), x, T)
<1>1. PICK N \in Nat : N = Len(x) /\ DOMAIN x = 1 .. N /\ \A n \in 1 .. N : x[n] \in T
  <2>1. Len(x) \in Nat /\ DOMAIN x = 1 .. Len(x) /\ \A n \in 1 .. Len(x) : x[n] \in T
    OBVIOUS
  <2>. QED
    BY <2>1
<1>2. PICK firsts : firsts = {n \in DOMAIN x : \A k \in 1 .. n - 1 : x[k] # x[n]}
  OBVIOUS
<1>3. PICK values : values = Unique(x) /\ values = Where(x, firsts)
  BY <1>2 DEF Unique
<1>4. AreKept(values, x, firsts, T)
  BY <1>3, WhereKeeps
<1>5. ASSUME NEW n \in DOMAIN x
      PROVE  \E r \in DOMAIN values : values[r] = x[n]
  <2>. DEFINE S == {k \in 1 .. N : x[k] = x[n]}
  <2>1. S \in SUBSET Nat /\ S # {}
    BY <1>1
  <2>2. PICK k \in S : \A j \in S : k <= j
    <3>. HIDE DEF S
    <3>. QED
      BY <2>1, LeastNatural
  <2>3. \A j \in 1 .. k - 1 : j \in 1 .. N /\ ~(k <= j)
    OBVIOUS
  <2>4. \A j \in 1 .. k - 1 : x[j] # x[k]
    BY <2>2, <2>3
  <2>5. k \in firsts /\ k \in DOMAIN x /\ x[k] = x[n]
    BY <1>1, <1>2, <2>4
  <2>. QED
    BY <1>4, <2>5 DEF AreKept
<1>6. ASSUME NEW m \in DOMAIN x, NEW n \in DOMAIN x, m \in firsts, n \in firsts, x[m] = x[n]
      PROVE  m = n
  <2>1. m \in 1 .. N /\ n \in 1 .. N
    BY <1>1
  <2>2. (\A k \in 1 .. m - 1 : x[k] # x[m]) /\ \A k \in 1 .. n - 1 : x[k] # x[n]
    BY <1>2, <1>6
  <2>3. ~(m < n) /\ ~(n < m)
    BY <1>6, <2>1, <2>2
  <2>. QED
    BY <2>1, <2>3
<1>. DEFINE same == [t \in T |-> t]
<1>7. \A m, n \in DOMAIN x : m \in firsts /\ n \in firsts /\ same[x[m]] = same[x[n]] => m = n
  BY <1>1, <1>6
<1>8. \A q, r \in DOMAIN values : same[values[q]] = same[values[r]] => q = r
  <2>. HIDE DEF same
  <2>. QED
    BY <1>3, <1>7, WhereTellsApart
<1>9. values \in Seq(T) /\ \A r \in DOMAIN values : \E n \in DOMAIN x : x[n] = values[r]
  BY <1>4 DEF AreKept
<1>10. \A q, r \in DOMAIN values : values[q] = values[r] => q = r
  BY <1>8, <1>9
<1>. QED
  BY <1>3, <1>5, <1>9, <1>10 DEF AreDistinct

-----------------------------------------------------------------------------
(* Totals.                                                                  *)

\* f is the recursion Total is defined by.
IsTotal(f, amounts) ==
  /\ f \in [0 .. Len(amounts) -> Int]
  /\ f[0] = 0
  /\ \A n \in 1 .. Len(amounts) : f[n] = f[n - 1] + amounts[n]
  /\ Total(amounts) = f[Len(amounts)]

LEMMA TotalHasAValue ==
  ASSUME NEW amounts \in Seq(Int)
  PROVE  \E f : IsTotal(f, amounts)
<1>. DEFINE N == Len(amounts)
            Is(f) == f = [n \in 0 .. N |-> IF n = 0 THEN 0 ELSE f[n - 1] + amounts[n]]
            G == [n \in 1 .. N |-> [s \in Int |-> s + amounts[n]]]
<1>1. N \in Nat /\ 0 \in Int /\ \A n \in 1 .. N : amounts[n] \in Int
  OBVIOUS
<1>2. G \in [1 .. N -> [Int -> Int]]
  BY <1>1
<1>3. PICK f : IsIterated(f, N, Int, 0, G)
  <2>. HIDE DEF G, N
  <2>. QED
    BY <1>1, <1>2, RecursionHasAValue
<1>4. \A n \in 1 .. N : f[n - 1] \in Int /\ f[n] = f[n - 1] + amounts[n]
  <2>. HIDE DEF N
  <2>1. \A n \in 1 .. N : n - 1 \in 0 .. N
    BY <1>1
  <2>. QED
    BY <1>1, <1>3, <2>1 DEF IsIterated
<1>5. f \in [0 .. N -> Int] /\ f[0] = 0
  BY <1>3 DEF IsIterated
<1>6. Is(f)
  <2>. HIDE DEF N
  <2>1. \A n \in 0 .. N : n # 0 => n \in 1 .. N
    BY <1>1
  <2>. QED
    BY <1>4, <1>5, <2>1
<1>. DEFINE h == CHOOSE g : Is(g)
<1>7. Is(h)
  <2>. HIDE DEF Is
  <2>. QED
    BY <1>6
<1>8. Total(amounts) = h[N]
  BY DEF Total
<1>. HIDE DEF h
<1>9. f = h
  <2>. DEFINE S == {n \in 0 .. N : f[n] = h[n]}
  <2>. HIDE DEF N
  <2>1. 0 \in S
    BY <1>1, <1>5, <1>7
  <2>2. ASSUME NEW n \in 0 .. N - 1, n \in S
        PROVE  n + 1 \in S
    <3>1. n + 1 \in 1 .. N /\ n + 1 \in 0 .. N /\ n + 1 # 0 /\ (n + 1) - 1 = n
      BY <1>1
    <3>2. f[n + 1] = f[n] + amounts[n + 1] /\ h[n + 1] = h[n] + amounts[n + 1]
      BY <1>4, <1>7, <3>1
    <3>. QED
      BY <2>2, <3>1, <3>2
  <2>3. 0 .. N \subseteq S
    <3>. HIDE DEF S
    <3>. QED
      BY <1>1, <2>1, <2>2, UpTo
  <2>. QED
    BY <1>5, <1>7, <2>3
<1>10. IsTotal(f, amounts)
  BY <1>4, <1>5, <1>8, <1>9 DEF IsTotal
<1>. QED
  BY <1>10

LEMMA SequencesOfNumbers ==
  ASSUME NEW N \in Nat, NEW a \in [1 .. N -> Int]
  PROVE  a \in Seq(Int) /\ Len(a) = N
OBVIOUS

LEMMA TotalOfNothing == Total(<<>>) = 0
<1>1. <<>> \in Seq(Int) /\ Len(<<>>) = 0
  OBVIOUS
<1>2. PICK f : IsTotal(f, <<>>)
  BY <1>1, TotalHasAValue
<1>. QED
  BY <1>1, <1>2 DEF IsTotal

LEMMA TotalOfOneMore ==
  ASSUME NEW a \in Seq(Int), NEW x \in Int
  PROVE  Total(a) \in Int /\ Total(Append(a, x)) = Total(a) + x
<1>1. PICK b : b = Append(a, x)
  OBVIOUS
<1>2. PICK N \in Nat : /\ N = Len(a) /\ Len(b) = N + 1 /\ b \in Seq(Int) /\ b[N + 1] = x
                       /\ \A n \in 1 .. N : b[n] = a[n]
  BY <1>1
<1>3. PICK f : IsTotal(f, a)
  BY TotalHasAValue
<1>4. PICK g : IsTotal(g, b)
  BY <1>2, TotalHasAValue
<1>. DEFINE S == {n \in 0 .. N : f[n] = g[n]}
<1>5. 0 \in S
  BY <1>3, <1>4 DEF IsTotal
<1>6. ASSUME NEW n \in 0 .. N - 1, n \in S
      PROVE  n + 1 \in S
  <2>1. n + 1 \in 1 .. N /\ n + 1 \in 1 .. N + 1 /\ (n + 1) - 1 = n
    OBVIOUS
  <2>2. f[n + 1] = f[n] + a[n + 1]
    BY <1>2, <1>3, <2>1 DEF IsTotal
  <2>3. g[n + 1] = g[n] + b[n + 1]
    BY <1>2, <1>4, <2>1 DEF IsTotal
  <2>. QED
    BY <1>2, <1>6, <2>1, <2>2, <2>3
<1>7. 0 .. N \subseteq S
  <2>. HIDE DEF S
  <2>. QED
    BY <1>5, <1>6, UpTo
<1>8. f[N] = g[N] /\ f[N] \in Int
  BY <1>2, <1>3, <1>7 DEF IsTotal
<1>9. N + 1 \in 1 .. N + 1 /\ (N + 1) - 1 = N
  OBVIOUS
<1>10. g[N + 1] = g[N] + x
  BY <1>2, <1>4, <1>9 DEF IsTotal
<1>11. Total(a) = f[N] /\ Total(b) = g[N + 1]
  BY <1>2, <1>3, <1>4 DEF IsTotal
<1>. QED
  BY <1>1, <1>8, <1>10, <1>11

LEMMA TotalOfSums ==
  ASSUME NEW a \in Seq(Int), NEW b \in Seq(Int), NEW c \in Seq(Int),
         Len(a) = Len(c), Len(b) = Len(c),
         \A n \in DOMAIN c : c[n] = a[n] + b[n]
  PROVE  Total(c) = Total(a) + Total(b)
<1>1. PICK N \in Nat : N = Len(c) /\ DOMAIN c = 1 .. N
                       /\ \A n \in 1 .. N : a[n] \in Int /\ b[n] \in Int
  <2>1. Len(c) \in Nat /\ DOMAIN c = 1 .. Len(c)
        /\ \A n \in 1 .. Len(c) : a[n] \in Int /\ b[n] \in Int
    OBVIOUS
  <2>. QED
    BY <2>1
<1>2. PICK f : IsTotal(f, a)
  BY TotalHasAValue
<1>3. PICK g : IsTotal(g, b)
  BY TotalHasAValue
<1>4. PICK h : IsTotal(h, c)
  BY TotalHasAValue
<1>. DEFINE S == {n \in 0 .. N : h[n] = f[n] + g[n]}
<1>5. 0 \in S
  BY <1>2, <1>3, <1>4 DEF IsTotal
<1>6. ASSUME NEW n \in 0 .. N - 1, n \in S
      PROVE  n + 1 \in S
  <2>1. n + 1 \in 1 .. N /\ n \in 0 .. N /\ (n + 1) - 1 = n
    OBVIOUS
  <2>2. f[n + 1] = f[n] + a[n + 1] /\ f[n] \in Int
    BY <1>1, <1>2, <2>1 DEF IsTotal
  <2>3. g[n + 1] = g[n] + b[n + 1] /\ g[n] \in Int
    BY <1>1, <1>3, <2>1 DEF IsTotal
  <2>4. h[n + 1] = h[n] + c[n + 1]
    BY <1>1, <1>4, <2>1 DEF IsTotal
  <2>5. c[n + 1] = a[n + 1] + b[n + 1] /\ a[n + 1] \in Int /\ b[n + 1] \in Int
    BY <1>1, <2>1
  <2>6. h[n] = f[n] + g[n]
    BY <1>6
  <2>7. h[n + 1] = f[n + 1] + g[n + 1]
    BY <2>2, <2>3, <2>4, <2>5, <2>6
  <2>. QED
    BY <2>1, <2>7
<1>7. 0 .. N \subseteq S
  <2>. HIDE DEF S
  <2>. QED
    BY <1>5, <1>6, UpTo
<1>8. h[N] = f[N] + g[N]
  BY <1>7
<1>9. Total(a) = f[N] /\ Total(b) = g[N] /\ Total(c) = h[N]
  BY <1>1, <1>2, <1>3, <1>4 DEF IsTotal
<1>. QED
  BY <1>8, <1>9

-----------------------------------------------------------------------------
(* What new_exp_data makes of rows.                                         *)

\* Rows that are told apart by their ids still are, in whatever is kept of them.
LEMMA IdsTellApart ==
  ASSUME NEW T, NEW rows \in Seq(T), NEW keep,
         \A m, n \in DOMAIN rows : rows[m].id = rows[n].id => m = n
  PROVE  \A j, k \in DOMAIN Where(rows, keep) :
           Where(rows, keep)[j].id = Where(rows, keep)[k].id => j = k
<1>1. PICK kept : kept = Where(rows, keep) /\ AreKept(kept, rows, keep, T)
  BY WhereKeeps
<1>2. PICK key : key = [row \in T |-> row.id]
  OBVIOUS
<1>3. \A n \in DOMAIN rows : key[rows[n]] = rows[n].id
  BY <1>2
<1>4. \A k \in DOMAIN kept : key[kept[k]] = kept[k].id
  <2>1. kept \in Seq(T)
    BY <1>1 DEF AreKept
  <2>2. \A k \in DOMAIN kept : kept[k] \in T
    BY <2>1
  <2>. QED
    BY <1>2, <2>2
<1>5. \A m, n \in DOMAIN rows : m \in keep /\ n \in keep /\ key[rows[m]] = key[rows[n]] => m = n
  BY <1>3
<1>6. \A j, k \in DOMAIN Where(rows, keep) :
        key[Where(rows, keep)[j]] = key[Where(rows, keep)[k]] => j = k
  BY <1>5, WhereTellsApart
<1>. QED
  BY <1>1, <1>4, <1>6

IsUsable(row, period) ==
  /\ period.start <= row.start
  /\ row.start < row.end
  /\ row.end <= period.end
  /\ row.count > 0

LEMMA TrimmedIs ==
  ASSUME NEW row \in RowType, NEW period \in PeriodType
  PROVE  LET t == Trimmed(row, period)
         IN /\ t \in RowType /\ t.id = row.id /\ t.count = row.count
            /\ t.start = IF row.start >= period.start THEN row.start ELSE period.start
            /\ t.end = IF row.end <= period.end THEN row.end ELSE period.end
            /\ t.died = (row.end <= period.end /\ row.died)
<1>. DEFINE keepEnd == row.end <= period.end
            s == IF row.start >= period.start THEN row.start ELSE period.start
            e == IF keepEnd THEN row.end ELSE period.end
            d == keepEnd /\ row.died
<1>1. /\ row.start \in Int /\ row.end \in Int /\ row.died \in BOOLEAN /\ row.id \in Nat
      /\ row.count \in Int
  BY DEF RowType
<1>2. period.start \in Int /\ period.end \in Int
  BY DEF PeriodType
<1>3. s \in Int /\ e \in Int /\ d \in BOOLEAN
  BY <1>1, <1>2
<1>4. Trimmed(row, period) = [row EXCEPT !.start = s, !.end = e, !.died = d]
  BY DEF Trimmed
<1>. HIDE DEF s, e, d
<1>5. Trimmed(row, period) = [id |-> row.id, start |-> s, end |-> e, died |-> d,
                              count |-> row.count]
  BY <1>4 DEF RowType
<1>6. [id |-> row.id, start |-> s, end |-> e, died |-> d, count |-> row.count] \in RowType
  BY <1>1, <1>3 DEF RowType
<1>7. /\ Trimmed(row, period) \in RowType
      /\ Trimmed(row, period).id = row.id /\ Trimmed(row, period).count = row.count
      /\ Trimmed(row, period).start = s /\ Trimmed(row, period).end = e
      /\ Trimmed(row, period).died = d
  BY <1>5, <1>6
<1>. QED
  BY <1>7 DEF s, e, d

LEMMA TrimRowsIs ==
  ASSUME NEW rows \in Seq(RowType), NEW period \in PeriodType
  PROVE  /\ TrimRows(rows, period) \in Seq(RowType)
         /\ \A k \in DOMAIN TrimRows(rows, period) :
              /\ TrimRows(rows, period)[k].start < TrimRows(rows, period)[k].end
              /\ \E n \in DOMAIN rows : TrimRows(rows, period)[k] = Trimmed(rows[n], period)
         /\ \A n \in DOMAIN rows :
              Trimmed(rows[n], period).start < Trimmed(rows[n], period).end =>
                \E k \in DOMAIN TrimRows(rows, period) :
                  TrimRows(rows, period)[k] = Trimmed(rows[n], period)
         /\ AreRecords(rows) => AreRecords(TrimRows(rows, period))
<1>. DEFINE trimmed == [n \in DOMAIN rows |-> Trimmed(rows[n], period)]
            keep == HasE2R(trimmed)
            kept == Where(trimmed, keep)
<1>1. TrimRows(rows, period) = kept
  BY DEF TrimRows
<1>2. \A n \in DOMAIN rows : rows[n] \in RowType /\ Trimmed(rows[n], period) \in RowType
                             /\ Trimmed(rows[n], period).id = rows[n].id
  BY TrimmedIs
<1>3. trimmed \in Seq(RowType) /\ DOMAIN trimmed = DOMAIN rows
      /\ \A n \in DOMAIN rows : trimmed[n] = Trimmed(rows[n], period)
  BY <1>2
<1>. HIDE DEF trimmed
<1>4. \A n \in DOMAIN rows : n \in keep <=> trimmed[n].start < trimmed[n].end
  BY <1>3 DEF HasE2R
<1>. HIDE DEF keep
<1>5. AreKept(kept, trimmed, keep, RowType)
  BY <1>3, WhereKeeps
<1>6. ASSUME AreRecords(rows)
      PROVE  AreRecords(kept)
  <2>1. \A m, n \in DOMAIN trimmed : trimmed[m].id = trimmed[n].id => m = n
    BY <1>2, <1>3, <1>6 DEF AreRecords
  <2>. QED
    BY <1>3, <1>5, <2>1, IdsTellApart DEF AreRecords, AreKept
<1>. HIDE DEF kept
<1>. QED
  BY <1>1, <1>3, <1>4, <1>5, <1>6 DEF AreKept

LEMMA CountedIs ==
  ASSUME NEW rows \in Seq(RowType)
  PROVE  /\ Counted(rows) \in Seq(RowType)
         /\ \A k \in DOMAIN Counted(rows) :
              /\ Counted(rows)[k].count > 0
              /\ \E n \in DOMAIN rows : Counted(rows)[k] = rows[n]
         /\ \A n \in DOMAIN rows : rows[n].count > 0 =>
              \E k \in DOMAIN Counted(rows) : Counted(rows)[k] = rows[n]
         /\ AreRecords(rows) => AreRecords(Counted(rows))
<1>1. PICK counting : counting = {n \in DOMAIN rows : rows[n].count > 0}
  OBVIOUS
<1>2. PICK kept : kept = Where(rows, counting)
  OBVIOUS
<1>3. Counted(rows) = kept
  BY <1>1, <1>2 DEF Counted
<1>4. AreKept(kept, rows, counting, RowType)
  BY <1>2, WhereKeeps
<1>5. AreRecords(rows) => AreRecords(kept)
  BY <1>2, <1>4, IdsTellApart DEF AreRecords, AreKept
<1>. QED
  BY <1>1, <1>3, <1>4, <1>5 DEF AreKept

\* What exp_data() makes of the columns it is given.
LEMMA MadeDataIs ==
  ASSUME NEW rows \in Seq(RowType), AreRecords(rows), NEW period \in PeriodType
  PROVE  LET made == Kept(rows, period, WholeSet)
         IN /\ made \in Seq(RowType) /\ AreRecords(made)
            /\ \A k \in DOMAIN made :
                 /\ IsUsable(made[k], period)
                 /\ \E n \in DOMAIN rows : made[k] = Trimmed(rows[n], period)
            /\ \A n \in DOMAIN rows :
                 /\ rows[n].count > 0
                 /\ Trimmed(rows[n], period).start < Trimmed(rows[n], period).end
                 => \E k \in DOMAIN made : made[k] = Trimmed(rows[n], period)
<1>. DEFINE counted == Counted(rows)
            made == TrimRows(counted, period)
<1>1. Kept(rows, period, WholeSet) = made
  BY DEF Kept, Trims, Considered, IsNew, ExposureColumns
<1>2. /\ counted \in Seq(RowType) /\ AreRecords(counted)
      /\ \A k \in DOMAIN counted : counted[k].count > 0 /\ \E n \in DOMAIN rows : counted[k] = rows[n]
      /\ \A n \in DOMAIN rows : rows[n].count > 0 => \E k \in DOMAIN counted : counted[k] = rows[n]
  BY CountedIs
<1>. HIDE DEF counted
<1>3. /\ made \in Seq(RowType) /\ AreRecords(made)
      /\ \A k \in DOMAIN made :
           /\ made[k].start < made[k].end
           /\ \E n \in DOMAIN counted : made[k] = Trimmed(counted[n], period)
      /\ \A n \in DOMAIN counted :
           Trimmed(counted[n], period).start < Trimmed(counted[n], period).end =>
             \E k \in DOMAIN made : made[k] = Trimmed(counted[n], period)
  BY <1>2, TrimRowsIs
<1>. HIDE DEF made
<1>4. ASSUME NEW k \in DOMAIN made
      PROVE  /\ IsUsable(made[k], period)
             /\ \E n \in DOMAIN rows : made[k] = Trimmed(rows[n], period)
  <2>1. PICK m \in DOMAIN counted : made[k] = Trimmed(counted[m], period)
    BY <1>3
  <2>2. PICK n \in DOMAIN rows : counted[m] = rows[n]
    BY <1>2
  <2>3. rows[n] \in RowType /\ rows[n].count > 0
    BY <1>2, <2>2
  <2>5. rows[n].start \in Int /\ rows[n].end \in Int
    BY <2>3 DEF RowType
  <2>4. period.start \in Int /\ period.end \in Int
    BY DEF PeriodType
  <2>. QED
    BY <1>3, <2>1, <2>2, <2>3, <2>4, <2>5, TrimmedIs DEF IsUsable
<1>5. ASSUME NEW n \in DOMAIN rows, rows[n].count > 0,
             Trimmed(rows[n], period).start < Trimmed(rows[n], period).end
      PROVE  \E k \in DOMAIN made : made[k] = Trimmed(rows[n], period)
  <2>1. PICK m \in DOMAIN counted : counted[m] = rows[n]
    BY <1>2, <1>5
  <2>. QED
    BY <1>3, <1>5, <2>1
<1>. QED
  BY <1>1, <1>3, <1>4, <1>5

\* What assigning a column makes of rows that were usable.
LEMMA ChangedDataIs ==
  ASSUME NEW rows \in Seq(RowType), NEW period \in PeriodType,
         NEW column \in DOMAIN Assignable,
         IF column = "count"
         THEN \A n \in DOMAIN rows : /\ period.start <= rows[n].start
                                     /\ rows[n].start < rows[n].end
                                     /\ rows[n].end <= period.end
         ELSE \A n \in DOMAIN rows : rows[n].count > 0
  PROVE  /\ Kept(rows, period, column) \in Seq(RowType)
         /\ \A k \in DOMAIN Kept(rows, period, column) :
              IsUsable(Kept(rows, period, column)[k], period)
<1>1. column \in {"start", "end", "died", "count"}
  BY DEF Assignable
<1>2. CASE column = "count"
  <2>1. Kept(rows, period, column) = Counted(rows)
    BY <1>2 DEF Kept, Trims, Considered, IsNew, ExposureColumns, WholeSet
  <2>2. /\ Counted(rows) \in Seq(RowType)
        /\ \A k \in DOMAIN Counted(rows) :
             Counted(rows)[k].count > 0 /\ \E n \in DOMAIN rows : Counted(rows)[k] = rows[n]
    BY CountedIs
  <2>. QED
    BY <1>2, <2>1, <2>2 DEF IsUsable
<1>3. CASE column # "count"
  <2>. DEFINE made == TrimRows(rows, period)
  <2>1. Kept(rows, period, column) = made
    BY <1>1, <1>3 DEF Kept, Trims, Considered, IsNew, ExposureColumns, WholeSet
  <2>2. /\ made \in Seq(RowType)
        /\ \A k \in DOMAIN made :
             /\ made[k].start < made[k].end
             /\ \E n \in DOMAIN rows : made[k] = Trimmed(rows[n], period)
    BY TrimRowsIs
  <2>. HIDE DEF made
  <2>3. ASSUME NEW k \in DOMAIN made
        PROVE  IsUsable(made[k], period)
    <3>1. PICK n \in DOMAIN rows : made[k] = Trimmed(rows[n], period)
      BY <2>2
    <3>2. rows[n] \in RowType /\ rows[n].count > 0
      BY <1>3
    <3>4. rows[n].start \in Int /\ rows[n].end \in Int
      BY <3>2 DEF RowType
    <3>3. period.start \in Int /\ period.end \in Int
      BY DEF PeriodType
    <3>. QED
      BY <2>2, <3>1, <3>2, <3>3, <3>4, TrimmedIs DEF IsUsable
  <2>. QED
    BY <2>1, <2>2, <2>3
<1>. QED
  BY <1>2, <1>3

-----------------------------------------------------------------------------
(* Totals.                                                                  *)

\* A total over the rows kept is one over all rows, those not kept counting nothing.
LEMMA TotalWhere ==
  ASSUME NEW rows \in Seq(RowType), NEW keep, NEW amount \in [RowType -> Int]
  PROVE  Total([k \in DOMAIN Where(rows, keep) |-> amount[Where(rows, keep)[k]]]) =
           Total([n \in DOMAIN rows |-> IF n \in keep THEN amount[rows[n]] ELSE 0])
<1>1. PICK f : IsWhere(f, rows, keep, RowType)
  BY WhereHasAValue
<1>2. PICK N \in Nat : N = Len(rows) /\ DOMAIN rows = 1 .. N /\ \A n \in 1 .. N : rows[n] \in RowType
  <2>1. Len(rows) \in Nat /\ DOMAIN rows = 1 .. Len(rows)
        /\ \A n \in 1 .. Len(rows) : rows[n] \in RowType
    OBVIOUS
  <2>. QED
    BY <2>1
<1>. DEFINE all == [n \in 1 .. N |-> IF n \in keep THEN amount[rows[n]] ELSE 0]
            of(s) == [k \in DOMAIN s |-> amount[s[k]]]
<1>3. \A n \in 1 .. N : amount[rows[n]] \in Int /\ all[n] \in Int
  BY <1>2
<1>4. all \in Seq(Int) /\ Len(all) = N
  BY <1>3
<1>. HIDE DEF all
<1>5. PICK g : IsTotal(g, all)
  BY <1>4, TotalHasAValue
<1>6. /\ \A n \in 0 .. N : f[n] \in Seq(RowType)
      /\ f[0] = <<>> /\ Where(rows, keep) = f[N]
      /\ \A n \in 1 .. N : f[n] = IF n \in keep THEN Append(f[n - 1], rows[n]) ELSE f[n - 1]
  BY <1>1, <1>2 DEF IsWhere
<1>7. \A s \in Seq(RowType) : of(s) \in Seq(Int) /\ \A x \in RowType : of(Append(s, x)) = Append(of(s), amount[x])
  <2>. SUFFICES ASSUME NEW s \in Seq(RowType), NEW x \in RowType
                PROVE  of(s) \in Seq(Int) /\ of(Append(s, x)) = Append(of(s), amount[x])
    OBVIOUS
  <2>. QED
    OBVIOUS
<1>. DEFINE S == {n \in 0 .. N : Total(of(f[n])) = g[n]}
<1>. HIDE DEF of
<1>8. 0 \in S
  <2>1. of(<<>>) = <<>>
    BY DEF of
  <2>. QED
    BY <1>5, <1>6, <2>1, TotalOfNothing DEF IsTotal
<1>9. ASSUME NEW n \in 0 .. N - 1, n \in S
      PROVE  n + 1 \in S
  <2>1. n + 1 \in 1 .. N /\ n \in 0 .. N /\ n + 1 \in 0 .. N /\ (n + 1) - 1 = n
    OBVIOUS
  <2>2. g[n + 1] = g[n] + all[n + 1] /\ g[n] \in Int
    BY <1>4, <1>5, <2>1 DEF IsTotal
  <2>3. f[n] \in Seq(RowType) /\ of(f[n]) \in Seq(Int) /\ Total(of(f[n])) = g[n]
    BY <1>6, <1>7, <1>9, <2>1
  <2>4. CASE n + 1 \in keep
    <3>1. f[n + 1] = Append(f[n], rows[n + 1]) /\ rows[n + 1] \in RowType /\ amount[rows[n + 1]] \in Int
      BY <1>2, <1>6, <2>1, <2>4
    <3>2. of(f[n + 1]) = Append(of(f[n]), amount[rows[n + 1]])
      BY <1>7, <2>3, <3>1
    <3>3. all[n + 1] = amount[rows[n + 1]]
      BY <2>1, <2>4 DEF all
    <3>. QED
      BY <2>1, <2>2, <2>3, <3>1, <3>2, <3>3, TotalOfOneMore
  <2>5. CASE n + 1 \notin keep
    <3>1. f[n + 1] = f[n]
      BY <1>6, <2>1, <2>5
    <3>2. all[n + 1] = 0
      BY <2>1, <2>5 DEF all
    <3>. QED
      BY <2>1, <2>2, <2>3, <3>1, <3>2
  <2>. QED
    BY <2>4, <2>5
<1>10. 0 .. N \subseteq S
  <2>. HIDE DEF S
  <2>. QED
    BY <1>8, <1>9, UpTo
<1>11. Total(of(f[N])) = g[N] /\ Total(all) = g[N]
  BY <1>4, <1>5, <1>10 DEF IsTotal
<1>12. Total(of(Where(rows, keep))) = Total(all)
  BY <1>6, <1>11
<1>. QED
  BY <1>2, <1>12 DEF of, all

-----------------------------------------------------------------------------
(* Consecutive periods.                                                     *)

\* What a row comes to in a period: nothing, if none of it is in the period.
In(row, period, amount) ==
  IF Trimmed(row, period).start < Trimmed(row, period).end THEN amount[Trimmed(row, period)] ELSE 0

Exposure == [row \in RowType |-> row.end - row.start]
Death == [row \in RowType |-> IF row.died THEN 1 ELSE 0]

LEMMA AmountsAreNumbers == Exposure \in [RowType -> Int] /\ Death \in [RowType -> Int]
<1>1. \A row \in RowType : row.start \in Int /\ row.end \in Int
  BY DEF RowType
<1>. QED
  BY <1>1 DEF Exposure, Death

\* The exposure or the deaths of the data a period leaves, row by row.
LEMMA TotalInPeriod ==
  ASSUME NEW rows \in Seq(RowType), NEW period \in PeriodType, NEW amount \in [RowType -> Int]
  PROVE  LET kept == TrimRows(rows, period)
         IN Total([k \in DOMAIN kept |-> amount[kept[k]]]) =
              Total([n \in DOMAIN rows |-> In(rows[n], period, amount)])
<1>1. PICK trimmed : trimmed = [n \in DOMAIN rows |-> Trimmed(rows[n], period)]
  OBVIOUS
<1>2. \A n \in DOMAIN rows : rows[n] \in RowType /\ Trimmed(rows[n], period) \in RowType
  BY TrimmedIs
<1>3. trimmed \in Seq(RowType) /\ DOMAIN trimmed = DOMAIN rows
      /\ \A n \in DOMAIN rows : trimmed[n] = Trimmed(rows[n], period)
  BY <1>1, <1>2
<1>4. PICK keep : keep = HasE2R(trimmed)
  OBVIOUS
<1>5. TrimRows(rows, period) = Where(trimmed, keep)
  BY <1>1, <1>4 DEF TrimRows
<1>6. Total([k \in DOMAIN Where(trimmed, keep) |-> amount[Where(trimmed, keep)[k]]]) =
        Total([n \in DOMAIN trimmed |-> IF n \in keep THEN amount[trimmed[n]] ELSE 0])
  BY <1>3, TotalWhere
<1>7. \A n \in DOMAIN rows :
        (IF n \in keep THEN amount[trimmed[n]] ELSE 0) = In(rows[n], period, amount)
  BY <1>3, <1>4 DEF HasE2R, In
<1>8. [n \in DOMAIN trimmed |-> IF n \in keep THEN amount[trimmed[n]] ELSE 0] =
        [n \in DOMAIN rows |-> In(rows[n], period, amount)]
  BY <1>3, <1>7
<1>. QED
  BY <1>5, <1>6, <1>8

LEMMA InIsANumber ==
  ASSUME NEW row \in RowType, NEW period \in PeriodType, NEW amount \in [RowType -> Int]
  PROVE  In(row, period, amount) \in Int
BY TrimmedIs DEF In

\* A row that is in order comes, in a period, to what it comes to in its two parts.
LEMMA RowsAddUp ==
  ASSUME NEW row \in RowType, ~Improper(row), NEW period \in PeriodType,
         NEW cut \in period.start + 1 .. period.end - 1
  PROVE  LET early == [period EXCEPT !.end = cut]
             late == [period EXCEPT !.start = cut]
         IN /\ early \in PeriodType /\ late \in PeriodType
            /\ In(row, period, Exposure) = In(row, early, Exposure) + In(row, late, Exposure)
            /\ In(row, period, Death) = In(row, early, Death) + In(row, late, Death)
<1>1. PICK early, late :
        early = [period EXCEPT !.end = cut] /\ late = [period EXCEPT !.start = cut]
  OBVIOUS
<1>2. /\ period.start \in Int /\ period.end \in Int /\ cut \in Int
      /\ period.start < cut /\ cut < period.end
  BY DEF PeriodType
<1>3. /\ early \in PeriodType /\ early.start = period.start /\ early.end = cut
      /\ late \in PeriodType /\ late.start = cut /\ late.end = period.end
  BY <1>1, <1>2 DEF PeriodType
<1>4. /\ row.start \in Int /\ row.end \in Int /\ row.died \in BOOLEAN
      /\ row.start <= row.end /\ (row.start = row.end => ~row.died)
  BY DEF RowType, Improper
<1>5. PICK whole, first, second :
        /\ whole = Trimmed(row, period)
        /\ first = Trimmed(row, early)
        /\ second = Trimmed(row, late)
  OBVIOUS
<1>6. /\ whole \in RowType
      /\ whole.start = IF row.start >= period.start THEN row.start ELSE period.start
      /\ whole.end = IF row.end <= period.end THEN row.end ELSE period.end
      /\ whole.died = (row.end <= period.end /\ row.died)
  BY <1>5, TrimmedIs
<1>7. /\ first \in RowType
      /\ first.start = IF row.start >= period.start THEN row.start ELSE period.start
      /\ first.end = IF row.end <= cut THEN row.end ELSE cut
      /\ first.died = (row.end <= cut /\ row.died)
  BY <1>3, <1>5, TrimmedIs
<1>8. /\ second \in RowType
      /\ second.start = IF row.start >= cut THEN row.start ELSE cut
      /\ second.end = IF row.end <= period.end THEN row.end ELSE period.end
      /\ second.died = (row.end <= period.end /\ row.died)
  BY <1>3, <1>5, TrimmedIs
<1>9. \A r \in RowType : Exposure[r] = r.end - r.start /\ Death[r] = IF r.died THEN 1 ELSE 0
  BY DEF Exposure, Death
<1>10. /\ In(row, period, Exposure) =
            IF whole.start < whole.end THEN whole.end - whole.start ELSE 0
       /\ In(row, early, Exposure) =
            IF first.start < first.end THEN first.end - first.start ELSE 0
       /\ In(row, late, Exposure) =
            IF second.start < second.end THEN second.end - second.start ELSE 0
  BY <1>5, <1>6, <1>7, <1>8, <1>9 DEF In
<1>11. /\ In(row, period, Death) =
            IF whole.start < whole.end /\ whole.died THEN 1 ELSE 0
       /\ In(row, early, Death) =
            IF first.start < first.end /\ first.died THEN 1 ELSE 0
       /\ In(row, late, Death) =
            IF second.start < second.end /\ second.died THEN 1 ELSE 0
  BY <1>5, <1>6, <1>7, <1>8, <1>9 DEF In
<1>12. In(row, period, Exposure) = In(row, early, Exposure) + In(row, late, Exposure)
  BY <1>2, <1>4, <1>6, <1>7, <1>8, <1>10
<1>13. In(row, period, Death) = In(row, early, Death) + In(row, late, Death)
  <2>1. CASE row.end <= cut
    BY <1>2, <1>4, <1>6, <1>7, <1>8, <1>11, <2>1
  <2>2. CASE ~(row.end <= cut) /\ row.end <= period.end /\ row.died
    <3>1. whole.start < whole.end /\ second.start < second.end
      BY <1>2, <1>4, <1>6, <1>8, <2>2
    <3>2. whole.died /\ second.died /\ ~first.died
      BY <1>6, <1>7, <1>8, <2>2
    <3>. QED
      BY <1>11, <3>1, <3>2
  <2>3. CASE ~(row.end <= cut) /\ ~(row.end <= period.end /\ row.died)
    <3>1. ~whole.died /\ ~second.died /\ ~first.died
      BY <1>6, <1>7, <1>8, <2>3
    <3>. QED
      BY <1>11, <3>1
  <2>. QED
    BY <2>1, <2>2, <2>3
<1>. QED
  BY <1>1, <1>3, <1>12, <1>13

LEMMA DataAddsUp ==
  ASSUME NEW rows \in Seq(RowType), ~RefusesRows(rows, WholeSet), NEW period \in PeriodType,
         NEW cut \in period.start + 1 .. period.end - 1
  PROVE  LET early == Kept(rows, [period EXCEPT !.end = cut], WholeSet)
             late == Kept(rows, [period EXCEPT !.start = cut], WholeSet)
             made == Kept(rows, period, WholeSet)
         IN /\ Exposed(early) + Exposed(late) = Exposed(made)
            /\ Deaths(early) + Deaths(late) = Deaths(made)
<1>1. PICK counted : counted = Counted(rows)
  OBVIOUS
<1>2. \A p : Kept(rows, p, WholeSet) = TrimRows(counted, p)
  BY <1>1 DEF Kept, Trims, Considered, IsNew, ExposureColumns
<1>3. counted \in Seq(RowType)
  BY <1>1, CountedIs
<1>4. \A n \in DOMAIN counted : counted[n] \in RowType /\ ~Improper(counted[n])
  <2>1. \A n \in DOMAIN counted : ~Improper(counted[n])
    BY <1>1 DEF RefusesRows, Trims, Considered, IsNew, ExposureColumns
  <2>. QED
    BY <1>3, <2>1
<1>5. PICK first, second :
        first = [period EXCEPT !.end = cut] /\ second = [period EXCEPT !.start = cut]
  OBVIOUS
<1>6. first \in PeriodType /\ second \in PeriodType
  <2>1. period.start \in Int /\ period.end \in Int /\ cut \in Int
    BY DEF PeriodType
  <2>. QED
    BY <1>5, <2>1 DEF PeriodType
<1>7. ASSUME NEW amount \in [RowType -> Int],
             \A n \in DOMAIN counted :
               In(counted[n], period, amount) =
                 In(counted[n], first, amount) + In(counted[n], second, amount)
      PROVE  Total([n \in DOMAIN counted |-> In(counted[n], period, amount)]) =
               Total([n \in DOMAIN counted |-> In(counted[n], first, amount)]) +
               Total([n \in DOMAIN counted |-> In(counted[n], second, amount)])
  <2>1. PICK a, b, c :
          /\ a = [n \in DOMAIN counted |-> In(counted[n], first, amount)]
          /\ b = [n \in DOMAIN counted |-> In(counted[n], second, amount)]
          /\ c = [n \in DOMAIN counted |-> In(counted[n], period, amount)]
    OBVIOUS
  <2>2. \A n \in DOMAIN counted :
          /\ In(counted[n], first, amount) \in Int
          /\ In(counted[n], second, amount) \in Int
          /\ In(counted[n], period, amount) \in Int
    BY <1>4, <1>6, InIsANumber
  <2>3. a \in Seq(Int) /\ b \in Seq(Int) /\ c \in Seq(Int)
        /\ Len(a) = Len(counted) /\ Len(b) = Len(counted) /\ Len(c) = Len(counted)
    <3>1. Len(counted) \in Nat /\ DOMAIN counted = 1 .. Len(counted)
      BY <1>3
    <3>2. /\ a \in [1 .. Len(counted) -> Int]
          /\ b \in [1 .. Len(counted) -> Int]
          /\ c \in [1 .. Len(counted) -> Int]
      BY <2>1, <2>2, <3>1
    <3>. QED
      BY <3>1, <3>2, SequencesOfNumbers
  <2>4. \A n \in DOMAIN c : c[n] = a[n] + b[n]
    BY <1>7, <2>1
  <2>5. Total(c) = Total(a) + Total(b)
    BY <2>3, <2>4, TotalOfSums
  <2>. QED
    BY <2>1, <2>5
<1>8. \A n \in DOMAIN counted :
        /\ In(counted[n], period, Exposure) =
             In(counted[n], first, Exposure) + In(counted[n], second, Exposure)
        /\ In(counted[n], period, Death) =
             In(counted[n], first, Death) + In(counted[n], second, Death)
  BY <1>4, <1>5, RowsAddUp
<1>9. ASSUME NEW p \in PeriodType
      PROVE  /\ Exposed(TrimRows(counted, p)) =
                  Total([n \in DOMAIN counted |-> In(counted[n], p, Exposure)])
             /\ Deaths(TrimRows(counted, p)) =
                  Total([n \in DOMAIN counted |-> In(counted[n], p, Death)])
  <2>1. PICK kept : kept = TrimRows(counted, p)
    OBVIOUS
  <2>2. kept \in Seq(RowType)
    BY <1>3, <2>1, TrimRowsIs
  <2>3. \A k \in DOMAIN kept : /\ Exposure[kept[k]] = kept[k].end - kept[k].start
                               /\ Death[kept[k]] = IF kept[k].died THEN 1 ELSE 0
    <3>1. \A k \in DOMAIN kept : kept[k] \in RowType
      BY <2>2
    <3>. QED
      BY <3>1 DEF Exposure, Death
  <2>4. /\ [k \in DOMAIN kept |-> kept[k].end - kept[k].start] =
             [k \in DOMAIN kept |-> Exposure[kept[k]]]
        /\ [k \in DOMAIN kept |-> IF kept[k].died THEN 1 ELSE 0] =
             [k \in DOMAIN kept |-> Death[kept[k]]]
    BY <2>3
  <2>5. /\ Total([k \in DOMAIN kept |-> Exposure[kept[k]]]) =
             Total([n \in DOMAIN counted |-> In(counted[n], p, Exposure)])
        /\ Total([k \in DOMAIN kept |-> Death[kept[k]]]) =
             Total([n \in DOMAIN counted |-> In(counted[n], p, Death)])
    BY <1>3, <2>1, TotalInPeriod, AmountsAreNumbers
  <2>. QED
    BY <2>1, <2>4, <2>5 DEF Exposed, Deaths
<1>10. /\ Exposed(TrimRows(counted, first)) + Exposed(TrimRows(counted, second)) =
            Exposed(TrimRows(counted, period))
       /\ Deaths(TrimRows(counted, first)) + Deaths(TrimRows(counted, second)) =
            Deaths(TrimRows(counted, period))
  BY <1>6, <1>7, <1>8, <1>9, AmountsAreNumbers
<1>. QED
  BY <1>2, <1>5, <1>10

-----------------------------------------------------------------------------
(* The lives of a valuation.                                                *)

\* Trimming takes nobody's life at a date in the period, and gives none outside it.
LEMMA AliveInThePeriod ==
  ASSUME NEW row \in RowType, NEW period \in PeriodType, NEW date \in Int,
         Trimmed(row, period).start < Trimmed(row, period).end
  PROVE  IsAlive(Trimmed(row, period), date) <=>
           period.start <= date /\ date <= period.end /\ IsAlive(row, date)
<1>1. PICK t : t = Trimmed(row, period)
  OBVIOUS
<1>2. /\ t.start = IF row.start >= period.start THEN row.start ELSE period.start
      /\ t.end = IF row.end <= period.end THEN row.end ELSE period.end
      /\ t.died = (row.end <= period.end /\ row.died)
      /\ t.start < t.end
  BY <1>1, TrimmedIs
<1>3. /\ row.start \in Int /\ row.end \in Int /\ row.died \in BOOLEAN
      /\ period.start \in Int /\ period.end \in Int
  BY DEF RowType, PeriodType
<1>4. CASE row.end <= period.end
  <2>1. t.died = row.died /\ t.end = row.end
    BY <1>2, <1>3, <1>4
  <2>2. t.start <= date <=> row.start <= date /\ period.start <= date
    BY <1>2, <1>3
  <2>3. date < t.end => date <= period.end
    BY <1>3, <1>4, <2>1
  <2>4. date = t.end => /\ period.start <= date /\ date <= period.end
    BY <1>2, <1>3, <1>4, <2>1
  <2>5. IsAlive(t, date) <=> (t.start <= date /\ date < row.end) \/ (date = row.end /\ ~row.died)
    BY <2>1 DEF IsAlive
  <2>. QED
    BY <1>1, <2>1, <2>2, <2>3, <2>4, <2>5 DEF IsAlive
<1>5. CASE ~(row.end <= period.end)
  <2>1. ~t.died /\ t.end = period.end
    BY <1>2, <1>5
  <2>2. t.start <= date <=> row.start <= date /\ period.start <= date
    BY <1>2, <1>3
  <2>3. date = period.end => t.start <= date
    BY <1>2, <1>3, <2>1
  <2>4. date <= period.end => date < row.end /\ date # row.end
    BY <1>3, <1>5
  <2>5. date <= period.end <=> date < period.end \/ date = period.end
    BY <1>3
  <2>6. IsAlive(t, date) <=> t.start <= date /\ date <= period.end
    BY <2>1, <2>3, <2>5 DEF IsAlive
  <2>. QED
    BY <1>1, <2>2, <2>4, <2>6 DEF IsAlive
<1>. QED
  BY <1>4, <1>5

LEMMA LivingAreFound ==
  ASSUME NEW rows \in Seq(RowType), AreRecords(rows), NEW period \in PeriodType, NEW date \in Int
  PROVE  LET made == Kept(rows, period, WholeSet)
             living == Where(made, {n \in DOMAIN made : IsAlive(made[n], date)})
         IN {living[n].id : n \in DOMAIN living} =
              {rows[m].id : m \in {k \in DOMAIN rows :
                 /\ \E n \in DOMAIN made : made[n].id = rows[k].id
                 /\ period.start <= date /\ date <= period.end
                 /\ IsAlive(rows[k], date)}}
<1>1. PICK made : made = Kept(rows, period, WholeSet)
  OBVIOUS
<1>2. /\ made \in Seq(RowType)
      /\ \A k \in DOMAIN made : /\ made[k].start < made[k].end
                                /\ \E n \in DOMAIN rows : made[k] = Trimmed(rows[n], period)
  BY <1>1, MadeDataIs DEF IsUsable
<1>3. PICK keep : keep = {n \in DOMAIN made : IsAlive(made[n], date)}
  OBVIOUS
<1>4. PICK living : living = Where(made, keep)
  OBVIOUS
<1>5. AreKept(living, made, keep, RowType)
  BY <1>2, <1>4, WhereKeeps
<1>6. PICK found : found = {k \in DOMAIN rows :
        /\ \E n \in DOMAIN made : made[n].id = rows[k].id
        /\ period.start <= date /\ date <= period.end
        /\ IsAlive(rows[k], date)}
  OBVIOUS
<1>7. ASSUME NEW k \in DOMAIN made, NEW n \in DOMAIN rows, made[k] = Trimmed(rows[n], period)
      PROVE  /\ made[k].id = rows[n].id
             /\ k \in keep <=> n \in found
  <2>1. rows[n] \in RowType
    OBVIOUS
  <2>2. made[k].id = rows[n].id
    BY <1>7, <2>1, TrimmedIs
  <2>3. IsAlive(made[k], date) <=>
          period.start <= date /\ date <= period.end /\ IsAlive(rows[n], date)
    BY <1>2, <1>7, <2>1, AliveInThePeriod
  <2>. QED
    BY <1>3, <1>6, <2>2, <2>3
<1>8. ASSUME NEW j \in DOMAIN living
      PROVE  \E m \in found : living[j].id = rows[m].id
  <2>1. PICK k \in DOMAIN made : k \in keep /\ living[j] = made[k]
    BY <1>5 DEF AreKept
  <2>2. PICK n \in DOMAIN rows : made[k] = Trimmed(rows[n], period)
    BY <1>2
  <2>. QED
    BY <1>7, <2>1, <2>2
<1>9. ASSUME NEW m \in found
      PROVE  \E j \in DOMAIN living : living[j].id = rows[m].id
  <2>1. m \in DOMAIN rows
    BY <1>6
  <2>2. PICK k \in DOMAIN made : made[k].id = rows[m].id
    BY <1>6
  <2>3. PICK n \in DOMAIN rows : made[k] = Trimmed(rows[n], period)
    BY <1>2
  <2>4. n = m
    BY <1>7, <2>1, <2>2, <2>3 DEF AreRecords
  <2>5. k \in keep
    BY <1>7, <2>3, <2>4
  <2>6. PICK j \in DOMAIN living : living[j] = made[k]
    BY <1>5, <2>5 DEF AreKept
  <2>. QED
    BY <2>2, <2>6
<1>10. {living[n].id : n \in DOMAIN living} = {rows[m].id : m \in found}
  BY <1>8, <1>9
<1>11. keep = {n \in DOMAIN Kept(rows, period, WholeSet) :
                  IsAlive(Kept(rows, period, WholeSet)[n], date)}
  BY <1>1, <1>3
<1>12. found = {k \in DOMAIN rows :
         /\ \E n \in DOMAIN Kept(rows, period, WholeSet) :
              Kept(rows, period, WholeSet)[n].id = rows[k].id
         /\ period.start <= date /\ date <= period.end
         /\ IsAlive(rows[k], date)}
  BY <1>1, <1>6
<1>. QED
  BY <1>1, <1>4, <1>10, <1>11, <1>12

-----------------------------------------------------------------------------
(* The steps of a life.                                                     *)

LEMMA TimeScaleIsEven ==
  ASSUME NEW dt \in TimeScales
  PROVE  dt \in Nat /\ dt > 0 /\ dt % 2 = 0
<1>1. PICK n \in IntervalsPerYear : dt = ClicksPerYear \div n
  BY DEF TimeScales
<1>2. n \in Nat /\ n > 0 /\ ClicksPerYear \in Nat
  BY WholeClicks
<1>3. dt \in Nat
  BY <1>1, <1>2, DivisionWithRemainder
<1>. QED
  BY <1>1, <1>3, WholeClicks

LEMMA HalfAndRest ==
  ASSUME NEW v \in Int
  PROVE  /\ v \div 2 \in Int
         /\ v % 2 \in Int
         /\ v = 2 * (v \div 2) + (v % 2)
         /\ v % 2 = 0 \/ v % 2 = 1
<1>1. v \div 2 \in Int
  OBVIOUS
<1>2. v % 2 \in Int
  OBVIOUS
<1>3. v = 2 * (v \div 2) + (v % 2)
  OBVIOUS
<1>4. v % 2 = 0 \/ v % 2 = 1
  OBVIOUS
<1>. QED
  BY <1>1, <1>2, <1>3, <1>4

\* The two roundings are one.
LEMMA MidpointIsHalf ==
  ASSUME NEW b \in Int, NEW e \in Int
  PROVE  Midpoint(b, e) = HalveClicks(b + e) /\ Midpoint(b, e) \in Int
<1>1. PICK v \in Int : v = b + e
  OBVIOUS
<1>2. v \div 2 \in Int /\ v % 2 \in Int /\ v = 2 * (v \div 2) + (v % 2)
      /\ (v % 2 = 0 \/ v % 2 = 1)
  BY HalfAndRest
<1>3. PICK h \in Int : h = v \div 2 /\ (h % 2 = 0 \/ h % 2 = 1)
  BY <1>2, HalfAndRest
<1>4. CASE h % 2 = 0
  <2>1. HalveClicks(v) = h
    BY <1>2, <1>3, <1>4 DEF HalveClicks
  <2>. QED
    BY <1>1, <1>3, <1>4, <2>1 DEF Midpoint
<1>5. CASE h % 2 = 1 /\ v % 2 = 0
  <2>1. (v + 1) \div 2 = h
    BY <1>2, <1>3, <1>5
  <2>2. HalveClicks(v) = h
    BY <1>3, <1>5, <2>1 DEF HalveClicks
  <2>. QED
    BY <1>1, <1>3, <1>5, <2>2 DEF Midpoint
<1>6. CASE h % 2 = 1 /\ v % 2 = 1
  <2>1. (v + 1) \div 2 = h + 1
    BY <1>2, <1>3, <1>6
  <2>2. HalveClicks(v) = h + 1
    BY <1>3, <1>6, <2>1 DEF HalveClicks
  <2>. QED
    BY <1>1, <1>3, <1>6, <2>2 DEF Midpoint
<1>. QED
  BY <1>2, <1>3, <1>4, <1>5, <1>6

LEMMA MoreTimesIsMore ==
  ASSUME NEW k \in Nat, NEW n \in Nat, NEW d \in Nat, k <= n
  PROVE  k * d \in Nat /\ n * d \in Nat /\ k * d <= n * d
<1>1. PICK m \in Nat : n = k + m
  <2>1. n - k \in Nat /\ n = k + (n - k)
    OBVIOUS
  <2>. QED
    BY <2>1
<1>2. n * d = k * d + m * d /\ m * d \in Nat /\ k * d \in Nat
  BY <1>1
<1>. QED
  BY <1>2

\* A step is taken wherever there is a slot, and reads the middle of it.
LEMMA StepsAreSlots ==
  ASSUME NEW e \in [start : Int, end : Int, died : {FALSE}], e.start < e.end,
         NEW dt \in TimeScales, NEW k \in Nat
  PROVE  LET g == BuildTimeGrid(e, dt)
             b == e.start + k * dt
         IN /\ g.integrationSlots \in Nat
            /\ b \in Int /\ e.start <= b
            /\ b < e.end <=> k < g.integrationSlots
            /\ k < g.integrationSlots =>
                 Midpoint(b, IF b + dt <= e.end THEN b + dt ELSE e.end) = ClicksAt(g, k + 1)
<1>1. PICK s \in Int, t \in Int : s = e.start /\ t = e.end /\ s < t
  OBVIOUS
<1>2. dt \in Nat /\ dt > 0 /\ dt % 2 = 0
  BY TimeScaleIsEven
<1>3. PICK full \in Nat, rest \in Nat :
        /\ full = (t - s) \div dt /\ rest = (t - s) % dt
        /\ t = s + full * dt + rest /\ rest < dt
  <2>1. t - s \in Nat
    BY <1>1
  <2>2. PICK w \in Nat : w = t - s
    BY <2>1
  <2>3. w \div dt \in Nat /\ w % dt \in Nat /\ w = (w \div dt) * dt + (w % dt) /\ w % dt < dt
    BY <1>2, DivisionWithRemainder
  <2>4. PICK q \in Nat : q = w \div dt
    BY <2>3
  <2>5. q * dt \in Int
    BY <1>2
  <2>. QED
    BY <1>1, <2>2, <2>3, <2>4, <2>5
<1>4. PICK g : g = BuildTimeGrid(e, dt)
  OBVIOUS
<1>5. PICK slots \in Nat : slots = full + (IF rest > 0 THEN 1 ELSE 0)
  OBVIOUS
<1>6. /\ g.fullSlots = full /\ g.integrationSlots = slots
      /\ g.firstSlot = s + dt \div 2 /\ g.deltaT = dt
      /\ rest > 0 => g.finalSlot = HalveClicks(s + full * dt + t)
  BY <1>1, <1>3, <1>4, <1>5 DEF BuildTimeGrid, HasRemainder
<1>7. PICK b \in Int : b = s + k * dt /\ s <= b
  <2>1. k * dt \in Nat
    BY <1>2
  <2>2. s + k * dt \in Int /\ s <= s + k * dt
    BY <2>1
  <2>. QED
    BY <2>2
<1>8. CASE k < full
  <2>1. (k + 1) * dt <= full * dt /\ (k + 1) * dt = k * dt + dt
        /\ k * dt \in Nat /\ full * dt \in Nat
    BY <1>2, <1>8, MoreTimesIsMore
  <2>2. b + dt <= t /\ b < t
    BY <1>2, <1>3, <1>7, <2>1
  <2>3. k < slots
    BY <1>5, <1>8
  <2>4. Midpoint(b, b + dt) = b + dt \div 2
    <3>1. PICK h \in Int : h = dt \div 2 /\ dt = 2 * h
      BY <1>2, EvenIsTwiceItsHalf
    <3>2. (b + (b + dt)) % 2 = 0 /\ (b + (b + dt)) \div 2 = b + h
      BY <3>1
    <3>. QED
      BY <3>1, <3>2 DEF Midpoint
  <2>5. ClicksAt(g, k + 1) = s + dt \div 2 + k * dt
    BY <1>6, <1>8 DEF ClicksAt
  <2>6. dt \div 2 \in Int /\ k * dt \in Int
    BY <1>2, EvenIsTwiceItsHalf
  <2>7. Midpoint(b, b + dt) = ClicksAt(g, k + 1)
    BY <1>7, <2>4, <2>5, <2>6
  <2>. QED
    BY <1>1, <1>4, <1>6, <1>7, <2>2, <2>3, <2>7
<1>9. CASE k = full
  <2>1. full * dt \in Nat
    BY <1>2
  <2>2. b + rest = t
    BY <1>3, <1>7, <1>9, <2>1
  <2>3. b < t <=> k < slots
    BY <1>5, <1>9, <2>2
  <2>4. ~(b + dt <= t)
    BY <1>2, <1>3, <2>2
  <2>5. ASSUME k < slots
        PROVE  Midpoint(b, t) = ClicksAt(g, k + 1)
    <3>1. rest > 0 /\ slots = full + 1
      BY <1>5, <1>9, <2>5
    <3>2. ClicksAt(g, k + 1) = HalveClicks(s + full * dt + t)
      BY <1>6, <1>9, <3>1 DEF ClicksAt
    <3>. QED
      BY <1>7, <1>9, <3>2, MidpointIsHalf
  <2>. QED
    BY <1>1, <1>4, <1>6, <1>7, <2>3, <2>4, <2>5
<1>10. CASE k > full
  <2>1. (full + 1) * dt <= k * dt /\ (full + 1) * dt = full * dt + dt
        /\ k * dt \in Nat /\ full * dt \in Nat
    BY <1>2, <1>10, MoreTimesIsMore
  <2>2. ~(b < t)
    BY <1>2, <1>3, <1>7, <2>1
  <2>3. ~(k < slots)
    BY <1>5, <1>10
  <2>. QED
    BY <1>1, <1>4, <1>6, <1>7, <2>2, <2>3
<1>. QED
  BY <1>8, <1>9, <1>10
-----------------------------------------------------------------------------
(* The invariant of a simulation, in two parts.                             *)

WindowType == [id : Nat, from : Int, to : Int]

\* The grid the engine would have for the whole window of a life.
GridOf(n) == BuildTimeGrid(AsExposure(n), clicks)
Slots(n) == GridOf(n).integrationSlots

\* All lives have been walked together for K steps: one that is alive has been read
\* at each of them up to the end of its window.
Walked(K) ==
  /\ IF Lives = {} THEN K = 0 ELSE \E n \in Lives : Len(sampled[n]) = K
  /\ \A n \in Lives :
       /\ Len(sampled[n]) <= K /\ Len(sampled[n]) <= Slots(n)
       /\ ~Died(n) => Len(sampled[n]) \in {K, Slots(n)}
       /\ \A k \in DOMAIN sampled[n] : sampled[n][k] = ClicksAt(GridOf(n), k)

WindowsInv ==
  /\ given \in [columns : Seq(RowType), period : Periods]
  /\ lives \in Seq(LifeType)
  /\ lives = <<>> => windows = <<>>
  /\ lives # <<>> => clicks \in TimeScales
  /\ step = "prepare" => windows = <<>>
  /\ windows \in Seq(WindowType)
  /\ \A n \in Lives : /\ Period.start <= windows[n].from
                      /\ windows[n].from < windows[n].to
                      /\ windows[n].to <= Period.end
  /\ \A m, n \in Lives : windows[m].id = windows[n].id => m = n

DeathsInv ==
  /\ DOMAIN sampled = Lives /\ DOMAIN death = Lives
  /\ \A n \in Lives : sampled[n] \in Seq(Int)
  /\ \A n \in Lives : Died(n) => /\ death[n] \in Nat
                                 /\ windows[n].from <= death[n] /\ death[n] <= windows[n].to
  /\ \E K \in Nat : Walked(K)
  /\ step \notin {"prepare", "walk"} => \A n \in Lives : ~Died(n) => Len(sampled[n]) = Slots(n)

WalkInv == WindowsInv /\ DeathsInv

\* The data, whether it is simulated or not.
DataInv ==
  /\ AreRecords(given.columns)
  /\ data \in Seq(RowType) /\ asAt \in Int /\ assigned \in BOOLEAN
  /\ step \notin {"data", "valued"} => data = <<>>
  /\ \A n \in DOMAIN data : IsUsable(data[n], Period)
  /\ step \in {"data", "valued"} /\ ~assigned =>
       /\ ~RefusesRows(given.columns, WholeSet)
       /\ data = Kept(given.columns, Period, WholeSet)
  /\ step = "valued" => alive = Where(data, {n \in DOMAIN data : IsAlive(data[n], asAt)})
  /\ step \in {"columns", "data", "valued"} /\ lives # <<>> => given.columns = Recorded

LEMMA PeriodIs ==
  ASSUME given.period \in Periods
  PROVE  /\ Period \in PeriodType /\ Period.start \in Int /\ Period.end \in Int
         /\ IsValidDatey(Period.start) /\ IsValidDatey(Period.end)
<1>1. Period \in PeriodType
  BY DataAssumption DEF Period
<1>. QED
  BY <1>1, SimAssumption DEF Period, PeriodType

LEMMA BoundsAreKept ==
  ASSUME NEW life \in LifeType, given.period \in Periods
  PROVE  /\ FromOf(life) \in Int /\ Period.start <= FromOf(life)
         /\ ToOf(life) \in Int /\ ToOf(life) <= Period.end
<1>1. /\ life.start = Missing \/ life.start \in Int
      /\ life.cap = Missing \/ life.cap \in Int
  BY DEF LifeType
<1>2. FromOf(life) \in Int /\ Period.start <= FromOf(life)
  <2>1. CASE life.start = Missing
    BY <2>1, PeriodIs DEF FromOf
  <2>2. CASE life.start # Missing
    <3>1. PICK s \in Int : s = life.start
      BY <1>1, <2>2
    <3>. QED
      BY <2>2, <3>1, PeriodIs DEF FromOf
  <2>. QED
    BY <2>1, <2>2
<1>3. ToOf(life) \in Int /\ ToOf(life) <= Period.end
  <2>1. CASE life.cap = Missing
    BY <2>1, PeriodIs DEF ToOf
  <2>2. CASE life.cap # Missing
    <3>1. PICK s \in Int : s = life.cap
      BY <1>1, <2>2
    <3>. QED
      BY <2>2, <3>1, PeriodIs DEF ToOf
  <2>. QED
    BY <2>1, <2>2
<1>. QED
  BY <1>2, <1>3

\* The lives that are observed, each in a window of its own.
LEMMA WindowsAre ==
  ASSUME given.period \in Periods, lives \in Seq(LifeType)
  PROVE  /\ Windows \in Seq(WindowType)
         /\ \A n \in DOMAIN Windows : /\ Period.start <= Windows[n].from
                                      /\ Windows[n].from < Windows[n].to
                                      /\ Windows[n].to <= Period.end
         /\ \A m, n \in DOMAIN Windows : Windows[m].id = Windows[n].id => m = n
         /\ lives = <<>> => Windows = <<>>
<1>1. PICK all : all = [n \in DOMAIN lives |->
                          [id |-> n, from |-> FromOf(lives[n]), to |-> ToOf(lives[n])]]
  OBVIOUS
<1>2. PICK keep : keep = {n \in DOMAIN all : all[n].from < all[n].to}
  OBVIOUS
<1>3. Windows = Where(all, keep)
  BY <1>1, <1>2 DEF Windows
<1>4. ASSUME NEW n \in DOMAIN all
      PROVE  /\ all[n] \in WindowType /\ all[n].id = n
             /\ Period.start <= all[n].from /\ all[n].to <= Period.end
  <2>1. lives[n] \in LifeType /\ n \in Nat
    BY <1>1
  <2>2. all[n] = [id |-> n, from |-> FromOf(lives[n]), to |-> ToOf(lives[n])]
    BY <1>1
  <2>. QED
    BY <2>1, <2>2, BoundsAreKept DEF WindowType
<1>5. all \in Seq(WindowType)
  <2>1. PICK N \in Nat : DOMAIN lives = 1 .. N
    OBVIOUS
  <2>2. all \in [1 .. N -> WindowType]
    BY <1>1, <1>4, <2>1
  <2>. QED
    BY <2>1, <2>2
<1>6. AreKept(Where(all, keep), all, keep, WindowType)
  BY <1>5, WhereKeeps
<1>7. \A m, n \in DOMAIN all : all[m].id = all[n].id => m = n
  BY <1>4
<1>8. \A m, n \in DOMAIN Windows : Windows[m].id = Windows[n].id => m = n
  BY <1>3, <1>5, <1>7, IdsTellApart
<1>9. ASSUME NEW n \in DOMAIN Windows
      PROVE  /\ Period.start <= Windows[n].from
             /\ Windows[n].from < Windows[n].to
             /\ Windows[n].to <= Period.end
  <2>1. PICK m \in DOMAIN all : m \in keep /\ Windows[n] = all[m]
    BY <1>3, <1>6 DEF AreKept
  <2>. QED
    BY <1>2, <1>4, <2>1
<1>10. ASSUME lives = <<>>
       PROVE  Windows = <<>>
  <2>1. DOMAIN all = {}
    BY <1>1, <1>10
  <2>2. \A n \in DOMAIN Windows : \E m \in DOMAIN all : TRUE
    BY <1>3, <1>6 DEF AreKept
  <2>3. Windows \in Seq(WindowType) /\ DOMAIN Windows = {}
    BY <1>3, <1>6, <2>1, <2>2 DEF AreKept
  <2>. QED
    BY <2>3
<1>. QED
  BY <1>3, <1>6, <1>8, <1>9, <1>10 DEF AreKept

\* The steps taken are those of the lives walked furthest.
LEMMA StepsTakenIs ==
  ASSUME DeathsInv, NEW K \in Nat, Walked(K)
  PROVE  StepsTaken = K
<1>1. PICK taken : taken = {Len(sampled[n]) : n \in Lives}
  OBVIOUS
<1>2. \A j \in taken : j \in Nat /\ j <= K
  BY <1>1 DEF DeathsInv, Walked
<1>3. StepsTaken = IF taken = {} THEN 0 ELSE CHOOSE k \in taken : \A j \in taken : j <= k
  BY <1>1 DEF StepsTaken
<1>4. CASE Lives = {}
  BY <1>1, <1>3, <1>4 DEF Walked
<1>5. CASE Lives # {}
  <2>1. K \in taken
    BY <1>1, <1>5 DEF Walked
  <2>2. PICK k : k = CHOOSE i \in taken : \A j \in taken : j <= i
    OBVIOUS
  <2>3. k \in taken /\ \A j \in taken : j <= k
    BY <1>2, <2>1, <2>2
  <2>4. k = K
    BY <1>2, <2>1, <2>3
  <2>. QED
    BY <1>3, <2>1, <2>2, <2>4
<1>. QED
  BY <1>4, <1>5

LEMMA LifeIs ==
  ASSUME WindowsInv, NEW n \in Lives
  PROVE  /\ windows[n].from \in Int /\ windows[n].to \in Int /\ windows[n].id \in Nat
         /\ Period.start <= windows[n].from /\ windows[n].from < windows[n].to
         /\ windows[n].to <= Period.end
         /\ lives # <<>> /\ clicks \in TimeScales
<1>1. windows[n] \in WindowType
  BY DEF WindowsInv, Lives
<1>2. lives # <<>>
  BY DEF WindowsInv, Lives
<1>. QED
  BY <1>1, <1>2 DEF WindowsInv, WindowType

\* Where the walk is: who is still on it, and what it reads next.
LEMMA WalkIs ==
  ASSUME WalkInv, NEW K \in Nat, Walked(K), NEW n \in Lives
  PROVE  /\ Slots(n) \in Nat
         /\ Begin(n) \in Int /\ End(n) \in Int
         /\ windows[n].from <= Begin(n) /\ End(n) <= windows[n].to
         /\ n \in Active <=> ~Died(n) /\ K < Slots(n)
         /\ K < Slots(n) => Midpoint(Begin(n), End(n)) = ClicksAt(GridOf(n), K + 1)
<1>1. PICK s \in Int, t \in Int : s = windows[n].from /\ t = windows[n].to /\ s < t
  BY LifeIs DEF WalkInv
<1>2. PICK dt \in TimeScales : dt = clicks
  BY LifeIs DEF WalkInv
<1>3. PICK e \in [start : Int, end : Int, died : {FALSE}] :
        e = AsExposure(n) /\ e.start = s /\ e.end = t
  <2>1. PICK e : e = [start |-> s, end |-> t, died |-> FALSE]
    OBVIOUS
  <2>2. e \in [start : Int, end : Int, died : {FALSE}] /\ e.start = s /\ e.end = t
    BY <2>1
  <2>3. e = AsExposure(n)
    BY <1>1, <2>1 DEF AsExposure
  <2>. QED
    BY <2>2, <2>3
<1>4. dt \in Nat /\ dt > 0
  BY TimeScaleIsEven
<1>5. PICK g : g = BuildTimeGrid(e, dt)
  OBVIOUS
<1>6. GridOf(n) = g /\ Slots(n) = g.integrationSlots
  BY <1>2, <1>3, <1>5 DEF GridOf, Slots
<1>7. PICK b : b = s + K * dt
  OBVIOUS
<1>8. /\ g.integrationSlots \in Nat
      /\ b \in Int /\ s <= b
      /\ b < t <=> K < g.integrationSlots
      /\ K < g.integrationSlots =>
           Midpoint(b, IF b + dt <= t THEN b + dt ELSE t) = ClicksAt(g, K + 1)
  BY <1>1, <1>3, <1>5, <1>7, StepsAreSlots
<1>9. Begin(n) = b
  BY <1>1, <1>2, <1>7, StepsTakenIs DEF Begin, WalkInv
<1>10. End(n) = IF b + dt <= t THEN b + dt ELSE t
  BY <1>1, <1>2, <1>9 DEF End
<1>11. n \in Active <=> ~Died(n) /\ b < t
  BY <1>1, <1>9 DEF Active, Died
<1>12. End(n) \in Int /\ End(n) <= t
  BY <1>1, <1>4, <1>8, <1>10
<1>. QED
  BY <1>1, <1>6, <1>8, <1>9, <1>10, <1>11, <1>12

LEMMA WalkBegins == SimInit => WalkInv
<1>. SUFFICES ASSUME SimInit PROVE WalkInv
  OBVIOUS
<1>1. given \in [columns : Seq(RowType), period : Periods]
  <2>1. given \in [columns : Columns, period : Periods]
        \/ given \in [columns : {<<>>}, period : Periods]
    BY DEF SimInit, DataInit
  <2>2. Columns \subseteq Seq(RowType)
    BY DataAssumption DEF AreRecords
  <2>3. <<>> \in Seq(RowType)
    OBVIOUS
  <2>. QED
    BY <2>1, <2>2, <2>3
<1>6. lives \in Seq(LifeType)
  <2>1. lives \in Populations \/ lives = <<>>
    BY DEF SimInit
  <2>2. <<>> \in Seq(LifeType)
    OBVIOUS
  <2>. QED
    BY <2>1, <2>2, SimAssumption
<1>7. lives # <<>> => clicks \in TimeScales
  BY DEF SimInit
<1>2. windows = <<>> /\ sampled = <<>> /\ death = <<>> /\ Lives = {}
  BY DEF SimInit, Lives
<1>3. WindowsInv
  BY <1>1, <1>2, <1>6, <1>7 DEF WindowsInv
<1>4. Walked(0)
  BY <1>2 DEF Walked
<1>5. DeathsInv
  BY <1>2, <1>4 DEF DeathsInv
<1>. QED
  BY <1>3, <1>5 DEF WalkInv

LEMMA PrepareKeepsTheWalk ==
  ASSUME WalkInv, Prepare
  PROVE  WalkInv'
<1>1. PICK w : w = Windows
  OBVIOUS
<1>2. /\ given \in [columns : Seq(RowType), period : Periods] /\ given.period \in Periods
      /\ lives \in Seq(LifeType) /\ (lives # <<>> => clicks \in TimeScales)
  BY DEF WalkInv, WindowsInv
<1>3. /\ w \in Seq(WindowType)
      /\ \A n \in DOMAIN w : /\ Period.start <= w[n].from
                             /\ w[n].from < w[n].to
                             /\ w[n].to <= Period.end
      /\ \A m, n \in DOMAIN w : w[m].id = w[n].id => m = n
      /\ lives = <<>> => w = <<>>
  BY <1>1, <1>2, WindowsAre
<1>4. /\ given' = given /\ lives' = lives /\ clicks' = clicks /\ windows' = w /\ step' = "walk"
      /\ sampled' = [n \in DOMAIN w |-> <<>>] /\ death' = [n \in DOMAIN w |-> Missing]
  BY <1>1 DEF Prepare
<1>5. WindowsInv'
  BY <1>2, <1>3, <1>4 DEF WindowsInv, Lives, Period
<1>6. Lives' = DOMAIN w
  BY <1>4 DEF Lives
<1>7. ASSUME NEW n \in Lives'
      PROVE  ~Died(n)' /\ sampled'[n] = <<>> /\ Slots(n)' \in Nat
  <2>1. ~Died(n)' /\ sampled'[n] = <<>>
    BY <1>4, <1>6, <1>7 DEF Died
  <2>2. PICK s \in Int, t \in Int : s = w[n].from /\ t = w[n].to /\ s < t
    <3>1. w[n] \in WindowType
      BY <1>3, <1>6, <1>7
    <3>. QED
      BY <1>3, <1>6, <1>7, <3>1 DEF WindowType
  <2>3. PICK e : e = [start |-> s, end |-> t, died |-> FALSE]
    OBVIOUS
  <2>4. e \in [start : Int, end : Int, died : {FALSE}] /\ e.start = s /\ e.end = t
    BY <2>3
  <2>5. AsExposure(n)' = e
    BY <1>4, <2>2, <2>3 DEF AsExposure
  <2>6. clicks \in TimeScales
    BY <1>2, <1>3, <1>6, <1>7
  <2>7. PICK dt \in TimeScales : dt = clicks
    BY <2>6
  <2>8. BuildTimeGrid(e, dt).integrationSlots \in Nat
    BY <2>2, <2>4, StepsAreSlots
  <2>9. Slots(n)' = BuildTimeGrid(e, dt).integrationSlots
    BY <1>4, <2>5, <2>7 DEF Slots, GridOf
  <2>. QED
    BY <2>1, <2>8, <2>9
<1>8. Walked(0)'
  <2>1. ASSUME NEW n \in Lives'
        PROVE  Len(sampled'[n]) = 0 /\ DOMAIN sampled'[n] = {}
    <3>1. sampled'[n] = <<>>
      BY <1>7
    <3>. QED
      BY <3>1
  <2>2. IF Lives' = {} THEN 0 = 0 ELSE \E n \in Lives' : Len(sampled'[n]) = 0
    BY <2>1
  <2>3. \A n \in Lives' :
          /\ Len(sampled'[n]) <= 0 /\ Len(sampled'[n]) <= Slots(n)'
          /\ ~Died(n)' => Len(sampled'[n]) \in {0, Slots(n)'}
          /\ \A k \in DOMAIN sampled'[n] : sampled'[n][k] = ClicksAt(GridOf(n)', k)
    BY <1>7, <2>1
  <2>. QED
    BY <2>2, <2>3 DEF Walked
<1>9. DeathsInv'
  <2>1. DOMAIN sampled' = Lives' /\ DOMAIN death' = Lives'
    BY <1>4, <1>6
  <2>2. \A n \in Lives' : sampled'[n] \in Seq(Int)
    <3>1. <<>> \in Seq(Int)
      OBVIOUS
    <3>. QED
      BY <1>7, <3>1
  <2>. QED
    BY <1>4, <1>7, <1>8, <2>1, <2>2 DEF DeathsInv
<1>. QED
  BY <1>5, <1>9 DEF WalkInv

LEMMA WalkStepKeepsTheWalk ==
  ASSUME WalkInv, WalkStep
  PROVE  WalkInv'
<1>1. /\ step = "walk" /\ step' = "walk" /\ given' = given
      /\ lives' = lives /\ clicks' = clicks /\ windows' = windows
  BY DEF WalkStep, dataVars
<1>2. Lives' = Lives /\ \A n \in Lives : GridOf(n)' = GridOf(n) /\ Slots(n)' = Slots(n)
  BY <1>1 DEF Lives, GridOf, Slots, AsExposure
<1>3. WindowsInv'
  BY <1>1 DEF WalkInv, WindowsInv, Lives, Period
<1>4. PICK K \in Nat : Walked(K)
  BY DEF WalkInv, DeathsInv
<1>5. PICK active : active = Active /\ active \subseteq Lives /\ active # {}
  BY DEF WalkStep, Active
<1>6. /\ \A n \in active : sampled'[n] = Append(sampled[n], Midpoint(Begin(n), End(n)))
      /\ \A n \in Lives \ active : sampled'[n] = sampled[n]
      /\ DOMAIN sampled' = Lives
  BY <1>5 DEF WalkStep
<1>7. PICK dying \in SUBSET active : \E instant :
        /\ \A n \in dying : instant[n] \in Nat /\ instant[n] \in Begin(n) .. End(n)
        /\ death' = [n \in Lives |-> IF n \in dying THEN instant[n] ELSE death[n]]
  <2>1. PICK dying \in SUBSET Active :
          \E instant \in [dying -> Nat \intersect UNION {Begin(n) .. End(n) : n \in dying}] :
            /\ \A n \in dying : instant[n] \in Begin(n) .. End(n)
            /\ death' = [n \in Lives |-> IF n \in dying THEN instant[n] ELSE death[n]]
    BY DEF WalkStep
  <2>. QED
    BY <1>5, <2>1
<1>17. PICK instant :
        /\ \A n \in dying : instant[n] \in Nat /\ instant[n] \in Begin(n) .. End(n)
        /\ death' = [n \in Lives |-> IF n \in dying THEN instant[n] ELSE death[n]]
  BY <1>7
<1>8. \A n \in Lives : /\ sampled[n] \in Seq(Int) /\ Len(sampled[n]) \in Nat
                       /\ Slots(n) \in Nat
  <2>1. \A n \in Lives : sampled[n] \in Seq(Int)
    BY DEF WalkInv, DeathsInv
  <2>. QED
    BY <1>4, <2>1, WalkIs
<1>9. \A n \in Lives :
        /\ Len(sampled[n]) <= K /\ Len(sampled[n]) <= Slots(n)
        /\ ~Died(n) => Len(sampled[n]) \in {K, Slots(n)}
        /\ \A k \in DOMAIN sampled[n] : sampled[n][k] = ClicksAt(GridOf(n), k)
  BY <1>4 DEF Walked
<1>10. ASSUME NEW n \in active
       PROVE  /\ Len(sampled[n]) = K /\ K < Slots(n)
              /\ sampled'[n] \in Seq(Int) /\ Len(sampled'[n]) = K + 1
              /\ \A k \in DOMAIN sampled'[n] : sampled'[n][k] = ClicksAt(GridOf(n), k)
  <2>1. /\ n \in Lives /\ ~Died(n) /\ K < Slots(n)
        /\ Midpoint(Begin(n), End(n)) = ClicksAt(GridOf(n), K + 1)
        /\ Begin(n) \in Int /\ End(n) \in Int
    BY <1>4, <1>5, WalkIs
  <2>2. Len(sampled[n]) = K
    BY <1>8, <1>9, <2>1
  <2>3. PICK m \in Int : m = Midpoint(Begin(n), End(n))
    BY <2>1, MidpointIsHalf
  <2>4. sampled'[n] = Append(sampled[n], m) /\ sampled[n] \in Seq(Int)
    BY <1>6, <1>8, <2>1, <2>3
  <2>5. /\ sampled'[n] \in Seq(Int) /\ Len(sampled'[n]) = K + 1
        /\ DOMAIN sampled'[n] = 1 .. K + 1 /\ sampled'[n][K + 1] = m
        /\ \A k \in 1 .. K : k \in DOMAIN sampled[n] /\ sampled'[n][k] = sampled[n][k]
    BY <2>2, <2>4
  <2>6. \A k \in 1 .. K + 1 : k \in 1 .. K \/ k = K + 1
    OBVIOUS
  <2>7. ASSUME NEW k \in DOMAIN sampled'[n]
        PROVE  sampled'[n][k] = ClicksAt(GridOf(n), k)
    BY <1>9, <2>1, <2>3, <2>5, <2>6
  <2>. QED
    BY <2>1, <2>2, <2>5, <2>7
<1>11. ASSUME NEW n \in Lives \ active
       PROVE  sampled'[n] = sampled[n] /\ (~Died(n) => Len(sampled[n]) = Slots(n))
  <2>1. sampled'[n] = sampled[n]
    BY <1>6
  <2>2. n \notin Active
    BY <1>5
  <2>3. ~Died(n) => ~(K < Slots(n))
    BY <1>4, <2>2, WalkIs
  <2>. QED
    BY <1>8, <1>9, <2>1, <2>3
<1>12. \A n \in Lives : ~Died(n)' => ~Died(n)
  <2>1. Missing \notin Nat
    BY SimAssumption
  <2>2. \A n \in Lives : death'[n] = Missing => n \notin dying /\ death[n] = Missing
    BY <1>17, <2>1
  <2>. QED
    BY <2>2 DEF Died
<1>13. ASSUME NEW n \in Lives
       PROVE  /\ sampled'[n] \in Seq(Int)
              /\ Len(sampled'[n]) <= K + 1 /\ Len(sampled'[n]) <= Slots(n)
              /\ ~Died(n)' => Len(sampled'[n]) \in {K + 1, Slots(n)}
              /\ \A k \in DOMAIN sampled'[n] : sampled'[n][k] = ClicksAt(GridOf(n), k)
  <2>1. CASE n \in active
    BY <1>8, <1>10, <2>1
  <2>2. CASE n \notin active
    BY <1>8, <1>9, <1>11, <1>12, <2>2
  <2>. QED
    BY <2>1, <2>2
<1>14. Walked(K + 1)'
  <2>1. Lives # {} /\ \E n \in Lives : Len(sampled'[n]) = K + 1
    BY <1>5, <1>10
  <2>2. PICK N : N = K + 1
    OBVIOUS
  <2>3. N' = N
    BY <2>2
  <2>. QED
    BY <1>2, <1>13, <2>1, <2>2 DEF Walked
<1>15. ASSUME NEW n \in Lives, Died(n)'
       PROVE  /\ death'[n] \in Nat
              /\ windows[n].from <= death'[n] /\ death'[n] <= windows[n].to
  <2>1. CASE n \in dying
    <3>1. death'[n] = instant[n] /\ instant[n] \in Nat /\ instant[n] \in Begin(n) .. End(n)
      BY <1>17, <2>1
    <3>2. /\ windows[n].from <= Begin(n) /\ End(n) <= windows[n].to
          /\ Begin(n) \in Int /\ End(n) \in Int
      BY <1>4, WalkIs
    <3>3. windows[n].from \in Int /\ windows[n].to \in Int
      BY LifeIs DEF WalkInv
    <3>. QED
      BY <3>1, <3>2, <3>3
  <2>2. CASE n \notin dying
    <3>1. death'[n] = death[n]
      BY <1>17, <2>2
    <3>2. Died(n)
      BY <1>15, <3>1 DEF Died
    <3>. QED
      BY <3>1, <3>2 DEF WalkInv, DeathsInv
  <2>. QED
    BY <2>1, <2>2
<1>16. DeathsInv'
  <2>1. DOMAIN sampled' = Lives' /\ DOMAIN death' = Lives'
    BY <1>2, <1>6, <1>7
  <2>2. \A n \in Lives' : sampled'[n] \in Seq(Int)
    BY <1>2, <1>13
  <2>3. \A n \in Lives' : Died(n)' => /\ death'[n] \in Nat
                                      /\ windows'[n].from <= death'[n] /\ death'[n] <= windows'[n].to
    BY <1>1, <1>2, <1>15
  <2>4. K + 1 \in Nat
    OBVIOUS
  <2>. QED
    BY <1>1, <1>14, <2>1, <2>2, <2>3, <2>4 DEF DeathsInv
<1>. QED
  BY <1>3, <1>16 DEF WalkInv

(* What is recorded.                                                        *)

\* The day of an instant, and its midday.
LEMMA DaysAre ==
  ASSUME NEW c \in Nat
  PROVE  /\ Day(c) \in Nat /\ MidDay(c) \in Nat /\ Day(MidDay(c)) = Day(c)
         /\ \A d \in Nat : c <= d /\ d <= MidDay(c) => Day(d) = Day(c)
<1>1. PICK D \in Nat : D = ClicksPerDay /\ D > 0
  BY SimAssumption
<1>2. PICK q \in Nat, r \in Nat : q = c \div D /\ c = q * D + r /\ r < D
  <2>1. c \div D \in Nat /\ c % D \in Nat /\ c = (c \div D) * D + (c % D) /\ c % D < D
    BY <1>1, DivisionWithRemainder
  <2>. QED
    BY <2>1
<1>3. PICK h \in Nat : h = D \div 2 /\ h < D
  BY <1>1
<1>4. q * D \in Nat
  BY <1>1
<1>5. PICK p \in Nat : p = q * D
  BY <1>4
<1>6. MidDay(c) = p + h
  BY <1>1, <1>2, <1>3, <1>5 DEF MidDay, Day
<1>7. ASSUME NEW d \in Nat, p <= d, d <= p + h
      PROVE  d \div D = q
  <2>1. PICK k \in Nat, s \in Nat : k = d \div D /\ d = k * D + s /\ s < D
    <3>1. d \div D \in Nat /\ d % D \in Nat /\ d = (d \div D) * D + (d % D) /\ d % D < D
      BY <1>1, DivisionWithRemainder
    <3>. QED
      BY <3>1
  <2>2. CASE k < q
    <3>1. (k + 1) * D <= q * D /\ (k + 1) * D = k * D + D /\ k * D \in Nat
      BY <1>1, <2>2, MoreTimesIsMore
    <3>. QED
      BY <1>1, <1>5, <1>7, <2>1, <3>1
  <2>3. CASE q < k
    <3>1. (q + 1) * D <= k * D /\ (q + 1) * D = q * D + D /\ k * D \in Nat
      BY <1>1, <2>3, MoreTimesIsMore
    <3>. QED
      BY <1>1, <1>3, <1>5, <1>7, <2>1, <3>1
  <2>. QED
    BY <2>1, <2>2, <2>3
<1>8. Day(c) = q
  BY <1>1, <1>2 DEF Day
<1>9. \A d \in Nat : p <= d /\ d <= p + h => Day(d) = q
  BY <1>1, <1>7 DEF Day
<1>10. p <= c
  BY <1>2, <1>5
<1>11. MidDay(c) \in Nat /\ p <= MidDay(c) /\ MidDay(c) <= p + h
  BY <1>6
<1>12. ASSUME NEW d \in Nat, c <= d, d <= MidDay(c)
       PROVE  Day(d) = q
  BY <1>6, <1>9, <1>10, <1>12
<1>. QED
  BY <1>8, <1>9, <1>11, <1>12

\* A death is recorded on its day, within the window, unless the window is over.
LEMMA EndIs ==
  ASSUME WalkInv, NEW n \in Lives
  PROVE  /\ RecordedEnd(n) \in Int
         /\ RecordedEnd(n) <= windows[n].to
         /\ IF Died(n) THEN Day(RecordedEnd(n)) = Day(death[n])
            ELSE RecordedEnd(n) = windows[n].to
<1>1. PICK s \in Int, t \in Int : s = windows[n].from /\ t = windows[n].to /\ s < t
  BY LifeIs DEF WalkInv
<1>2. CASE ~Died(n)
  BY <1>1, <1>2 DEF RecordedEnd
<1>3. CASE Died(n)
  <2>1. PICK d \in Nat : d = death[n] /\ s <= d /\ d <= t
    BY <1>1, <1>3 DEF WalkInv, DeathsInv
  <2>2. PICK noon \in Nat : noon = MidDay(d) /\ Day(noon) = Day(d)
    BY DaysAre
  <2>3. PICK m \in Nat : m = IF noon <= s THEN d ELSE noon
    OBVIOUS
  <2>4. RecordedEnd(n) = IF m <= t THEN m ELSE t
    BY <1>1, <1>3, <2>1, <2>2, <2>3 DEF RecordedEnd
  <2>5. CASE m <= t
    <3>1. Day(m) = Day(d)
      BY <2>2, <2>3
    <3>. QED
      BY <1>1, <1>3, <2>1, <2>4, <2>5, <3>1
  <2>6. CASE ~(m <= t)
    <3>1. t \in Nat /\ d <= t /\ t <= MidDay(d)
      BY <2>1, <2>2, <2>3, <2>6
    <3>2. Day(t) = Day(d)
      BY <3>1, DaysAre
    <3>. QED
      BY <1>1, <1>3, <2>1, <2>4, <2>6, <3>2
  <2>. QED
    BY <2>5, <2>6
<1>. QED
  BY <1>2, <1>3

LEMMA RecordedIs ==
  ASSUME WalkInv
  PROVE  /\ AreRecords(Recorded)
         /\ DOMAIN Recorded = Lives
         /\ \A n \in Lives :
              /\ Recorded[n] \in RowType
              /\ Recorded[n].id = windows[n].id /\ Recorded[n].start = windows[n].from
              /\ Recorded[n].end = RecordedEnd(n) /\ Recorded[n].died = Died(n)
              /\ Recorded[n].count = 1
<1>1. DOMAIN Recorded = Lives
  BY DEF Recorded
<1>2. ASSUME NEW n \in Lives
      PROVE  /\ Recorded[n] \in RowType
             /\ Recorded[n].id = windows[n].id /\ Recorded[n].start = windows[n].from
             /\ Recorded[n].end = RecordedEnd(n) /\ Recorded[n].died = Died(n)
             /\ Recorded[n].count = 1
  <2>1. /\ windows[n].id \in Nat /\ windows[n].from \in Int /\ RecordedEnd(n) \in Int
    BY LifeIs, EndIs DEF WalkInv
  <2>2. PICK d \in BOOLEAN : d = Died(n)
    BY DEF Died
  <2>3. Recorded[n] = [id |-> windows[n].id, start |-> windows[n].from,
                       end |-> RecordedEnd(n), died |-> d, count |-> 1]
    BY <2>2 DEF Recorded
  <2>. QED
    BY <2>1, <2>2, <2>3 DEF RowType
<1>3. Recorded \in Seq(RowType)
  <2>1. windows \in Seq(WindowType)
    BY DEF WalkInv, WindowsInv
  <2>2. PICK N \in Nat : DOMAIN windows = 1 .. N
    BY <2>1
  <2>3. Recorded \in [1 .. N -> RowType]
    BY <1>1, <1>2, <2>2 DEF Recorded, Lives
  <2>. QED
    BY <2>2, <2>3
<1>4. \A m, n \in DOMAIN Recorded : Recorded[m].id = Recorded[n].id => m = n
  BY <1>1, <1>2 DEF WalkInv, WindowsInv
<1>. QED
  BY <1>1, <1>2, <1>3, <1>4 DEF AreRecords

LEMMA RecordKeepsTheWalk ==
  ASSUME WalkInv, Record
  PROVE  WalkInv'
<1>1. /\ given'.period = given.period /\ step' = "columns" /\ Active = {}
      /\ UNCHANGED walkVars
      /\ given' \in [columns : Seq(RowType), period : Periods]
  <2>1. given' = [given EXCEPT !.columns = Recorded]
    BY DEF Record
  <2>2. given'.period = given.period
    BY <2>1
  <2>3. given \in [columns : Seq(RowType), period : Periods] /\ Recorded \in Seq(RowType)
    BY RecordedIs DEF WalkInv, WindowsInv, AreRecords
  <2>4. given' \in [columns : Seq(RowType), period : Periods]
    BY <2>1, <2>3
  <2>. QED
    BY <2>2, <2>4 DEF Record
<1>2. WindowsInv'
  BY <1>1 DEF WalkInv, WindowsInv, Lives, Period, walkVars
<1>3. PICK K \in Nat : Walked(K)
  BY DEF WalkInv, DeathsInv
<1>4. ASSUME NEW n \in Lives, ~Died(n)
      PROVE  Len(sampled[n]) = Slots(n)
  <2>1. Slots(n) \in Nat /\ ~(K < Slots(n))
    BY <1>1, <1>3, <1>4, WalkIs
  <2>2. sampled[n] \in Seq(Int) /\ Len(sampled[n]) \in Nat
    <3>1. sampled[n] \in Seq(Int)
      BY DEF WalkInv, DeathsInv
    <3>. QED
      BY <3>1
  <2>3. Len(sampled[n]) <= Slots(n) /\ Len(sampled[n]) \in {K, Slots(n)}
    BY <1>3, <1>4 DEF Walked
  <2>. QED
    BY <2>1, <2>2, <2>3
<1>5. DeathsInv'
  <2>1. Walked(K)' /\ \A n \in Lives' : ~Died(n)' => Len(sampled'[n]) = Slots(n)'
    BY <1>1, <1>3, <1>4
       DEF Walked, Lives, GridOf, Slots, AsExposure, walkVars, Died
  <2>2. \A n \in Lives : sampled[n] \in Seq(Int)
    BY DEF WalkInv, DeathsInv
  <2>3. \A n \in Lives : Died(n) => /\ death[n] \in Nat
                                    /\ windows[n].from <= death[n] /\ death[n] <= windows[n].to
    BY DEF WalkInv, DeathsInv
  <2>4. DOMAIN sampled = Lives /\ DOMAIN death = Lives
    BY DEF WalkInv, DeathsInv
  <2>. QED
    BY <1>1, <2>1, <2>2, <2>3, <2>4 DEF DeathsInv, Lives, walkVars, Died
<1>. QED
  BY <1>2, <1>5 DEF WalkInv

\* Once the data is there the walk is over.
LEMMA TheWalkIsOver ==
  ASSUME WalkInv, UNCHANGED walkVars, given' = given,
         step \notin {"prepare", "walk"} \/ lives = <<>>,
         step' # "prepare" \/ UNCHANGED step
  PROVE  WalkInv'
<1>1. WindowsInv'
  BY DEF WalkInv, WindowsInv, Lives, Period, walkVars
<1>2. \A n \in Lives : ~Died(n) => Len(sampled[n]) = Slots(n)
  BY DEF WalkInv, DeathsInv, WindowsInv, Lives
<1>3. PICK K \in Nat : Walked(K)
  BY DEF WalkInv, DeathsInv
<1>4. Walked(K)' /\ \A n \in Lives' : ~Died(n)' => Len(sampled'[n]) = Slots(n)'
  BY <1>2, <1>3 DEF Walked, Lives, GridOf, Slots, AsExposure, walkVars, Died
<1>5. \A n \in Lives : sampled[n] \in Seq(Int)
  BY DEF WalkInv, DeathsInv
<1>6. \A n \in Lives : Died(n) => /\ death[n] \in Nat
                                  /\ windows[n].from <= death[n] /\ death[n] <= windows[n].to
  BY DEF WalkInv, DeathsInv
<1>7. DOMAIN sampled = Lives /\ DOMAIN death = Lives
  BY DEF WalkInv, DeathsInv
<1>8. DeathsInv'
  BY <1>4, <1>5, <1>6, <1>7 DEF DeathsInv, Lives, walkVars, Died
<1>. QED
  BY <1>1, <1>8 DEF WalkInv

LEMMA TheWalkRests ==
  ASSUME WalkInv, UNCHANGED simVars
  PROVE  WalkInv'
<1>1. /\ given' = given /\ step' = step /\ lives' = lives /\ clicks' = clicks
      /\ windows' = windows /\ sampled' = sampled /\ death' = death
  BY DEF simVars, walkVars, dataVars
<1>2. WindowsInv'
  BY <1>1 DEF WalkInv, WindowsInv, Lives, Period
<1>3. PICK K \in Nat : Walked(K)
  BY DEF WalkInv, DeathsInv
<1>4. Walked(K)'
  BY <1>1, <1>3 DEF Walked, Lives, GridOf, Slots, AsExposure, Died
<1>5. \A n \in Lives : sampled[n] \in Seq(Int)
  BY DEF WalkInv, DeathsInv
<1>6. \A n \in Lives : Died(n) => /\ death[n] \in Nat
                                  /\ windows[n].from <= death[n] /\ death[n] <= windows[n].to
  BY DEF WalkInv, DeathsInv
<1>7. DOMAIN sampled = Lives /\ DOMAIN death = Lives
  BY DEF WalkInv, DeathsInv
<1>8. step \notin {"prepare", "walk"} => \A n \in Lives : ~Died(n) => Len(sampled[n]) = Slots(n)
  BY DEF WalkInv, DeathsInv
<1>9. DeathsInv'
  BY <1>1, <1>4, <1>5, <1>6, <1>7, <1>8
     DEF DeathsInv, Lives, Died, Slots, GridOf, AsExposure
<1>. QED
  BY <1>2, <1>9 DEF WalkInv

LEMMA EmptyPeriodKeepsTheWalk ==
  ASSUME WalkInv, RefusePeriod
  PROVE  WalkInv'
<1>1. windows = <<>> /\ step' = "refused" /\ given' = given /\ UNCHANGED walkVars
  BY DEF RefusePeriod, WalkInv, WindowsInv
<1>2. WindowsInv'
  BY <1>1 DEF WalkInv, WindowsInv, Lives, Period, walkVars
<1>3. PICK K \in Nat : Walked(K)
  BY DEF WalkInv, DeathsInv
<1>4. Walked(K)'
  BY <1>1, <1>3 DEF Walked, Lives, GridOf, Slots, AsExposure, Died, walkVars
<1>5. DOMAIN sampled = Lives /\ DOMAIN death = Lives /\ Lives = {}
  BY <1>1 DEF WalkInv, DeathsInv, Lives
<1>6. DeathsInv'
  BY <1>1, <1>4, <1>5 DEF DeathsInv, Lives, walkVars
<1>. QED
  BY <1>2, <1>6 DEF WalkInv

LEMMA WalkIsKept == WalkInv /\ [SimNext]_simVars => WalkInv'
<1>. SUFFICES ASSUME WalkInv, [SimNext]_simVars PROVE WalkInv'
  OBVIOUS
<1>1. CASE RefusePeriod
  BY <1>1, EmptyPeriodKeepsTheWalk
<1>2. CASE Prepare
  BY <1>2, PrepareKeepsTheWalk
<1>3. CASE WalkStep
  BY <1>3, WalkStepKeepsTheWalk
<1>4. CASE Record
  BY <1>4, RecordKeepsTheWalk
<1>5. CASE (MakeData \/ RefuseData \/ ValueData) /\ UNCHANGED walkVars
  <2>1. /\ given' = given /\ step \in {"columns", "data"}
        /\ step' \in {"data", "refused", "valued"}
    BY <1>5 DEF MakeData, RefuseData, ValueData
  <2>. QED
    BY <1>5, <2>1, TheWalkIsOver
<1>6. CASE ChangeGiven
  <2>1. given' = given /\ step = "data" /\ step' = step /\ UNCHANGED walkVars
    BY <1>6 DEF ChangeGiven, AssignColumn
  <2>. QED
    BY <2>1, TheWalkIsOver
<1>7. CASE UNCHANGED simVars
  BY <1>7, TheWalkRests
<1>. QED
  BY <1>1, <1>2, <1>3, <1>4, <1>5, <1>6, <1>7 DEF SimNext

\* Of the walk of simulate(): each window lies in the period, its mortality has been
\* read at the points of its own grid, all lives still walked have been read equally
\* often, and a death is within its window.
THEOREM WalkInvariant == SimSpec => []WalkInv
BY WalkBegins, WalkIsKept, PTL DEF SimSpec

\* The mortality is read where the engine would read it, whatever the calendar, the
\* period, the population and the time scale, and however many lives are walked
\* together.
THEOREM MortalityIsReadOnTheGrid == SimSpec => []SampledOnTheEnginesGrid
<1>1. ASSUME WalkInv PROVE SampledOnTheEnginesGrid
  <2>1. ASSUME NEW n \in Lives
        PROVE  /\ ~Unusable(AsExposure(n))
               /\ Len(sampled[n]) <= Slots(n)
               /\ \A k \in DOMAIN sampled[n] : sampled[n][k] = ClicksAt(GridOf(n), k)
               /\ step \in {"data", "valued"} /\ ~Died(n) => Len(sampled[n]) = Slots(n)
    <3>1. /\ windows[n].from \in Int /\ windows[n].to \in Int
          /\ Period.start <= windows[n].from /\ windows[n].from < windows[n].to
          /\ windows[n].to <= Period.end
      BY <1>1, LifeIs DEF WalkInv
    <3>2. /\ Period.start \in Int /\ Period.end \in Int
          /\ IsValidDatey(Period.start) /\ IsValidDatey(Period.end)
      BY <1>1, PeriodIs DEF WalkInv, WindowsInv
    <3>3. FirstClick \in Int /\ LastClick \in Int
      BY WholeClicks
    <3>4. AsExposure(n).start = windows[n].from /\ AsExposure(n).end = windows[n].to
      BY DEF AsExposure
    <3>5. ~Unusable(AsExposure(n))
      BY <3>1, <3>2, <3>3, <3>4 DEF Unusable, IsValidDatey
    <3>. QED
      BY <1>1, <3>5 DEF WalkInv, DeathsInv, Walked
  <2>2. DOMAIN sampled = Lives
    BY <1>1 DEF WalkInv, DeathsInv
  <2>. QED
    BY <2>1, <2>2 DEF SampledOnTheEnginesGrid, GridOf, Slots
<1>. QED
  BY <1>1, WalkInvariant, PTL

-----------------------------------------------------------------------------
\* What is recorded loses nothing when data is made of it.
LEMMA RecordedIsKept ==
  ASSUME WalkInv, ~RefusesRows(Recorded, WholeSet)
  PROVE  Kept(Recorded, Period, WholeSet) = Recorded
<1>1. PICK rows : rows = Recorded
  OBVIOUS
<1>2. rows \in Seq(RowType) /\ DOMAIN rows = Lives
  BY <1>1, RecordedIs DEF AreRecords
<1>3. Counted(rows) = rows
  <2>1. PICK keep : keep = {n \in DOMAIN rows : rows[n].count > 0}
    OBVIOUS
  <2>2. DOMAIN rows \subseteq keep
    BY <1>1, <1>2, <2>1, RecordedIs
  <2>3. Where(rows, keep) = rows
    BY <1>2, <2>2, WhereAll
  <2>. QED
    BY <2>1, <2>3 DEF Counted
<1>4. \A n \in DOMAIN rows : ~Improper(rows[n])
  BY <1>1, <1>3 DEF RefusesRows, Trims, Considered, IsNew, ExposureColumns
<1>5. ASSUME NEW n \in DOMAIN rows
      PROVE  Trimmed(rows[n], Period) = rows[n] /\ rows[n].start < rows[n].end
  <2>1. n \in Lives
    BY <1>2
  <2>2. PICK s \in Int, t \in Int, e \in Int, d \in BOOLEAN, i \in Nat :
          /\ s = windows[n].from /\ t = windows[n].to /\ s < t /\ i = windows[n].id
          /\ Period.start <= s /\ t <= Period.end
          /\ e = RecordedEnd(n) /\ e <= t /\ d = Died(n) /\ (~d => e = t)
    <3>1. Died(n) \in BOOLEAN
      BY DEF Died
    <3>2. /\ windows[n].from \in Int /\ windows[n].to \in Int /\ windows[n].id \in Nat
          /\ Period.start <= windows[n].from /\ windows[n].from < windows[n].to
          /\ windows[n].to <= Period.end
      BY <2>1, LifeIs DEF WalkInv
    <3>3. /\ RecordedEnd(n) \in Int /\ RecordedEnd(n) <= windows[n].to
          /\ ~Died(n) => RecordedEnd(n) = windows[n].to
      BY <2>1, EndIs
    <3>. QED
      BY <3>1, <3>2, <3>3
  <2>3. rows[n] = [id |-> i, start |-> s, end |-> e, died |-> d, count |-> 1]
    BY <1>1, <2>1, <2>2 DEF Recorded
  <2>4. ~(s > e \/ (s = e /\ d))
    BY <1>4, <2>3 DEF Improper
  <2>5. s < e
    BY <2>2, <2>4
  <2>6. Period.start \in Int /\ Period.end \in Int
    BY PeriodIs DEF WalkInv, WindowsInv
  <2>7. s >= Period.start /\ e <= Period.end
    BY <2>2, <2>6
  <2>9. /\ rows[n].start = s /\ rows[n].end = e
        /\ ((e <= Period.end) /\ rows[n].died) = d
    BY <2>2, <2>3, <2>7
  <2>10. /\ (IF s >= Period.start THEN s ELSE Period.start) = s
         /\ (IF e <= Period.end THEN e ELSE Period.end) = e
    BY <2>7
  <2>11. Trimmed(rows[n], Period) = [rows[n] EXCEPT !.start = s, !.end = e, !.died = d]
    BY <2>9, <2>10, Zenon DEF Trimmed
  <2>12. [rows[n] EXCEPT !.start = s, !.end = e, !.died = d] = rows[n]
    <3>1. PICK row : row = rows[n]
      OBVIOUS
    <3>2. [row EXCEPT !.start = s] = row
      BY <2>3, <3>1
    <3>3. [row EXCEPT !.end = e] = row
      BY <2>3, <3>1
    <3>4. [row EXCEPT !.died = d] = row
      BY <2>2, <2>3, <3>1
    <3>. QED
      BY <3>1, <3>2, <3>3, <3>4
  <2>8. Trimmed(rows[n], Period) = rows[n]
    BY <2>11, <2>12
  <2>. QED
    BY <2>3, <2>5, <2>8
<1>6. PICK trimmed : trimmed = [n \in DOMAIN rows |-> Trimmed(rows[n], Period)]
  OBVIOUS
<1>7. trimmed = rows
  <2>1. PICK N \in Nat : DOMAIN rows = 1 .. N /\ rows \in [1 .. N -> RowType]
    BY <1>2
  <2>. QED
    BY <1>5, <1>6, <2>1
<1>8. TrimRows(rows, Period) = Where(rows, HasE2R(rows))
  BY <1>6, <1>7 DEF TrimRows
<1>9. DOMAIN rows \subseteq HasE2R(rows)
  BY <1>5 DEF HasE2R
<1>10. Where(rows, HasE2R(rows)) = rows
  BY <1>2, <1>9, WhereAll
<1>. QED
  BY <1>1, <1>3, <1>8, <1>10 DEF Kept, Trims, Considered, IsNew, ExposureColumns

-----------------------------------------------------------------------------
(* The data.                                                                *)

LEMMA DataBegins == SimInit => DataInv
<1>. SUFFICES ASSUME SimInit PROVE DataInv
  OBVIOUS
<1>1. given.period \in Periods /\ data = <<>> /\ assigned = FALSE /\ asAt = given.period.end
      /\ step \in {"prepare", "columns"} /\ (step = "columns" => lives = <<>>)
  BY DEF SimInit, DataInit
<1>2. AreRecords(given.columns)
  <2>1. given.columns \in Columns \/ given.columns = <<>>
    BY DEF SimInit, DataInit
  <2>2. AreRecords(<<>>)
    <3>1. <<>> \in Seq(RowType) /\ DOMAIN <<>> = {}
      OBVIOUS
    <3>. QED
      BY <3>1 DEF AreRecords
  <2>. QED
    BY <2>1, <2>2, DataAssumption
<1>3. data \in Seq(RowType) /\ DOMAIN data = {}
  BY <1>1
<1>4. asAt \in Int
  BY <1>1, PeriodIs DEF Period
<1>. QED
  BY <1>1, <1>2, <1>3, <1>4 DEF DataInv

\* Before there is data, and when there never is.
LEMMA NoDataYet ==
  ASSUME DataInv, data = <<>>, AreRecords(given'.columns),
         UNCHANGED <<data, assigned, asAt, alive>>, step' \notin {"data", "valued"},
         step' = "columns" /\ lives' # <<>> => given'.columns = Recorded'
  PROVE  DataInv'
<1>1. data' = <<>> /\ data' \in Seq(RowType) /\ DOMAIN data' = {} /\ asAt' \in Int
      /\ assigned' \in BOOLEAN
  BY DEF DataInv
<1>. QED
  BY <1>1 DEF DataInv

LEMMA RecordKeepsTheData ==
  ASSUME WalkInv, DataInv, Record
  PROVE  DataInv'
<1>1. given' = [given EXCEPT !.columns = Recorded]
  BY DEF Record
<1>2. given \in [columns : Seq(RowType), period : Periods]
  BY DEF WalkInv, WindowsInv
<1>3. given'.columns = Recorded
  BY <1>1, <1>2
<1>4. step = "walk" /\ step' = "columns" /\ UNCHANGED <<data, assigned, asAt, alive, walkVars>>
  BY DEF Record
<1>5. data = <<>>
  BY <1>4 DEF DataInv
<1>6. Recorded' = Recorded
  BY <1>4 DEF walkVars, Recorded, Lives, RecordedEnd, Died
<1>. QED
  BY <1>3, <1>4, <1>5, <1>6, RecordedIs, NoDataYet

LEMMA MakeKeepsTheData ==
  ASSUME WalkInv, DataInv, MakeData, UNCHANGED walkVars
  PROVE  DataInv'
<1>1. PICK made : made = Kept(given.columns, Period, WholeSet)
  OBVIOUS
<1>2. /\ step = "columns" /\ ~RefusesRows(given.columns, WholeSet)
      /\ data' = made /\ step' = "data"
      /\ given' = given /\ assigned' = assigned /\ asAt' = asAt
  BY <1>1 DEF MakeData
<1>3. AreRecords(given.columns) /\ given.columns \in Seq(RowType)
  BY DEF DataInv, AreRecords
<1>4. Period \in PeriodType
  BY PeriodIs DEF WalkInv, WindowsInv
<1>5. made \in Seq(RowType) /\ \A n \in DOMAIN made : IsUsable(made[n], Period)
  BY <1>1, <1>3, <1>4, MadeDataIs
<1>6. Period' = Period
  BY <1>2 DEF Period
<1>7. lives' = lives /\ Recorded' = Recorded
  BY DEF walkVars, Recorded, Lives, RecordedEnd, Died
<1>8. lives # <<>> => given.columns = Recorded
  BY <1>2 DEF DataInv
<1>9. asAt \in Int /\ assigned \in BOOLEAN
  BY DEF DataInv
<1>. QED
  BY <1>1, <1>2, <1>3, <1>5, <1>6, <1>7, <1>8, <1>9 DEF DataInv

LEMMA ValueKeepsTheData ==
  ASSUME WalkInv, DataInv, ValueData, UNCHANGED walkVars
  PROVE  DataInv'
<1>1. PICK date \in Int :
        asAt' = date /\ alive' = Where(data, {n \in DOMAIN data : IsAlive(data[n], date)})
  BY DataAssumption DEF ValueData
<1>2. /\ step = "data" /\ step' = "valued" /\ given' = given /\ data' = data
      /\ assigned' = assigned
  BY DEF ValueData
<1>3. Period' = Period
  BY <1>2 DEF Period
<1>4. lives' = lives /\ Recorded' = Recorded
  BY DEF walkVars, Recorded, Lives, RecordedEnd, Died
<1>5. /\ AreRecords(given.columns) /\ data \in Seq(RowType) /\ assigned \in BOOLEAN
      /\ \A n \in DOMAIN data : IsUsable(data[n], Period)
      /\ ~assigned => /\ ~RefusesRows(given.columns, WholeSet)
                      /\ data = Kept(given.columns, Period, WholeSet)
      /\ lives # <<>> => given.columns = Recorded
  BY <1>2 DEF DataInv
<1>. QED
  BY <1>1, <1>2, <1>3, <1>4, <1>5 DEF DataInv

LEMMA ChangeKeepsTheData ==
  ASSUME WalkInv, DataInv, ChangeGiven
  PROVE  DataInv'
<1>1. /\ step = "data" /\ step' = "data" /\ assigned' = TRUE /\ lives' = <<>>
      /\ given' = given /\ asAt' = asAt
  BY DEF ChangeGiven, AssignColumn, walkVars
<1>2. PICK n \in DOMAIN data, column \in DOMAIN Assignable :
        \E value \in Assignable[column] :
          data' = Kept([data EXCEPT ![n][column] = value], Period, column)
  BY DEF ChangeGiven, AssignColumn
<1>3. PICK value \in Assignable[column] :
        data' = Kept([data EXCEPT ![n][column] = value], Period, column)
  BY <1>2
<1>4. PICK rows : rows = [data EXCEPT ![n][column] = value]
  OBVIOUS
<1>5. /\ data \in Seq(RowType) /\ \A m \in DOMAIN data : IsUsable(data[m], Period)
      /\ AreRecords(given.columns) /\ asAt \in Int
  BY DEF DataInv
<1>6. column \in {"start", "end", "died", "count"}
  BY DEF Assignable
<1>7. PICK row : row = [data[n] EXCEPT ![column] = value]
  OBVIOUS
<1>8. row \in RowType /\ (column # "count" => row.count = data[n].count)
      /\ (column = "count" => row.start = data[n].start /\ row.end = data[n].end)
  <2>1. PICK i \in Nat, s \in Int, e \in Int, d \in BOOLEAN, c \in Int :
          data[n] = [id |-> i, start |-> s, end |-> e, died |-> d, count |-> c]
    <3>1. data[n] \in RowType
      BY <1>5
    <3>. QED
      BY <3>1 DEF RowType
  <2>2. CASE column = "start"
    <3>1. value \in Int
      BY <2>2, DataAssumption DEF Assignable
    <3>. QED
      BY <1>7, <2>1, <2>2, <3>1 DEF RowType
  <2>3. CASE column = "end"
    <3>1. value \in Int
      BY <2>3, DataAssumption DEF Assignable
    <3>. QED
      BY <1>7, <2>1, <2>3, <3>1 DEF RowType
  <2>4. CASE column = "died"
    <3>1. value \in BOOLEAN
      BY <2>4 DEF Assignable
    <3>. QED
      BY <1>7, <2>1, <2>4, <3>1 DEF RowType
  <2>5. CASE column = "count"
    <3>1. value \in Int
      BY <2>5, DataAssumption DEF Assignable
    <3>. QED
      BY <1>7, <2>1, <2>5, <3>1 DEF RowType
  <2>. QED
    BY <1>6, <2>2, <2>3, <2>4, <2>5
<1>9. rows = [data EXCEPT ![n] = row]
  BY <1>4, <1>7
<1>10. /\ rows \in Seq(RowType) /\ DOMAIN rows = DOMAIN data /\ rows[n] = row
       /\ \A m \in DOMAIN data : m # n => rows[m] = data[m]
  BY <1>5, <1>8, <1>9
<1>11. Period \in PeriodType
  BY PeriodIs DEF WalkInv, WindowsInv
<1>12. ASSUME NEW m \in DOMAIN rows
       PROVE  IF column = "count"
              THEN /\ Period.start <= rows[m].start
                   /\ rows[m].start < rows[m].end
                   /\ rows[m].end <= Period.end
              ELSE rows[m].count > 0
  BY <1>5, <1>8, <1>10 DEF IsUsable
<1>13. PICK period \in PeriodType : period = Period
  BY <1>11
<1>14. /\ Kept(rows, period, column) \in Seq(RowType)
       /\ \A k \in DOMAIN Kept(rows, period, column) :
            IsUsable(Kept(rows, period, column)[k], period)
  BY <1>10, <1>12, <1>13, ChangedDataIs
<1>15. data' \in Seq(RowType) /\ \A k \in DOMAIN data' : IsUsable(data'[k], Period)
  BY <1>3, <1>4, <1>13, <1>14
<1>16. Period' = Period
  BY <1>1 DEF Period
<1>. QED
  BY <1>1, <1>5, <1>15, <1>16 DEF DataInv

LEMMA DataIsKept == WalkInv /\ DataInv /\ [SimNext]_simVars => DataInv'
<1>. SUFFICES ASSUME WalkInv, DataInv, [SimNext]_simVars PROVE DataInv'
  OBVIOUS
<1>1. CASE RefusePeriod \/ Prepare \/ WalkStep
  <2>1. /\ step \in {"prepare", "walk"} /\ step' \in {"walk", "refused"}
        /\ given' = given /\ UNCHANGED <<data, assigned, asAt, alive>>
    BY <1>1 DEF RefusePeriod, Prepare, WalkStep, dataVars
  <2>2. data = <<>> /\ AreRecords(given.columns)
    BY <2>1 DEF DataInv
  <2>. QED
    BY <2>1, <2>2, NoDataYet
<1>2. CASE Record
  BY <1>2, RecordKeepsTheData
<1>3. CASE MakeData /\ UNCHANGED walkVars
  BY <1>3, MakeKeepsTheData
<1>4. CASE RefuseData
  <2>1. /\ step = "columns" /\ step' = "refused"
        /\ given' = given /\ UNCHANGED <<data, assigned, asAt, alive>>
    BY <1>4 DEF RefuseData
  <2>2. data = <<>> /\ AreRecords(given.columns)
    BY <2>1 DEF DataInv
  <2>. QED
    BY <2>1, <2>2, NoDataYet
<1>5. CASE ValueData /\ UNCHANGED walkVars
  BY <1>5, ValueKeepsTheData
<1>6. CASE ChangeGiven
  BY <1>6, ChangeKeepsTheData
<1>7. CASE UNCHANGED simVars
  <2>1. /\ given' = given /\ data' = data /\ assigned' = assigned /\ asAt' = asAt
        /\ alive' = alive /\ step' = step /\ lives' = lives
    BY <1>7 DEF simVars, dataVars, walkVars
  <2>2. Period' = Period
    BY <2>1 DEF Period
  <2>3. Recorded' = Recorded
    BY <1>7 DEF simVars, walkVars, Recorded, Lives, RecordedEnd, Died
  <2>. QED
    BY <2>1, <2>2, <2>3 DEF DataInv
<1>. QED
  BY <1>1, <1>2, <1>3, <1>4, <1>5, <1>6, <1>7 DEF SimNext

\* Of the data after it: every row is usable, data nobody has assigned to is what
\* is kept of the columns given, and those come from the walk if it made any.
THEOREM DataInvariant == SimSpec => [](WalkInv /\ DataInv)
BY WalkBegins, DataBegins, WalkIsKept, DataIsKept, PTL DEF SimSpec

\* Whatever is given and whatever `$<-` assigns after, the engine accepts every row
\* (data.R:112).
THEOREM RowsAreAlwaysUsable == SimSpec => []EveryRowIsUsable
<1>1. DataInv => EveryRowIsUsable
  BY DEF DataInv, EveryRowIsUsable, IsUsable
<1>. QED
  BY <1>1, DataInvariant, PTL

\* The exposures and the deaths of the two parts of any period add up to its own.
THEOREM PeriodsAlwaysAddUp == SimSpec => []PeriodsAddUp
<1>1. ASSUME WalkInv, DataInv, step = "data", ~assigned,
             NEW cut \in Period.start + 1 .. Period.end - 1
      PROVE  LET early == Kept(given.columns, [Period EXCEPT !.end = cut], WholeSet)
                 late == Kept(given.columns, [Period EXCEPT !.start = cut], WholeSet)
             IN /\ Exposed(early) + Exposed(late) = Exposed(data)
                /\ Deaths(early) + Deaths(late) = Deaths(data)
  <2>1. PICK rows \in Seq(RowType) : rows = given.columns /\ ~RefusesRows(rows, WholeSet)
    BY <1>1 DEF DataInv, AreRecords
  <2>2. PICK period \in PeriodType : period = Period
    BY <1>1, PeriodIs DEF WalkInv, WindowsInv
  <2>3. data = Kept(rows, period, WholeSet)
    BY <1>1, <2>1, <2>2 DEF DataInv
  <2>4. LET early == Kept(rows, [period EXCEPT !.end = cut], WholeSet)
            late == Kept(rows, [period EXCEPT !.start = cut], WholeSet)
            made == Kept(rows, period, WholeSet)
        IN /\ Exposed(early) + Exposed(late) = Exposed(made)
           /\ Deaths(early) + Deaths(late) = Deaths(made)
    BY <1>1, <2>1, <2>2, DataAddsUp
  <2>. QED
    BY <2>1, <2>2, <2>3, <2>4
<1>2. WalkInv /\ DataInv => PeriodsAddUp
  BY <1>1 DEF PeriodsAddUp
<1>. QED
  BY <1>2, DataInvariant, PTL

\* A valuation holds those alive at its date, of all the lives in the data.
THEOREM TheLivingAreValued == SimSpec => []ValuationIsOfTheLiving
<1>1. ASSUME WalkInv, DataInv, step = "valued", ~assigned
      PROVE  {alive[n].id : n \in DOMAIN alive} =
               {given.columns[m].id : m \in {k \in DOMAIN given.columns :
                  /\ \E n \in DOMAIN data : data[n].id = given.columns[k].id
                  /\ Period.start <= asAt /\ asAt <= Period.end
                  /\ IsAlive(given.columns[k], asAt)}}
  <2>1. PICK rows \in Seq(RowType) : rows = given.columns /\ AreRecords(rows)
    BY <1>1 DEF DataInv, AreRecords
  <2>2. PICK period \in PeriodType : period = Period
    BY <1>1, PeriodIs DEF WalkInv, WindowsInv
  <2>3. PICK date \in Int : date = asAt
    BY <1>1 DEF DataInv
  <2>. DEFINE made == Kept(rows, period, WholeSet)
              living == Where(made, {n \in DOMAIN made : IsAlive(made[n], date)})
  <2>4. {living[n].id : n \in DOMAIN living} =
          {rows[m].id : m \in {k \in DOMAIN rows :
             /\ \E n \in DOMAIN made : made[n].id = rows[k].id
             /\ period.start <= date /\ date <= period.end
             /\ IsAlive(rows[k], date)}}
    BY <2>1, LivingAreFound, Zenon
  <2>5. data = made
    BY <1>1, <2>1, <2>2 DEF DataInv
  <2>6. data = made /\ alive = living
    BY <1>1, <2>3, <2>5 DEF DataInv
  <2>. HIDE DEF made, living
  <2>7. PICK ids : ids = {living[n].id : n \in DOMAIN living}
    OBVIOUS
  <2>8. PICK found : found = {k \in DOMAIN rows :
          /\ \E n \in DOMAIN made : made[n].id = rows[k].id
          /\ period.start <= date /\ date <= period.end
          /\ IsAlive(rows[k], date)}
    OBVIOUS
  <2>9. ids = {rows[m].id : m \in found}
    BY <2>4, <2>7, <2>8
  <2>10. ids = {alive[n].id : n \in DOMAIN alive}
    BY <2>6, <2>7
  <2>11. found = {k \in DOMAIN given.columns :
          /\ \E n \in DOMAIN data : data[n].id = given.columns[k].id
          /\ Period.start <= asAt /\ asAt <= Period.end
          /\ IsAlive(given.columns[k], asAt)}
    BY <2>1, <2>2, <2>3, <2>6, <2>8
  <2>12. {rows[m].id : m \in found} = {given.columns[m].id : m \in found}
    BY <2>1
  <2>. QED
    BY <2>9, <2>10, <2>11, <2>12
<1>2. WalkInv /\ DataInv => ValuationIsOfTheLiving
  BY <1>1 DEF ValuationIsOfTheLiving
<1>. QED
  BY <1>2, DataInvariant, PTL

\* Nobody simulated is lost, and every death is in the data on its day.
THEOREM EveryLifeIsAlwaysFollowed == SimSpec => []EveryLifeIsFollowed
<1>1. ASSUME WalkInv, DataInv, step = "data", ~assigned, lives # <<>>
      PROVE  /\ Len(data) = Len(windows)
             /\ \A n \in Lives :
                  /\ data[n].id = windows[n].id
                  /\ data[n].start = windows[n].from
                  /\ data[n].died = Died(n)
                  /\ data[n].end <= windows[n].to
                  /\ IF Died(n) THEN Day(data[n].end) = Day(death[n])
                     ELSE data[n].end = windows[n].to
  <2>1. data = Recorded
    <3>1. given.columns = Recorded /\ ~RefusesRows(given.columns, WholeSet)
          /\ data = Kept(given.columns, Period, WholeSet)
      BY <1>1 DEF DataInv
    <3>. QED
      BY <1>1, <3>1, RecordedIsKept
  <2>2. Len(data) = Len(windows)
    <3>1. windows \in Seq(WindowType) /\ DOMAIN windows = Lives
      BY <1>1 DEF WalkInv, WindowsInv, Lives
    <3>2. Recorded \in Seq(RowType) /\ DOMAIN Recorded = Lives
      BY <1>1, RecordedIs DEF AreRecords
    <3>. QED
      BY <2>1, <3>1, <3>2
  <2>3. ASSUME NEW n \in Lives
        PROVE  /\ data[n].id = windows[n].id
               /\ data[n].start = windows[n].from
               /\ data[n].died = Died(n)
               /\ data[n].end <= windows[n].to
               /\ IF Died(n) THEN Day(data[n].end) = Day(death[n])
                  ELSE data[n].end = windows[n].to
    BY <1>1, <2>1, <2>3, RecordedIs, EndIs
  <2>. QED
    BY <2>2, <2>3
<1>2. WalkInv /\ DataInv => EveryLifeIsFollowed
  BY <1>1 DEF EveryLifeIsFollowed
<1>. QED
  BY <1>2, DataInvariant, PTL

-----------------------------------------------------------------------------
(* Pieces put together and taken apart again.                               *)

\* f is the recursion FlattenSeq is defined by, begun one earlier.
IsFlattened(f, pieces, T) ==
  /\ f \in [0 .. Len(pieces) -> Seq(T)]
  /\ f[0] = <<>>
  /\ \A n \in 1 .. Len(pieces) : f[n] = f[n - 1] \o pieces[n]
  /\ FlattenSeq(pieces) = f[Len(pieces)]

LEMMA FlattenHasAValue ==
  ASSUME NEW T, NEW pieces \in Seq(Seq(T))
  PROVE  \E f : IsFlattened(f, pieces, T)
<1>. DEFINE N == Len(pieces)
            V == Seq(T)
            G == [n \in 1 .. N |-> [s \in V |-> s \o pieces[n]]]
            Is(g) == g = [n \in 1 .. N |-> IF n = 1 THEN pieces[n] ELSE g[n - 1] \o pieces[n]]
<1>1. N \in Nat /\ <<>> \in V /\ \A n \in 1 .. N : pieces[n] \in V
  OBVIOUS
<1>2. \A n \in 1 .. N, s \in V : s \o pieces[n] \in V
  BY <1>1
<1>3. G \in [1 .. N -> [V -> V]]
  <2>. HIDE DEF V, N
  <2>. QED
    BY <1>2
<1>4. PICK f : IsIterated(f, N, V, <<>>, G)
  <2>. HIDE DEF G, N, V
  <2>. QED
    BY <1>1, <1>3, RecursionHasAValue
<1>5. f \in [0 .. N -> V] /\ f[0] = <<>>
  BY <1>4 DEF IsIterated
<1>6. \A n \in 1 .. N : f[n - 1] \in V /\ f[n] = f[n - 1] \o pieces[n]
  <2>. HIDE DEF V, N
  <2>1. \A n \in 1 .. N : n - 1 \in 0 .. N
    BY <1>1
  <2>2. \A n \in 1 .. N : f[n - 1] \in V
    BY <1>5, <2>1
  <2>3. \A n \in 1 .. N : f[n] = G[n][f[n - 1]]
    BY <1>4 DEF IsIterated
  <2>. QED
    BY <2>2, <2>3
<1>. DEFINE h == CHOOSE g : Is(g)
            first == [n \in 1 .. N |-> f[n]]
<1>7. Is(first)
  <2>1. ASSUME NEW n \in 1 .. N
        PROVE  first[n] = IF n = 1 THEN pieces[n] ELSE first[n - 1] \o pieces[n]
    <3>1. CASE n = 1
      <4>1. f[1] = f[0] \o pieces[1] /\ pieces[1] \in Seq(T)
        <5>1. 1 \in 1 .. N /\ 1 - 1 = 0
          BY <3>1
        <5>2. pieces[1] \in Seq(T)
          BY <1>1, <5>1
        <5>. HIDE DEF N, V, G, Is
        <5>3. f[1] = f[1 - 1] \o pieces[1]
          BY <1>6, <5>1
        <5>. QED
          BY <5>1, <5>2, <5>3
      <4>2. <<>> \o pieces[1] = pieces[1]
        BY <4>1
      <4>. QED
        BY <1>5, <3>1, <4>1, <4>2
    <3>2. CASE n # 1
      <4>1. n - 1 \in 1 .. N
        BY <3>2
      <4>. HIDE DEF N
      <4>. QED
        BY <1>6, <3>2, <4>1
    <3>. QED
      BY <3>1, <3>2
  <2>. QED
    BY <2>1
<1>8. Is(h)
  <2>. HIDE DEF Is
  <2>. QED
    BY <1>7
<1>9. N # 0 => FlattenSeq(pieces) = h[N]
  BY <1>1 DEF FlattenSeq
<1>. HIDE DEF h
<1>10. \A n \in 1 .. N : f[n] = h[n]
  <2>. DEFINE S == {n \in 0 .. N : n = 0 \/ f[n] = h[n]}
  <2>. HIDE DEF N, V
  <2>1. 0 \in S
    BY <1>1
  <2>2. ASSUME NEW n \in 0 .. N - 1, n \in S
        PROVE  n + 1 \in S
    <3>1. n + 1 \in 1 .. N /\ n + 1 \in 0 .. N /\ (n + 1) - 1 = n
      BY <1>1
    <3>2. h[n + 1] = IF n + 1 = 1 THEN pieces[n + 1] ELSE h[n] \o pieces[n + 1]
      BY <1>8, <3>1
    <3>3. first[n + 1] = IF n + 1 = 1 THEN pieces[n + 1] ELSE first[n] \o pieces[n + 1]
      BY <1>7, <3>1
    <3>4. first[n + 1] = f[n + 1]
      BY <3>1
    <3>5. CASE n = 0
      BY <3>1, <3>2, <3>3, <3>4, <3>5
    <3>6. CASE n # 0
      <4>1. n \in 1 .. N /\ first[n] = f[n] /\ f[n] = h[n]
        BY <1>1, <2>2, <3>6
      <4>. QED
        BY <3>1, <3>2, <3>3, <3>4, <3>6, <4>1
    <3>. QED
      BY <3>5, <3>6
  <2>3. 0 .. N \subseteq S
    <3>. HIDE DEF S
    <3>. QED
      BY <1>1, <2>1, <2>2, UpTo
  <2>. QED
    BY <1>1, <2>3
<1>11. FlattenSeq(pieces) = f[N]
  <2>1. CASE N = 0
    <3>1. FlattenSeq(pieces) = pieces /\ pieces = <<>>
      BY <2>1 DEF FlattenSeq
    <3>. QED
      BY <1>5, <2>1, <3>1
  <2>2. CASE N # 0
    <3>1. N \in 1 .. N
      BY <1>1, <2>2
    <3>. QED
      BY <1>9, <1>10, <2>2, <3>1
  <2>. QED
    BY <2>1, <2>2
<1>12. IsFlattened(f, pieces, T)
  BY <1>5, <1>6, <1>11 DEF IsFlattened
<1>. QED
  BY <1>12

\* Where each piece is in the whole: ends are what its length adds up to.
ArePlaced(ends, pieces, whole) ==
  /\ ends \in [0 .. Len(pieces) -> Nat]
  /\ Len(whole) = ends[Len(pieces)]
  /\ \A n \in 1 .. Len(pieces) :
       /\ ends[n] = Total(SubSeq(Lengths(pieces), 1, n))
       /\ ends[n] = ends[n - 1] + Len(pieces[n])
       /\ ends[n] <= Len(whole)
       /\ \A k \in 1 .. Len(pieces[n]) : whole[ends[n - 1] + k] = pieces[n][k]

\* What begins after a and has c elements is done by a + c.
LEMMA EndsWithin ==
  ASSUME NEW a \in Nat, NEW c \in Nat, NEW e \in Nat, a + c <= e
  PROVE  \A k \in 1 .. c : a + k \in 1 .. e
OBVIOUS

LEMMA PiecesArePlaced ==
  ASSUME NEW T, NEW pieces \in Seq(Seq(T))
  PROVE  /\ FlattenSeq(pieces) \in Seq(T)
         /\ \E ends : ArePlaced(ends, pieces, FlattenSeq(pieces))
<1>1. PICK f : IsFlattened(f, pieces, T)
  BY FlattenHasAValue
<1>2. PICK N \in Nat : N = Len(pieces) /\ DOMAIN pieces = 1 .. N
  OBVIOUS
<1>3. \A n \in 1 .. N : pieces[n] \in Seq(T) /\ Len(pieces[n]) \in Nat
  <2>1. \A n \in 1 .. N : pieces[n] \in Seq(T)
    BY <1>2
  <2>. QED
    BY <2>1
<1>4. /\ \A n \in 0 .. N : f[n] \in Seq(T) /\ Len(f[n]) \in Nat
      /\ f[0] = <<>> /\ FlattenSeq(pieces) = f[N]
      /\ \A n \in 1 .. N : f[n] = f[n - 1] \o pieces[n]
  <2>1. \A n \in 0 .. N : f[n] \in Seq(T)
    BY <1>1, <1>2 DEF IsFlattened
  <2>2. \A n \in 0 .. N : Len(f[n]) \in Nat
    BY <2>1
  <2>. QED
    BY <1>1, <1>2, <2>1, <2>2 DEF IsFlattened
<1>5. PICK ends \in [0 .. N -> Nat] : \A n \in 0 .. N : ends[n] = Len(f[n])
  <2>. DEFINE len == [n \in 0 .. N |-> Len(f[n])]
  <2>1. len \in [0 .. N -> Nat] /\ \A n \in 0 .. N : len[n] = Len(f[n])
    BY <1>4
  <2>. HIDE DEF len
  <2>. QED
    BY <2>1
<1>6. PICK sizes \in [1 .. N -> Nat] :
        sizes = Lengths(pieces) /\ \A n \in 1 .. N : sizes[n] = Len(pieces[n])
  <2>1. Lengths(pieces) = [n \in 1 .. N |-> Len(pieces[n])]
    BY <1>2 DEF Lengths
  <2>. QED
    BY <1>3, <2>1
<1>7. ASSUME NEW n \in 1 .. N
      PROVE  /\ n - 1 \in 0 .. N
             /\ ends[n] = ends[n - 1] + sizes[n]
             /\ \A k \in 1 .. ends[n - 1] : f[n][k] = f[n - 1][k]
             /\ \A k \in 1 .. sizes[n] : f[n][ends[n - 1] + k] = pieces[n][k]
  <2>1. n - 1 \in 0 .. N /\ n \in 0 .. N
    OBVIOUS
  <2>2. PICK a \in Seq(T), b \in Seq(T) : a = f[n - 1] /\ b = pieces[n] /\ f[n] = a \o b
    BY <1>3, <1>4, <2>1
  <2>3. /\ Len(a \o b) = Len(a) + Len(b)
        /\ \A k \in 1 .. Len(a) : (a \o b)[k] = a[k]
        /\ \A k \in 1 .. Len(b) : (a \o b)[Len(a) + k] = b[k]
    OBVIOUS
  <2>4. ends[n] = Len(a \o b) /\ ends[n - 1] = Len(a) /\ sizes[n] = Len(b)
    BY <1>5, <1>6, <2>1, <2>2
  <2>. QED
    BY <2>1, <2>2, <2>3, <2>4
<1>. DEFINE Good(m) == \A n \in 1 .. m :
              /\ ends[n] <= ends[m]
              /\ \A k \in 1 .. sizes[n] : f[m][ends[n - 1] + k] = pieces[n][k]
            S == {m \in 0 .. N : Good(m)}
<1>8. 0 \in S
  BY <1>2
<1>9. ASSUME NEW m \in 0 .. N - 1, m \in S
      PROVE  m + 1 \in S
  <2>1. m + 1 \in 1 .. N /\ m + 1 \in 0 .. N /\ (m + 1) - 1 = m /\ m \in 0 .. N
    BY <1>2
  <2>2. /\ ends[m + 1] = ends[m] + sizes[m + 1]
        /\ \A k \in 1 .. ends[m] : f[m + 1][k] = f[m][k]
        /\ \A k \in 1 .. sizes[m + 1] : f[m + 1][ends[m] + k] = pieces[m + 1][k]
    <3>. HIDE DEF Good
    <3>1. PICK q \in 1 .. N : q = m + 1 /\ q - 1 = m
      BY <2>1
    <3>2. /\ ends[q] = ends[q - 1] + sizes[q]
          /\ \A k \in 1 .. ends[q - 1] : f[q][k] = f[q - 1][k]
          /\ \A k \in 1 .. sizes[q] : f[q][ends[q - 1] + k] = pieces[q][k]
      BY <1>7
    <3>. QED
      BY <3>1, <3>2
  <2>3. ends[m] \in Nat /\ sizes[m + 1] \in Nat /\ ends[m + 1] \in Nat /\ ends[m] <= ends[m + 1]
    BY <2>1, <2>2
  <2>4. ASSUME NEW n \in 1 .. m
        PROVE  /\ ends[n] <= ends[m + 1]
               /\ \A k \in 1 .. sizes[n] : f[m + 1][ends[n - 1] + k] = pieces[n][k]
    <3>1. /\ ends[n] <= ends[m]
          /\ \A k \in 1 .. sizes[n] : f[m][ends[n - 1] + k] = pieces[n][k]
      <4>1. Good(m)
        <5>. HIDE DEF Good
        <5>. QED
          BY <1>9
      <4>. QED
        BY <4>1
    <3>2. n \in 1 .. N /\ n - 1 \in 0 .. N /\ n \in 0 .. N
      BY <2>1
    <3>3. ends[n - 1] \in Nat /\ sizes[n] \in Nat /\ ends[n] = ends[n - 1] + sizes[n]
      BY <1>7, <3>2
    <3>4. \A k \in 1 .. sizes[n] : ends[n - 1] + k \in 1 .. ends[m]
      <4>1. PICK a \in Nat, c \in Nat, e \in Nat :
              a = ends[n - 1] /\ c = sizes[n] /\ e = ends[m] /\ a + c <= e
        BY <2>3, <3>1, <3>3
      <4>2. \A k \in 1 .. c : a + k \in 1 .. e
        BY <4>1, EndsWithin
      <4>. QED
        BY <4>1, <4>2
    <3>5. \A k \in 1 .. sizes[n] : f[m + 1][ends[n - 1] + k] = pieces[n][k]
      BY <2>2, <3>1, <3>4
    <3>6. ends[n] <= ends[m + 1]
      <4>1. /\ ends[n] \in Nat /\ ends[m] \in Nat /\ ends[m + 1] \in Nat
            /\ ends[n] <= ends[m] /\ ends[m] <= ends[m + 1]
        BY <2>3, <3>1, <3>2
      <4>. QED
        BY <4>1
    <3>. QED
      BY <3>5, <3>6
  <2>5. ends[m + 1] <= ends[m + 1]
    BY <2>3
  <2>6. \A n \in 1 .. m + 1 : n \in 1 .. m \/ n = m + 1
    BY <2>1
  <2>7. Good(m + 1)
    BY <2>1, <2>2, <2>4, <2>5, <2>6
  <2>. HIDE DEF Good
  <2>. QED
    BY <2>1, <2>7
<1>10. Good(N)
  <2>1. 0 .. N \subseteq S
    <3>. HIDE DEF S
    <3>. QED
      BY <1>8, <1>9, UpTo
  <2>2. N \in S
    BY <2>1
  <2>. QED
    BY <2>2
<1>11. sizes \in Seq(Int) /\ Len(sizes) = N
  BY <1>2, SequencesOfNumbers
<1>. DEFINE R == {m \in 0 .. N : Total(SubSeq(sizes, 1, m)) = ends[m]}
<1>12. 0 \in R
  <2>1. SubSeq(sizes, 1, 0) = <<>>
    BY <1>11
  <2>2. Total(SubSeq(sizes, 1, 0)) = 0
    BY <2>1, TotalOfNothing
  <2>3. ends[0] = 0 /\ 0 \in 0 .. N
    BY <1>4, <1>5
  <2>. QED
    BY <2>2, <2>3
<1>13. ASSUME NEW m \in 0 .. N - 1, m \in R
       PROVE  m + 1 \in R
  <2>1. m + 1 \in 1 .. N /\ m + 1 \in 0 .. N /\ (m + 1) - 1 = m /\ m \in Nat
    BY <1>2
  <2>2. PICK head : head = SubSeq(sizes, 1, m) /\ head \in Seq(Int)
    <3>1. \A k \in 1 .. m : sizes[k] \in Int
      BY <2>1
    <3>2. SubSeq(sizes, 1, m) \in Seq(Int)
      BY <1>11, <2>1, <3>1
    <3>. QED
      BY <3>2
  <2>3. SubSeq(sizes, 1, m + 1) = Append(head, sizes[m + 1])
    BY <1>11, <2>1, <2>2
  <2>4. sizes[m + 1] \in Int
    BY <2>1
  <2>5. Total(SubSeq(sizes, 1, m + 1)) = Total(head) + sizes[m + 1]
    BY <2>2, <2>3, <2>4, TotalOfOneMore
  <2>6. Total(head) = ends[m] /\ ends[m + 1] = ends[m] + sizes[m + 1]
    BY <1>7, <1>13, <2>1, <2>2
  <2>. QED
    BY <2>1, <2>5, <2>6
<1>14. 0 .. N \subseteq R
  <2>. HIDE DEF R
  <2>. QED
    BY <1>12, <1>13, UpTo
<1>15. ASSUME NEW n \in 1 .. N
       PROVE  /\ ends[n] = Total(SubSeq(sizes, 1, n))
              /\ ends[n] = ends[n - 1] + Len(pieces[n])
              /\ ends[n] <= Len(f[N])
              /\ \A k \in 1 .. Len(pieces[n]) : f[N][ends[n - 1] + k] = pieces[n][k]
  <2>1. n \in 0 .. N /\ n - 1 \in 0 .. N /\ N \in 0 .. N
    OBVIOUS
  <2>2. sizes[n] = Len(pieces[n]) /\ ends[N] = Len(f[N])
    BY <1>5, <1>6, <2>1
  <2>3. Total(SubSeq(sizes, 1, n)) = ends[n]
    BY <1>14, <2>1
  <2>4. ends[n] = ends[n - 1] + sizes[n]
    BY <1>7
  <2>5. ends[n] <= ends[N] /\ \A k \in 1 .. sizes[n] : f[N][ends[n - 1] + k] = pieces[n][k]
    BY <1>10
  <2>. QED
    BY <2>2, <2>3, <2>4, <2>5
<1>16. ArePlaced(ends, pieces, f[N])
  <2>. HIDE DEF Good, R
  <2>1. Len(f[N]) = ends[N]
    BY <1>5
  <2>. QED
    BY <1>2, <1>6, <1>15, <2>1 DEF ArePlaced
<1>17. f[N] \in Seq(T) /\ FlattenSeq(pieces) = f[N]
  BY <1>4
<1>. QED
  BY <1>16, <1>17

\* Each piece comes back, of what became of its own elements, whatever the others
\* are; pieces is a Seq(Seq(T)).
ComeBack(pieces, F, T) ==
  SplitByLengths([k \in DOMAIN FlattenSeq(pieces) |-> F[FlattenSeq(pieces)[k]]],
                 Lengths(pieces)) =
    [n \in DOMAIN pieces |-> [k \in DOMAIN pieces[n] |-> F[pieces[n][k]]]]

\* What a piece is, by its place and its length.
LEMMA SubSequenceIs ==
  ASSUME NEW V, NEW x \in Seq(V), NEW a \in Nat, NEW l \in Nat
  PROVE  SubSeq(x, a + 1, a + l) = [k \in 1 .. l |-> x[a + k]]
<1>1. PICK m \in Int, n \in Int : m = a + 1 /\ n = a + l /\ 1 + n - m = l
  OBVIOUS
<1>2. SubSeq(x, m, n) = [k \in 1 .. 1 + n - m |-> x[k + m - 1]]
  OBVIOUS
<1>3. \A k \in 1 .. l : k + m - 1 = a + k
  BY <1>1
<1>. QED
  BY <1>1, <1>2, <1>3

LEMMA PiecesComeBack ==
  ASSUME NEW T, NEW pieces \in Seq(Seq(T)), NEW F
  PROVE  ComeBack(pieces, F, T)
<1>1. PICK whole \in Seq(T) : whole = FlattenSeq(pieces)
  BY PiecesArePlaced
<1>2. PICK ends : ArePlaced(ends, pieces, whole)
  BY <1>1, PiecesArePlaced
<1>3. PICK N \in Nat : N = Len(pieces) /\ DOMAIN pieces = 1 .. N
  OBVIOUS
<1>4. \A n \in 1 .. N : pieces[n] \in Seq(T) /\ Len(pieces[n]) \in Nat
  <2>1. \A n \in 1 .. N : pieces[n] \in Seq(T)
    BY <1>3
  <2>. QED
    BY <2>1
<1>5. PICK V : V = {F[t] : t \in T}
  OBVIOUS
<1>6. PICK x : x = [k \in DOMAIN whole |-> F[whole[k]]]
  OBVIOUS
<1>7. x \in Seq(V) /\ Len(x) = Len(whole) /\ \A k \in 1 .. Len(whole) : x[k] = F[whole[k]]
  <2>1. PICK L \in Nat : L = Len(whole) /\ DOMAIN whole = 1 .. L /\ \A k \in 1 .. L : whole[k] \in T
    OBVIOUS
  <2>2. x \in [1 .. L -> V]
    BY <1>5, <1>6, <2>1
  <2>3. x \in Seq(V) /\ Len(x) = L
    BY <2>2
  <2>. QED
    BY <1>6, <2>1, <2>3
<1>8. PICK sizes : sizes = Lengths(pieces)
  OBVIOUS
<1>9. DOMAIN sizes = 1 .. N /\ \A n \in 1 .. N : sizes[n] = Len(pieces[n])
  BY <1>3, <1>8 DEF Lengths
<1>10. ASSUME NEW n \in 1 .. N
       PROVE  SubSeq(x, Total(SubSeq(sizes, 1, n)) - sizes[n] + 1, Total(SubSeq(sizes, 1, n))) =
                [k \in DOMAIN pieces[n] |-> F[pieces[n][k]]]
  <2>1. PICK a \in Nat, b \in Nat, l \in Nat :
          a = ends[n - 1] /\ b = ends[n] /\ l = Len(pieces[n])
    <3>1. n \in 0 .. N /\ n - 1 \in 0 .. N
      OBVIOUS
    <3>. QED
      BY <1>2, <1>3, <1>4, <3>1 DEF ArePlaced
  <2>2. /\ b = Total(SubSeq(sizes, 1, n)) /\ b = a + l /\ b <= Len(whole)
        /\ \A k \in 1 .. l : whole[a + k] = pieces[n][k]
    BY <1>2, <1>3, <1>8, <2>1 DEF ArePlaced
  <2>3. b - sizes[n] + 1 = a + 1
    BY <1>9, <2>1, <2>2
  <2>4. SubSeq(x, a + 1, b) = [k \in 1 .. l |-> x[a + k]]
    <3>1. x \in Seq(V)
      BY <1>7
    <3>2. SubSeq(x, a + 1, a + l) = [k \in 1 .. l |-> x[a + k]]
      BY <3>1, SubSequenceIs
    <3>. QED
      BY <2>2, <3>2
  <2>5. DOMAIN pieces[n] = 1 .. l
    BY <1>4, <2>1
  <2>6. Len(whole) \in Nat
    OBVIOUS
  <2>7. \A k \in 1 .. l : x[a + k] = F[pieces[n][k]]
    <3>1. \A k \in 1 .. l : a + k \in 1 .. Len(whole)
      BY <2>1, <2>2, <2>6
    <3>. QED
      BY <1>7, <2>2, <3>1
  <2>8. [k \in 1 .. l |-> x[a + k]] = [k \in 1 .. l |-> F[pieces[n][k]]]
    BY <2>7
  <2>. QED
    BY <2>2, <2>3, <2>4, <2>5, <2>8
<1>11. SplitByLengths(x, sizes) =
         [n \in 1 .. N |-> SubSeq(x, Total(SubSeq(sizes, 1, n)) - sizes[n] + 1,
                                  Total(SubSeq(sizes, 1, n)))]
  BY <1>9 DEF SplitByLengths
<1>12. SplitByLengths(x, sizes) = [n \in 1 .. N |-> [k \in DOMAIN pieces[n] |-> F[pieces[n][k]]]]
  BY <1>10, <1>11
<1>13. /\ [n \in 1 .. N |-> [k \in DOMAIN pieces[n] |-> F[pieces[n][k]]]] =
            [n \in DOMAIN pieces |-> [k \in DOMAIN pieces[n] |-> F[pieces[n][k]]]]
       /\ [k \in DOMAIN FlattenSeq(pieces) |-> F[FlattenSeq(pieces)[k]]] = x
  BY <1>1, <1>3, <1>6
<1>. QED
  BY <1>8, <1>12, <1>13 DEF ComeBack
-----------------------------------------------------------------------------
(* What holds throughout a call.                                            *)

PlanType == [data : Nat, scale : Nat, overdispersion : {"own", "batch", "missing"}]
FitType == [model : Nat \X Nat, Z : {"own", "batch"} \union (Nat \X Nat)]

\* What an analysis has fitted, and what that came to.
FitsOf(i) ==
  [k \in DOMAIN Models(i) |->
     [model |-> Models(i)[k],
      Z |-> IF Source(Elements[i], "Z") = "none" THEN Specs(i)[1] ELSE Source(Elements[i], "Z")]]
RunsOf(i) == [k \in DOMAIN Models(i) |-> Run(FitsOf(i)[k], verdicts[Models(i)[k]])]
HasRun(i) == \A k \in DOMAIN Models(i) : Models(i)[k] \in DOMAIN verdicts

IsAnswered(i) == answers[i] = Lone(i) /\ HasRun(i)

\* The analyses of the groups that have finished.
Ran == {i \in Analyses : \E r \in 1 .. round - 1 : plans[i].scale = Scales[r]}

RunningStages == {"compile", "walk", "ask", "fit", "finish"}
Stages == {"check", "plan", "returned", "raised"} \union RunningStages

PlanningInv ==
  /\ call \in CallType /\ stage \in Stages
  /\ stage \notin {"check", "raised"} => ~MisusesBatch
  /\ plans \in Seq(PlanType) /\ Len(plans) <= Len(Elements) /\ at \in Nat
  /\ \A i \in DOMAIN plans : plans[i].data = Elements[i].data
  /\ stage \in {"check", "plan"} => at = Len(plans) + 1 /\ round = 1
  /\ stage \in RunningStages \union {"returned"} => Len(plans) = Len(Elements)

RunningInv ==
  /\ round \in Nat \ {0}
  /\ stage \in RunningStages => round <= Len(Scales)
  /\ stage = "returned" => round = Len(Scales) + 1
  /\ stage \in {"ask", "fit", "finish"} =>
       /\ results = OfGroup(Specs)
       /\ fits \in Seq(Seq(FitType)) /\ Len(fits) <= Len(Group)
       /\ \A n \in DOMAIN fits : fits[n] = FitsOf(Group[n])
  /\ stage = "ask" => at = Len(fits) + 1
  /\ stage \in {"fit", "finish"} => Len(fits) = Len(Group)
  /\ stage = "finish" =>
       runs = OfGroup(RunsOf) /\ \A n \in DOMAIN Group : HasRun(Group[n])

AnswersInv ==
  /\ DOMAIN answers = Analyses
  /\ \A m \in DOMAIN verdicts : verdicts[m] \in Verdicts
  /\ \A i \in Analyses : answers[i] # NA => IsAnswered(i)
  /\ stage \in {"check", "plan"} => \A i \in Analyses : answers[i] = NA
  /\ stage \in RunningStages \union {"returned"} =>
       \A i \in Analyses : IF i \in Ran THEN IsAnswered(i) ELSE answers[i] = NA

BatchInv == PlanningInv /\ RunningInv /\ AnswersInv /\ OnlyFaultsStopABatch

-----------------------------------------------------------------------------
(* What a step leaves as it is.                                             *)

\* The analyses never change, nor what each asks for.
LEMMA TheCallStays ==
  ASSUME call' = call
  PROVE  /\ Elements' = Elements /\ Analyses' = Analyses /\ MisusesBatch' = MisusesBatch
         /\ \A i : /\ Specs(i)' = Specs(i) /\ Models(i)' = Models(i) /\ FitsOf(i)' = FitsOf(i)
<1>1. Elements' = Elements /\ Analyses' = Analyses
  BY DEF Elements, Analyses
<1>2. MisusesBatch' = MisusesBatch
  BY DEF MisusesBatch, Elements
<1>3. ASSUME NEW i
      PROVE  Specs(i)' = Specs(i) /\ Models(i)' = Models(i)
  BY DEF Specs, Models, Elements, IsFitting
<1>4. ASSUME NEW i, NEW a
      PROVE  Source(Elements[i], a)' = Source(Elements[i], a)
  BY DEF Source, Filled, NamesTheQuantity, Elements
<1>5. ASSUME NEW i
      PROVE  FitsOf(i)' = FitsOf(i)
  BY DEF FitsOf, Models, Specs, IsFitting, Source, Filled, NamesTheQuantity, Elements
<1>. QED
  BY <1>1, <1>2, <1>3, <1>5

\* Nor what an analysis would answer on its own, while its own fits came to the same.
LEMMA LoneStays ==
  ASSUME call' = call, NEW i,
         \A k \in DOMAIN Models(i) : verdicts'[Models(i)[k]] = verdicts[Models(i)[k]]
  PROVE  Lone(i)' = Lone(i)
<1>1. Specs(i)' = Specs(i) /\ Models(i)' = Models(i) /\ Elements' = Elements
  BY TheCallStays
<1>2. Source(Elements[i], "Z")' = Source(Elements[i], "Z")
  BY DEF Source, Filled, NamesTheQuantity, Elements
<1>. DEFINE z == IF Source(Elements[i], "Z") = "none" THEN Specs(i)[1] ELSE Source(Elements[i], "Z")
            before == [k \in DOMAIN Models(i) |->
                         [model |-> Models(i)[k], Z |-> z, verdict |-> verdicts[Models(i)[k]]]]
            after == [k \in DOMAIN Models(i) |->
                        [model |-> Models(i)[k], Z |-> z, verdict |-> verdicts'[Models(i)[k]]]]
<1>3. after = before
  OBVIOUS
<1>4. Lone(i) = Finalised(Elements[i].operation, Specs(i), before)
  BY DEF Lone
<1>5. Lone(i)' = Finalised(Elements[i].operation, Specs(i), after)
  BY <1>1, <1>2 DEF Lone, Finalised, Ranked, Ranking, RanksAbove, L_P, Converged
<1>. QED
  BY <1>3, <1>4, <1>5

\* Nor does an answer, while what the fits came to stays.
LEMMA AnsweredStays ==
  ASSUME call' = call, verdicts' = verdicts, NEW i, answers'[i] = answers[i], IsAnswered(i)
  PROVE  IsAnswered(i)'
<1>1. Lone(i)' = Lone(i)
  BY LoneStays
<1>2. HasRun(i)' = HasRun(i)
  BY TheCallStays DEF HasRun
<1>. QED
  BY <1>1, <1>2 DEF IsAnswered

LEMMA GroupStays ==
  ASSUME call' = call, plans' = plans, round' = round
  PROVE  Scales' = Scales /\ Group' = Group /\ Ran' = Ran
<1>1. Scales' = Scales
  BY DEF Scales, Unique, Where
<1>2. Group' = Group
  BY <1>1 DEF Group, Where, Analyses, Elements
<1>3. Ran' = Ran
  BY <1>1 DEF Ran, Analyses, Elements
<1>. QED
  BY <1>1, <1>2, <1>3

\* The analyses, and those of them planned.
LEMMA TheAnalyses ==
  ASSUME PlanningInv
  PROVE  \E N \in Nat, P \in Nat :
           /\ Analyses = 1 .. N /\ N = Len(Elements) /\ Elements \in Seq(ElementType)
           /\ DOMAIN plans = 1 .. P /\ P = Len(plans) /\ P <= N
           /\ \A i \in 1 .. N : Elements[i] \in ElementType
           /\ \A i \in 1 .. P : plans[i] \in PlanType
<1>1. Elements \in Seq(ElementType)
  BY DEF PlanningInv, CallType, Elements
<1>2. plans \in Seq(PlanType) /\ Len(plans) <= Len(Elements)
  BY DEF PlanningInv
<1>3. Len(Elements) \in Nat /\ DOMAIN Elements = 1 .. Len(Elements)
      /\ \A i \in 1 .. Len(Elements) : Elements[i] \in ElementType
  BY <1>1
<1>4. Len(plans) \in Nat /\ DOMAIN plans = 1 .. Len(plans)
      /\ \A i \in 1 .. Len(plans) : plans[i] \in PlanType
  BY <1>2
<1>. QED
  BY <1>1, <1>2, <1>3, <1>4 DEF Analyses

LEMMA RaiseKeeps ==
  ASSUME BatchInv, NEW why, NEW which, Raise(why, which), OnlyFaultsStopABatch'
  PROVE  BatchInv'
<1>1. /\ stage' = "raised" /\ call' = call /\ plans' = plans /\ at' = at /\ round' = round
      /\ answers' = answers /\ verdicts' = verdicts
  BY DEF Raise, planning, running
<1>2. PlanningInv'
  <2>1. Elements' = Elements
    BY <1>1, TheCallStays
  <2>. QED
    BY <1>1, <2>1 DEF BatchInv, PlanningInv, Stages, RunningStages
<1>3. RunningInv'
  BY <1>1 DEF BatchInv, RunningInv, RunningStages
<1>4. AnswersInv'
  <2>1. Analyses' = Analyses
    BY <1>1, TheCallStays
  <2>2. \A i \in Analyses : answers[i] # NA => IsAnswered(i)
    BY DEF BatchInv, AnswersInv
  <2>3. \A i \in Analyses' : answers'[i] # NA => IsAnswered(i)'
    BY <1>1, <2>1, <2>2, AnsweredStays
  <2>. QED
    BY <1>1, <2>1, <2>3 DEF BatchInv, AnswersInv, RunningStages
<1>. QED
  BY <1>2, <1>3, <1>4 DEF BatchInv

\* A step between the stages of running that answers nothing.
LEMMA RunningStays ==
  ASSUME BatchInv, UNCHANGED <<call, plans, round, answers, verdicts>>,
         stage \in RunningStages, stage' \in RunningStages, at' \in Nat
  PROVE  PlanningInv' /\ AnswersInv' /\ OnlyFaultsStopABatch'
<1>1. PlanningInv'
  <2>1. Elements' = Elements /\ MisusesBatch' = MisusesBatch
    BY TheCallStays
  <2>. QED
    BY <2>1 DEF BatchInv, PlanningInv, Stages, RunningStages
<1>2. AnswersInv'
  <2>1. Analyses' = Analyses /\ Ran' = Ran
    BY TheCallStays, GroupStays
  <2>2. \A i : IsAnswered(i) => IsAnswered(i)'
    BY AnsweredStays
  <2>. QED
    BY <2>1, <2>2 DEF BatchInv, AnswersInv, RunningStages
<1>3. OnlyFaultsStopABatch'
  BY DEF OnlyFaultsStopABatch, RunningStages
<1>. QED
  BY <1>1, <1>2, <1>3

\* A step before any analysis has run.
LEMMA NothingAnsweredYet ==
  ASSUME BatchInv, UNCHANGED <<call, answers, verdicts>>,
         stage \in {"check", "plan"}, stage' \in {"check", "plan"}
  PROVE  AnswersInv' /\ OnlyFaultsStopABatch'
<1>1. AnswersInv'
  <2>1. Analyses' = Analyses
    BY TheCallStays
  <2>2. \A i \in Analyses : answers[i] = NA
    BY DEF BatchInv, AnswersInv
  <2>. QED
    BY <2>1, <2>2 DEF BatchInv, AnswersInv, RunningStages
<1>2. OnlyFaultsStopABatch'
  BY DEF OnlyFaultsStopABatch
<1>. QED
  BY <1>1, <1>2

-----------------------------------------------------------------------------
(* Planning.                                                                *)

LEMMA Started == ASSUME BatchInit PROVE BatchInv
<1>. USE DEF BatchInit
<1>1. PlanningInv
  <2>1. call \in CallType
    BY BatchAssumption
  <2>2. Elements \in Seq(ElementType)
    BY <2>1 DEF CallType, Elements
  <2>3. plans \in Seq(PlanType) /\ Len(plans) = 0 /\ DOMAIN plans = {}
    OBVIOUS
  <2>4. Len(Elements) \in Nat
    BY <2>2
  <2>. QED
    BY <2>1, <2>3, <2>4 DEF PlanningInv, Stages, RunningStages
<1>2. RunningInv
  BY DEF RunningInv, RunningStages
<1>3. AnswersInv
  <2>1. \A i \in Analyses : answers[i] = NA
    OBVIOUS
  <2>2. DOMAIN verdicts = {}
    OBVIOUS
  <2>. QED
    BY <2>1, <2>2 DEF AnswersInv, RunningStages
<1>. QED
  BY <1>1, <1>2, <1>3 DEF BatchInv, OnlyFaultsStopABatch

LEMMA RefuseCallStep == ASSUME BatchInv, RefuseCall PROVE BatchInv'
<1>1. Raise("call", 0) /\ MisusesBatch
  BY DEF RefuseCall
<1>2. call' = call /\ raised' = [why |-> "call", which |-> 0]
  BY <1>1 DEF Raise, planning
<1>3. MisusesBatch'
  BY <1>1, <1>2, TheCallStays
<1>4. OnlyFaultsStopABatch'
  BY <1>2, <1>3 DEF OnlyFaultsStopABatch
<1>. QED
  BY <1>1, <1>4, RaiseKeeps

LEMMA AcceptCallStep == ASSUME BatchInv, AcceptCall PROVE BatchInv'
<1>1. /\ stage = "check" /\ stage' = "plan" /\ ~MisusesBatch
      /\ UNCHANGED <<call, plans, at, round, answers, verdicts>>
  BY DEF AcceptCall, planning, running
<1>2. PlanningInv'
  <2>1. Elements' = Elements /\ MisusesBatch' = MisusesBatch
    BY <1>1, TheCallStays
  <2>. QED
    BY <1>1, <2>1 DEF BatchInv, PlanningInv, Stages, RunningStages
<1>3. RunningInv'
  BY <1>1 DEF BatchInv, RunningInv, RunningStages
<1>4. AnswersInv' /\ OnlyFaultsStopABatch'
  BY <1>1, NothingAnsweredYet
<1>. QED
  BY <1>2, <1>3, <1>4 DEF BatchInv

\* A fault of an analysis, told by what it asks for.
LEMMA FlawIsAFault ==
  ASSUME NEW which \in Analyses, Raise(Elements[which].flaw, which)
  PROVE  OnlyFaultsStopABatch'
<1>1. call' = call /\ raised' = [why |-> Elements[which].flaw, which |-> which]
  BY DEF Raise, planning
<1>2. Elements' = Elements /\ Analyses' = Analyses
  BY <1>1, TheCallStays
<1>3. raised'.which \in Analyses' /\ Elements'[raised'.which].flaw = raised'.why
  BY <1>1, <1>2
<1>. QED
  BY <1>3 DEF OnlyFaultsStopABatch

LEMMA RefuseAnalysisStep == ASSUME BatchInv, RefuseAnalysis PROVE BatchInv'
<1>1. at \in Analyses /\ Raise(Elements[at].flaw, at)
  BY DEF RefuseAnalysis, Planning
<1>. QED
  BY <1>1, FlawIsAFault, RaiseKeeps

\* No half of a pair is filled where the other is named, and a batch has no two halves.
LEMMA BothAreItsOwn ==
  ASSUME ~MisusesBatch, NEW e, NEW pair \in Pairs, pair \subseteq e.given \union Filled(e)
  PROVE  pair \subseteq e.given
<1>1. PICK a \in pair : a \notin call.defaults
  BY DEF MisusesBatch
<1>2. a \in e.given
  BY <1>1 DEF Filled
<1>3. \A b \in pair : NamesTheQuantity(e, b)
  BY <1>1, <1>2 DEF NamesTheQuantity
<1>. QED
  BY <1>3 DEF Filled

LEMMA RefuseBothStep == ASSUME BatchInv, RefuseBoth PROVE BatchInv'
<1>1. /\ stage = "plan" /\ at \in Analyses /\ GivesBoth(Elements[at]) /\ Raise("both", at)
  BY DEF RefuseBoth, Planning
<1>2. ~MisusesBatch
  BY <1>1 DEF BatchInv, PlanningInv
<1>3. PICK pair \in PairsRead(Elements[at]) :
        pair \subseteq Elements[at].given \union Filled(Elements[at])
  BY <1>1 DEF GivesBoth
<1>4. pair \in Pairs
  BY <1>3 DEF PairsRead, Pairs
<1>5. pair \subseteq Elements[at].given
  BY <1>2, <1>3, <1>4, BothAreItsOwn
<1>6. call' = call /\ raised' = [why |-> "both", which |-> at]
  BY <1>1 DEF Raise, planning
<1>7. Elements' = Elements
  BY <1>6, TheCallStays
<1>8. OnlyFaultsStopABatch'
  <2>1. raised'.why = "both" /\ pair \subseteq Elements'[raised'.which].given
    BY <1>5, <1>6, <1>7
  <2>. QED
    BY <1>4, <2>1 DEF OnlyFaultsStopABatch
<1>. QED
  BY <1>1, <1>8, RaiseKeeps

\* Of three sources the last of which gives something, the first that does.
LEMMA FirstOfThree ==
  ASSUME NEW a, NEW b, NEW c, c # "none"
  PROVE  FirstGiven(<<a, b, c>>) = IF a # "none" THEN a ELSE IF b # "none" THEN b ELSE c
<1>. DEFINE s == <<a, b, c>>
            I == {i \in 1 .. Len(s) : s[i] # "none"}
            first == IF a # "none" THEN 1 ELSE IF b # "none" THEN 2 ELSE 3
<1>1. Len(s) = 3 /\ s[1] = a /\ s[2] = b /\ s[3] = c
  OBVIOUS
<1>. HIDE DEF s
<1>2. first \in I /\ \A i \in I : first <= i
  BY <1>1
<1>3. Min(I) = first
  <2>1. \A x \in I : (\A y \in I : x <= y) => x = first
    BY <1>1, <1>2
  <2>. HIDE DEF I, first
  <2>. QED
    BY <1>2, <2>1 DEF Min
<1>4. SelectInSeq(s, LAMBDA t : t # "none") = first
  BY <1>2, <1>3 DEF SelectInSeq
<1>5. FirstGiven(s) = s[first]
  BY <1>4 DEF FirstGiven
<1>. QED
  BY <1>1, <1>5 DEF s

LEMMA RequireOverdispersionStep == ASSUME BatchInv, RequireOverdispersion PROVE BatchInv'
<1>1. /\ at \in Analyses /\ Raise("overdispersion", at)
      /\ OverdispersionFrom(Elements[at]) = "missing"
  BY DEF RequireOverdispersion, Planning
<1>. DEFINE e == Elements[at]
<1>2. \A a \in Arguments : Source(e, a) # "missing"
  BY DEF Source
<1>3. Source(e, "overdispersion") = "none" /\ Source(e, "settings") = "none"
  <2>. HIDE DEF e
  <2>1. FirstGiven(<<Source(e, "overdispersion"), Source(e, "settings"), "missing">>) = "missing"
    BY <1>1 DEF OverdispersionFrom, e
  <2>. QED
    BY <1>2, <2>1, FirstOfThree DEF Arguments
<1>4. ASSUME NEW a \in {"overdispersion", "settings"}, Source(e, a) = "none"
      PROVE  a \notin e.given \union call.defaults
  <2>1. ~NamesTheQuantity(e, a)
    BY DEF NamesTheQuantity, Pairs
  <2>. QED
    BY <1>4, <2>1 DEF Source, Filled
<1>5. {"overdispersion", "settings"} \intersect (e.given \union call.defaults) = {}
  BY <1>3, <1>4
<1>6. call' = call /\ raised' = [why |-> "overdispersion", which |-> at]
  BY <1>1 DEF Raise, planning
<1>7. OnlyFaultsStopABatch'
  <2>1. raised'.why = "overdispersion" /\ raised'.which = at /\ Elements' = Elements
    BY <1>6, TheCallStays
  <2>2. {"overdispersion", "settings"}
          \intersect (Elements'[raised'.which].given \union call'.defaults) = {}
    BY <1>5, <1>6, <2>1
  <2>. QED
    BY <2>1, <2>2 DEF OnlyFaultsStopABatch
<1>. QED
  BY <1>1, <1>7, RaiseKeeps

LEMMA PlanAnalysisStep == ASSUME BatchInv, PlanAnalysis PROVE BatchInv'
<1>. DEFINE e == Elements[at]
            plan == [data |-> e.data, scale |-> TimeScale(e),
                     overdispersion |-> OverdispersionFrom(e)]
<1>1. /\ stage = "plan" /\ at \in Analyses /\ plans' = Append(plans, plan) /\ at' = at + 1
      /\ UNCHANGED <<call, stage, round, answers, verdicts>>
  BY DEF PlanAnalysis, Planning, running
<1>2. PICK N \in Nat, P \in Nat :
        /\ Analyses = 1 .. N /\ N = Len(Elements)
        /\ DOMAIN plans = 1 .. P /\ P = Len(plans) /\ P <= N
        /\ \A i \in 1 .. N : Elements[i] \in ElementType
  BY TheAnalyses DEF BatchInv
<1>3. at = P + 1 /\ P + 1 <= N
  <2>. HIDE DEF plan
  <2>1. at = Len(plans) + 1
    BY <1>1 DEF BatchInv, PlanningInv
  <2>2. at \in 1 .. N
    BY <1>1, <1>2
  <2>. QED
    BY <1>2, <2>1, <2>2
<1>4. e.data \in Nat /\ e.scale \in Nat /\ call.scale \in Nat
  <2>1. e \in ElementType
    BY <1>1, <1>2
  <2>. HIDE DEF e
  <2>. QED
    BY <2>1 DEF BatchInv, PlanningInv, ElementType, CallType
<1>5. TimeScale(e) \in Nat
  <2>. HIDE DEF e
  <2>. QED
    BY <1>4 DEF TimeScale, DefaultScale
<1>6. OverdispersionFrom(e) \in {"own", "batch", "missing"}
  <2>. HIDE DEF e
  <2>1. \A a : Source(e, a) \in {"own", "batch", "none"}
    BY DEF Source
  <2>. QED
    BY <2>1, FirstOfThree DEF OverdispersionFrom
<1>7. plan \in PlanType /\ plan.data = e.data
  <2>. HIDE DEF e
  <2>. QED
    BY <1>4, <1>5, <1>6 DEF PlanType
<1>. HIDE DEF plan
<1>8. PlanningInv'
  <2>1. Elements' = Elements /\ MisusesBatch' = MisusesBatch
    BY <1>1, TheCallStays
  <2>2. plans \in Seq(PlanType) /\ \A i \in DOMAIN plans : plans[i].data = Elements[i].data
    BY DEF BatchInv, PlanningInv
  <2>3. plans' \in Seq(PlanType)
    BY <1>1, <1>7, <2>2
  <2>4. /\ Len(plans') = P + 1 /\ DOMAIN plans' = 1 .. P + 1 /\ plans'[P + 1] = plan
        /\ \A i \in 1 .. P : plans'[i] = plans[i]
    BY <1>1, <1>2, <2>2
  <2>5. \A i \in DOMAIN plans' : plans'[i].data = Elements'[i].data
    <3>. SUFFICES ASSUME NEW i \in 1 .. P + 1
                  PROVE  plans'[i].data = Elements[i].data
      BY <2>1, <2>4
    <3>. QED
      BY <1>2, <1>3, <1>7, <2>2, <2>4
  <2>6. at' = Len(plans') + 1 /\ at' \in Nat /\ Len(plans') <= Len(Elements')
    BY <1>1, <1>2, <1>3, <2>1, <2>4
  <2>. QED
    BY <1>1, <2>1, <2>3, <2>5, <2>6 DEF BatchInv, PlanningInv, Stages, RunningStages
<1>9. RunningInv'
  BY <1>1 DEF BatchInv, RunningInv, RunningStages
<1>10. AnswersInv' /\ OnlyFaultsStopABatch'
  BY <1>1, NothingAnsweredYet
<1>. QED
  BY <1>8, <1>9, <1>10 DEF BatchInv

LEMMA RefuseSecondDatasetStep == ASSUME BatchInv, RefuseSecondDataset PROVE BatchInv'
<1>1. stage = "plan" /\ at \notin Analyses
  BY DEF RefuseSecondDataset
<1>2. PICK i \in OtherData : Raise("data", i)
  BY DEF RefuseSecondDataset
<1>3. PICK N \in Nat, P \in Nat :
        /\ Analyses = 1 .. N /\ DOMAIN plans = 1 .. P /\ P = Len(plans) /\ P <= N
  BY TheAnalyses DEF BatchInv
<1>4. at = P + 1
  BY <1>1, <1>3 DEF BatchInv, PlanningInv
<1>5. 1 \in DOMAIN plans /\ i \in DOMAIN plans
  BY <1>1, <1>2, <1>3, <1>4 DEF OtherData
<1>6. Elements[i].data # Elements[1].data
  BY <1>2, <1>5 DEF OtherData, BatchInv, PlanningInv
<1>7. call' = call /\ raised' = [why |-> "data", which |-> i]
  BY <1>2 DEF Raise, planning
<1>8. OnlyFaultsStopABatch'
  <2>1. Elements' = Elements
    BY <1>7, TheCallStays
  <2>. QED
    BY <1>6, <1>7, <2>1 DEF OnlyFaultsStopABatch
<1>. QED
  BY <1>2, <1>8, RaiseKeeps

-----------------------------------------------------------------------------
(* The groups.                                                              *)

\* Once all are planned, each analysis has a time scale, which has a turn of its own.
LEMMA TheScales ==
  ASSUME PlanningInv, Len(plans) = Len(Elements)
  PROVE  /\ Scales \in Seq(Nat) /\ DOMAIN plans = Analyses
         /\ \A i \in Analyses : \E r \in DOMAIN Scales : Scales[r] = plans[i].scale
         /\ \A q, r \in DOMAIN Scales : Scales[q] = Scales[r] => q = r
<1>1. PICK N \in Nat, P \in Nat :
        /\ Analyses = 1 .. N /\ N = Len(Elements) /\ DOMAIN plans = 1 .. P /\ P = Len(plans)
        /\ \A i \in 1 .. P : plans[i] \in PlanType
  BY TheAnalyses
<1>. DEFINE x == [i \in DOMAIN plans |-> plans[i].scale]
<1>2. \A i \in 1 .. N : plans[i].scale \in Nat
  BY <1>1 DEF PlanType
<1>3. x \in Seq(Nat) /\ DOMAIN x = Analyses /\ \A i \in Analyses : x[i] = plans[i].scale
  <2>1. x \in [1 .. N -> Nat]
    BY <1>1, <1>2
  <2>. QED
    BY <1>1, <2>1
<1>4. AreDistinct(Scales, x, Nat)
  <2>1. Scales = Unique(x)
    BY DEF Scales
  <2>. HIDE DEF x
  <2>. QED
    BY <1>3, <2>1, UniqueIsDistinct
<1>. HIDE DEF x
<1>. QED
  BY <1>1, <1>3, <1>4 DEF AreDistinct

\* A group is the analyses of its time scale.
LEMMA TheGroup ==
  ASSUME PlanningInv
  PROVE  /\ Group \in Seq(Nat)
         /\ \A n \in DOMAIN Group : Group[n] \in Analyses /\ plans[Group[n]].scale = Scales[round]
         /\ \A i \in Analyses :
              plans[i].scale = Scales[round] => \E n \in DOMAIN Group : Group[n] = i
<1>1. PICK N \in Nat : Analyses = 1 .. N
  BY TheAnalyses
<1>2. PICK x : x = [i \in Analyses |-> i]
  OBVIOUS
<1>3. x \in Seq(Nat) /\ DOMAIN x = Analyses /\ \A i \in Analyses : x[i] = i
  <2>1. x \in [1 .. N -> Nat]
    BY <1>1, <1>2
  <2>. QED
    BY <1>1, <1>2, <2>1
<1>4. PICK keep : keep = {i \in Analyses : plans[i].scale = Scales[round]}
  OBVIOUS
<1>5. AreKept(Group, x, keep, Nat)
  <2>1. Group = Where(x, keep)
    BY <1>2, <1>4 DEF Group
  <2>. QED
    BY <1>3, <2>1, WhereKeeps
<1>. QED
  BY <1>3, <1>4, <1>5 DEF AreKept

LEMMA RaiseFirstStep ==
  ASSUME BatchInv, NEW flaw, RaiseFirst(flaw)
  PROVE  BatchInv'
<1>1. PICK n \in DOMAIN Group : Elements[Group[n]].flaw = flaw /\ Raise(flaw, Group[n])
  BY DEF RaiseFirst, Flawed
<1>2. PICK i \in Analyses : i = Group[n]
  BY <1>1, TheGroup DEF BatchInv
<1>3. Raise(Elements[i].flaw, i)
  BY <1>1, <1>2
<1>. QED
  BY <1>3, FlawIsAFault, RaiseKeeps

LEMMA RefuseSpecificationStep == ASSUME BatchInv, RefuseSpecification PROVE BatchInv'
  BY RaiseFirstStep DEF RefuseSpecification

LEMMA RefuseModelStep == ASSUME BatchInv, RefuseModel PROVE BatchInv'
  BY RaiseFirstStep DEF RefuseModel

LEMMA EngineRaisesStep == ASSUME BatchInv, EngineRaises PROVE BatchInv'
<1>1. Raise("engine", 0)
  BY DEF EngineRaises
<1>2. OnlyFaultsStopABatch'
  <2>1. raised' = [why |-> "engine", which |-> 0]
    BY <1>1 DEF Raise
  <2>. QED
    BY <2>1 DEF OnlyFaultsStopABatch
<1>. QED
  BY <1>1, <1>2, RaiseKeeps

LEMMA RefuseZStep == ASSUME BatchInv, RefuseZ PROVE BatchInv'
<1>1. at \in DOMAIN Group /\ Elements[Group[at]].flaw = "Z" /\ Raise("Z", Group[at])
  BY DEF RefuseZ, Asking
<1>2. PICK i \in Analyses : i = Group[at]
  BY <1>1, TheGroup DEF BatchInv
<1>3. Raise(Elements[i].flaw, i)
  BY <1>1, <1>2
<1>. QED
  BY <1>3, FlawIsAFault, RaiseKeeps

LEMMA StartRunningStep == ASSUME BatchInv, StartRunning PROVE BatchInv'
<1>1. /\ stage = "plan" /\ at \notin Analyses /\ stage' = "compile"
      /\ UNCHANGED <<call, plans, at, round, answers, verdicts>>
  BY DEF StartRunning, planning, running
<1>2. PICK N \in Nat, P \in Nat :
        /\ Analyses = 1 .. N /\ N = Len(Elements) /\ Elements \in Seq(ElementType)
        /\ P = Len(plans) /\ P <= N
  BY TheAnalyses DEF BatchInv
<1>3. at = P + 1 /\ round = 1 /\ ~MisusesBatch
  BY <1>1, <1>2 DEF BatchInv, PlanningInv
<1>4. P = N
  BY <1>1, <1>2, <1>3
<1>5. 1 \in Analyses
  <2>1. N # 0
    BY <1>2, <1>3 DEF MisusesBatch
  <2>. QED
    BY <1>2, <2>1
<1>6. PICK r \in DOMAIN Scales : Scales[r] = plans[1].scale
  BY <1>2, <1>4, <1>5, TheScales DEF BatchInv
<1>7. round <= Len(Scales)
  <2>1. Scales \in Seq(Nat)
    BY <1>2, <1>4, TheScales DEF BatchInv
  <2>. QED
    BY <1>3, <1>6, <2>1
<1>8. Scales' = Scales /\ Elements' = Elements /\ Analyses' = Analyses
      /\ MisusesBatch' = MisusesBatch /\ Ran' = Ran
  BY <1>1, TheCallStays, GroupStays
<1>9. PlanningInv'
  BY <1>1, <1>2, <1>4, <1>8 DEF BatchInv, PlanningInv, Stages, RunningStages
<1>10. RunningInv'
  BY <1>1, <1>7, <1>8 DEF BatchInv, RunningInv, RunningStages
<1>11. AnswersInv'
  <2>1. \A i \in Analyses : answers[i] = NA /\ i \notin Ran
    BY <1>1, <1>3 DEF BatchInv, AnswersInv, Ran
  <2>. QED
    BY <1>1, <1>8, <2>1 DEF BatchInv, AnswersInv, RunningStages
<1>12. OnlyFaultsStopABatch'
  BY <1>1 DEF OnlyFaultsStopABatch
<1>. QED
  BY <1>9, <1>10, <1>11, <1>12 DEF BatchInv

LEMMA CompileGroupStep == ASSUME BatchInv, CompileGroup PROVE BatchInv'
<1>1. /\ stage = "compile" /\ stage' = "walk"
      /\ UNCHANGED <<call, plans, at, round, answers, verdicts>>
  BY DEF CompileGroup, planning, running
<1>2. PlanningInv' /\ AnswersInv' /\ OnlyFaultsStopABatch'
  <2>1. at' \in Nat
    BY <1>1 DEF BatchInv, PlanningInv
  <2>. QED
    BY <1>1, <2>1, RunningStays DEF RunningStages
<1>3. RunningInv'
  <2>1. Scales' = Scales
    BY <1>1, GroupStays
  <2>. QED
    BY <1>1, <2>1 DEF BatchInv, RunningInv, RunningStages
<1>. QED
  BY <1>2, <1>3 DEF BatchInv

-----------------------------------------------------------------------------
(* A group's specifications and fits.                                       *)

LEMMA WhatIsAskedFor ==
  ASSUME PlanningInv, NEW i \in Analyses
  PROVE  /\ Specs(i) \in Seq(Nat \X Nat) /\ FitsOf(i) \in Seq(FitType)
         /\ DOMAIN FitsOf(i) = DOMAIN Models(i)
         /\ \A k \in DOMAIN Models(i) :
              /\ Models(i)[k] = <<i, k>> /\ FitsOf(i)[k].model = <<i, k>>
              /\ FitsOf(i)[k] = [model |-> Models(i)[k],
                                 Z |-> IF Source(Elements[i], "Z") = "none"
                                       THEN Specs(i)[1] ELSE Source(Elements[i], "Z")]
<1>1. i \in Nat /\ Elements[i] \in ElementType
  BY TheAnalyses
<1>2. Elements[i].size \in Nat \ {0}
  BY <1>1 DEF ElementType
<1>3. PICK S \in Nat \ {0} : Specs(i) = [k \in 1 .. S |-> <<i, k>>]
  BY <1>2 DEF Specs
<1>4. PICK M \in Nat : Models(i) = [k \in 1 .. M |-> <<i, k>>]
  BY <1>2 DEF Models
<1>5. Specs(i) \in Seq(Nat \X Nat) /\ Specs(i)[1] \in Nat \X Nat
  <2>1. [k \in 1 .. S |-> <<i, k>>] \in Seq(Nat \X Nat)
    BY <1>1
  <2>. QED
    BY <1>1, <1>3, <2>1
<1>. DEFINE z == IF Source(Elements[i], "Z") = "none" THEN Specs(i)[1] ELSE Source(Elements[i], "Z")
            fit(k) == [model |-> <<i, k>>, Z |-> z]
<1>6. z \in {"own", "batch"} \union (Nat \X Nat)
  <2>1. Source(Elements[i], "Z") \in {"own", "batch", "none"}
    BY DEF Source
  <2>. QED
    BY <1>5, <2>1
<1>. HIDE DEF z
<1>7. \A k \in 1 .. M : fit(k) \in FitType /\ fit(k).model = <<i, k>>
  BY <1>1, <1>6 DEF FitType
<1>8. FitsOf(i) = [k \in 1 .. M |-> fit(k)]
  BY <1>4 DEF FitsOf, z
<1>. HIDE DEF fit
<1>9. [k \in 1 .. M |-> fit(k)] \in Seq(FitType)
  BY <1>7
<1>10. \A k \in 1 .. M : fit(k) = [model |-> Models(i)[k], Z |-> z]
  BY <1>4 DEF fit
<1>. QED
  BY <1>4, <1>5, <1>7, <1>8, <1>9, <1>10 DEF z

LEMMA GroupAsksAlike ==
  ASSUME UNCHANGED <<call, plans, round>>
  PROVE  OfGroup(Specs)' = OfGroup(Specs)
<1>1. Group' = Group
  BY GroupStays
<1>. QED
  BY <1>1 DEF OfGroup, Specs, IsFitting, Elements

LEMMA WalkGroupStep == ASSUME BatchInv, WalkGroup PROVE BatchInv'
<1>1. /\ stage = "walk" /\ stage' = "ask" /\ at' = 1 /\ fits' = <<>>
      /\ results' = SplitByLengths(FlattenSeq(OfGroup(Specs)), Lengths(OfGroup(Specs)))
      /\ UNCHANGED <<call, plans, round, answers, verdicts>>
  BY DEF WalkGroup, planning
<1>2. PlanningInv' /\ AnswersInv' /\ OnlyFaultsStopABatch'
  BY <1>1, RunningStays DEF RunningStages
<1>3. PICK pieces : pieces = OfGroup(Specs)
  OBVIOUS
<1>4. pieces \in Seq(Seq(Nat \X Nat))
  <2>1. PICK L \in Nat : DOMAIN Group = 1 .. L
    BY TheGroup DEF BatchInv
  <2>2. \A n \in 1 .. L : Specs(Group[n]) \in Seq(Nat \X Nat)
    BY <2>1, TheGroup, WhatIsAskedFor DEF BatchInv
  <2>3. pieces = [n \in 1 .. L |-> Specs(Group[n])]
    BY <1>3, <2>1 DEF OfGroup
  <2>4. \A n \in 1 .. L : pieces[n] \in Seq(Nat \X Nat)
    BY <2>2, <2>3
  <2>. QED
    BY <2>3, <2>4
<1>5. PICK whole \in Seq(Nat \X Nat) : whole = FlattenSeq(pieces)
  BY <1>4, PiecesArePlaced
<1>. DEFINE same == [t \in Nat \X Nat |-> t]
<1>6. [k \in DOMAIN whole |-> same[whole[k]]] = whole
  <2>1. \A k \in DOMAIN whole : same[whole[k]] = whole[k]
    BY <1>5
  <2>. HIDE DEF same
  <2>. QED
    BY <1>5, <2>1
<1>7. [n \in DOMAIN pieces |-> [k \in DOMAIN pieces[n] |-> same[pieces[n][k]]]] = pieces
  <2>1. \A n \in DOMAIN pieces : pieces[n] \in Seq(Nat \X Nat)
    BY <1>4
  <2>2. ASSUME NEW n \in DOMAIN pieces
        PROVE  [k \in DOMAIN pieces[n] |-> same[pieces[n][k]]] = pieces[n]
    <3>1. \A k \in DOMAIN pieces[n] : same[pieces[n][k]] = pieces[n][k]
      BY <2>1
    <3>. HIDE DEF same
    <3>. QED
      BY <2>1, <3>1
  <2>. HIDE DEF same
  <2>. QED
    BY <1>4, <2>2
<1>8. results' = pieces
  <2>. HIDE DEF same
  <2>1. SplitByLengths([k \in DOMAIN whole |-> same[whole[k]]], Lengths(pieces)) =
          [n \in DOMAIN pieces |-> [k \in DOMAIN pieces[n] |-> same[pieces[n][k]]]]
    <3>1. SplitByLengths([k \in DOMAIN FlattenSeq(pieces) |-> same[FlattenSeq(pieces)[k]]],
                         Lengths(pieces)) =
            [n \in DOMAIN pieces |-> [k \in DOMAIN pieces[n] |-> same[pieces[n][k]]]]
      <4>1. ComeBack(pieces, same, Nat \X Nat)
        BY <1>4, PiecesComeBack
      <4>. QED
        BY <4>1 DEF ComeBack
    <3>. QED
      BY <1>5, <3>1
  <2>2. SplitByLengths(whole, Lengths(pieces)) = pieces
    BY <1>6, <1>7, <2>1
  <2>. QED
    BY <1>1, <1>3, <1>5, <2>2
<1>9. RunningInv'
  <2>1. Scales' = Scales /\ Group' = Group /\ OfGroup(Specs)' = OfGroup(Specs)
    BY <1>1, GroupStays, GroupAsksAlike
  <2>2. round' \in Nat \ {0} /\ round' <= Len(Scales')
    BY <1>1, <2>1 DEF BatchInv, RunningInv, RunningStages
  <2>3. results' = OfGroup(Specs)'
    BY <1>3, <1>8, <2>1
  <2>4. fits' \in Seq(Seq(FitType)) /\ Len(fits') = 0 /\ DOMAIN fits' = {}
    BY <1>1
  <2>5. Len(fits') <= Len(Group')
    <3>1. Len(Group') \in Nat
      BY <2>1, TheGroup DEF BatchInv
    <3>. QED
      BY <2>4, <3>1
  <2>. QED
    BY <1>1, <2>2, <2>3, <2>4, <2>5 DEF RunningInv, RunningStages
<1>. QED
  BY <1>2, <1>9 DEF BatchInv

LEMMA AskForFitsStep == ASSUME BatchInv, AskForFits PROVE BatchInv'
<1>1. PICK i : i = Group[at]
  OBVIOUS
<1>2. /\ stage = "ask" /\ stage' = "ask" /\ at \in DOMAIN Group /\ at' = at + 1
      /\ fits' = Append(fits, [k \in DOMAIN Models(i) |->
                                 [model |-> Models(i)[k], Z |-> ScaleOf(i, results[at])]])
      /\ UNCHANGED <<call, plans, round, results, answers, verdicts>>
  BY <1>1 DEF AskForFits, Asking, planning
<1>3. at \in Nat /\ at = Len(fits) + 1 /\ results = OfGroup(Specs)
      /\ fits \in Seq(Seq(FitType)) /\ \A n \in DOMAIN fits : fits[n] = FitsOf(Group[n])
  BY <1>2 DEF BatchInv, PlanningInv, RunningInv
<1>4. PlanningInv' /\ AnswersInv' /\ OnlyFaultsStopABatch'
  BY <1>2, <1>3, RunningStays DEF RunningStages
<1>5. i \in Analyses
  BY <1>1, <1>2, TheGroup DEF BatchInv
<1>6. fits' = Append(fits, FitsOf(i)) /\ FitsOf(i) \in Seq(FitType)
  <2>1. results[at] = Specs(i)
    BY <1>1, <1>2, <1>3 DEF OfGroup
  <2>2. [k \in DOMAIN Models(i) |->
          [model |-> Models(i)[k], Z |-> ScaleOf(i, results[at])]] = FitsOf(i)
    BY <2>1 DEF FitsOf, ScaleOf
  <2>. QED
    BY <1>2, <1>5, <2>2, WhatIsAskedFor DEF BatchInv
<1>7. RunningInv'
  <2>1. Scales' = Scales /\ Group' = Group /\ OfGroup(Specs)' = OfGroup(Specs)
    BY <1>2, GroupStays, GroupAsksAlike
  <2>2. round' \in Nat \ {0} /\ round' <= Len(Scales')
    BY <1>2, <2>1 DEF BatchInv, RunningInv, RunningStages
  <2>3. PICK F \in Nat : F = Len(fits) /\ DOMAIN fits = 1 .. F
    BY <1>3
  <2>4. /\ fits' \in Seq(Seq(FitType)) /\ Len(fits') = F + 1 /\ DOMAIN fits' = 1 .. F + 1
        /\ fits'[F + 1] = FitsOf(i) /\ \A n \in 1 .. F : fits'[n] = fits[n]
    BY <1>3, <1>6, <2>3
  <2>5. PICK L \in Nat : L = Len(Group) /\ DOMAIN Group = 1 .. L
    BY TheGroup DEF BatchInv
  <2>6. F + 1 <= L
    BY <1>2, <1>3, <2>3, <2>5
  <2>7. ASSUME NEW n \in 1 .. F + 1
        PROVE  fits'[n] = FitsOf(Group[n])
    <3>1. CASE n = F + 1
      BY <1>1, <1>3, <2>3, <2>4, <3>1
    <3>2. CASE n \in 1 .. F
      BY <1>3, <2>3, <2>4, <3>2
    <3>. QED
      BY <3>1, <3>2
  <2>8. \A n \in DOMAIN fits' : fits'[n] = FitsOf(Group[n])'
    <3>1. \A n : FitsOf(Group[n])' = FitsOf(Group[n])
      BY <1>2, <2>1 DEF FitsOf, Models, Specs, IsFitting, Source, Filled, NamesTheQuantity, Elements
    <3>. QED
      BY <2>4, <2>7, <3>1
  <2>9. at' = Len(fits') + 1 /\ Len(fits') <= Len(Group')
    BY <1>2, <1>3, <2>1, <2>3, <2>4, <2>5, <2>6
  <2>10. results' = OfGroup(Specs)'
    BY <1>2, <1>3, <2>1
  <2>. QED
    BY <1>2, <2>2, <2>4, <2>8, <2>9, <2>10 DEF RunningInv, RunningStages
<1>. QED
  BY <1>4, <1>7 DEF BatchInv

LEMMA StartFittingStep == ASSUME BatchInv, StartFitting PROVE BatchInv'
<1>1. /\ stage = "ask" /\ stage' = "fit" /\ at \notin DOMAIN Group
      /\ UNCHANGED <<call, plans, at, round, results, fits, answers, verdicts>>
  BY DEF StartFitting, planning, running
<1>2. PlanningInv' /\ AnswersInv' /\ OnlyFaultsStopABatch'
  <2>1. at' \in Nat
    BY <1>1 DEF BatchInv, PlanningInv
  <2>. QED
    BY <1>1, <2>1, RunningStays DEF RunningStages
<1>3. Len(fits) = Len(Group)
  <2>1. PICK F \in Nat : F = Len(fits) /\ at = F + 1 /\ F <= Len(Group)
    <3>1. fits \in Seq(Seq(FitType)) /\ at = Len(fits) + 1 /\ Len(fits) <= Len(Group)
      BY <1>1 DEF BatchInv, RunningInv
    <3>. QED
      BY <3>1
  <2>2. PICK L \in Nat : L = Len(Group) /\ DOMAIN Group = 1 .. L
    BY TheGroup DEF BatchInv
  <2>. QED
    BY <1>1, <2>1, <2>2
<1>4. RunningInv'
  <2>1. Scales' = Scales /\ Group' = Group /\ OfGroup(Specs)' = OfGroup(Specs)
    BY <1>1, GroupStays, GroupAsksAlike
  <2>2. \A n : FitsOf(Group[n])' = FitsOf(Group[n])
    BY <1>1, <2>1 DEF FitsOf, Models, Specs, IsFitting, Source, Filled, NamesTheQuantity, Elements
  <2>3. round' \in Nat \ {0} /\ round' <= Len(Scales')
    BY <1>1, <2>1 DEF BatchInv, RunningInv, RunningStages
  <2>4. /\ results' = OfGroup(Specs)' /\ fits' \in Seq(Seq(FitType)) /\ Len(fits') <= Len(Group')
        /\ Len(fits') = Len(Group')
    BY <1>1, <1>3, <2>1 DEF BatchInv, RunningInv
  <2>5. \A n \in DOMAIN fits' : fits'[n] = FitsOf(Group[n])'
    BY <1>1, <2>2 DEF BatchInv, RunningInv
  <2>. QED
    BY <1>1, <2>3, <2>4, <2>5 DEF RunningInv, RunningStages
<1>. QED
  BY <1>2, <1>4 DEF BatchInv

\* No piece is left out of the whole.
LEMMA EveryPieceIsThere ==
  ASSUME NEW T, NEW pieces \in Seq(Seq(T))
  PROVE  \A n \in DOMAIN pieces : \A k \in DOMAIN pieces[n] :
           pieces[n][k] \in ToSet(FlattenSeq(pieces))
<1>1. PICK whole \in Seq(T) : whole = FlattenSeq(pieces)
  BY PiecesArePlaced
<1>2. PICK ends : ArePlaced(ends, pieces, whole)
  BY <1>1, PiecesArePlaced
<1>3. PICK N \in Nat : N = Len(pieces) /\ DOMAIN pieces = 1 .. N
  OBVIOUS
<1>4. SUFFICES ASSUME NEW n \in 1 .. N, NEW k \in DOMAIN pieces[n]
               PROVE  pieces[n][k] \in ToSet(whole)
  BY <1>1, <1>3
<1>5. PICK l \in Nat : l = Len(pieces[n]) /\ DOMAIN pieces[n] = 1 .. l
  <2>1. pieces[n] \in Seq(T)
    BY <1>3
  <2>2. Len(pieces[n]) \in Nat /\ DOMAIN pieces[n] = 1 .. Len(pieces[n])
    BY <2>1
  <2>. QED
    BY <2>2
<1>6. PICK a \in Nat, b \in Nat :
        /\ a = ends[n - 1] /\ b = ends[n] /\ b = a + l /\ b <= Len(whole)
        /\ whole[a + k] = pieces[n][k]
  <2>1. n \in 0 .. N /\ n - 1 \in 0 .. N
    OBVIOUS
  <2>. QED
    BY <1>2, <1>3, <1>5, <2>1 DEF ArePlaced
<1>7. a + k \in DOMAIN whole
  <2>1. Len(whole) \in Nat /\ DOMAIN whole = 1 .. Len(whole)
    OBVIOUS
  <2>2. k \in 1 .. l
    BY <1>5
  <2>. QED
    BY <1>6, <2>1, <2>2
<1>. QED
  BY <1>6, <1>7 DEF ToSet

\* What a group's fits come to is what its analyses' fits come to.
LEMMA FitGroupStep == ASSUME BatchInv, FitGroup PROVE BatchInv'
<1>1. PICK wanted : wanted = FlattenSeq(fits)
  OBVIOUS
<1>2. PICK asked : asked = {fit.model : fit \in ToSet(wanted)}
  OBVIOUS
<1>3. PICK verdict \in [asked -> Verdicts] :
        /\ verdicts' = [m \in DOMAIN verdict \union DOMAIN verdicts |->
                          IF m \in DOMAIN verdict THEN verdict[m] ELSE verdicts[m]]
        /\ runs' = SplitByLengths([k \in DOMAIN wanted |->
                                     Run(wanted[k], verdict[wanted[k].model])],
                                  Lengths(fits))
  BY <1>1, <1>2 DEF FitGroup
<1>4. /\ stage = "fit" /\ stage' = "finish"
      /\ UNCHANGED <<call, plans, at, round, results, fits, answers>>
  BY DEF FitGroup, planning
<1>5. /\ results = OfGroup(Specs) /\ fits \in Seq(Seq(FitType)) /\ Len(fits) = Len(Group)
      /\ \A n \in DOMAIN fits : fits[n] = FitsOf(Group[n])
  BY <1>4 DEF BatchInv, RunningInv
<1>6. PlanningInv
  BY DEF BatchInv
<1>7. PICK L \in Nat : L = Len(Group) /\ DOMAIN Group = 1 .. L /\ DOMAIN fits = 1 .. L
  BY <1>5, <1>6, TheGroup
<1>8. Scales' = Scales /\ Group' = Group /\ OfGroup(Specs)' = OfGroup(Specs) /\ Ran' = Ran
      /\ Elements' = Elements /\ Analyses' = Analyses /\ MisusesBatch' = MisusesBatch
  BY <1>4, GroupStays, GroupAsksAlike, TheCallStays
<1>. DEFINE Mine == {t \in FitType : \E n \in 1 .. L : t.model[1] = Group[n]}
<1>9. ASSUME NEW n \in 1 .. L
      PROVE  /\ Group[n] \in Analyses /\ fits[n] \in Seq(Mine)
             /\ DOMAIN fits[n] = DOMAIN Models(Group[n])
             /\ \A k \in DOMAIN fits[n] : /\ fits[n][k].model = Models(Group[n])[k]
                                          /\ fits[n][k] = FitsOf(Group[n])[k]
  <2>1. PICK i \in Analyses : i = Group[n]
    BY <1>6, <1>7, TheGroup
  <2>2. fits[n] = FitsOf(i)
    BY <1>5, <1>7, <2>1
  <2>3. /\ FitsOf(i) \in Seq(FitType) /\ DOMAIN FitsOf(i) = DOMAIN Models(i)
        /\ \A k \in DOMAIN FitsOf(i) : /\ FitsOf(i)[k].model = Models(i)[k]
                                       /\ FitsOf(i)[k].model[1] = i
    <3>1. FitsOf(i) \in Seq(FitType) /\ DOMAIN FitsOf(i) = DOMAIN Models(i)
      BY <1>6, WhatIsAskedFor
    <3>2. \A k \in DOMAIN Models(i) : Models(i)[k] = <<i, k>> /\ FitsOf(i)[k].model = <<i, k>>
      BY <1>6, WhatIsAskedFor
    <3>3. \A k : <<i, k>>[1] = i
      OBVIOUS
    <3>. QED
      BY <3>1, <3>2, <3>3
  <2>4. \A k \in DOMAIN FitsOf(i) : FitsOf(i)[k] \in Mine
    BY <2>1, <2>3
  <2>5. FitsOf(i) \in Seq(Mine)
    <3>. HIDE DEF Mine
    <3>. QED
      BY <2>3, <2>4
  <2>. QED
    BY <2>1, <2>2, <2>3, <2>5
<1>10. fits \in Seq(Seq(Mine))
  <2>. HIDE DEF Mine
  <2>. QED
    BY <1>5, <1>7, <1>9
<1>11. wanted \in Seq(Mine)
  <2>. HIDE DEF Mine
  <2>. QED
    BY <1>1, <1>10, PiecesArePlaced
<1>12. \A m \in asked : \E n \in 1 .. L : m[1] = Group[n]
  <2>1. \A fit \in ToSet(wanted) : fit \in Mine
    <3>. HIDE DEF Mine
    <3>. QED
      BY <1>11 DEF ToSet
  <2>. QED
    BY <1>2, <2>1
<1>13. \A n \in 1 .. L : \A k \in DOMAIN Models(Group[n]) : Models(Group[n])[k] \in asked
  <2>. HIDE DEF Mine
  <2>1. \A n \in 1 .. L : \A k \in DOMAIN fits[n] : fits[n][k] \in ToSet(wanted)
    BY <1>1, <1>7, <1>10, EveryPieceIsThere
  <2>. QED
    BY <1>2, <1>9, <2>1
<1>14. /\ DOMAIN verdicts' = asked \union DOMAIN verdicts
       /\ \A m \in asked : verdicts'[m] = verdict[m]
       /\ \A m \in DOMAIN verdicts : m \notin asked => verdicts'[m] = verdicts[m]
  BY <1>3
<1>. DEFINE F == [t \in Mine |-> Run(t, verdict[t.model])]
<1>15. runs' = [n \in DOMAIN fits |-> [k \in DOMAIN fits[n] |-> F[fits[n][k]]]]
  <2>1. ComeBack(fits, F, Mine)
    <3>. HIDE DEF F, Mine
    <3>. QED
      BY <1>10, PiecesComeBack
  <2>2. \A k \in DOMAIN wanted : wanted[k] \in Mine
    <3>. HIDE DEF Mine
    <3>. QED
      BY <1>11
  <2>3. [k \in DOMAIN wanted |-> F[wanted[k]]] =
          [k \in DOMAIN wanted |-> Run(wanted[k], verdict[wanted[k].model])]
    <3>. HIDE DEF Mine
    <3>. QED
      BY <2>2
  <2>. HIDE DEF F
  <2>. QED
    BY <1>1, <1>3, <2>1, <2>3 DEF ComeBack
<1>16. ASSUME NEW i
       PROVE  /\ RunsOf(i)' = [k \in DOMAIN Models(i) |->
                                 Run(FitsOf(i)[k], verdicts'[Models(i)[k]])]
              /\ HasRun(i)' <=> \A k \in DOMAIN Models(i) : Models(i)[k] \in DOMAIN verdicts'
  <2>1. FitsOf(i)' = FitsOf(i) /\ Models(i)' = Models(i)
    BY <1>4, TheCallStays
  <2>. QED
    BY <2>1 DEF RunsOf, HasRun, Run
<1>17. ASSUME NEW n \in 1 .. L
       PROVE  runs'[n] = RunsOf(Group[n])' /\ HasRun(Group[n])'
  <2>. HIDE DEF Mine, F
  <2>1. PICK i \in Analyses : i = Group[n]
    BY <1>9
  <2>2. \A k \in DOMAIN Models(i) : F[fits[n][k]] = Run(FitsOf(i)[k], verdicts'[Models(i)[k]])
    <3>1. \A k \in DOMAIN fits[n] : fits[n][k] \in Mine
      BY <1>9
    <3>2. \A k \in DOMAIN fits[n] : F[fits[n][k]] = Run(fits[n][k], verdict[fits[n][k].model])
      BY <3>1 DEF F
    <3>3. ASSUME NEW k \in DOMAIN Models(i)
          PROVE  F[fits[n][k]] = Run(FitsOf(i)[k], verdicts'[Models(i)[k]])
      <4>1. k \in DOMAIN fits[n]
        BY <1>9, <2>1
      <4>2. fits[n][k].model = Models(i)[k] /\ fits[n][k] = FitsOf(i)[k]
        BY <1>9, <2>1, <4>1
      <4>3. Models(i)[k] \in asked
        BY <1>13, <2>1
      <4>4. verdicts'[Models(i)[k]] = verdict[Models(i)[k]]
        BY <1>14, <4>3
      <4>5. F[fits[n][k]] = Run(fits[n][k], verdict[fits[n][k].model])
        BY <3>2, <4>1
      <4>. QED
        BY <4>2, <4>4, <4>5
    <3>. QED
      BY <3>3
  <2>3. runs'[n] = [k \in DOMAIN Models(i) |-> Run(FitsOf(i)[k], verdicts'[Models(i)[k]])]
    BY <1>7, <1>9, <1>15, <2>1, <2>2
  <2>4. \A k \in DOMAIN Models(i) : Models(i)[k] \in DOMAIN verdicts'
    BY <1>13, <1>14, <2>1
  <2>5. i = Group[n]'
    BY <1>8, <2>1
  <2>6. RunsOf(Group[n])' = RunsOf(i)' /\ HasRun(Group[n])' = HasRun(i)'
    BY <2>5 DEF RunsOf, HasRun, FitsOf, Models, Specs, Run, IsFitting, Source, Filled,
                NamesTheQuantity, Elements
  <2>. QED
    BY <1>16, <2>3, <2>4, <2>6
<1>18. RunningInv'
  <2>. HIDE DEF Mine, F
  <2>1. \A n : FitsOf(Group[n])' = FitsOf(Group[n])
    BY <1>4, <1>8 DEF FitsOf, Models, Specs, IsFitting, Source, Filled, NamesTheQuantity, Elements
  <2>2. round' \in Nat \ {0} /\ round' <= Len(Scales')
    BY <1>4, <1>8 DEF BatchInv, RunningInv, RunningStages
  <2>3. /\ results' = OfGroup(Specs)' /\ fits' \in Seq(Seq(FitType)) /\ Len(fits') <= Len(Group')
        /\ Len(fits') = Len(Group')
    BY <1>4, <1>5, <1>7, <1>8
  <2>4. \A n \in DOMAIN fits' : fits'[n] = FitsOf(Group[n])'
    BY <1>4, <1>5, <2>1
  <2>5. runs' = OfGroup(RunsOf)' /\ \A n \in DOMAIN Group' : HasRun(Group[n])'
    <3>1. DOMAIN Group' = 1 .. L
      BY <1>7, <1>8
    <3>2. OfGroup(RunsOf)' = [n \in 1 .. L |-> RunsOf(Group[n])']
      BY <3>1 DEF OfGroup
    <3>3. runs' = [n \in 1 .. L |-> runs'[n]]
      BY <1>7, <1>15
    <3>. QED
      BY <1>17, <3>1, <3>2, <3>3
  <2>. QED
    BY <1>4, <2>2, <2>3, <2>4, <2>5 DEF RunningInv, RunningStages
<1>19. PlanningInv'
  BY <1>4, <1>8 DEF BatchInv, PlanningInv, Stages, RunningStages
<1>20. OnlyFaultsStopABatch'
  BY <1>4 DEF OnlyFaultsStopABatch
<1>21. AnswersInv'
  <2>. HIDE DEF Mine, F
  <2>1. \A m \in DOMAIN verdicts' : verdicts'[m] \in Verdicts
    BY <1>14 DEF BatchInv, AnswersInv
  <2>2. \A i \in Analyses : IF i \in Ran THEN IsAnswered(i) ELSE answers[i] = NA
    BY <1>4 DEF BatchInv, AnswersInv, RunningStages
  <2>3. ASSUME NEW i \in Ran
        PROVE  IsAnswered(i)'
    <3>1. i \in Analyses /\ IsAnswered(i)
      BY <2>2 DEF Ran
    <3>2. PICK r \in 1 .. round - 1 : plans[i].scale = Scales[r]
      BY DEF Ran
    <3>3. \A n \in 1 .. L : Group[n] # i
      <4>1. Len(plans) = Len(Elements)
        BY <1>4, <1>6 DEF PlanningInv, RunningStages
      <4>2. PICK S \in Nat : S = Len(Scales) /\ DOMAIN Scales = 1 .. S
        BY <1>6, <4>1, TheScales
      <4>3. round \in Nat \ {0} /\ round <= S
        BY <1>4, <4>2 DEF BatchInv, RunningInv, RunningStages
      <4>4. r \in 1 .. S /\ round \in 1 .. S /\ r # round
        BY <4>3
      <4>5. Scales[r] # Scales[round]
        BY <1>6, <4>1, <4>2, <4>4, TheScales
      <4>. QED
        BY <1>6, <1>7, <3>2, <4>5, TheGroup
    <3>4. ASSUME NEW k \in DOMAIN Models(i)
          PROVE  /\ Models(i)[k] \in DOMAIN verdicts /\ Models(i)[k] \in DOMAIN verdicts'
                 /\ verdicts'[Models(i)[k]] = verdicts[Models(i)[k]]
      <4>1. Models(i)[k] = <<i, k>>
        BY <1>6, <3>1, WhatIsAskedFor
      <4>2. Models(i)[k][1] = i
        BY <4>1
      <4>3. Models(i)[k] \notin asked
        BY <1>12, <3>3, <4>2
      <4>4. Models(i)[k] \in DOMAIN verdicts
        BY <3>1 DEF IsAnswered, HasRun
      <4>. QED
        BY <1>14, <4>3, <4>4
    <3>5. Lone(i)' = Lone(i)
      BY <1>4, <3>4, LoneStays
    <3>6. HasRun(i)'
      BY <1>16, <3>4
    <3>. QED
      BY <1>4, <3>1, <3>5, <3>6 DEF IsAnswered
  <2>4. \A i \in Analyses' : IF i \in Ran' THEN IsAnswered(i)' ELSE answers'[i] = NA
    BY <1>4, <1>8, <2>2, <2>3
  <2>5. \A i \in Analyses' : answers'[i] # NA => IsAnswered(i)'
    BY <2>4
  <2>6. DOMAIN answers' = Analyses'
    BY <1>4, <1>8 DEF BatchInv, AnswersInv
  <2>. QED
    BY <1>4, <2>1, <2>4, <2>5, <2>6 DEF AnswersInv
<1>. QED
  BY <1>18, <1>19, <1>20, <1>21 DEF BatchInv

\* What a plan makes of its own results and runs is what the analysis would answer alone.
LEMMA FinishedIsLone ==
  ASSUME PlanningInv, results = OfGroup(Specs), runs = OfGroup(RunsOf), NEW n \in DOMAIN Group
  PROVE  AnswerOf(n) = Lone(Group[n])
<1>1. PICK i \in Analyses : i = Group[n]
  BY TheGroup
<1>2. results[n] = Specs(i) /\ runs[n] = RunsOf(i)
  BY <1>1 DEF OfGroup
<1>. DEFINE z == IF Source(Elements[i], "Z") = "none" THEN Specs(i)[1] ELSE Source(Elements[i], "Z")
            its == [k \in DOMAIN Models(i) |->
                      [model |-> Models(i)[k], Z |-> z, verdict |-> verdicts[Models(i)[k]]]]
<1>3. RunsOf(i) = its
  <2>1. ASSUME NEW k \in DOMAIN Models(i)
        PROVE  Run(FitsOf(i)[k], verdicts[Models(i)[k]]) =
                 [model |-> Models(i)[k], Z |-> z, verdict |-> verdicts[Models(i)[k]]]
    <3>1. FitsOf(i)[k] = [model |-> Models(i)[k], Z |-> z]
      BY DEF FitsOf
    <3>. HIDE DEF z
    <3>. QED
      BY <3>1 DEF Run
  <2>. HIDE DEF z
  <2>. QED
    BY <2>1 DEF RunsOf
<1>4. Lone(i) = Finalised(Elements[i].operation, Specs(i), its)
  BY DEF Lone
<1>5. AnswerOf(n) = Finalised(Elements[i].operation, Specs(i), RunsOf(i))
  BY <1>1, <1>2 DEF AnswerOf
<1>. QED
  BY <1>1, <1>3, <1>4, <1>5

\* Where a number is in a sequence of numbers that has it.
LEMMA SelectedIsThere ==
  ASSUME NEW T, NEW s \in Seq(T), NEW t, Contains(s, t)
  PROVE  SelectInSeq(s, LAMBDA g : g = t) \in DOMAIN s
         /\ s[SelectInSeq(s, LAMBDA g : g = t)] = t
<1>. DEFINE I == {k \in 1 .. Len(s) : s[k] = t}
<1>1. I \in SUBSET Nat /\ I # {} /\ I \subseteq DOMAIN s
  BY DEF Contains
<1>2. SelectInSeq(s, LAMBDA g : g = t) = Min(I)
  BY <1>1 DEF SelectInSeq
<1>3. Min(I) \in I
  <2>1. \E n \in I : \A k \in I : n <= k
    <3>. HIDE DEF I
    <3>. QED
      BY <1>1, LeastNatural
  <2>. HIDE DEF I
  <2>. QED
    BY <2>1 DEF Min
<1>4. \A k \in I : k \in DOMAIN s /\ s[k] = t
  BY <1>1
<1>. HIDE DEF I
<1>. QED
  BY <1>2, <1>3, <1>4

LEMMA FinishGroupStep == ASSUME BatchInv, FinishGroup PROVE BatchInv'
<1>1. /\ stage = "finish"
      /\ answers' = [i \in Analyses |->
           IF Contains(Group, i)
           THEN AnswerOf(SelectInSeq(Group, LAMBDA g : g = i)) ELSE answers[i]]
      /\ round' = round + 1
      /\ stage' = IF round = Len(Scales) THEN "returned" ELSE "compile"
      /\ UNCHANGED <<call, plans, at, verdicts>>
  BY DEF FinishGroup, planning
<1>2. PlanningInv
  BY DEF BatchInv
<1>3. /\ results = OfGroup(Specs) /\ runs = OfGroup(RunsOf)
      /\ \A n \in DOMAIN Group : HasRun(Group[n])
  BY <1>1 DEF BatchInv, RunningInv
<1>4. Len(plans) = Len(Elements) /\ ~MisusesBatch
  BY <1>1, <1>2 DEF PlanningInv, RunningStages
<1>5. PICK S \in Nat : S = Len(Scales) /\ DOMAIN Scales = 1 .. S
  BY <1>2, <1>4, TheScales
<1>6. round \in Nat \ {0} /\ round <= S
  BY <1>1, <1>5 DEF BatchInv, RunningInv, RunningStages
<1>7. Elements' = Elements /\ Analyses' = Analyses /\ MisusesBatch' = MisusesBatch
  BY <1>1, TheCallStays
<1>8. Scales' = Scales
  BY <1>1 DEF Scales, Unique, Where
<1>9. ASSUME NEW i \in Analyses
      PROVE  Contains(Group, i) <=> plans[i].scale = Scales[round]
  <2>1. PICK L \in Nat : L = Len(Group) /\ DOMAIN Group = 1 .. L
    BY <1>2, TheGroup
  <2>2. Contains(Group, i) <=> \E n \in 1 .. L : Group[n] = i
    BY <2>1 DEF Contains
  <2>. QED
    BY <1>2, <2>1, <2>2, TheGroup
<1>10. ASSUME NEW i \in Analyses
       PROVE  i \in Ran' <=> i \in Ran \/ Contains(Group, i)
  <2>1. Ran' = {j \in Analyses : \E r \in 1 .. round : plans[j].scale = Scales[r]}
    <3>1. round' - 1 = round
      BY <1>1, <1>6
    <3>. QED
      BY <1>1, <1>7, <1>8, <3>1 DEF Ran
  <2>2. \A r \in 1 .. round : r \in 1 .. round - 1 \/ r = round
    BY <1>6
  <2>3. 1 .. round - 1 \subseteq 1 .. round /\ round \in 1 .. round
    BY <1>6
  <2>. QED
    BY <1>9, <2>1, <2>2, <2>3 DEF Ran
<1>11. ASSUME NEW i \in Analyses, Contains(Group, i)
       PROVE  IsAnswered(i)'
  <2>1. PICK n \in DOMAIN Group :
          n = SelectInSeq(Group, LAMBDA g : g = i) /\ Group[n] = i
    <3>1. Group \in Seq(Nat)
      BY <1>2, TheGroup
    <3>. QED
      BY <1>11, <3>1, SelectedIsThere
  <2>2. answers'[i] = Lone(i)
    BY <1>1, <1>2, <1>3, <1>11, <2>1, FinishedIsLone
  <2>3. Lone(i)' = Lone(i)
    BY <1>1, LoneStays
  <2>4. HasRun(i)'
    <3>1. HasRun(i)
      BY <1>3, <2>1
    <3>2. Models(i)' = Models(i)
      BY <1>1, TheCallStays
    <3>. QED
      BY <1>1, <3>1, <3>2 DEF HasRun
  <2>. QED
    BY <2>2, <2>3, <2>4 DEF IsAnswered
<1>12. \A i \in Analyses : IF i \in Ran THEN IsAnswered(i) ELSE answers[i] = NA
  BY <1>1 DEF BatchInv, AnswersInv, RunningStages
<1>13. ASSUME NEW i \in Analyses
       PROVE  IF i \in Ran' THEN IsAnswered(i)' ELSE answers'[i] = NA
  <2>1. CASE Contains(Group, i)
    BY <1>10, <1>11, <2>1
  <2>2. CASE ~Contains(Group, i)
    <3>1. answers'[i] = answers[i]
      BY <1>1, <2>2
    <3>2. IsAnswered(i) => IsAnswered(i)'
      BY <1>1, <3>1, AnsweredStays
    <3>. QED
      BY <1>10, <1>12, <2>2, <3>1, <3>2
  <2>. QED
    BY <2>1, <2>2
<1>14. AnswersInv'
  <2>1. \A i \in Analyses' : IF i \in Ran' THEN IsAnswered(i)' ELSE answers'[i] = NA
    BY <1>7, <1>13
  <2>2. \A i \in Analyses' : answers'[i] # NA => IsAnswered(i)'
    BY <2>1
  <2>3. DOMAIN answers' = Analyses'
    BY <1>1, <1>7
  <2>. QED
    BY <1>1, <2>1, <2>2, <2>3 DEF BatchInv, AnswersInv, RunningStages
<1>15. RunningInv'
  <2>1. (stage' = "returned" /\ round = S) \/ (stage' = "compile" /\ round # S)
    BY <1>1, <1>5
  <2>2. Len(Scales') = S
    BY <1>5, <1>8
  <2>3. round' \in Nat \ {0} /\ (round = S => round' = S + 1) /\ (round # S => round' <= S)
    BY <1>1, <1>6
  <2>. QED
    BY <2>1, <2>2, <2>3 DEF RunningInv, RunningStages
<1>16. PlanningInv'
  BY <1>1, <1>2, <1>4, <1>7 DEF PlanningInv, Stages, RunningStages
<1>17. OnlyFaultsStopABatch'
  BY <1>1 DEF OnlyFaultsStopABatch
<1>. QED
  BY <1>14, <1>15, <1>16, <1>17 DEF BatchInv

LEMMA NothingChanges == ASSUME BatchInv, UNCHANGED batchVars PROVE BatchInv'
<1>1. UNCHANGED <<call, plans, stage, at, round, results, fits, runs, answers, verdicts, raised>>
  BY DEF batchVars, planning, running
<1>2. /\ Scales' = Scales /\ Group' = Group /\ Ran' = Ran
      /\ Elements' = Elements /\ Analyses' = Analyses /\ MisusesBatch' = MisusesBatch
  BY <1>1, GroupStays, TheCallStays
<1>3. PlanningInv'
  BY <1>1, <1>2 DEF BatchInv, PlanningInv
<1>4. RunningInv'
  <2>1. \A n : FitsOf(Group[n])' = FitsOf(Group[n]) /\ HasRun(Group[n])' = HasRun(Group[n])
    BY <1>1, <1>2 DEF HasRun, FitsOf, Models, Specs, IsFitting, Source, Filled, NamesTheQuantity,
                      Elements
  <2>2. OfGroup(Specs)' = OfGroup(Specs) /\ OfGroup(RunsOf)' = OfGroup(RunsOf)
    BY <1>1, <1>2 DEF OfGroup, RunsOf, Run, FitsOf, Models, Specs, IsFitting, Source, Filled,
                      NamesTheQuantity, Elements
  <2>. QED
    BY <1>1, <1>2, <2>1, <2>2 DEF BatchInv, RunningInv
<1>5. AnswersInv'
  <2>1. \A i : IsAnswered(i) => IsAnswered(i)'
    BY <1>1, AnsweredStays
  <2>. QED
    BY <1>1, <1>2, <2>1 DEF BatchInv, AnswersInv
<1>6. OnlyFaultsStopABatch'
  BY <1>1, <1>2 DEF BatchInv, OnlyFaultsStopABatch
<1>. QED
  BY <1>3, <1>4, <1>5, <1>6 DEF BatchInv

-----------------------------------------------------------------------------
(* The invariant, and what it says.                                         *)

\* What holds throughout a call: what has been planned, asked for, run and answered so
\* far is what the analyses are, and a call that stopped had a reason.
THEOREM BatchInvariant == BatchSpec => []BatchInv
<1>1. BatchInit => BatchInv
  BY Started
<1>2. BatchInv /\ [BatchNext]_batchVars => BatchInv'
  <2>. SUFFICES ASSUME BatchInv, [BatchNext]_batchVars PROVE BatchInv'
    OBVIOUS
  <2>1. CASE UNCHANGED batchVars
    BY <2>1, NothingChanges
  <2>2. CASE BatchNext
    BY <2>2, RefuseCallStep, AcceptCallStep, RefuseAnalysisStep, RefuseBothStep,
       RequireOverdispersionStep, PlanAnalysisStep, RefuseSecondDatasetStep, StartRunningStep,
       RefuseSpecificationStep, CompileGroupStep, WalkGroupStep, EngineRaisesStep, RefuseZStep,
       AskForFitsStep, StartFittingStep, RefuseModelStep, FitGroupStep, FinishGroupStep,
       NothingChanges DEF BatchNext
  <2>. QED
    BY <2>1, <2>2
<1>. QED
  BY <1>1, <1>2, PTL DEF BatchSpec

\* A batch stops for nothing but a fault that would have stopped a lone call, or its own.
THEOREM BatchesStopForFaults == BatchSpec => []OnlyFaultsStopABatch
<1>1. BatchInv => OnlyFaultsStopABatch
  BY DEF BatchInv
<1>. QED
  BY <1>1, BatchInvariant, PTL

\* A batch that returns answers each analysis as its lone call would.
THEOREM BatchesAnswerAsAlone == BatchSpec => []EachAnalysisAsAlone
<1>1. ASSUME BatchInv PROVE EachAnalysisAsAlone
  <2>. SUFFICES ASSUME stage = "returned", NEW i \in Analyses PROVE answers[i] = Lone(i)
    BY DEF EachAnalysisAsAlone
  <2>1. Len(plans) = Len(Elements) /\ PlanningInv
    BY <1>1 DEF BatchInv, PlanningInv, RunningStages
  <2>2. PICK S \in Nat : S = Len(Scales) /\ DOMAIN Scales = 1 .. S
    BY <2>1, TheScales
  <2>3. PICK r \in 1 .. S : Scales[r] = plans[i].scale
    BY <2>1, <2>2, TheScales
  <2>4. round - 1 = S
    <3>1. round = S + 1
      BY <1>1, <2>2 DEF BatchInv, RunningInv
    <3>. QED
      BY <3>1
  <2>5. i \in Ran
    BY <2>3, <2>4 DEF Ran
  <2>. QED
    BY <1>1, <2>5 DEF BatchInv, AnswersInv, RunningStages, IsAnswered
<1>. QED
  BY <1>1, BatchInvariant, PTL

-----------------------------------------------------------------------------
(* Ranks by counting: the k-th is the one with k - 1 above it.              *)

\* above[n] are those above n, in a strict order of 1 .. M in which any two can be compared.
IsOrder(above, M) ==
  /\ above \in [1 .. M -> SUBSET (1 .. M)]
  /\ \A n \in 1 .. M : n \notin above[n]
  /\ \A n \in 1 .. M : \A m \in above[n] : above[m] \subseteq above[n]
  /\ \A m, n \in 1 .. M : m = n \/ m \in above[n] \/ n \in above[m]

\* Each comes once, after those above it.
IsRankedBy(rank, above, M) ==
  /\ rank \in [1 .. M -> 1 .. M]
  /\ \A n \in 1 .. M : \E k \in 1 .. M : rank[k] = n
  /\ \A j, k \in 1 .. M : j < k => rank[j] \in above[rank[k]]

LEMMA CountingRanks ==
  ASSUME NEW M \in Nat, NEW above, IsOrder(above, M), NEW rank,
         rank = [k \in 1 .. M |-> rank[k]],
         \A k \in 1 .. M : \A n \in 1 .. M : Cardinality(above[n]) = k - 1 =>
           rank[k] \in 1 .. M /\ Cardinality(above[rank[k]]) = k - 1
  PROVE  IsRankedBy(rank, above, M)
<1>. DEFINE I == 1 .. M
<1>1. /\ above \in [I -> SUBSET I]
      /\ \A n \in I : n \notin above[n]
      /\ \A n \in I : \A m \in above[n] : above[m] \subseteq above[n]
      /\ \A m, n \in I : m = n \/ m \in above[n] \/ n \in above[m]
  BY DEF IsOrder
<1>2. IsFiniteSet(I) /\ Cardinality(I) = M
  BY FS_Interval
<1>3. ASSUME NEW n \in I
      PROVE  /\ IsFiniteSet(above[n]) /\ Cardinality(above[n]) \in Nat
             /\ Cardinality(above[n]) < M
  <2>. HIDE DEF I
  <2>1. above[n] \in SUBSET I /\ above[n] # I
    BY <1>1
  <2>2. IsFiniteSet(above[n]) /\ Cardinality(above[n]) <= M /\ Cardinality(above[n]) # M
    BY <1>2, <2>1, FS_Subset
  <2>3. Cardinality(above[n]) \in Nat
    BY <2>2, FS_CardinalityType
  <2>. QED
    BY <2>2, <2>3
<1>4. ASSUME NEW n \in I, NEW m \in above[n]
      PROVE  Cardinality(above[m]) < Cardinality(above[n])
  <2>. HIDE DEF I
  <2>1. m \in I /\ above[m] \in SUBSET above[n] /\ above[m] # above[n]
    BY <1>1
  <2>2. /\ Cardinality(above[m]) <= Cardinality(above[n])
        /\ Cardinality(above[m]) # Cardinality(above[n])
    BY <1>3, <2>1, FS_Subset
  <2>3. Cardinality(above[m]) \in Nat /\ Cardinality(above[n]) \in Nat
    BY <1>3, <2>1
  <2>. QED
    BY <2>2, <2>3
<1>. DEFINE c == [n \in I |-> Cardinality(above[n]) + 1]
<1>5. c \in [I -> I] /\ \A n \in I : c[n] = Cardinality(above[n]) + 1
  <2>1. \A n \in I : Cardinality(above[n]) + 1 \in I
    BY <1>3
  <2>. HIDE DEF I
  <2>. QED
    BY <2>1
<1>. HIDE DEF c
<1>6. \A m, n \in I : m \in above[n] => c[m] < c[n]
  <2>. SUFFICES ASSUME NEW m \in I, NEW n \in I, m \in above[n] PROVE c[m] < c[n]
    OBVIOUS
  <2>1. Cardinality(above[m]) < Cardinality(above[n])
    BY <1>4
  <2>2. Cardinality(above[m]) \in Nat /\ Cardinality(above[n]) \in Nat
    BY <1>3
  <2>. QED
    BY <1>5, <2>1, <2>2
<1>7. \A m, n \in I : c[m] = c[n] => m = n
  <2>1. \A m, n \in I : c[m] = c[n] => ~(c[m] < c[n]) /\ ~(c[n] < c[m])
    BY <1>5
  <2>. HIDE DEF I
  <2>. QED
    BY <1>1, <1>6, <2>1
<1>8. \A k \in I : \E n \in I : c[n] = k
  <2>. HIDE DEF I
  <2>1. c \in Injection(I, I)
    BY <1>5, <1>7 DEF Injection, IsInjective
  <2>2. c \in Surjection(I, I)
    BY <1>2, <2>1, FS_Injection
  <2>. QED
    BY <2>2 DEF Surjection
<1>9. ASSUME NEW k \in I
      PROVE  rank[k] \in I /\ c[rank[k]] = k
  <2>1. PICK n \in I : c[n] = k
    BY <1>8
  <2>2. Cardinality(above[n]) = k - 1
    <3>1. PICK q \in Nat : q = Cardinality(above[n])
      BY <1>3
    <3>2. q + 1 = k
      BY <1>5, <2>1, <3>1
    <3>. QED
      BY <3>1, <3>2
  <2>3. rank[k] \in I /\ Cardinality(above[rank[k]]) = k - 1
    BY <2>2
  <2>. QED
    BY <1>5, <2>3
<1>10. rank \in [I -> I]
  <2>. HIDE DEF I
  <2>1. DOMAIN rank = I /\ rank = [k \in I |-> rank[k]]
    BY DEF I
  <2>. QED
    BY <1>9, <2>1
<1>11. \A n \in I : \E k \in I : rank[k] = n
  <2>. SUFFICES ASSUME NEW n \in I PROVE \E k \in I : rank[k] = n
    OBVIOUS
  <2>. HIDE DEF I
  <2>1. PICK k \in I : k = c[n]
    BY <1>5
  <2>2. rank[k] \in I /\ c[rank[k]] = c[n]
    BY <1>9, <2>1
  <2>3. rank[k] = n
    BY <1>7, <2>2
  <2>. QED
    BY <2>3
<1>12. ASSUME NEW j \in I, NEW k \in I, j < k
       PROVE  rank[j] \in above[rank[k]]
  <2>1. rank[j] \in I /\ rank[k] \in I /\ c[rank[j]] = j /\ c[rank[k]] = k
    BY <1>9
  <2>2. PICK a \in I, b \in I : a = rank[j] /\ b = rank[k] /\ c[a] = j /\ c[b] = k
    BY <2>1
  <2>3. a # b /\ ~(c[b] < c[a])
    BY <1>12, <2>2
  <2>4. b \notin above[a]
    BY <1>6, <2>3
  <2>. QED
    BY <1>1, <2>2, <2>3, <2>4
<1>. QED
  BY <1>10, <1>11, <1>12 DEF IsRankedBy

\* What a fit came to is ranked in such an order.
LEMMA RanksAreAnOrder ==
  ASSUME NEW M \in Nat, NEW all, DOMAIN all = 1 .. M,
         \A k \in 1 .. M : all[k].verdict \in Verdicts
  PROVE  IsOrder([n \in 1 .. M |-> {m \in 1 .. M : RanksAbove(m, n, all)}], M)
<1>. DEFINE p == [k \in 1 .. M |-> L_P(all[k])]
            above == [n \in 1 .. M |-> {m \in 1 .. M : RanksAbove(m, n, all)}]
            HasNone(k) == p[k] = NA
<1>1. \A k \in 1 .. M : HasNone(k) \/ p[k] \in Int
  <2>1. \A k \in 1 .. M : all[k].verdict.level \in Int
    BY BatchAssumption
  <2>. QED
    BY <2>1 DEF L_P
<1>2. \A m, n \in 1 .. M : RanksAbove(m, n, all) <=>
        \/ ~HasNone(m) /\ HasNone(n)
        \/ HasNone(m) /\ HasNone(n) /\ m < n
        \/ ~HasNone(m) /\ ~HasNone(n) /\ (p[m] > p[n] \/ (p[m] = p[n] /\ m < n))
  BY DEF RanksAbove
<1>. HIDE DEF p, HasNone
<1>3. \A m, n \in 1 .. M : m \in above[n] <=> RanksAbove(m, n, all)
  OBVIOUS
<1>4. above \in [1 .. M -> SUBSET (1 .. M)]
  OBVIOUS
<1>. HIDE DEF above
<1>5. \A n \in 1 .. M : n \notin above[n]
  BY <1>1, <1>2, <1>3
<1>6. ASSUME NEW n \in 1 .. M, NEW m \in above[n], NEW l \in above[m]
      PROVE  l \in above[n]
  <2>1. m \in 1 .. M /\ l \in 1 .. M
    BY <1>4
  <2>2. RanksAbove(m, n, all) /\ RanksAbove(l, m, all)
    BY <1>3, <2>1
  <2>3. RanksAbove(l, n, all)
    BY <1>1, <1>2, <2>1, <2>2
  <2>. QED
    BY <1>3, <2>1, <2>3
<1>7. \A m, n \in 1 .. M : m = n \/ m \in above[n] \/ n \in above[m]
  BY <1>1, <1>2, <1>3
<1>8. IsOrder(above, M)
  BY <1>4, <1>5, <1>6, <1>7 DEF IsOrder
<1>. QED
  BY <1>8 DEF above

\* Every candidate once, each after those above it, in the table and beside it.
IsBestFirst(rank, all, M) ==
  /\ \A n \in 1 .. M : \E k \in 1 .. M : rank[k] = n
  /\ \A j, k \in 1 .. M : j < k => RanksAbove(rank[j], rank[k], all)
  /\ Ranked(all) =
       [table |-> [n \in 1 .. M |-> [model |-> all[rank[n]].model, L_P |-> L_P(all[rank[n]])]],
        fits |-> [n \in 1 .. M |-> IF Converged(all[rank[n]]) THEN all[rank[n]] ELSE NA]]

\* The table and the fits of a comparison of candidates whose fits came to something.
LEMMA RankedIsInOrder ==
  ASSUME NEW M \in Nat, NEW all, DOMAIN all = 1 .. M,
         \A k \in 1 .. M : all[k].verdict \in Verdicts
  PROVE  \E rank \in [1 .. M -> 1 .. M] : IsBestFirst(rank, all, M)
<1>. DEFINE above == [n \in 1 .. M |-> {m \in 1 .. M : RanksAbove(m, n, all)}]
            rank == Ranking(all)
<1>1. /\ rank = [k \in 1 .. M |-> rank[k]]
      /\ \A k \in 1 .. M : \A n \in 1 .. M : Cardinality(above[n]) = k - 1 =>
           rank[k] \in 1 .. M /\ Cardinality(above[rank[k]]) = k - 1
  <2>. DEFINE count(n) == Cardinality({m \in DOMAIN all : RanksAbove(m, n, all)})
  <2>1. \A n \in 1 .. M : Cardinality(above[n]) = count(n)
    OBVIOUS
  <2>2. rank = [k \in DOMAIN all |-> CHOOSE n \in DOMAIN all : count(n) = k - 1]
    BY DEF Ranking
  <2>. HIDE DEF above, rank, count
  <2>. QED
    BY <2>1, <2>2
<1>2. IsRankedBy(rank, above, M)
  <2>1. IsOrder(above, M)
    BY RanksAreAnOrder
  <2>. HIDE DEF above, rank
  <2>. QED
    BY <1>1, <2>1, CountingRanks
<1>3. Ranked(all) =
        [table |-> [n \in 1 .. M |-> [model |-> all[rank[n]].model, L_P |-> L_P(all[rank[n]])]],
         fits |-> [n \in 1 .. M |-> IF Converged(all[rank[n]]) THEN all[rank[n]] ELSE NA]]
  BY DEF Ranked
<1>4. /\ rank \in [1 .. M -> 1 .. M]
      /\ \A n \in 1 .. M : \E k \in 1 .. M : rank[k] = n
      /\ \A j, k \in 1 .. M : j < k => rank[j] \in above[rank[k]]
  <2>. HIDE DEF above, rank
  <2>. QED
    BY <1>2 DEF IsRankedBy
<1>5. \A j, k \in 1 .. M : j < k => RanksAbove(rank[j], rank[k], all)
  <2>1. \A m, n \in 1 .. M : m \in above[n] => RanksAbove(m, n, all)
    OBVIOUS
  <2>. HIDE DEF above, rank
  <2>. QED
    BY <1>4, <2>1
<1>. HIDE DEF rank, above
<1>. QED
  BY <1>3, <1>4, <1>5 DEF IsBestFirst

\* A comparison that has been answered lists its candidates best first, each with its
\* own fit beside it.
THEOREM ComparisonsRankBestFirst == BatchSpec => []BestFitComesFirst
<1>1. ASSUME BatchInv, NEW i \in Analyses, answers[i] # NA, answers[i].kind = "comparison"
      PROVE  LET table == answers[i].ranked.table
                 beside == answers[i].ranked.fits
                 rows == DOMAIN table
             IN /\ {table[n].model : n \in rows} = ToSet(Models(i)) /\ Len(table) = Len(Models(i))
                /\ \A n \in rows :
                     IF verdicts[table[n].model].converged
                     THEN beside[n].model = table[n].model
                          /\ table[n].L_P = verdicts[table[n].model].level
                     ELSE beside[n] = NA /\ table[n].L_P = NA
                /\ \A m, n \in rows : m < n /\ table[n].L_P # NA =>
                     table[m].L_P # NA /\ table[m].L_P >= table[n].L_P
  <2>1. answers[i] = Lone(i) /\ HasRun(i) /\ PlanningInv
        /\ \A m \in DOMAIN verdicts : verdicts[m] \in Verdicts
    BY <1>1 DEF BatchInv, AnswersInv, IsAnswered
  <2>. DEFINE z == IF Source(Elements[i], "Z") = "none" THEN Specs(i)[1] ELSE Source(Elements[i], "Z")
              all == [k \in DOMAIN Models(i) |->
                        [model |-> Models(i)[k], Z |-> z, verdict |-> verdicts[Models(i)[k]]]]
  <2>2. Lone(i) = Finalised(Elements[i].operation, Specs(i), all)
    BY DEF Lone
  <2>3. Elements[i].operation \in {"aev", "fit", "compare_models"}
    <3>1. Elements[i] \in ElementType
      BY <2>1, TheAnalyses
    <3>. QED
      BY <3>1 DEF ElementType
  <2>. HIDE DEF z
  <2>4. answers[i].ranked = Ranked(all)
    <3>1. PICK operation : operation = Elements[i].operation
      OBVIOUS
    <3>2. answers[i] = Finalised(operation, Specs(i), all)
      BY <2>1, <2>2, <3>1
    <3>. HIDE DEF all
    <3>3. operation # "aev"
      <4>. SUFFICES ASSUME operation = "aev" PROVE FALSE
        OBVIOUS
      <4>1. answers[i].kind = "aev"
        BY <3>2 DEF Finalised
      <4>. QED
        BY <1>1, <4>1
    <3>4. operation # "fit"
      <4>. SUFFICES ASSUME operation = "fit" PROVE FALSE
        OBVIOUS
      <4>1. answers[i].kind \in {"fit", "fit_failure"}
        BY <3>2 DEF Finalised
      <4>. QED
        BY <1>1, <4>1
    <3>5. operation = "compare_models"
      BY <2>3, <3>1, <3>3, <3>4
    <3>. QED
      BY <3>2, <3>5 DEF Finalised
  <2>5. PICK M \in Nat : M = Len(Models(i)) /\ DOMAIN Models(i) = 1 .. M
    <3>1. PICK M \in Nat : Models(i) = [k \in 1 .. M |-> <<i, k>>]
      <4>1. Elements[i].size \in Nat
        BY <2>1, TheAnalyses DEF ElementType
      <4>. QED
        BY <4>1 DEF Models
    <3>2. Models(i) \in [1 .. M -> {i} \X Nat]
      BY <3>1
    <3>3. Models(i) \in Seq({i} \X Nat) /\ Len(Models(i)) = M
      BY <3>2
    <3>. QED
      BY <3>1, <3>3
  <2>6. /\ DOMAIN all = 1 .. M
        /\ \A k \in 1 .. M : /\ all[k].model = Models(i)[k]
                             /\ all[k].verdict = verdicts[Models(i)[k]]
                             /\ all[k].verdict \in Verdicts
    BY <2>1, <2>5 DEF HasRun
  <2>. HIDE DEF all
  <2>7. PICK rank \in [1 .. M -> 1 .. M] : IsBestFirst(rank, all, M)
    BY <2>6, RankedIsInOrder
  <2>7a. /\ \A n \in 1 .. M : \E k \in 1 .. M : rank[k] = n
         /\ \A j, k \in 1 .. M : j < k => RanksAbove(rank[j], rank[k], all)
    BY <2>7 DEF IsBestFirst
  <2>8. PICK table : table = answers[i].ranked.table
    OBVIOUS
  <2>9. PICK beside : beside = answers[i].ranked.fits
    OBVIOUS
  <2>10. /\ table = [n \in 1 .. M |-> [model |-> all[rank[n]].model, L_P |-> L_P(all[rank[n]])]]
         /\ beside = [n \in 1 .. M |-> IF Converged(all[rank[n]]) THEN all[rank[n]] ELSE NA]
    <3>1. PICK T : T = [n \in 1 .. M |-> [model |-> all[rank[n]].model, L_P |-> L_P(all[rank[n]])]]
      OBVIOUS
    <3>2. PICK F : F = [n \in 1 .. M |-> IF Converged(all[rank[n]]) THEN all[rank[n]] ELSE NA]
      OBVIOUS
    <3>3. answers[i].ranked = [table |-> T, fits |-> F]
      BY <2>4, <2>7, <3>1, <3>2 DEF IsBestFirst
    <3>. QED
      BY <2>8, <2>9, <3>1, <3>2, <3>3
  <2>11. DOMAIN table = 1 .. M /\ Len(table) = M
    BY <2>10
  <2>12. ASSUME NEW n \in 1 .. M
         PROVE  /\ rank[n] \in 1 .. M /\ table[n].model = Models(i)[rank[n]]
                /\ table[n].L_P = L_P(all[rank[n]])
                /\ beside[n] = IF Converged(all[rank[n]]) THEN all[rank[n]] ELSE NA
    <3>1. rank[n] \in 1 .. M
      BY <2>7
    <3>. QED
      BY <2>6, <2>10, <3>1
  <2>13. {table[n].model : n \in DOMAIN table} = ToSet(Models(i))
    <3>1. ToSet(Models(i)) = {Models(i)[k] : k \in 1 .. M}
      BY <2>5 DEF ToSet
    <3>2. \A n \in 1 .. M : \E k \in 1 .. M : table[n].model = Models(i)[k]
      BY <2>12
    <3>3. \A k \in 1 .. M : \E n \in 1 .. M : table[n].model = Models(i)[k]
      <4>. SUFFICES ASSUME NEW k \in 1 .. M
                    PROVE  \E n \in 1 .. M : table[n].model = Models(i)[k]
        OBVIOUS
      <4>1. PICK n \in 1 .. M : rank[n] = k
        BY <2>7a
      <4>. QED
        BY <2>12, <4>1
    <3>4. {table[n].model : n \in 1 .. M} = {Models(i)[k] : k \in 1 .. M}
      <4>. DEFINE A == {table[n].model : n \in 1 .. M}
                  B == {Models(i)[k] : k \in 1 .. M}
      <4>1. ASSUME NEW x \in A PROVE x \in B
        BY <3>2
      <4>2. ASSUME NEW x \in B PROVE x \in A
        BY <3>3
      <4>3. A = B
        <5>. HIDE DEF A, B
        <5>. QED
          BY <4>1, <4>2
      <4>. QED
        BY <4>3
    <3>. QED
      BY <2>11, <3>1, <3>4
  <2>14. ASSUME NEW n \in 1 .. M
         PROVE  IF verdicts[table[n].model].converged
                THEN beside[n].model = table[n].model
                     /\ table[n].L_P = verdicts[table[n].model].level
                ELSE beside[n] = NA /\ table[n].L_P = NA
    <3>1. all[rank[n]].model = table[n].model /\ all[rank[n]].verdict = verdicts[table[n].model]
      BY <2>6, <2>12
    <3>. QED
      BY <2>12, <3>1 DEF L_P, Converged
  <2>15. ASSUME NEW m \in 1 .. M, NEW n \in 1 .. M, m < n, table[n].L_P # NA
         PROVE  table[m].L_P # NA /\ table[m].L_P >= table[n].L_P
    <3>1. RanksAbove(rank[m], rank[n], all)
      BY <2>15, <2>7a
    <3>2. PICK a, b : a = table[m].L_P /\ b = table[n].L_P
      OBVIOUS
    <3>3. a = L_P(all[rank[m]]) /\ b = L_P(all[rank[n]]) /\ b # NA
      BY <2>12, <2>15, <3>2
    <3>4. a # NA /\ (a > b \/ a = b)
      BY <3>1, <3>3 DEF RanksAbove
    <3>5. a \in Int /\ b \in Int
      <4>1. all[rank[m]].verdict.level \in Int /\ all[rank[n]].verdict.level \in Int
        BY <2>6, <2>12, BatchAssumption
      <4>. QED
        BY <3>3, <3>4, <4>1 DEF L_P
    <3>. QED
      BY <3>2, <3>4, <3>5
  <2>. QED
    BY <2>5, <2>8, <2>9, <2>11, <2>13, <2>14, <2>15
<1>2. ASSUME BatchInv PROVE BestFitComesFirst
  BY <1>1, <1>2 DEF BestFitComesFirst
<1>. QED
  BY <1>2, BatchInvariant, PTL
=============================================================================
