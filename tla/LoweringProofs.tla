--------------------------- MODULE LoweringProofs ---------------------------
(***************************************************************************)
(* Proofs about lowering, for every tree, include and exposure.  Everything  *)
(* lowering does to a block is to add an operand that is bound to something  *)
(* or an operand and the instruction that writes it, whose arguments are     *)
(* older; so the order of the operands is the order of the writes.           *)
(***************************************************************************)
EXTENDS Lowering, TLAPS

-----------------------------------------------------------------------------
(* Sequences of anything.                                                   *)

IsSequence(s) == s \in Seq({s[k] : k \in DOMAIN s})

\* Append keeps what a sequence holds and puts one more at its end.
LEMMA AppendToSequence ==
  ASSUME NEW s, IsSequence(s), NEW e
  PROVE  /\ Len(s) \in Nat /\ DOMAIN s = 1 .. Len(s)
         /\ IsSequence(Append(s, e))
         /\ Len(Append(s, e)) = Len(s) + 1
         /\ DOMAIN Append(s, e) = 1 .. Len(s) + 1
         /\ \A k \in 1 .. Len(s) : Append(s, e)[k] = s[k]
         /\ Append(s, e)[Len(s) + 1] = e
<1>. DEFINE S == {s[k] : k \in DOMAIN s}
            T == S \union {e}
<1>1. s \in Seq(S)
  BY DEF IsSequence
<1>2. s \in Seq(T) /\ Len(s) \in Nat /\ DOMAIN s = 1 .. Len(s)
  BY <1>1
<1>3. /\ Append(s, e) \in Seq(T) /\ Len(Append(s, e)) = Len(s) + 1
      /\ DOMAIN Append(s, e) = 1 .. Len(s) + 1
      /\ \A k \in 1 .. Len(s) : Append(s, e)[k] = s[k]
      /\ Append(s, e)[Len(s) + 1] = e
  BY <1>2
<1>4. \A k \in 1 .. Len(s) + 1 : Append(s, e)[k] \in {Append(s, e)[j] : j \in DOMAIN Append(s, e)}
  BY <1>3
<1>5. Append(s, e) \in Seq({Append(s, e)[j] : j \in DOMAIN Append(s, e)})
  BY <1>2, <1>3, <1>4
<1>. QED
  BY <1>2, <1>3, <1>5 DEF IsSequence

-----------------------------------------------------------------------------
(* A block under construction.                                              *)

Shape(c) ==
  /\ c = [operands |-> c.operands, prologue |-> c.prologue, body |-> c.body,
          outputs |-> c.outputs, grid |-> c.grid]
  /\ IsSequence(c.operands) /\ IsSequence(c.prologue) /\ IsSequence(c.body)

IsTemp(c, o) == c.operands[o].from = "temp"

\* An instruction writes a temporary and reads only what is older.
IsEmitted(c, i) ==
  /\ i.result \in 1 .. Newest(c)
  /\ IsTemp(c, i.result)
  /\ \A k \in DOMAIN i.args : i.args[k] \in 1 .. i.result - 1

Increasing(s) == \A j, k \in DOMAIN s : j < k => s[j].result < s[k].result

WrittenIn(s, o) == \E k \in DOMAIN s : s[k].result = o

\* Operands are written in the order they were added, the prologue's first, and
\* each is written or bound, a time vector never bound.
Sound(c) ==
  /\ Shape(c)
  /\ \A k \in DOMAIN c.prologue : IsEmitted(c, c.prologue[k])
  /\ \A k \in DOMAIN c.body : IsEmitted(c, c.body[k])
  /\ Increasing(c.prologue) /\ Increasing(c.body)
  /\ \A j \in DOMAIN c.prologue, k \in DOMAIN c.body : c.prologue[j].result < c.body[k].result
  /\ \A o \in 1 .. Newest(c) :
       /\ IsTemp(c, o) => WrittenIn(c.prologue, o) \/ WrittenIn(c.body, o)
       /\ ~IsTemp(c, o) => ~c.operands[o].vector

\* One block after another, of the same calculation and stage.
Grown(c, d) ==
  /\ Sound(d)
  /\ Newest(c) <= Newest(d)
  /\ \A o \in 1 .. Newest(c) : d.operands[o] = c.operands[o]
  /\ d.outputs = c.outputs /\ d.grid = c.grid
  /\ IF stage = "include" THEN d.body = c.body ELSE d.prologue = c.prologue

\* What was added is no time vector.
ScalarGrowth(c, d) == \A o \in Newest(c) + 1 .. Newest(d) : ~d.operands[o].vector

\* The newest operand of a sound block is its number of operands.
LEMMA NewestIsNat ==
  ASSUME NEW c, Sound(c)
  PROVE  Newest(c) \in Nat /\ DOMAIN c.operands = 1 .. Newest(c)
<1>1. IsSequence(c.operands)
  BY DEF Sound, Shape
<1>. QED
  BY <1>1 DEF IsSequence, Newest

\* A block is grown from itself.
LEMMA GrownItself ==
  ASSUME NEW c, Sound(c)
  PROVE  Grown(c, c) /\ ScalarGrowth(c, c)
BY NewestIsNat DEF Grown, ScalarGrowth

\* Growth upon growth is growth.
LEMMA GrowthComposes ==
  ASSUME NEW c, NEW d, NEW e, Sound(c), Grown(c, d), Grown(d, e)
  PROVE  /\ Grown(c, e)
         /\ ScalarGrowth(c, d) /\ ScalarGrowth(d, e) => ScalarGrowth(c, e)
<1>1. Newest(c) \in Nat /\ Newest(d) \in Nat /\ Newest(e) \in Nat
  BY NewestIsNat DEF Grown
<1>2. Newest(c) <= Newest(d) /\ Newest(d) <= Newest(e)
  BY DEF Grown
<1>3. Grown(c, e)
  <2>1. \A o \in 1 .. Newest(c) : e.operands[o] = c.operands[o]
    BY <1>1, <1>2 DEF Grown
  <2>. QED
    BY <1>1, <1>2, <2>1 DEF Grown
<1>4. ASSUME ScalarGrowth(c, d), ScalarGrowth(d, e)
      PROVE  ScalarGrowth(c, e)
  <2>1. \A o \in 1 .. Newest(d) : e.operands[o] = d.operands[o]
    BY DEF Grown
  <2>. SUFFICES ASSUME NEW o \in Newest(c) + 1 .. Newest(e)
                PROVE  ~e.operands[o].vector
    BY DEF ScalarGrowth
  <2>2. CASE o <= Newest(d)
    BY <1>1, <1>2, <1>4, <2>1, <2>2 DEF ScalarGrowth
  <2>3. CASE o > Newest(d)
    BY <1>1, <1>2, <1>4, <2>3 DEF ScalarGrowth
  <2>. QED
    BY <1>1, <2>2, <2>3
<1>. QED
  BY <1>3, <1>4

\* An operand that is bound to something.
LEMMA AddGrows ==
  ASSUME NEW c, Sound(c), NEW o, o.from # "temp", ~o.vector
  PROVE  /\ Grown(c, Add(c, o)) /\ ScalarGrowth(c, Add(c, o))
         /\ Newest(Add(c, o)) = Newest(c) + 1
         /\ Add(c, o).operands[Newest(c) + 1] = o
<1>. DEFINE d == Add(c, o)
            n == Newest(c)
<1>1. Shape(c) /\ IsSequence(c.operands)
  BY DEF Sound, Shape
<1>2. d = [operands |-> Append(c.operands, o), prologue |-> c.prologue, body |-> c.body,
           outputs |-> c.outputs, grid |-> c.grid]
  BY <1>1 DEF Shape, Add
<1>a. /\ d.prologue = c.prologue /\ d.body = c.body
      /\ d.outputs = c.outputs /\ d.grid = c.grid
  BY <1>2
<1>. HIDE DEF d
<1>3. /\ n \in Nat /\ Newest(d) = n + 1 /\ IsSequence(d.operands)
      /\ \A k \in 1 .. n : d.operands[k] = c.operands[k]
      /\ d.operands[n + 1] = o
  BY <1>1, <1>2, AppendToSequence DEF Newest
<1>4. Shape(d)
  BY <1>1, <1>2, <1>3 DEF Shape
<1>5. ASSUME NEW i, IsEmitted(c, i)
      PROVE  IsEmitted(d, i)
  BY <1>3, <1>5 DEF IsEmitted, IsTemp
<1>6. \A k \in 1 .. n + 1 :
        /\ IsTemp(d, k) => WrittenIn(d.prologue, k) \/ WrittenIn(d.body, k)
        /\ ~IsTemp(d, k) => ~d.operands[k].vector
  <2>. SUFFICES ASSUME NEW k \in 1 .. n + 1
                PROVE  /\ IsTemp(d, k) => WrittenIn(d.prologue, k) \/ WrittenIn(d.body, k)
                       /\ ~IsTemp(d, k) => ~d.operands[k].vector
    OBVIOUS
  <2>1. CASE k \in 1 .. n
    BY <1>a, <1>3, <2>1 DEF Sound, IsTemp, WrittenIn
  <2>2. CASE k = n + 1
    BY <1>3, <2>2 DEF IsTemp
  <2>. QED
    BY <1>3, <2>1, <2>2
<1>7. Sound(d)
  BY <1>a, <1>3, <1>4, <1>5, <1>6 DEF Sound
<1>8. Grown(c, d)
  BY <1>a, <1>3, <1>7 DEF Grown
<1>9. ScalarGrowth(c, d)
  BY <1>3 DEF ScalarGrowth
<1>. QED
  BY <1>3, <1>8, <1>9 DEF d

\* A sequence of instructions over n operands to which the writer of the next
\* operand is added stays in order.
LEMMA EmittedLast ==
  ASSUME NEW s, IsSequence(s), NEW n \in Nat, NEW i, i.result = n + 1,
         Increasing(s), \A k \in DOMAIN s : s[k].result \in 1 .. n
  PROVE  /\ IsSequence(Append(s, i)) /\ Increasing(Append(s, i))
         /\ \A k \in DOMAIN Append(s, i) :
              Append(s, i)[k] = i \/ \E j \in DOMAIN s : Append(s, i)[k] = s[j]
         /\ \A o \in 1 .. n : WrittenIn(s, o) => WrittenIn(Append(s, i), o)
         /\ WrittenIn(Append(s, i), n + 1)
<1>. DEFINE t == Append(s, i)
            m == Len(s)
<1>1. /\ m \in Nat /\ DOMAIN s = 1 .. m /\ DOMAIN t = 1 .. m + 1
      /\ IsSequence(t) /\ t[m + 1] = i
      /\ \A k \in 1 .. m : t[k] = s[k]
  BY AppendToSequence
<1>. HIDE DEF t, m
<1>2. Increasing(t)
  <2>. SUFFICES ASSUME NEW j \in 1 .. m + 1, NEW k \in 1 .. m + 1, j < k
                PROVE  t[j].result < t[k].result
    BY <1>1 DEF Increasing
  <2>1. j \in 1 .. m /\ t[j] = s[j] /\ s[j].result \in 1 .. n
    BY <1>1
  <2>2. CASE k \in 1 .. m
    BY <1>1, <2>1, <2>2 DEF Increasing
  <2>3. CASE k = m + 1
    BY <1>1, <2>1, <2>3
  <2>. QED
    BY <1>1, <2>2, <2>3
<1>3. \A k \in DOMAIN t : t[k] = i \/ \E j \in DOMAIN s : t[k] = s[j]
  BY <1>1
<1>4. \A o \in 1 .. n : WrittenIn(s, o) => WrittenIn(t, o)
  BY <1>1 DEF WrittenIn
<1>5. WrittenIn(t, n + 1)
  BY <1>1 DEF WrittenIn
<1>. QED
  BY <1>1, <1>2, <1>3, <1>4, <1>5 DEF t

\* An operand and the instruction that writes it.  In the prologue there is no
\* body yet.
LEMMA ComputeGrows ==
  ASSUME NEW c, Sound(c), NEW op, NEW o, o.from = "temp", NEW args,
         \A k \in DOMAIN args : args[k] \in 1 .. Newest(c),
         stage = "include" => c.body = <<>>
  PROVE  /\ Grown(c, Compute(c, op, o, args))
         /\ ~o.vector => ScalarGrowth(c, Compute(c, op, o, args))
         /\ Newest(Compute(c, op, o, args)) = Newest(c) + 1
         /\ Compute(c, op, o, args).operands[Newest(c) + 1] = o
<1>. DEFINE d == Compute(c, op, o, args)
            n == Newest(c)
            i == [op |-> op, result |-> n + 1, args |-> args]
<1>1. Shape(c)
  BY DEF Sound
<1>2. d = [operands |-> Append(c.operands, o),
           prologue |-> IF stage = "include" THEN Append(c.prologue, i) ELSE c.prologue,
           body |-> IF stage = "include" THEN c.body ELSE Append(c.body, i),
           outputs |-> c.outputs, grid |-> c.grid]
  <2>. DEFINE a == Add(c, o)
  <2>1. a = [operands |-> Append(c.operands, o), prologue |-> c.prologue,
             body |-> c.body, outputs |-> c.outputs, grid |-> c.grid]
    BY <1>1 DEF Shape, Add
  <2>2. d = Emit(a, i)
    BY DEF Compute
  <2>. HIDE DEF a, d, i
  <2>3. CASE stage = "include"
    <3>1. d = [a EXCEPT !.prologue = Append(@, i)]
      BY <2>2, <2>3 DEF Emit
    <3>. QED
      BY <2>1, <2>3, <3>1
  <2>4. CASE stage # "include"
    <3>1. d = [a EXCEPT !.body = Append(@, i)]
      BY <2>2, <2>4 DEF Emit
    <3>. QED
      BY <2>1, <2>4, <3>1
  <2>. QED
    BY <2>3, <2>4
<1>3. /\ d.prologue = IF stage = "include" THEN Append(c.prologue, i) ELSE c.prologue
      /\ d.body = IF stage = "include" THEN c.body ELSE Append(c.body, i)
      /\ d.outputs = c.outputs /\ d.grid = c.grid
  BY <1>2
<1>. HIDE DEF d
<1>4. /\ n \in Nat /\ Newest(d) = n + 1 /\ IsSequence(d.operands)
      /\ \A k \in 1 .. n : d.operands[k] = c.operands[k]
      /\ d.operands[n + 1] = o
  BY <1>1, <1>2, AppendToSequence DEF Newest, Shape
<1>5. i.result = n + 1 /\ i.args = args
  OBVIOUS
<1>. HIDE DEF i, n
<1>6. \A j : IsEmitted(c, j) => IsEmitted(d, j) /\ j.result \in 1 .. n
  BY <1>4 DEF IsEmitted, IsTemp, n
<1>7. IsEmitted(d, i)
  BY <1>4, <1>5 DEF IsEmitted, IsTemp, n
<1>8. /\ \A k \in DOMAIN c.prologue : c.prologue[k].result \in 1 .. n
      /\ \A k \in DOMAIN c.body : c.body[k].result \in 1 .. n
  BY <1>6 DEF Sound
<1>9. Sound(d)
  <2>1. CASE stage = "include"
    <3>1. d.prologue = Append(c.prologue, i) /\ d.body = <<>>
      BY <1>3, <2>1
    <3>2. /\ IsSequence(d.prologue) /\ Increasing(d.prologue)
          /\ \A k \in DOMAIN d.prologue :
               d.prologue[k] = i \/ \E j \in DOMAIN c.prologue : d.prologue[k] = c.prologue[j]
          /\ \A v \in 1 .. n : WrittenIn(c.prologue, v) => WrittenIn(d.prologue, v)
          /\ WrittenIn(d.prologue, n + 1)
      BY <1>1, <1>4, <1>5, <1>8, <3>1, EmittedLast DEF Sound, Shape
    <3>3. Shape(d)
      BY <1>1, <1>2, <1>3, <1>4, <2>1, <3>1, <3>2 DEF Shape
    <3>4. \A k \in DOMAIN d.prologue : IsEmitted(d, d.prologue[k])
      BY <1>6, <1>7, <3>2 DEF Sound
    <3>5. \A v \in 1 .. n + 1 :
            /\ IsTemp(d, v) => WrittenIn(d.prologue, v) \/ WrittenIn(d.body, v)
            /\ ~IsTemp(d, v) => ~d.operands[v].vector
      <4>. SUFFICES ASSUME NEW v \in 1 .. n + 1
                    PROVE  /\ IsTemp(d, v) => WrittenIn(d.prologue, v) \/ WrittenIn(d.body, v)
                           /\ ~IsTemp(d, v) => ~d.operands[v].vector
        OBVIOUS
      <4>1. CASE v \in 1 .. n
        <5>1. ~WrittenIn(c.body, v)
          BY <2>1 DEF WrittenIn
        <5>. QED
          BY <1>4, <3>2, <4>1, <5>1 DEF Sound, IsTemp, n
      <4>2. CASE v = n + 1
        BY <1>4, <3>2, <4>2 DEF IsTemp
      <4>. QED
        BY <1>4, <4>1, <4>2
    <3>6. DOMAIN d.body = {}
      BY <3>1
    <3>. QED
      BY <1>4, <3>2, <3>3, <3>4, <3>5, <3>6 DEF Sound, Increasing
  <2>2. CASE stage # "include"
    <3>1. d.prologue = c.prologue /\ d.body = Append(c.body, i)
      BY <1>3, <2>2
    <3>2. /\ IsSequence(d.body) /\ Increasing(d.body)
          /\ \A k \in DOMAIN d.body :
               d.body[k] = i \/ \E j \in DOMAIN c.body : d.body[k] = c.body[j]
          /\ \A v \in 1 .. n : WrittenIn(c.body, v) => WrittenIn(d.body, v)
          /\ WrittenIn(d.body, n + 1)
      BY <1>1, <1>4, <1>5, <1>8, <3>1, EmittedLast DEF Sound, Shape
    <3>3. Shape(d)
      BY <1>1, <1>2, <1>3, <1>4, <2>2, <3>1, <3>2 DEF Shape
    <3>4. /\ \A k \in DOMAIN d.prologue : IsEmitted(d, d.prologue[k])
          /\ \A k \in DOMAIN d.body : IsEmitted(d, d.body[k])
      BY <1>6, <1>7, <3>1, <3>2 DEF Sound
    <3>5. \A v \in 1 .. n + 1 :
            /\ IsTemp(d, v) => WrittenIn(d.prologue, v) \/ WrittenIn(d.body, v)
            /\ ~IsTemp(d, v) => ~d.operands[v].vector
      <4>. SUFFICES ASSUME NEW v \in 1 .. n + 1
                    PROVE  /\ IsTemp(d, v) => WrittenIn(d.prologue, v) \/ WrittenIn(d.body, v)
                           /\ ~IsTemp(d, v) => ~d.operands[v].vector
        OBVIOUS
      <4>1. CASE v \in 1 .. n
        BY <1>4, <3>1, <3>2, <4>1 DEF Sound, IsTemp, n
      <4>2. CASE v = n + 1
        BY <1>4, <3>2, <4>2 DEF IsTemp
      <4>. QED
        BY <1>4, <4>1, <4>2
    <3>6. \A j \in DOMAIN d.prologue, k \in DOMAIN d.body :
            d.prologue[j].result < d.body[k].result
      <4>. SUFFICES ASSUME NEW j \in DOMAIN c.prologue, NEW k \in DOMAIN d.body
                    PROVE  c.prologue[j].result < d.body[k].result
        BY <3>1
      <4>1. c.prologue[j].result \in 1 .. n
        BY <1>8
      <4>2. CASE d.body[k] = i
        BY <1>4, <1>5, <4>1, <4>2
      <4>3. CASE \E m \in DOMAIN c.body : d.body[k] = c.body[m]
        BY <4>3 DEF Sound
      <4>. QED
        BY <3>2, <4>2, <4>3
    <3>. QED
      BY <1>4, <3>1, <3>2, <3>3, <3>4, <3>5, <3>6 DEF Sound
  <2>. QED
    BY <2>1, <2>2
<1>10. Grown(c, d)
  BY <1>3, <1>4, <1>9 DEF Grown, n
<1>11. ~o.vector => ScalarGrowth(c, d)
  BY <1>4 DEF ScalarGrowth, n
<1>. QED
  BY <1>4, <1>10, <1>11 DEF d, n

-----------------------------------------------------------------------------
(* What the actions of lowering are made of.                                *)

\* A block that may be added to: while the include is resolved it has no body.
Open(c) == Sound(c) /\ (stage = "include" => c.body = <<>>)

\* Scalars were added and nothing else.
Extends(c, d) == Open(d) /\ Grown(c, d) /\ ScalarGrowth(c, d)

\* A block that has grown may be added to.
LEMMA GrownStaysOpen ==
  ASSUME NEW c, NEW d, Open(c), Grown(c, d)
  PROVE  Open(d)
BY DEF Open, Grown

\* Nothing need be added.
LEMMA ExtendsItself ==
  ASSUME NEW c, Open(c)
  PROVE  Extends(c, c)
BY GrownItself DEF Open, Extends

\* Scalars added upon scalars are scalars added.
LEMMA ExtendsComposes ==
  ASSUME NEW c, NEW d, NEW e, Open(c), Extends(c, d), Extends(d, e)
  PROVE  Extends(c, e)
BY GrowthComposes DEF Open, Extends

\* emitScalar: a scalar computed from operands there are.
LEMMA ScalarComputed ==
  ASSUME NEW c, Open(c), NEW op, NEW type, NEW args,
         \A k \in DOMAIN args : args[k] \in 1 .. Newest(c)
  PROVE  /\ Extends(c, Compute(c, op, Temp(type), args))
         /\ Newest(c) \in Nat
         /\ Newest(Compute(c, op, Temp(type), args)) = Newest(c) + 1
<1>1. Temp(type).from = "temp" /\ ~Temp(type).vector
  BY DEF Temp, Operand
<1>2. /\ Grown(c, Compute(c, op, Temp(type), args))
      /\ ScalarGrowth(c, Compute(c, op, Temp(type), args))
      /\ Newest(Compute(c, op, Temp(type), args)) = Newest(c) + 1
  BY <1>1, ComputeGrows DEF Open
<1>. QED
  BY <1>2, GrownStaysOpen, NewestIsNat DEF Extends, Open

\* Constants, columns and coefficients.
LEMMA BoundAdded ==
  ASSUME NEW c, Open(c), NEW type, NEW from, from # "temp", NEW of
  PROVE  /\ Extends(c, Add(c, Operand(type, FALSE, from, of)))
         /\ Newest(c) \in Nat
         /\ Newest(Add(c, Operand(type, FALSE, from, of))) = Newest(c) + 1
<1>. DEFINE o == Operand(type, FALSE, from, of)
<1>1. o.from # "temp" /\ ~o.vector
  BY DEF Operand
<1>. HIDE DEF o
<1>2. /\ Grown(c, Add(c, o)) /\ ScalarGrowth(c, Add(c, o))
      /\ Newest(Add(c, o)) = Newest(c) + 1
  BY <1>1, AddGrows DEF Open
<1>3. Extends(c, Add(c, o)) /\ Newest(c) \in Nat
  BY <1>2, GrownStaysOpen, NewestIsNat DEF Extends, Open
<1>. QED
  BY <1>2, <1>3 DEF o

\* A column stays bound.
LEMMA BoundStays ==
  ASSUME NEW c, NEW d, Sound(c), Grown(c, d), NEW column
  PROVE  BoundTo(c, column) \subseteq BoundTo(d, column)
<1>1. /\ Newest(c) \in Nat /\ DOMAIN c.operands = 1 .. Newest(c)
      /\ Newest(d) \in Nat /\ DOMAIN d.operands = 1 .. Newest(d)
  BY NewestIsNat DEF Grown
<1>2. /\ Newest(c) <= Newest(d)
      /\ \A o \in 1 .. Newest(c) : d.operands[o] = c.operands[o]
  BY DEF Grown
<1>. QED
  BY <1>1, <1>2 DEF BoundTo

\* The operand of a column is bound, not computed.
LEMMA ColumnIsBound ==
  ASSUME NEW c, Sound(c), NEW column, BoundTo(c, column) # {}
  PROVE  /\ ColumnOperand(c, column) \in 1 .. Newest(c)
         /\ ~IsTemp(c, ColumnOperand(c, column))
<1>1. ColumnOperand(c, column) \in BoundTo(c, column)
  BY DEF ColumnOperand
<1>. QED
  BY <1>1, NewestIsNat DEF BoundTo, IsTemp

\* columnOperand: afterwards the column is bound, whether it was before or not.
LEMMA ColumnAdded ==
  ASSUME NEW c, Open(c), NEW column, NEW type
  PROVE  /\ Extends(c, AddColumn(c, column, type))
         /\ BoundTo(AddColumn(c, column, type), column) # {}
<1>1. CASE BoundTo(c, column) = {}
  <2>. DEFINE o == Operand(type, FALSE, "column", column)
              d == Add(c, o)
  <2>1. AddColumn(c, column, type) = d
    BY <1>1 DEF AddColumn
  <2>2. /\ Extends(c, d) /\ Newest(c) \in Nat /\ Newest(d) = Newest(c) + 1
        /\ d.operands[Newest(c) + 1] = o
    <3>1. o.from # "temp" /\ ~o.vector
      BY DEF Operand
    <3>. HIDE DEF o
    <3>2. /\ Grown(c, d) /\ ScalarGrowth(c, d) /\ Newest(d) = Newest(c) + 1
          /\ d.operands[Newest(c) + 1] = o
      BY <3>1, AddGrows DEF Open
    <3>. QED
      BY <3>2, GrownStaysOpen, NewestIsNat DEF Extends, Open
  <2>3. DOMAIN d.operands = 1 .. Newest(d)
    BY <2>2, NewestIsNat DEF Extends, Open
  <2>4. o.from = "column" /\ o.of = column
    BY DEF Operand
  <2>. HIDE DEF d, o
  <2>5. Newest(c) + 1 \in BoundTo(d, column)
    BY <2>2, <2>3, <2>4 DEF BoundTo
  <2>. QED
    BY <2>1, <2>2, <2>5
<1>2. CASE BoundTo(c, column) # {}
  BY <1>2, ExtendsItself DEF AddColumn
<1>. QED
  BY <1>1, <1>2

\* The exposure's three columns.
LEMMA ExposureAdded ==
  ASSUME NEW c, Open(c)
  PROVE  /\ Extends(c, WithExposure(c))
         /\ \A column \in {exposure.start, exposure.end, exposure.died} :
              BoundTo(WithExposure(c), column) # {}
<1>. DEFINE d1 == AddColumn(c, exposure.start, "datey")
            d2 == AddColumn(d1, exposure.end, "datey")
            d3 == AddColumn(d2, exposure.died, "bool")
<1>1. Extends(c, d1) /\ BoundTo(d1, exposure.start) # {}
  BY ColumnAdded
<1>. HIDE DEF d1
<1>2. Extends(d1, d2) /\ BoundTo(d2, exposure.end) # {}
  BY <1>1, ColumnAdded DEF Extends
<1>. HIDE DEF d2
<1>3. Extends(d2, d3) /\ BoundTo(d3, exposure.died) # {}
  BY <1>2, ColumnAdded DEF Extends
<1>4. WithExposure(c) = d3
  BY DEF WithExposure, d1, d2
<1>. HIDE DEF d3
<1>5. Extends(c, d3)
  BY <1>1, <1>2, <1>3, ExtendsComposes
<1>6. BoundTo(d3, exposure.end) # {}
  BY <1>2, <1>3, BoundStays DEF Extends, Open
<1>7. BoundTo(d3, exposure.start) # {}
  BY <1>1, <1>2, <1>3, BoundStays DEF Extends, Open
<1>. QED
  BY <1>3, <1>4, <1>5, <1>6, <1>7

\* A number beside what was no number.
LEMMA WidenedAdded ==
  ASSUME NEW c, Open(c), NEW o \in 1 .. Newest(c)
  PROVE  /\ Extends(c, Widen(c, o))
         /\ Newest(c) \in Nat /\ Newest(Widen(c, o)) \in Nat
         /\ Widened(c, o) \in 1 .. Newest(Widen(c, o))
<1>0. Newest(c) \in Nat
  BY NewestIsNat DEF Open
<1>1. CASE NeedsWidening(c, o)
  <2>1. \A k \in DOMAIN <<o>> : <<o>>[k] \in 1 .. Newest(c)
    OBVIOUS
  <2>2. /\ Extends(c, Compute(c, "double", Temp("double"), <<o>>))
        /\ Newest(Compute(c, "double", Temp("double"), <<o>>)) = Newest(c) + 1
    BY <2>1, ScalarComputed
  <2>. QED
    BY <1>0, <1>1, <2>2 DEF Widen, Widened
<1>2. CASE ~NeedsWidening(c, o)
  BY <1>0, <1>2, ExtendsItself DEF Widen, Widened
<1>. QED
  BY <1>1, <1>2

\* conjoinIncluded: the flag it answers with is an operand.
LEMMA ConjunctionAdded ==
  ASSUME NEW c, Open(c), NEW flag \in 0 .. Newest(c), NEW condition \in 1 .. Newest(c)
  PROVE  /\ Extends(c, Conjoin(c, flag, condition))
         /\ Newest(c) \in Nat /\ Newest(Conjoin(c, flag, condition)) \in Nat
         /\ Conjoined(c, flag, condition) \in 1 .. Newest(Conjoin(c, flag, condition))
<1>0. Newest(c) \in Nat
  BY NewestIsNat DEF Open
<1>1. CASE flag = 0
  BY <1>0, <1>1, ExtendsItself DEF Conjoin, Conjoined
<1>2. CASE flag # 0
  <2>1. \A k \in DOMAIN <<flag, condition>> : <<flag, condition>>[k] \in 1 .. Newest(c)
    BY <1>0, <1>2
  <2>2. /\ Extends(c, Compute(c, "and", Temp("bool"), <<flag, condition>>))
        /\ Newest(Compute(c, "and", Temp("bool"), <<flag, condition>>)) = Newest(c) + 1
    BY <2>1, ScalarComputed
  <2>. QED
    BY <1>0, <1>2, <2>2 DEF Conjoin, Conjoined
<1>. QED
  BY <1>1, <1>2

-----------------------------------------------------------------------------
(* The inductive invariant.                                                 *)

\* Written before the body, or never.
IsEarly(c, o) == ~IsTemp(c, o) \/ WrittenIn(c.prologue, o)

\* The block is sound, its outputs are scalars, and the prologue and the grid stand
\* on nothing of the body.
Intact(c) ==
  /\ Sound(c)
  /\ c.outputs \in Seq(1 .. Newest(c))
  /\ \A k \in DOMAIN c.outputs : ~c.operands[c.outputs[k]].vector
  /\ \A k \in DOMAIN c.prologue :
       \A o \in 1 .. c.prologue[k].result : ~c.operands[o].vector
  /\ c.grid.bound =>
       \A o \in {c.grid.start, c.grid.end, c.grid.died}
                  \union ({c.grid.included} \ {0}) :
         o \in 1 .. Newest(c) /\ IsEarly(c, o)

BlockInv == Intact(code)

\* What is remembered names operands there are.
WalkInv ==
  /\ memo \in [DOMAIN tree.nodes -> 0 .. Newest(code)]
  /\ stack \in Seq([node : DOMAIN tree.nodes, got : Seq(1 .. Newest(code))])
  /\ place \in Nat
  /\ stage \in {"include", "roots"} => place > 0

\* Until the include is resolved nothing varies: no node of it, and no operand.
IncludeInv ==
  stage \in {"start", "include"} =>
    /\ code.body = <<>> /\ ~code.grid.bound
    /\ \A o \in 1 .. Newest(code) : ~code.operands[o].vector
    /\ \A k \in DOMAIN stack : stack[k].node \notin tags
    /\ stage = "start" => stack = <<>>

ClipInv ==
  /\ clip = [nu |-> clip.nu, tau |-> clip.tau, died |-> clip.died, included |-> clip.included]
  /\ stage = "include" =>
       /\ {clip.nu, clip.tau, clip.died} \subseteq 1 .. Newest(code)
       /\ clip.included \in 0 .. Newest(code)
       /\ BoundTo(code, exposure.end) # {}

LoweringInv == Lowerable /\ BlockInv /\ WalkInv /\ IncludeInv /\ ClipInv

\* What holds of the empty sequence.
LEMMA EmptySequence ==
  /\ Len(<<>>) = 0 /\ DOMAIN <<>> = {}
  /\ IsSequence(<<>>) /\ Increasing(<<>>)
  /\ \A S : <<>> \in Seq(S)
<1>1. Len(<<>>) = 0
  OBVIOUS
<1>2. \A S : <<>> \in Seq(S)
  OBVIOUS
<1>3. DOMAIN <<>> = {}
  OBVIOUS
<1>. QED
  BY <1>1, <1>2, <1>3 DEF IsSequence, Increasing

\* Lowering starts in the invariant.
LEMMA LoweringStarts ==
  ASSUME LoweringInit
  PROVE  LoweringInv
<1>1. /\ code.operands = <<>> /\ code.prologue = <<>> /\ code.body = <<>> /\ code.outputs = <<>>
      /\ ~code.grid.bound
      /\ code = [operands |-> code.operands, prologue |-> code.prologue, body |-> code.body,
                 outputs |-> code.outputs, grid |-> code.grid]
  BY DEF LoweringInit, NoCode, NoGrid
<1>2. /\ stage = "start" /\ stack = <<>> /\ place = 0 /\ clip = NoClip
      /\ memo = [id \in DOMAIN tree.nodes |-> 0] /\ Lowerable
  BY DEF LoweringInit
<1>3. Newest(code) = 0
  BY <1>1, EmptySequence DEF Newest
<1>4. \A o : o \notin 1 .. Newest(code)
  BY <1>3
<1>5. Sound(code)
  <2>1. Shape(code)
    BY <1>1, EmptySequence DEF Shape
  <2>. QED
    BY <1>1, <1>4, <2>1, EmptySequence DEF Sound
<1>6. BlockInv
  <2>1. code.outputs \in Seq(1 .. Newest(code))
    BY <1>1, EmptySequence
  <2>. QED
    BY <1>1, <1>5, <2>1, EmptySequence DEF BlockInv, Intact
<1>7. WalkInv
  <2>1. memo \in [DOMAIN tree.nodes -> 0 .. Newest(code)]
    BY <1>2, <1>3
  <2>2. stack \in Seq([node : DOMAIN tree.nodes, got : Seq(1 .. Newest(code))])
    BY <1>2, EmptySequence
  <2>. QED
    BY <1>2, <2>1, <2>2 DEF WalkInv
<1>8. IncludeInv
  BY <1>1, <1>2, <1>4, EmptySequence DEF IncludeInv
<1>9. ClipInv
  BY <1>2 DEF ClipInv, NoClip
<1>. QED
  BY <1>2, <1>6, <1>7, <1>8, <1>9 DEF LoweringInv

\* The elements of a sequence are in the set it is over.
LEMMA ElementsOfSeq ==
  ASSUME NEW S, NEW s \in Seq(S)
  PROVE  Len(s) \in Nat /\ DOMAIN s = 1 .. Len(s) /\ \A k \in DOMAIN s : s[k] \in S
OBVIOUS

\* A sequence over a set is one over a larger set.
LEMMA SeqOfMore ==
  ASSUME NEW S, NEW T, S \subseteq T, NEW s \in Seq(S)
  PROVE  s \in Seq(T)
<1>1. DOMAIN s = 1 .. Len(s) /\ Len(s) \in Nat /\ s = [k \in 1 .. Len(s) |-> s[k]]
  OBVIOUS
<1>2. \A k \in 1 .. Len(s) : s[k] \in T
  OBVIOUS
<1>. QED
  BY <1>1, <1>2

\* As a block grows, what names its operands goes on doing so.
LEMMA NamesStay ==
  ASSUME NEW n \in Nat, NEW m \in Nat, n <= m, NEW D
  PROVE  /\ \A f \in [D -> 0 .. n] : f \in [D -> 0 .. m]
         /\ \A s \in Seq(1 .. n) : s \in Seq(1 .. m)
         /\ \A s \in Seq([node : D, got : Seq(1 .. n)]) : s \in Seq([node : D, got : Seq(1 .. m)])
<1>1. 0 .. n \subseteq 0 .. m /\ 1 .. n \subseteq 1 .. m
  OBVIOUS
<1>2. \A s \in Seq(1 .. n) : s \in Seq(1 .. m)
  BY <1>1, SeqOfMore
<1>3. [node : D, got : Seq(1 .. n)] \subseteq [node : D, got : Seq(1 .. m)]
  BY <1>2
<1>4. \A s \in Seq([node : D, got : Seq(1 .. n)]) : s \in Seq([node : D, got : Seq(1 .. m)])
  BY <1>3, SeqOfMore
<1>5. \A f \in [D -> 0 .. n] : f \in [D -> 0 .. m]
  BY <1>1
<1>. QED
  BY <1>2, <1>4, <1>5

\* What is added to a block that is intact leaves it so.
LEMMA GrowthIsIntact ==
  ASSUME LoweringInv, stage # "start", NEW c, Grown(code, c),
         stage = "include" => ScalarGrowth(code, c)
  PROVE  /\ Intact(c)
         /\ Newest(code) \in Nat /\ Newest(c) \in Nat /\ Newest(code) <= Newest(c)
         /\ stage = "include" =>
              /\ c.body = <<>> /\ ~c.grid.bound
              /\ \A o \in 1 .. Newest(c) : ~c.operands[o].vector
              /\ BoundTo(c, exposure.end) # {}
<1>2. Sound(code) /\ Sound(c)
  BY DEF LoweringInv, BlockInv, Intact, Grown
<1>3. Newest(code) \in Nat /\ Newest(c) \in Nat /\ Newest(code) <= Newest(c)
  BY <1>2, NewestIsNat DEF Grown
<1>4. /\ \A o \in 1 .. Newest(code) : c.operands[o] = code.operands[o]
      /\ c.outputs = code.outputs /\ c.grid = code.grid
  BY DEF Grown
<1>5. ASSUME stage = "include"
      PROVE  /\ c.body = <<>> /\ ~c.grid.bound
             /\ \A o \in 1 .. Newest(c) : ~c.operands[o].vector
             /\ BoundTo(c, exposure.end) # {}
  <2>1. c.body = <<>> /\ ~c.grid.bound
    BY <1>4, <1>5 DEF LoweringInv, IncludeInv, Grown
  <2>2. \A o \in 1 .. Newest(code) : ~code.operands[o].vector
    BY <1>5 DEF LoweringInv, IncludeInv
  <2>3. \A o \in 1 .. Newest(c) : ~c.operands[o].vector
    <3>. SUFFICES ASSUME NEW o \in 1 .. Newest(c) PROVE ~c.operands[o].vector
      OBVIOUS
    <3>1. CASE o <= Newest(code)
      BY <1>3, <1>4, <2>2, <3>1
    <3>2. CASE o > Newest(code)
      BY <1>3, <1>5, <3>2 DEF ScalarGrowth
    <3>. QED
      BY <1>3, <3>1, <3>2
  <2>4. BoundTo(c, exposure.end) # {}
    BY <1>2, <1>5, BoundStays DEF LoweringInv, ClipInv
  <2>. QED
    BY <2>1, <2>3, <2>4
<1>6. Intact(c)
  <2>1. c.outputs \in Seq(1 .. Newest(c))
    BY <1>3, <1>4, NamesStay DEF LoweringInv, BlockInv, Intact
  <2>2. \A k \in DOMAIN c.outputs : ~c.operands[c.outputs[k]].vector
    <3>1. code.outputs \in Seq(1 .. Newest(code))
      BY DEF LoweringInv, BlockInv, Intact
    <3>2. \A k \in DOMAIN code.outputs : code.outputs[k] \in 1 .. Newest(code)
      BY <3>1, ElementsOfSeq
    <3>. QED
      BY <1>4, <3>2 DEF LoweringInv, BlockInv, Intact
  <2>3. \A k \in DOMAIN c.prologue :
          \A o \in 1 .. c.prologue[k].result : ~c.operands[o].vector
    <3>1. CASE stage = "include"
      <4>1. \A k \in DOMAIN c.prologue : c.prologue[k].result \in 1 .. Newest(c)
        BY <1>2 DEF Sound, IsEmitted
      <4>. QED
        BY <1>3, <1>5, <3>1, <4>1
    <3>2. CASE stage # "include"
      <4>1. c.prologue = code.prologue
        BY <3>2 DEF Grown
      <4>2. \A k \in DOMAIN code.prologue : code.prologue[k].result \in 1 .. Newest(code)
        BY <1>2 DEF Sound, IsEmitted
      <4>. QED
        BY <1>3, <1>4, <4>1, <4>2 DEF LoweringInv, BlockInv, Intact
    <3>. QED
      BY <3>1, <3>2
  <2>4. ASSUME c.grid.bound,
               NEW o \in {c.grid.start, c.grid.end, c.grid.died}
                            \union ({c.grid.included} \ {0})
        PROVE  o \in 1 .. Newest(c) /\ IsEarly(c, o)
    <3>1. o \in 1 .. Newest(code) /\ IsEarly(code, o) /\ stage # "include"
      BY <1>4, <2>4 DEF LoweringInv, BlockInv, Intact, IncludeInv
    <3>2. c.prologue = code.prologue
      BY <3>1 DEF Grown
    <3>. QED
      BY <1>3, <1>4, <3>1, <3>2 DEF IsEarly, IsTemp
  <2>. QED
    BY <1>2, <2>1, <2>2, <2>3, <2>4 DEF Intact
<1>. QED
  BY <1>3, <1>5, <1>6

\* GrowthIsIntact, of a step that changes the block.
LEMMA GrowthKeeps ==
  ASSUME LoweringInv, UNCHANGED <<tree, tags, include, exposure, stage>>, stage # "start",
         Grown(code, code'), stage = "include" => ScalarGrowth(code, code')
  PROVE  /\ Lowerable' /\ BlockInv'
         /\ Newest(code) \in Nat /\ Newest(code') \in Nat /\ Newest(code) <= Newest(code')
         /\ stage = "include" =>
              /\ code'.body = <<>> /\ ~code'.grid.bound
              /\ \A o \in 1 .. Newest(code') : ~code'.operands[o].vector
              /\ BoundTo(code', exposure.end) # {}
<1>1. Lowerable'
  BY DEF LoweringInv, Lowerable
<1>2. /\ Intact(code')
      /\ Newest(code) \in Nat /\ Newest(code') \in Nat /\ Newest(code) <= Newest(code')
      /\ stage = "include" =>
           /\ code'.body = <<>> /\ ~code'.grid.bound
           /\ \A o \in 1 .. Newest(code') : ~code'.operands[o].vector
           /\ BoundTo(code', exposure.end) # {}
  BY GrowthIsIntact
<1>. QED
  BY <1>1, <1>2 DEF BlockInv

-----------------------------------------------------------------------------
(* The walk over the nodes.                                                 *)

Frame == [node : DOMAIN tree.nodes, got : Seq(1 .. Newest(code))]

\* The call on top of the stack.
LEMMA TopFacts ==
  ASSUME LoweringInv, Lowers
  PROVE  /\ Len(stack) \in Nat \ {0} /\ DOMAIN stack = 1 .. Len(stack)
         /\ \A k \in 1 .. Len(stack) : stack[k] \in Frame
         /\ Top \in Frame
         /\ Top.node \in DOMAIN tree.nodes /\ Top.got \in Seq(1 .. Newest(code))
         /\ N.args \in Seq(DOMAIN tree.nodes)
         /\ IsCall(N) => Len(N.args) = Arity(N.op)
         /\ stage # "start"
         /\ stage = "include" => Top.node \notin tags
<1>1. stack \in Seq(Frame) /\ stack # <<>>
  BY DEF LoweringInv, WalkInv, Lowers, Frame
<1>. HIDE DEF Frame
<1>2. /\ Len(stack) \in Nat \ {0} /\ DOMAIN stack = 1 .. Len(stack)
      /\ \A k \in 1 .. Len(stack) : stack[k] \in Frame
  BY <1>1
<1>3. Top \in Frame
  BY <1>2 DEF Top
<1>4. Top.node \in DOMAIN tree.nodes /\ Top.got \in Seq(1 .. Newest(code))
  BY <1>3 DEF Frame
<1>5. N.args \in Seq(DOMAIN tree.nodes) /\ (IsCall(N) => Len(N.args) = Arity(N.op))
  BY <1>4 DEF LoweringInv, Lowerable, N
<1>6. stage # "start" /\ (stage = "include" => Top.node \notin tags)
  BY <1>1, <1>2 DEF LoweringInv, IncludeInv, Top
<1>. QED
  BY <1>2, <1>3, <1>4, <1>5, <1>6

\* A node is called for.
LEMMA CallKeeps ==
  ASSUME LoweringInv, NEW n \in DOMAIN tree.nodes, Call1(n), stage # "start",
         stage = "include" => n \notin tags,
         UNCHANGED <<tree, tags, include, exposure, stage, code, memo, place, clip>>
  PROVE  LoweringInv'
<1>1. stack \in Seq(Frame)
  BY DEF LoweringInv, WalkInv, Frame
<1>2. [node |-> n, got |-> <<>>] \in Frame
  BY EmptySequence DEF Frame
<1>. HIDE DEF Frame
<1>3. /\ stack' = Append(stack, [node |-> n, got |-> <<>>])
      /\ stack' \in Seq(Frame)
      /\ \A k \in DOMAIN stack' :
           \/ k \in DOMAIN stack /\ stack'[k] = stack[k]
           \/ stack'[k] = [node |-> n, got |-> <<>>]
  BY <1>1, <1>2 DEF Call1
<1>4. Grown(code, code') /\ ScalarGrowth(code, code')
  BY GrownItself DEF LoweringInv, BlockInv, Intact
<1>5. Lowerable' /\ BlockInv'
  BY <1>4, GrowthKeeps
<1>6. WalkInv'
  BY <1>3 DEF LoweringInv, WalkInv, Frame
<1>7. IncludeInv'
  <2>. SUFFICES ASSUME stage = "include"
                PROVE  \A k \in DOMAIN stack' : stack'[k].node \notin tags
    BY DEF LoweringInv, IncludeInv
  <2>. QED
    BY <1>3 DEF LoweringInv, IncludeInv
<1>8. ClipInv'
  BY DEF LoweringInv, ClipInv
<1>. QED
  BY <1>5, <1>6, <1>7, <1>8 DEF LoweringInv

\* A call returns the operand its node was lowered to.
LEMMA ReturnKeeps ==
  ASSUME LoweringInv, Lowers, NEW c, Grown(code, c), stage = "include" => ScalarGrowth(code, c),
         NEW o \in 1 .. Newest(c), Return(c, o)
  PROVE  LoweringInv'
<1>1. /\ UNCHANGED <<tree, tags, include, exposure, stage>> /\ code' = c
      /\ UNCHANGED <<place, clip>>
  BY DEF Return
<1>2. /\ Lowerable' /\ BlockInv'
      /\ Newest(code) \in Nat /\ Newest(code') \in Nat /\ Newest(code) <= Newest(code')
      /\ stage = "include" =>
           /\ code'.body = <<>> /\ ~code'.grid.bound
           /\ \A v \in 1 .. Newest(code') : ~code'.operands[v].vector
           /\ BoundTo(code', exposure.end) # {}
  BY <1>1, TopFacts, GrowthKeeps
<1>3. memo' \in [DOMAIN tree.nodes -> 0 .. Newest(code')]
  <2>1. memo \in [DOMAIN tree.nodes -> 0 .. Newest(code')]
    BY <1>2, NamesStay DEF LoweringInv, WalkInv
  <2>2. memo' = [memo EXCEPT ![Top.node] = o] /\ o \in 0 .. Newest(code')
    BY <1>1, <1>2 DEF Return
  <2>. QED
    BY <2>1, <2>2
<1>4. /\ stack' \in Seq(Frame)
      /\ \A k \in DOMAIN stack' : k \in DOMAIN stack /\ stack'[k] = stack[k]
  <2>1. /\ Len(stack) \in Nat \ {0} /\ DOMAIN stack = 1 .. Len(stack)
        /\ stack \in Seq(Frame)
    BY TopFacts DEF LoweringInv, WalkInv, Frame
  <2>2. stack' = SubSeq(stack, 1, Len(stack) - 1)
    BY DEF Return
  <2>. HIDE DEF Frame
  <2>. QED
    BY <2>1, <2>2
<1>5. stack' \in Seq([node : DOMAIN tree.nodes, got : Seq(1 .. Newest(code'))])
  BY <1>2, <1>4, NamesStay DEF Frame
<1>6. WalkInv'
  BY <1>1, <1>3, <1>5 DEF LoweringInv, WalkInv
<1>7. IncludeInv'
  BY <1>1, <1>2, <1>4, TopFacts DEF LoweringInv, IncludeInv
<1>8. ClipInv'
  BY <1>1, <1>2 DEF LoweringInv, ClipInv
<1>. QED
  BY <1>2, <1>6, <1>7, <1>8 DEF LoweringInv

\* The block under construction may be added to.
LEMMA CodeIsOpen ==
  ASSUME LoweringInv
  PROVE  Sound(code) /\ Open(code) /\ Newest(code) \in Nat
BY NewestIsNat DEF LoweringInv, BlockInv, Intact, IncludeInv, Open

\* The arguments a call lowers.  In an include nothing samples time, so a call
\* that does not vary has no argument that does.
LEMMA ArgsFacts ==
  ASSUME LoweringInv, InCall
  PROVE  /\ ArgsOf(Top.node) \in Seq(DOMAIN tree.nodes)
         /\ Treatment(Top.node) \notin {"log_mu", "duration"} => ArgsOf(Top.node) = N.args
         /\ stage = "include" =>
              /\ Treatment(Top.node) \notin {"finalise", "log_mu", "duration", "vector"}
              /\ \A k \in DOMAIN ArgsOf(Top.node) : ArgsOf(Top.node)[k] \notin tags
<1>1. /\ Lowers /\ IsCall(N) /\ N = tree.nodes[Top.node] /\ ~NeedsGrid
      /\ N.args \in Seq(DOMAIN tree.nodes) /\ Len(N.args) = Arity(N.op)
      /\ Top.node \in DOMAIN tree.nodes /\ (stage = "include" => Top.node \notin tags)
  BY TopFacts DEF InCall, N
<1>2. Treatment(Top.node) \notin {"log_mu", "duration"} => ArgsOf(Top.node) = N.args
  BY <1>1 DEF ArgsOf
<1>3. ASSUME Treatment(Top.node) \in {"log_mu", "duration"}
      PROVE  ArgsOf(Top.node) = <<N.args[2]>> /\ N.args[2] \in DOMAIN tree.nodes
  <2>1. N.op = "vector_log_mu" \/ N.op = "sub"
    BY <1>1, <1>3 DEF Treatment, IsDuration, Calls
  <2>2. Len(N.args) = 2
    BY <1>1, <2>1 DEF Arity, Finalisers
  <2>. QED
    BY <1>1, <1>3, <2>2, ElementsOfSeq DEF ArgsOf
<1>4. ArgsOf(Top.node) \in Seq(DOMAIN tree.nodes)
  BY <1>1, <1>2, <1>3
<1>5. ASSUME stage = "include"
      PROVE  /\ Treatment(Top.node) \notin {"finalise", "log_mu", "duration", "vector"}
             /\ \A k \in DOMAIN ArgsOf(Top.node) : ArgsOf(Top.node)[k] \notin tags
  <2>1. ~SamplesTime
    BY <1>1, <1>5 DEF NeedsGrid, LoweringInv, IncludeInv
  <2>2. Treatment(Top.node) \notin {"finalise", "log_mu", "duration"}
    BY <1>1, <2>1 DEF SamplesTime
  <2>3. Treatment(Top.node) # "vector"
    BY <1>1, <1>5 DEF Treatment
  <2>4. N.op \notin Finalisers
    BY <1>1, <1>5, <2>2 DEF Treatment, Finalisers, IsDuration, Calls
  <2>5. \A k \in DOMAIN N.args : N.args[k] \notin tags
    BY <1>1, <1>5, <2>4 DEF LoweringInv, Lowerable
  <2>. QED
    BY <1>2, <2>2, <2>3, <2>5
<1>. QED
  BY <1>2, <1>4, <1>5

\* An argument's node is called for.
LEMMA DescendKeeps ==
  ASSUME LoweringInv, Descend
  PROVE  LoweringInv'
<1>1. /\ Call1(NextArg) /\ Wants /\ InCall /\ Lowers
      /\ UNCHANGED <<tree, tags, include, exposure, stage, code, memo, place, clip>>
  BY DEF Descend, Wants, InCall
<1>2. Len(Top.got) + 1 \in DOMAIN ArgsOf(Top.node)
  <2>1. ArgsOf(Top.node) \in Seq(DOMAIN tree.nodes) /\ Top.got \in Seq(1 .. Newest(code))
    BY <1>1, ArgsFacts, TopFacts
  <2>2. /\ Len(ArgsOf(Top.node)) \in Nat /\ Len(Top.got) \in Nat
        /\ DOMAIN ArgsOf(Top.node) = 1 .. Len(ArgsOf(Top.node))
    BY <2>1, ElementsOfSeq
  <2>. QED
    BY <1>1, <2>2 DEF Wants
<1>3. NextArg \in DOMAIN tree.nodes /\ (stage = "include" => NextArg \notin tags)
  BY <1>1, <1>2, ArgsFacts, ElementsOfSeq DEF NextArg
<1>. QED
  BY <1>1, <1>3, TopFacts, CallKeeps

\* An argument is taken, widened if a number is wanted.
LEMMA TakeKeeps ==
  ASSUME LoweringInv, Take
  PROVE  LoweringInv'
<1>1. /\ Wants /\ InCall /\ Lowers /\ Got # 0
      /\ code' = IF TakenAs = "number" THEN Widen(code, Got) ELSE code
      /\ stack' = [stack EXCEPT ![Len(stack)].got =
                     Append(@, IF TakenAs = "number" THEN Widened(code, Got) ELSE Got)]
      /\ UNCHANGED <<tree, tags, include, exposure, stage, memo, place, clip>>
  BY DEF Take, Wants, InCall
<1>. DEFINE o == IF TakenAs = "number" THEN Widened(code, Got) ELSE Got
<1>2. Got \in 1 .. Newest(code)
  <2>1. Len(Top.got) + 1 \in DOMAIN ArgsOf(Top.node)
    <3>1. ArgsOf(Top.node) \in Seq(DOMAIN tree.nodes) /\ Top.got \in Seq(1 .. Newest(code))
      BY <1>1, ArgsFacts, TopFacts
    <3>2. /\ Len(ArgsOf(Top.node)) \in Nat /\ Len(Top.got) \in Nat
          /\ DOMAIN ArgsOf(Top.node) = 1 .. Len(ArgsOf(Top.node))
      BY <3>1, ElementsOfSeq
    <3>. QED
      BY <1>1, <3>2 DEF Wants
  <2>2. NextArg \in DOMAIN tree.nodes
    BY <1>1, <2>1, ArgsFacts, ElementsOfSeq DEF NextArg
  <2>. QED
    BY <1>1, <2>2, CodeIsOpen DEF Got, LoweringInv, WalkInv
<1>3. Extends(code, code') /\ o \in 1 .. Newest(code')
  <2>1. CASE TakenAs = "number"
    BY <1>1, <1>2, <2>1, CodeIsOpen, WidenedAdded
  <2>2. CASE TakenAs # "number"
    BY <1>1, <1>2, <2>2, CodeIsOpen, ExtendsItself
  <2>. QED
    BY <2>1, <2>2
<1>4. stack' = [stack EXCEPT ![Len(stack)].got = Append(@, o)]
  BY <1>1
<1>. HIDE DEF o
<1>5. /\ Lowerable' /\ BlockInv'
      /\ Newest(code) \in Nat /\ Newest(code') \in Nat /\ Newest(code) <= Newest(code')
      /\ stage = "include" =>
           /\ code'.body = <<>> /\ ~code'.grid.bound
           /\ \A v \in 1 .. Newest(code') : ~code'.operands[v].vector
           /\ BoundTo(code', exposure.end) # {}
  BY <1>1, <1>3, TopFacts, GrowthKeeps DEF Extends
<1>. DEFINE F == [node : DOMAIN tree.nodes, got : Seq(1 .. Newest(code'))]
<1>6. /\ stack' \in Seq(F)
      /\ DOMAIN stack' = DOMAIN stack
      /\ \A k \in DOMAIN stack' : stack'[k].node = stack[k].node
  <2>1. stack \in Seq(F) /\ stack # <<>>
    BY <1>1, <1>5, NamesStay DEF LoweringInv, WalkInv, Lowers
  <2>2. /\ Len(stack) \in Nat \ {0} /\ DOMAIN stack = 1 .. Len(stack)
        /\ stack[Len(stack)] \in F
    <3>. HIDE DEF F
    <3>. QED
      BY <2>1
  <2>3. stack[Len(stack)].got \in Seq(1 .. Newest(code'))
    BY <2>2
  <2>4. Append(stack[Len(stack)].got, o) \in Seq(1 .. Newest(code'))
    BY <1>3, <2>3
  <2>. DEFINE top == [stack[Len(stack)] EXCEPT !.got = Append(@, o)]
  <2>5. top \in F /\ top.node = stack[Len(stack)].node
    BY <2>2, <2>4
  <2>6. stack' = [stack EXCEPT ![Len(stack)] = top]
    BY <1>4
  <2>. HIDE DEF F, top
  <2>. QED
    BY <2>1, <2>2, <2>5, <2>6
<1>7. WalkInv'
  <2>1. memo' \in [DOMAIN tree.nodes -> 0 .. Newest(code')]
    BY <1>1, <1>5, NamesStay DEF LoweringInv, WalkInv
  <2>. QED
    BY <1>1, <1>6, <2>1 DEF LoweringInv, WalkInv
<1>8. IncludeInv'
  BY <1>1, <1>5, <1>6, TopFacts DEF LoweringInv, IncludeInv
<1>9. ClipInv'
  BY <1>1, <1>5 DEF LoweringInv, ClipInv
<1>. QED
  BY <1>5, <1>7, <1>8, <1>9 DEF LoweringInv

-----------------------------------------------------------------------------
(* One node lowered.                                                        *)

\* Time is not sampled while the include is resolved.
LEMMA NoTimeInIncludes ==
  ASSUME LoweringInv, SamplesTime, ~NeedsGrid
  PROVE  stage # "include"
BY DEF LoweringInv, IncludeInv, NeedsGrid

\* The time, a literal, a field or a coefficient is lowered.
LEMMA LeavesKeep ==
  ASSUME LoweringInv, LowerTime \/ LowerLit \/ LowerField \/ LowerParam
  PROVE  LoweringInv'
<1>1. Lowers /\ ~IsCall(N)
  BY DEF LowerTime, LowerLit, LowerField, LowerParam, IsLeaf
<1>2. CASE LowerTime
  <2>. DEFINE c == Compute(code, "vector_t", VectorTemp, <<>>)
  <2>1. stage # "include"
    <3>1. SamplesTime /\ ~NeedsGrid
      BY <1>1, <1>2 DEF LowerTime, SamplesTime
    <3>. QED
      BY <3>1, NoTimeInIncludes
  <2>2. VectorTemp.from = "temp" /\ DOMAIN <<>> = {}
    BY EmptySequence DEF VectorTemp, Operand
  <2>3. Grown(code, c) /\ Newest(c) = Newest(code) + 1
    BY <2>1, <2>2, CodeIsOpen, ComputeGrows
  <2>4. Newest(code) + 1 \in 1 .. Newest(c) /\ Return(c, Newest(code) + 1)
    BY <1>2, <2>3, CodeIsOpen DEF LowerTime
  <2>. QED
    BY <1>1, <2>1, <2>3, <2>4, ReturnKeeps
<1>3. ASSUME NEW type, NEW from, from # "temp", NEW of,
             Return(Add(code, Operand(type, FALSE, from, of)), Newest(code) + 1)
      PROVE  LoweringInv'
  <2>. DEFINE c == Add(code, Operand(type, FALSE, from, of))
  <2>1. Extends(code, c) /\ Newest(c) = Newest(code) + 1
    BY <1>3, CodeIsOpen, BoundAdded
  <2>2. Return(c, Newest(code) + 1)
    BY <1>3
  <2>. HIDE DEF c
  <2>3. Newest(code) + 1 \in 1 .. Newest(c)
    BY <2>1, CodeIsOpen
  <2>. QED
    BY <1>1, <2>1, <2>2, <2>3, ReturnKeeps DEF Extends
<1>4. CASE LowerLit
  BY <1>3, <1>4 DEF LowerLit, Constant
<1>5. CASE LowerParam
  BY <1>3, <1>5 DEF LowerParam
<1>6. CASE LowerField
  <2>. DEFINE c == AddColumn(code, N.val, N.type)
  <2>1. Extends(code, c) /\ BoundTo(c, N.val) # {}
    BY CodeIsOpen, ColumnAdded
  <2>2. ColumnOperand(c, N.val) \in 1 .. Newest(c) /\ Return(c, ColumnOperand(c, N.val))
    BY <1>6, <2>1, ColumnIsBound DEF Extends, Open, LowerField
  <2>. QED
    BY <1>1, <2>1, <2>2, ReturnKeeps DEF Extends
<1>. QED
  BY <1>2, <1>4, <1>5, <1>6

\* A call whose arguments are lowered.
LEMMA HasFacts ==
  ASSUME LoweringInv, Has
  PROVE  /\ InCall /\ Lowers /\ Top.got \in Seq(1 .. Newest(code))
         /\ \A k \in DOMAIN Top.got : Top.got[k] \in 1 .. Newest(code)
         /\ DOMAIN Top.got = 1 .. Len(Top.got)
         /\ Treatment(Top.node) \notin {"log_mu", "duration"} =>
              DOMAIN Top.got = 1 .. Arity(N.op)
<1>1. InCall /\ Lowers /\ IsCall(N) /\ Len(Top.got) = Len(ArgsOf(Top.node))
  BY DEF Has, InCall
<1>2. Top.got \in Seq(1 .. Newest(code)) /\ Len(N.args) = Arity(N.op)
  BY <1>1, TopFacts
<1>3. /\ \A k \in DOMAIN Top.got : Top.got[k] \in 1 .. Newest(code)
      /\ DOMAIN Top.got = 1 .. Len(Top.got)
  BY <1>2, ElementsOfSeq
<1>. QED
  BY <1>1, <1>2, <1>3, ArgsFacts

\* An integral or a value at death: never in an include.
LEMMA FinaliseKeeps ==
  ASSUME LoweringInv, Finalise
  PROVE  LoweringInv'
<1>. DEFINE value == Top.got[1]
            c == IF IsVec(value) THEN code ELSE Compute(code, "vector", VectorTemp, <<value>>)
            v == IF IsVec(value) THEN value ELSE Newest(c)
            d == Compute(c, N.op, Temp("double"), <<v>>)
<1>1. /\ Has /\ Treatment(Top.node) = "finalise" /\ Lowers
      /\ Return(d, Newest(c) + 1)
  BY HasFacts DEF Finalise
<1>2. stage # "include" /\ value \in 1 .. Newest(code) /\ Sound(code) /\ Newest(code) \in Nat
  <2>1. N.op \in Finalisers
    BY <1>1 DEF Treatment, N
  <2>2. Arity(N.op) = 1
    BY <2>1 DEF Arity, Finalisers
  <2>. QED
    BY <1>1, <2>2, HasFacts, ArgsFacts, CodeIsOpen
<1>3. Grown(code, c) /\ v \in 1 .. Newest(c) /\ Newest(c) \in Nat
  <2>1. CASE IsVec(value)
    BY <1>2, <2>1, GrownItself
  <2>2. CASE ~IsVec(value)
    <3>1. VectorTemp.from = "temp" /\ \A k \in DOMAIN <<value>> : <<value>>[k] \in 1 .. Newest(code)
      BY <1>2 DEF VectorTemp, Operand
    <3>2. /\ Grown(code, Compute(code, "vector", VectorTemp, <<value>>))
          /\ Newest(Compute(code, "vector", VectorTemp, <<value>>)) = Newest(code) + 1
      BY <1>2, <3>1, ComputeGrows
    <3>. QED
      BY <1>2, <2>2, <3>2
  <2>. QED
    BY <2>1, <2>2
<1>. HIDE DEF c, v
<1>4. Grown(c, d) /\ Newest(d) = Newest(c) + 1
  <2>1. \A k \in DOMAIN <<v>> : <<v>>[k] \in 1 .. Newest(c)
    BY <1>3
  <2>2. Temp("double").from = "temp" /\ Sound(c)
    BY <1>3 DEF Temp, Operand, Grown
  <2>. QED
    BY <1>2, <2>1, <2>2, ComputeGrows
<1>. HIDE DEF d
<1>5. Grown(code, d) /\ Newest(c) + 1 \in 1 .. Newest(d)
  BY <1>2, <1>3, <1>4, GrowthComposes
<1>. QED
  BY <1>1, <1>2, <1>5, ReturnKeeps

\* An instruction over a time vector: never in an include.
LEMMA VectorCallKeeps ==
  ASSUME LoweringInv, LowerVectorCall
  PROVE  LoweringInv'
<1>. DEFINE d == Compute(code, VectorOp, VectorTemp, Top.got)
<1>1. /\ Has /\ Treatment(Top.node) \in {"vector", "duration", "log_mu"}
      /\ Return(d, Newest(code) + 1)
  BY DEF LowerVectorCall
<1>2. stage # "include" /\ Lowers /\ Sound(code) /\ Newest(code) \in Nat
  BY <1>1, HasFacts, ArgsFacts, CodeIsOpen
<1>3. VectorTemp.from = "temp" /\ \A k \in DOMAIN Top.got : Top.got[k] \in 1 .. Newest(code)
  BY <1>1, HasFacts DEF VectorTemp, Operand
<1>4. Grown(code, d) /\ Newest(d) = Newest(code) + 1
  BY <1>2, <1>3, ComputeGrows
<1>5. Newest(code) + 1 \in 1 .. Newest(d)
  BY <1>2, <1>4
<1>. HIDE DEF d
<1>. QED
  BY <1>1, <1>2, <1>4, <1>5, ReturnKeeps

\* A conversion of a time vector, which is no conversion.
LEMMA PassOnKeeps ==
  ASSUME LoweringInv, PassOn
  PROVE  LoweringInv'
<1>1. Has /\ Treatment(Top.node) = "as_is" /\ Return(code, Top.got[1])
  BY DEF PassOn
<1>2. Lowers /\ Top.got[1] \in 1 .. Newest(code)
  <2>1. N.op = "double"
    BY <1>1 DEF Treatment, N
  <2>2. Arity(N.op) = 1
    BY <2>1 DEF Arity, Finalisers
  <2>. QED
    BY <1>1, <2>2, HasFacts
<1>. QED
  BY <1>1, <1>2, CodeIsOpen, GrownItself, ReturnKeeps

\* A scalar instruction, its sides widened if one is a click.
LEMMA ScalarCallKeeps ==
  ASSUME LoweringInv, LowerScalarCall
  PROVE  LoweringInv'
<1>. DEFINE c == Agreed.code
            d == Compute(c, N.op, Temp(N.type), Agreed.args)
<1>1. /\ Has /\ Treatment(Top.node) = "scalar" /\ Lowers
      /\ Return(d, Newest(c) + 1)
  BY HasFacts DEF LowerScalarCall
<1>2. /\ \A k \in DOMAIN Top.got : Top.got[k] \in 1 .. Newest(code)
      /\ DOMAIN Top.got = 1 .. Arity(N.op)
      /\ Open(code)
  BY <1>1, HasFacts, CodeIsOpen
<1>3. Extends(code, c) /\ \A k \in DOMAIN Agreed.args : Agreed.args[k] \in 1 .. Newest(c)
  <2>1. CASE IsMixed(Top.got)
    <3>. DEFINE x == Top.got[1]
                y == Top.got[2]
                e == Widen(code, x)
                f == Widen(e, y)
    <3>1. Arity(N.op) = 2
      BY <2>1 DEF IsMixed, Arity, Comparisons, Ordering, Finalisers
    <3>2. x \in 1 .. Newest(code) /\ y \in 1 .. Newest(code)
      BY <1>2, <3>1
    <3>3. /\ Extends(code, e) /\ Newest(code) \in Nat /\ Newest(e) \in Nat
          /\ Widened(code, x) \in 1 .. Newest(e)
      BY <1>2, <3>2, WidenedAdded
    <3>. HIDE DEF e
    <3>4. y \in 1 .. Newest(e) /\ Open(e)
      BY <3>2, <3>3 DEF Extends, Grown
    <3>5. Extends(e, f) /\ Newest(f) \in Nat /\ Widened(e, y) \in 1 .. Newest(f)
      BY <3>4, WidenedAdded
    <3>. HIDE DEF f
    <3>6. Extends(code, f) /\ Widened(code, x) \in 1 .. Newest(f)
      BY <1>2, <3>3, <3>5, ExtendsComposes DEF Extends, Grown
    <3>7. Agreed.code = f /\ Agreed.args = <<Widened(code, x), Widened(e, y)>>
      BY <2>1 DEF Agreed, e, f
    <3>. QED
      BY <3>5, <3>6, <3>7
  <2>2. CASE ~IsMixed(Top.got)
    BY <1>2, <2>2, ExtendsItself DEF Agreed
  <2>. QED
    BY <2>1, <2>2
<1>4. Extends(c, d) /\ Newest(c) \in Nat /\ Newest(d) = Newest(c) + 1
  BY <1>3, ScalarComputed DEF Extends
<1>. HIDE DEF c, d
<1>5. Extends(code, d) /\ Newest(c) + 1 \in 1 .. Newest(d)
  BY <1>2, <1>3, <1>4, ExtendsComposes
<1>. QED
  BY <1>1, <1>5, ReturnKeeps DEF Extends

-----------------------------------------------------------------------------
(* The include and the roots.                                               *)

\* A term resolved: scalars were added, and the clip names operands there are.
LEMMA TermKeeps ==
  ASSUME LoweringInv, stage = "include", stack = <<>>, Extends(code, code'), NextTerm,
         clip' = [nu |-> clip'.nu, tau |-> clip'.tau, died |-> clip'.died,
                  included |-> clip'.included],
         clip'.nu \in 1 .. Newest(code'), clip'.tau \in 1 .. Newest(code'),
         clip'.died = clip.died, clip'.included \in 0 .. Newest(code')
  PROVE  LoweringInv'
<1>1. /\ UNCHANGED <<tree, tags, include, exposure, stage, memo, stack>> /\ place' = place + 1
  BY DEF NextTerm
<1>2. /\ Lowerable' /\ BlockInv'
      /\ Newest(code) \in Nat /\ Newest(code') \in Nat /\ Newest(code) <= Newest(code')
      /\ code'.body = <<>> /\ ~code'.grid.bound
      /\ \A v \in 1 .. Newest(code') : ~code'.operands[v].vector
      /\ BoundTo(code', exposure.end) # {}
  BY <1>1, GrowthKeeps DEF Extends
<1>3. WalkInv'
  <2>1. memo' \in [DOMAIN tree.nodes -> 0 .. Newest(code')]
    BY <1>1, <1>2, NamesStay DEF LoweringInv, WalkInv
  <2>2. stack' \in Seq([node : DOMAIN tree.nodes, got : Seq(1 .. Newest(code'))])
    BY <1>1, EmptySequence
  <2>. QED
    BY <1>1, <2>1, <2>2 DEF LoweringInv, WalkInv
<1>4. IncludeInv'
  BY <1>1, <1>2, EmptySequence DEF LoweringInv, IncludeInv
<1>5. ClipInv'
  <2>1. clip.died \in 1 .. Newest(code)
    BY DEF LoweringInv, ClipInv
  <2>4. clip.died \in 1 .. Newest(code')
    BY <1>2, <2>1
  <2>. QED
    BY <1>1, <1>2, <2>4 DEF ClipInv
<1>. QED
  BY <1>2, <1>3, <1>4, <1>5 DEF LoweringInv

\* The clip while the include is resolved, and what memo holds of its term.
LEMMA TermFacts ==
  ASSUME LoweringInv, NEW kind, AtTerm(kind)
  PROVE  /\ stage = "include" /\ stack = <<>> /\ Open(code) /\ Newest(code) \in Nat
         /\ clip = [nu |-> clip.nu, tau |-> clip.tau, died |-> clip.died,
                    included |-> clip.included]
         /\ clip.nu \in 1 .. Newest(code) /\ clip.tau \in 1 .. Newest(code)
         /\ clip.included \in 0 .. Newest(code)
         /\ Term.node \in DOMAIN tree.nodes
         /\ memo[Term.node] \in 0 .. Newest(code)
<1>1. stage = "include" /\ stack = <<>> /\ place <= Len(include.terms)
  BY DEF AtTerm
<1>2. /\ clip = [nu |-> clip.nu, tau |-> clip.tau, died |-> clip.died,
                 included |-> clip.included]
      /\ clip.nu \in 1 .. Newest(code) /\ clip.tau \in 1 .. Newest(code)
      /\ clip.included \in 0 .. Newest(code)
  BY <1>1 DEF LoweringInv, ClipInv
<1>3. place \in 1 .. Len(include.terms)
  BY <1>1 DEF LoweringInv, WalkInv, Lowerable
<1>4. Term.node \in DOMAIN tree.nodes
  BY <1>3 DEF LoweringInv, Lowerable, Term
<1>5. memo[Term.node] \in 0 .. Newest(code)
  BY <1>4 DEF LoweringInv, WalkInv
<1>. QED
  BY <1>1, <1>2, <1>4, <1>5, CodeIsOpen

\* The node of a gate or an offset is called for.
LEMMA LowerTermKeeps ==
  ASSUME LoweringInv, LowerTerm
  PROVE  LoweringInv'
<1>1. /\ stage = "include" /\ Term.node \in DOMAIN tree.nodes
  BY TermFacts DEF LowerTerm
<1>. QED
  BY <1>1, CallKeeps DEF LowerTerm

\* A gate is conjoined to the flag.
LEMMA AddGateKeeps ==
  ASSUME LoweringInv, AddGate
  PROVE  LoweringInv'
<1>. DEFINE gate == memo[Term.node]
            d == Conjoin(code, clip.included, gate)
            flag == Conjoined(code, clip.included, gate)
<1>1. /\ AtTerm("gate") /\ gate # 0 /\ code' = d /\ NextTerm
      /\ clip' = [clip EXCEPT !.included = flag]
  BY DEF AddGate
<1>2. /\ stage = "include" /\ stack = <<>> /\ Open(code) /\ Newest(code) \in Nat
      /\ clip = [nu |-> clip.nu, tau |-> clip.tau, died |-> clip.died,
                 included |-> clip.included]
      /\ clip.nu \in 1 .. Newest(code) /\ clip.tau \in 1 .. Newest(code)
      /\ clip.included \in 0 .. Newest(code) /\ gate \in 1 .. Newest(code)
  BY <1>1, TermFacts
<1>3. Extends(code, d) /\ Newest(d) \in Nat /\ flag \in 1 .. Newest(d)
  BY <1>2, ConjunctionAdded
<1>. HIDE DEF d, flag
<1>4. clip.nu \in 1 .. Newest(d) /\ clip.tau \in 1 .. Newest(d) /\ flag \in 0 .. Newest(d)
  BY <1>2, <1>3 DEF Extends, Grown
<1>5. clip' = [nu |-> clip.nu, tau |-> clip.tau, died |-> clip.died, included |-> flag]
  BY <1>1, <1>2
<1>6. /\ Extends(code, code') /\ clip'.included \in 0 .. Newest(code')
      /\ clip'.nu \in 1 .. Newest(code') /\ clip'.tau \in 1 .. Newest(code')
      /\ clip'.died = clip.died
      /\ clip' = [nu |-> clip'.nu, tau |-> clip'.tau, died |-> clip'.died,
                  included |-> clip'.included]
  BY <1>1, <1>3, <1>4, <1>5
<1>. QED
  BY <1>1, <1>2, <1>5, <1>6, TermKeeps

\* One computation after another.
LEMMA ComputedNext ==
  ASSUME NEW b, NEW c, Open(b), Extends(b, c), NEW op, NEW type, NEW args,
         \A k \in DOMAIN args : args[k] \in 1 .. Newest(c)
  PROVE  /\ Extends(b, Compute(c, op, Temp(type), args))
         /\ Newest(c) \in Nat
         /\ Newest(Compute(c, op, Temp(type), args)) = Newest(c) + 1
<1>1. /\ Extends(c, Compute(c, op, Temp(type), args)) /\ Newest(c) \in Nat
      /\ Newest(Compute(c, op, Temp(type), args)) = Newest(c) + 1
  BY ScalarComputed DEF Extends
<1>. QED
  BY <1>1, ExtendsComposes

\* A constant added to a block that was extended.
LEMMA ConstantNext ==
  ASSUME NEW b, NEW c, Open(b), Extends(b, c), NEW type, NEW value
  PROVE  /\ Extends(b, Constant(c, type, value))
         /\ Newest(c) \in Nat
         /\ Newest(Constant(c, type, value)) = Newest(c) + 1
<1>1. "constant" # "temp"
  OBVIOUS
<1>2. /\ Extends(c, Constant(c, type, value)) /\ Newest(c) \in Nat
      /\ Newest(Constant(c, type, value)) = Newest(c) + 1
  BY <1>1, BoundAdded DEF Extends, Constant
<1>. QED
  BY <1>2, ExtendsComposes

\* A fixed interval narrows the clip.
LEMMA AddAbsoluteKeeps ==
  ASSUME LoweringInv, AddAbsolute
  PROVE  LoweringInv'
<1>. DEFINE c1 == Constant(code, "datey", Term.from)
            c == Constant(c1, "datey", Term.to)
            n == Newest(c)
            c3 == Compute(c, "max", Temp("datey"), <<clip.nu, n - 1>>)
            d == Compute(c3, "min", Temp("datey"), <<clip.tau, n>>)
<1>1. /\ AtTerm("absolute") /\ code' = d /\ NextTerm
      /\ clip' = [clip EXCEPT !.nu = n + 1, !.tau = n + 2]
  BY DEF AddAbsolute, Narrow
<1>2. /\ stage = "include" /\ stack = <<>> /\ Open(code) /\ Newest(code) \in Nat
      /\ clip = [nu |-> clip.nu, tau |-> clip.tau, died |-> clip.died,
                 included |-> clip.included]
      /\ clip.nu \in 1 .. Newest(code) /\ clip.tau \in 1 .. Newest(code)
      /\ clip.included \in 0 .. Newest(code)
  BY <1>1, TermFacts
<1>3. Extends(code, c1) /\ Newest(c1) = Newest(code) + 1
  BY <1>2, ExtendsItself, ConstantNext
<1>. HIDE DEF c1
<1>4. Extends(code, c) /\ n = Newest(code) + 2
  BY <1>2, <1>3, ConstantNext
<1>. HIDE DEF c
<1>5. \A k \in DOMAIN <<clip.nu, n - 1>> : <<clip.nu, n - 1>>[k] \in 1 .. n
  BY <1>2, <1>4
<1>6. Extends(code, c3) /\ Newest(c3) = n + 1
  BY <1>2, <1>4, <1>5, ComputedNext
<1>. HIDE DEF c3
<1>7. \A k \in DOMAIN <<clip.tau, n>> : <<clip.tau, n>>[k] \in 1 .. Newest(c3)
  BY <1>2, <1>4, <1>6
<1>8. Extends(code, d) /\ Newest(d) = n + 2
  BY <1>2, <1>4, <1>6, <1>7, ComputedNext
<1>. HIDE DEF d
<1>9. n + 1 \in 1 .. Newest(d) /\ n + 2 \in 1 .. Newest(d) /\ clip.included \in 0 .. Newest(d)
  BY <1>2, <1>4, <1>8
<1>. HIDE DEF n
<1>10. clip' = [nu |-> n + 1, tau |-> n + 2, died |-> clip.died, included |-> clip.included]
  BY <1>1, <1>2
<1>11. /\ Extends(code, code') /\ clip'.included \in 0 .. Newest(code')
       /\ clip'.nu \in 1 .. Newest(code') /\ clip'.tau \in 1 .. Newest(code')
       /\ clip'.died = clip.died
       /\ clip' = [nu |-> clip'.nu, tau |-> clip'.tau, died |-> clip'.died,
                   included |-> clip'.included]
  BY <1>1, <1>8, <1>9, <1>10
<1>. QED
  BY <1>1, <1>2, <1>11, TermKeeps

\* The field is replaced by a date where it is missing, and moved by the bounds.
LEMMA AddOffsetKeeps ==
  ASSUME LoweringInv, AddOffset
  PROVE  LoweringInv'
<1>. DEFINE field == memo[Term.node]
            asked == Compute(code, "is_na", Temp("bool"), <<field>>)
            tested == Compute(asked, "not", Temp("bool"), <<Newest(asked)>>)
            missing == Newest(tested) - 1
            flag == Conjoined(tested, clip.included, Newest(tested))
            flagged == Conjoin(tested, clip.included, Newest(tested))
            zero == Constant(flagged, "datey", 0)
            safe == Compute(zero, "select", Temp("datey"), <<missing, Newest(zero), field>>)
            s == Newest(safe)
            first == Constant(safe, "datey", Term.from)
            bounds == Constant(first, "datey", Term.to)
            from == Compute(bounds, "add", Temp("datey"), <<s, s + 1>>)
            lower == Compute(from, "max", Temp("datey"), <<clip.nu, s + 3>>)
            to == Compute(lower, "add", Temp("datey"), <<s, s + 2>>)
            d == Compute(to, "min", Temp("datey"), <<clip.tau, s + 5>>)
<1>1. /\ AtTerm("offset") /\ field # 0 /\ code' = d /\ NextTerm
      /\ clip' = [clip EXCEPT !.nu = s + 4, !.tau = s + 6, !.included = flag]
  BY DEF AddOffset, Present
<1>2. /\ stage = "include" /\ stack = <<>> /\ Open(code) /\ Newest(code) \in Nat
      /\ clip = [nu |-> clip.nu, tau |-> clip.tau, died |-> clip.died,
                 included |-> clip.included]
      /\ clip.nu \in 1 .. Newest(code) /\ clip.tau \in 1 .. Newest(code)
      /\ clip.included \in 0 .. Newest(code) /\ field \in 1 .. Newest(code)
  BY <1>1, TermFacts
<1>. HIDE DEF field
<1>3. Extends(code, asked) /\ Newest(asked) = Newest(code) + 1
  <2>1. \A k \in DOMAIN <<field>> : <<field>>[k] \in 1 .. Newest(code)
    BY <1>2
  <2>. QED
    BY <1>2, <2>1, ScalarComputed
<1>. HIDE DEF asked
<1>4. Extends(code, tested) /\ Newest(tested) = Newest(code) + 2
  <2>1. \A k \in DOMAIN <<Newest(asked)>> : <<Newest(asked)>>[k] \in 1 .. Newest(asked)
    BY <1>2, <1>3
  <2>. QED
    BY <1>2, <1>3, <2>1, ComputedNext
<1>. HIDE DEF tested
<1>5. /\ Extends(code, flagged) /\ Newest(flagged) \in Nat /\ Newest(tested) <= Newest(flagged)
      /\ flag \in 1 .. Newest(flagged)
  <2>1. clip.included \in 0 .. Newest(tested) /\ Newest(tested) \in 1 .. Newest(tested)
    BY <1>2, <1>4
  <2>2. /\ Extends(tested, flagged) /\ Newest(flagged) \in Nat
        /\ flag \in 1 .. Newest(flagged)
    BY <1>4, <2>1, ConjunctionAdded DEF Extends
  <2>. QED
    BY <1>2, <1>4, <2>2, ExtendsComposes DEF Extends, Grown
<1>. HIDE DEF flag, flagged
<1>6. Extends(code, zero) /\ Newest(zero) = Newest(flagged) + 1
  BY <1>2, <1>5, ConstantNext
<1>. HIDE DEF zero
<1>7. Extends(code, safe) /\ s = Newest(flagged) + 2
  <2>1. /\ missing \in 1 .. Newest(zero) /\ Newest(zero) \in 1 .. Newest(zero)
        /\ field \in 1 .. Newest(zero)
    BY <1>2, <1>4, <1>5, <1>6
  <2>. HIDE DEF missing
  <2>2. PICK args : args = <<missing, Newest(zero), field>>
    OBVIOUS
  <2>3. \A k \in DOMAIN args : args[k] \in 1 .. Newest(zero)
    BY <2>1, <2>2
  <2>4. safe = Compute(zero, "select", Temp("datey"), args)
    BY <2>2
  <2>. HIDE DEF safe
  <2>5. /\ Extends(code, Compute(zero, "select", Temp("datey"), args))
        /\ Newest(Compute(zero, "select", Temp("datey"), args)) = Newest(zero) + 1
    BY <1>2, <1>6, <2>3, ComputedNext
  <2>. QED
    BY <1>5, <1>6, <2>4, <2>5
<1>. HIDE DEF safe
<1>8. s \in Nat /\ clip.nu \in 1 .. s /\ clip.tau \in 1 .. s /\ flag \in 1 .. s
  BY <1>2, <1>4, <1>5, <1>7
<1>9. Extends(code, first) /\ Newest(first) = s + 1
  BY <1>2, <1>7, ConstantNext
<1>. HIDE DEF first
<1>10. Extends(code, bounds) /\ Newest(bounds) = s + 2
  BY <1>2, <1>8, <1>9, ConstantNext
<1>. HIDE DEF bounds, s
<1>11. Extends(code, from) /\ Newest(from) = s + 3
  <2>1. \A k \in DOMAIN <<s, s + 1>> : <<s, s + 1>>[k] \in 1 .. Newest(bounds)
    BY <1>8, <1>10
  <2>. QED
    BY <1>2, <1>8, <1>10, <2>1, ComputedNext
<1>. HIDE DEF from
<1>12. Extends(code, lower) /\ Newest(lower) = s + 4
  <2>1. \A k \in DOMAIN <<clip.nu, s + 3>> : <<clip.nu, s + 3>>[k] \in 1 .. Newest(from)
    BY <1>8, <1>11
  <2>. QED
    BY <1>2, <1>8, <1>11, <2>1, ComputedNext
<1>. HIDE DEF lower
<1>13. Extends(code, to) /\ Newest(to) = s + 5
  <2>1. \A k \in DOMAIN <<s, s + 2>> : <<s, s + 2>>[k] \in 1 .. Newest(lower)
    BY <1>8, <1>12
  <2>. QED
    BY <1>2, <1>8, <1>12, <2>1, ComputedNext
<1>. HIDE DEF to
<1>14. Extends(code, d) /\ Newest(d) = s + 6
  <2>1. \A k \in DOMAIN <<clip.tau, s + 5>> : <<clip.tau, s + 5>>[k] \in 1 .. Newest(to)
    BY <1>8, <1>13
  <2>. QED
    BY <1>2, <1>8, <1>13, <2>1, ComputedNext
<1>. HIDE DEF d
<1>15. clip' = [nu |-> s + 4, tau |-> s + 6, died |-> clip.died, included |-> flag]
  BY <1>1, <1>2
<1>16. Extends(code, code') /\ Newest(code') = s + 6
  BY <1>1, <1>14
<1>17. /\ clip'.nu = s + 4 /\ clip'.tau = s + 6 /\ clip'.died = clip.died
       /\ clip'.included = flag
       /\ clip' = [nu |-> clip'.nu, tau |-> clip'.tau, died |-> clip'.died,
                   included |-> clip'.included]
  BY <1>15
<1>18. /\ clip'.nu \in 1 .. Newest(code') /\ clip'.tau \in 1 .. Newest(code')
       /\ clip'.included \in 0 .. Newest(code')
  BY <1>8, <1>16, <1>17
<1>. QED
  BY <1>1, <1>2, <1>16, <1>17, <1>18, TermKeeps

\* A grid bound to operands of before the body.
LEMMA GridIsIntact ==
  ASSUME NEW c, Intact(c), NEW g,
         \A o \in {g.start, g.end, g.died} \union ({g.included} \ {0}) :
           o \in 1 .. Newest(c) /\ IsEarly(c, o)
  PROVE  /\ Intact([c EXCEPT !.grid = g])
         /\ Newest([c EXCEPT !.grid = g]) = Newest(c)
         /\ [c EXCEPT !.grid = g].operands = c.operands
<1>. DEFINE d == [c EXCEPT !.grid = g]
<1>1. Sound(c) /\ Shape(c)
  BY DEF Intact, Sound
<1>2. d = [operands |-> c.operands, prologue |-> c.prologue, body |-> c.body,
           outputs |-> c.outputs, grid |-> g]
  BY <1>1 DEF Shape
<1>3. /\ d.operands = c.operands /\ d.prologue = c.prologue /\ d.body = c.body
      /\ d.outputs = c.outputs /\ d.grid = g
  BY <1>2
<1>. HIDE DEF d
<1>4. Shape(d)
  BY <1>1, <1>2, <1>3 DEF Shape
<1>5. Newest(d) = Newest(c) /\ \A o : IsTemp(d, o) = IsTemp(c, o) /\ IsEarly(d, o) = IsEarly(c, o)
  BY <1>3 DEF Newest, IsTemp, IsEarly
<1>6. Sound(d)
  BY <1>1, <1>3, <1>4, <1>5 DEF Sound, IsEmitted
<1>7. Intact(d)
  BY <1>3, <1>5, <1>6 DEF Intact
<1>. QED
  BY <1>3, <1>5, <1>7 DEF d

\* The exposure's columns open the prologue.
LEMMA StartIncludeKeeps ==
  ASSUME LoweringInv, StartInclude
  PROVE  LoweringInv'
<1>1. /\ stage = "start" /\ stage' = "include" /\ place' = 1
      /\ code' = WithExposure(code) /\ clip' = ExposureClip(code')
      /\ UNCHANGED <<tree, tags, include, exposure, memo, stack>>
  BY DEF StartInclude
<1>2. /\ Open(code) /\ Newest(code) \in Nat /\ stack = <<>>
      /\ code.body = <<>> /\ ~code.grid.bound
      /\ \A o \in 1 .. Newest(code) : ~code.operands[o].vector
      /\ code.outputs \in Seq(1 .. Newest(code))
  BY <1>1, CodeIsOpen DEF LoweringInv, IncludeInv, BlockInv, Intact
<1>3. /\ Extends(code, code')
      /\ \A column \in {exposure.start, exposure.end, exposure.died} : BoundTo(code', column) # {}
  BY <1>1, <1>2, ExposureAdded
<1>4. /\ Sound(code') /\ Newest(code') \in Nat /\ Newest(code) <= Newest(code')
      /\ code'.outputs = code.outputs /\ ~code'.grid.bound
      /\ \A o \in 1 .. Newest(code) : code'.operands[o] = code.operands[o]
  BY <1>2, <1>3, NewestIsNat DEF Extends, Grown
<1>5. \A o \in 1 .. Newest(code') : ~code'.operands[o].vector
  <2>. SUFFICES ASSUME NEW o \in 1 .. Newest(code') PROVE ~code'.operands[o].vector
    OBVIOUS
  <2>1. CASE o <= Newest(code)
    BY <1>2, <1>4, <2>1
  <2>2. CASE o > Newest(code)
    BY <1>2, <1>3, <1>4, <2>2 DEF Extends, ScalarGrowth
  <2>. QED
    BY <1>2, <1>4, <2>1, <2>2
<1>6. code'.body = <<>>
  <2>1. code'.body = code.body
    BY <1>1 DEF WithExposure, AddColumn, Add
  <2>. QED
    BY <1>2, <2>1
<1>7. BlockInv'
  <2>1. code'.outputs \in Seq(1 .. Newest(code'))
    BY <1>2, <1>4, NamesStay
  <2>2. \A k \in DOMAIN code'.outputs : code'.outputs[k] \in 1 .. Newest(code')
    BY <2>1, ElementsOfSeq
  <2>3. \A k \in DOMAIN code'.prologue : code'.prologue[k].result \in 1 .. Newest(code')
    BY <1>4 DEF Sound, IsEmitted
  <2>. QED
    BY <1>4, <1>5, <2>1, <2>2, <2>3 DEF BlockInv, Intact
<1>8. WalkInv'
  <2>1. memo' \in [DOMAIN tree.nodes -> 0 .. Newest(code')]
    BY <1>1, <1>2, <1>4, NamesStay DEF LoweringInv, WalkInv
  <2>2. stack' \in Seq([node : DOMAIN tree.nodes, got : Seq(1 .. Newest(code'))])
    BY <1>1, <1>2, EmptySequence
  <2>. QED
    BY <1>1, <2>1, <2>2 DEF WalkInv
<1>9. IncludeInv'
  BY <1>1, <1>2, <1>4, <1>5, <1>6, EmptySequence DEF IncludeInv
<1>10. ClipInv'
  <2>1. \A column \in {exposure.start, exposure.end, exposure.died} :
          ColumnOperand(code', column) \in 1 .. Newest(code')
    BY <1>3, <1>4, ColumnIsBound
  <2>. QED
    BY <1>1, <1>3, <1>4, <2>1 DEF ClipInv, ExposureClip
<1>11. Lowerable'
  BY <1>1 DEF LoweringInv, Lowerable
<1>. QED
  BY <1>7, <1>8, <1>9, <1>10, <1>11 DEF LoweringInv

\* Without an include there is nothing to resolve.
LEMMA StartRootsKeeps ==
  ASSUME LoweringInv, StartRoots
  PROVE  LoweringInv'
<1>. USE DEF StartRoots
<1>1. Lowerable' /\ BlockInv'
  BY DEF LoweringInv, Lowerable, BlockInv, Intact
<1>2. WalkInv'
  BY DEF LoweringInv, WalkInv
<1>3. IncludeInv' /\ ClipInv'
  BY DEF LoweringInv, IncludeInv, ClipInv
<1>. QED
  BY <1>1, <1>2, <1>3 DEF LoweringInv

\* The bounds of an include with another death and another flag.
LEMMA ClipReplaced ==
  ASSUME NEW c, c = [nu |-> c.nu, tau |-> c.tau, died |-> c.died, included |-> c.included],
         NEW d, NEW f
  PROVE  [c EXCEPT !.died = d, !.included = f] =
           [nu |-> c.nu, tau |-> c.tau, died |-> d, included |-> f]
<1>. DEFINE e == [c EXCEPT !.died = d]
<1>1. [c EXCEPT !.died = d, !.included = f] = [e EXCEPT !.included = f]
  OBVIOUS
<1>2. e = [nu |-> c.nu, tau |-> c.tau, died |-> d, included |-> c.included]
  OBVIOUS
<1>. HIDE DEF e
<1>. QED
  BY <1>1, <1>2

\* The flag, the death and the grid close the prologue.
LEMMA EndIncludeKeeps ==
  ASSUME LoweringInv, EndInclude
  PROVE  LoweringInv'
<1>. DEFINE before == Compute(code, "LT", Temp("bool"), <<clip.nu, clip.tau>>)
            flagged == Conjoin(before, clip.included, Newest(before))
            flag == Conjoined(before, clip.included, Newest(before))
            end == ColumnOperand(code, exposure.end)
            uncut == Compute(flagged, "EQ", Temp("bool"), <<clip.tau, end>>)
            died == Compute(uncut, "and", Temp("bool"), <<clip.died, Newest(uncut)>>)
            bounds == [clip EXCEPT !.died = Newest(died), !.included = flag]
            g == [bound |-> TRUE, start |-> bounds.nu, end |-> bounds.tau,
                  died |-> bounds.died, included |-> bounds.included]
<1>1. /\ stage = "include" /\ stack = <<>> /\ stage' = "roots" /\ place' = 1
      /\ UNCHANGED <<tree, tags, include, exposure, memo, stack>>
      /\ code' = [died EXCEPT !.grid = g] /\ clip' = bounds
  BY DEF EndInclude, UseTimeGrid, DiedAtTheEnd
<1>2. /\ Open(code) /\ Newest(code) \in Nat
      /\ clip = [nu |-> clip.nu, tau |-> clip.tau, died |-> clip.died,
                 included |-> clip.included]
      /\ clip.nu \in 1 .. Newest(code) /\ clip.tau \in 1 .. Newest(code)
      /\ clip.died \in 1 .. Newest(code)
      /\ clip.included \in 0 .. Newest(code)
      /\ end \in 1 .. Newest(code)
  BY <1>1, CodeIsOpen, ColumnIsBound DEF LoweringInv, ClipInv
<1>. HIDE DEF end
<1>3. Extends(code, before) /\ Newest(before) = Newest(code) + 1
  <2>1. \A k \in DOMAIN <<clip.nu, clip.tau>> : <<clip.nu, clip.tau>>[k] \in 1 .. Newest(code)
    BY <1>2
  <2>. QED
    BY <1>2, <2>1, ScalarComputed
<1>. HIDE DEF before
<1>4. /\ Extends(code, flagged) /\ Newest(flagged) \in Nat /\ Newest(before) <= Newest(flagged)
      /\ flag \in 1 .. Newest(flagged)
  <2>1. clip.included \in 0 .. Newest(before) /\ Newest(before) \in 1 .. Newest(before)
    BY <1>2, <1>3
  <2>2. /\ Extends(before, flagged) /\ Newest(flagged) \in Nat
        /\ flag \in 1 .. Newest(flagged)
    BY <1>3, <2>1, ConjunctionAdded DEF Extends
  <2>. QED
    BY <1>2, <1>3, <2>2, ExtendsComposes DEF Extends, Grown
<1>. HIDE DEF flag, flagged
<1>5. Extends(code, uncut) /\ Newest(uncut) = Newest(flagged) + 1
  <2>1. \A k \in DOMAIN <<clip.tau, end>> : <<clip.tau, end>>[k] \in 1 .. Newest(flagged)
    BY <1>2, <1>3, <1>4
  <2>. QED
    BY <1>2, <1>4, <2>1, ComputedNext
<1>. HIDE DEF uncut
<1>6. Extends(code, died) /\ Newest(died) = Newest(flagged) + 2
  <2>1. \A k \in DOMAIN <<clip.died, Newest(uncut)>> :
          <<clip.died, Newest(uncut)>>[k] \in 1 .. Newest(uncut)
    BY <1>2, <1>3, <1>4, <1>5
  <2>. QED
    BY <1>2, <1>4, <1>5, <2>1, ComputedNext
<1>. HIDE DEF died
<1>7. /\ bounds = [nu |-> clip.nu, tau |-> clip.tau, died |-> Newest(died), included |-> flag]
      /\ g.start = clip.nu /\ g.end = clip.tau /\ g.died = Newest(died) /\ g.included = flag
  <2>1. bounds = [nu |-> clip.nu, tau |-> clip.tau, died |-> Newest(died), included |-> flag]
    BY <1>2, ClipReplaced
  <2>. HIDE DEF bounds
  <2>2. /\ bounds.nu = clip.nu /\ bounds.tau = clip.tau
        /\ bounds.died = Newest(died) /\ bounds.included = flag
    BY <2>1
  <2>. QED
    BY <2>1, <2>2
<1>. HIDE DEF bounds, g
<1>8. /\ Intact(died) /\ Newest(code) <= Newest(died) /\ Newest(died) \in Nat
      /\ died.body = <<>>
  BY <1>1, <1>6, GrowthIsIntact DEF Extends
<1>9. \A o \in 1 .. Newest(died) : IsEarly(died, o)
  <2>1. DOMAIN died.body = {}
    BY <1>8, EmptySequence
  <2>. QED
    BY <1>8, <2>1 DEF Intact, Sound, IsEarly, WrittenIn
<1>10. \A o \in {g.start, g.end, g.died} \union ({g.included} \ {0}) :
         o \in 1 .. Newest(died) /\ IsEarly(died, o)
  BY <1>2, <1>3, <1>4, <1>6, <1>7, <1>9
<1>11. BlockInv' /\ Newest(code') = Newest(died)
  BY <1>1, <1>8, <1>10, GridIsIntact DEF BlockInv
<1>12. WalkInv'
  <2>1. memo' \in [DOMAIN tree.nodes -> 0 .. Newest(code')]
    BY <1>1, <1>2, <1>8, <1>11, NamesStay DEF LoweringInv, WalkInv
  <2>2. stack' \in Seq([node : DOMAIN tree.nodes, got : Seq(1 .. Newest(code'))])
    BY <1>1, EmptySequence
  <2>. QED
    BY <1>1, <2>1, <2>2 DEF WalkInv
<1>13. IncludeInv'
  BY <1>1 DEF IncludeInv
<1>14. ClipInv'
  BY <1>1, <1>7 DEF ClipInv
<1>15. Lowerable'
  BY <1>1 DEF LoweringInv, Lowerable
<1>. QED
  BY <1>11, <1>12, <1>13, <1>14, <1>15 DEF LoweringInv

\* A block without an include takes the exposure as it stands.
LEMMA BindExposureKeeps ==
  ASSUME LoweringInv, BindExposure
  PROVE  LoweringInv'
<1>. DEFINE c == WithExposure(code)
            bounds == ExposureClip(c)
            g == [bound |-> TRUE, start |-> bounds.nu, end |-> bounds.tau,
                  died |-> bounds.died, included |-> bounds.included]
<1>1. /\ stage = "roots" /\ code' = [c EXCEPT !.grid = g]
      /\ UNCHANGED <<tree, tags, include, exposure, stage, memo, stack, place, clip>>
  BY DEF BindExposure, UseTimeGrid
<1>2. /\ Extends(code, c)
      /\ \A column \in {exposure.start, exposure.end, exposure.died} : BoundTo(c, column) # {}
  BY CodeIsOpen, ExposureAdded
<1>3. /\ g.start = ColumnOperand(c, exposure.start) /\ g.end = ColumnOperand(c, exposure.end)
      /\ g.died = ColumnOperand(c, exposure.died) /\ g.included = 0
  BY DEF ExposureClip
<1>. HIDE DEF c, g
<1>4. /\ Intact(c) /\ Newest(c) \in Nat /\ Newest(code) \in Nat
      /\ Newest(code) <= Newest(c)
  BY <1>1, <1>2, GrowthIsIntact DEF Extends
<1>5. \A o \in {g.start, g.end, g.died} \union ({g.included} \ {0}) :
        o \in 1 .. Newest(c) /\ IsEarly(c, o)
  <2>1. \A column \in {exposure.start, exposure.end, exposure.died} :
          ColumnOperand(c, column) \in 1 .. Newest(c) /\ IsEarly(c, ColumnOperand(c, column))
    BY <1>2, <1>4, ColumnIsBound DEF Intact, IsEarly
  <2>. QED
    BY <1>3, <2>1
<1>6. BlockInv' /\ Newest(code') = Newest(c)
  BY <1>1, <1>4, <1>5, GridIsIntact DEF BlockInv
<1>7. WalkInv'
  <2>1. memo' \in [DOMAIN tree.nodes -> 0 .. Newest(code')]
    BY <1>1, <1>4, <1>6, NamesStay DEF LoweringInv, WalkInv
  <2>2. stack' \in Seq([node : DOMAIN tree.nodes, got : Seq(1 .. Newest(code'))])
    BY <1>1, <1>4, <1>6, NamesStay DEF LoweringInv, WalkInv
  <2>. QED
    BY <1>1, <2>1, <2>2 DEF LoweringInv, WalkInv
<1>8. IncludeInv'
  BY <1>1 DEF IncludeInv
<1>9. ClipInv'
  BY <1>1 DEF LoweringInv, ClipInv
<1>10. Lowerable'
  BY <1>1 DEF LoweringInv, Lowerable
<1>. QED
  BY <1>6, <1>7, <1>8, <1>9, <1>10 DEF LoweringInv

\* A root's node is called for.
LEMMA LowerRootKeeps ==
  ASSUME LoweringInv, LowerRoot
  PROVE  LoweringInv'
<1>1. /\ stage = "roots" /\ place \in 1 .. Len(tree.roots) /\ Call1(Root)
      /\ UNCHANGED <<tree, tags, include, exposure, stage, code, memo, place, clip>>
  <2>1. Len(tree.roots) \in Nat
    BY ElementsOfSeq DEF LoweringInv, Lowerable
  <2>. QED
    BY <2>1 DEF LowerRoot, AtRoot, LoweringInv, WalkInv
<1>2. Root \in DOMAIN tree.nodes
  BY <1>1, ElementsOfSeq DEF Root, LoweringInv, Lowerable
<1>. QED
  BY <1>1, <1>2, CallKeeps

\* A root that is lowered becomes an output.
LEMMA AddOutputKeeps ==
  ASSUME LoweringInv, AddOutput
  PROVE  LoweringInv'
<1>. DEFINE o == memo[Root]
<1>1. /\ stage = "roots" /\ stack = <<>> /\ place <= Len(tree.roots)
      /\ o # 0 /\ ~code.operands[o].vector
      /\ code' = [code EXCEPT !.outputs = Append(code.outputs, o)] /\ place' = place + 1
      /\ UNCHANGED <<tree, tags, include, exposure, stage, memo, stack, clip>>
  BY DEF AddOutput, AtRoot, IsVec
<1>2. o \in 1 .. Newest(code)
  <2>1. Len(tree.roots) \in Nat /\ place \in 1 .. Len(tree.roots)
    BY <1>1, ElementsOfSeq DEF LoweringInv, Lowerable, WalkInv
  <2>2. Root \in DOMAIN tree.nodes
    BY <2>1, ElementsOfSeq DEF Root, LoweringInv, Lowerable
  <2>3. o \in 0 .. Newest(code)
    BY <2>2 DEF LoweringInv, WalkInv
  <2>. QED
    BY <1>1, <2>3, CodeIsOpen
<1>. HIDE DEF o
<1>3. /\ Intact(code) /\ Sound(code) /\ Shape(code)
      /\ code.outputs \in Seq(1 .. Newest(code))
  BY DEF LoweringInv, BlockInv, Intact, Sound
<1>4. code' = [operands |-> code.operands, prologue |-> code.prologue, body |-> code.body,
               outputs |-> Append(code.outputs, o), grid |-> code.grid]
  BY <1>1, <1>3 DEF Shape
<1>5. /\ code'.operands = code.operands /\ code'.prologue = code.prologue
      /\ code'.body = code.body /\ code'.outputs = Append(code.outputs, o)
      /\ code'.grid = code.grid
  BY <1>4
<1>6. Shape(code')
  BY <1>3, <1>4, <1>5 DEF Shape
<1>7. /\ Newest(code') = Newest(code)
      /\ \A v : IsTemp(code', v) = IsTemp(code, v) /\ IsEarly(code', v) = IsEarly(code, v)
  BY <1>5 DEF Newest, IsTemp, IsEarly
<1>8. Sound(code')
  BY <1>3, <1>5, <1>6, <1>7 DEF Sound, IsEmitted
<1>9. /\ code'.outputs \in Seq(1 .. Newest(code'))
      /\ \A k \in DOMAIN code'.outputs :
           \/ code'.outputs[k] = o
           \/ k \in DOMAIN code.outputs /\ code'.outputs[k] = code.outputs[k]
  BY <1>2, <1>3, <1>5, <1>7
<1>10. \A k \in DOMAIN code'.outputs : ~code'.operands[code'.outputs[k]].vector
  BY <1>1, <1>3, <1>5, <1>9 DEF Intact
<1>11. BlockInv'
  BY <1>3, <1>5, <1>7, <1>8, <1>9, <1>10 DEF BlockInv, Intact
<1>12. WalkInv'
  BY <1>1, <1>7 DEF LoweringInv, WalkInv
<1>13. IncludeInv' /\ ClipInv'
  BY <1>1 DEF LoweringInv, IncludeInv, ClipInv
<1>14. Lowerable'
  BY <1>1 DEF LoweringInv, Lowerable
<1>. QED
  BY <1>11, <1>12, <1>13, <1>14 DEF LoweringInv

\* The end, and the complaints, leave everything as it is but how far lowering is.
LEMMA EndsKeep ==
  ASSUME LoweringInv, EndRoots \/ Refused
  PROVE  LoweringInv'
<1>1. /\ stage' \in {"lowered", "refused"}
      /\ UNCHANGED <<tree, tags, include, exposure, code, memo, stack, place, clip>>
  BY DEF EndRoots, Refused, Reject
<1>2. Lowerable' /\ BlockInv'
  BY <1>1 DEF LoweringInv, Lowerable, BlockInv, Intact, Sound, Shape
<1>3. WalkInv'
  BY <1>1 DEF LoweringInv, WalkInv
<1>4. IncludeInv' /\ ClipInv'
  BY <1>1 DEF LoweringInv, IncludeInv, ClipInv
<1>. QED
  BY <1>2, <1>3, <1>4 DEF LoweringInv

\* Every step of lowering, and every step of something else.
LEMMA StepKeeps ==
  ASSUME LoweringInv, [LoweringStep]_loweringVars
  PROVE  LoweringInv'
<1>1. ASSUME StartInclude \/ StartRoots
      PROVE  LoweringInv'
  BY <1>1, StartIncludeKeeps, StartRootsKeeps
<1>2. ASSUME LowerTerm \/ AddGate \/ AddAbsolute \/ AddOffset \/ EndInclude
      PROVE  LoweringInv'
  BY <1>2, LowerTermKeeps, AddGateKeeps, AddAbsoluteKeeps, AddOffsetKeeps, EndIncludeKeeps
<1>3. ASSUME BindExposure \/ LowerTime \/ LowerLit \/ LowerField \/ LowerParam
      PROVE  LoweringInv'
  BY <1>3, BindExposureKeeps, LeavesKeep
<1>4. ASSUME Descend \/ Take \/ Finalise \/ LowerVectorCall \/ PassOn \/ LowerScalarCall
      PROVE  LoweringInv'
  BY <1>4, DescendKeeps, TakeKeeps, FinaliseKeeps, VectorCallKeeps, PassOnKeeps, ScalarCallKeeps
<1>5. ASSUME LowerRoot \/ AddOutput \/ EndRoots \/ Refused
      PROVE  LoweringInv'
  BY <1>5, LowerRootKeeps, AddOutputKeeps, EndsKeep
<1>6. ASSUME UNCHANGED loweringVars
      PROVE  LoweringInv'
  <2>1. UNCHANGED <<tree, tags, include, exposure, stage, code, memo, stack, place, clip>>
    BY <1>6 DEF loweringVars
  <2>2. Lowerable' /\ BlockInv'
    BY <2>1 DEF LoweringInv, Lowerable, BlockInv, Intact, Sound, Shape
  <2>3. WalkInv' /\ IncludeInv' /\ ClipInv'
    BY <2>1 DEF LoweringInv, WalkInv, IncludeInv, ClipInv
  <2>. QED
    BY <2>2, <2>3 DEF LoweringInv
<1>. QED
  BY <1>1, <1>2, <1>3, <1>4, <1>5, <1>6 DEF LoweringStep

-----------------------------------------------------------------------------
(* What the passes over blocks are handed.                                  *)

\* The block the passes over blocks see has the operands and the instructions of
\* the block that was lowered.
LEMMA BlockSeen ==
  ASSUME NEW c, Intact(c)
  PROVE  LET b == BlockOf(c) IN
         /\ b.vectors = {o \in 1 .. Newest(c) : c.operands[o].vector}
         /\ b.loaded = {o \in 1 .. Newest(c) : ~IsTemp(c, o)}
         /\ DOMAIN b.prologue = DOMAIN c.prologue
         /\ \A k \in DOMAIN c.prologue :
              /\ b.prologue[k].result = c.prologue[k].result
              /\ ReadBy(b.prologue[k]) = ReadBy(c.prologue[k])
         /\ DOMAIN b.body = DOMAIN c.body /\ DOMAIN c.body = 1 .. Len(b.body)
         /\ Len(b.body) \in Nat
         /\ \A k \in DOMAIN c.body :
              /\ b.body[k].result = c.body[k].result
              /\ ReadBy(b.body[k]) = ReadBy(c.body[k])
         /\ b.outputs \subseteq {o \in 1 .. Newest(c) : ~c.operands[o].vector}
         /\ GridReads(b) \subseteq {o \in 1 .. Newest(c) : IsEarly(c, o)}
<1>. DEFINE b == BlockOf(c)
<1>1. b = [vectors  |-> {k \in DOMAIN c.operands : c.operands[k].vector},
           loaded   |-> {k \in DOMAIN c.operands : c.operands[k].from # "temp"},
           prologue |-> [k \in DOMAIN c.prologue |-> Plain(c.prologue[k])],
           body     |-> [k \in DOMAIN c.body |-> Plain(c.body[k])],
           outputs  |-> {c.outputs[k] : k \in DOMAIN c.outputs},
           grid     |-> IF c.grid.bound THEN {c.grid.start, c.grid.end, c.grid.died} ELSE {},
           included |-> c.grid.included]
  BY DEF BlockOf
<1>2. /\ b.vectors = {k \in DOMAIN c.operands : c.operands[k].vector}
      /\ b.loaded = {k \in DOMAIN c.operands : ~IsTemp(c, k)}
      /\ b.prologue = [k \in DOMAIN c.prologue |-> Plain(c.prologue[k])]
      /\ b.body = [k \in DOMAIN c.body |-> Plain(c.body[k])]
      /\ b.outputs = {c.outputs[k] : k \in DOMAIN c.outputs}
      /\ b.grid = IF c.grid.bound THEN {c.grid.start, c.grid.end, c.grid.died} ELSE {}
      /\ b.included = c.grid.included
  BY <1>1 DEF IsTemp
<1>. HIDE DEF b
<1>3. Sound(c) /\ DOMAIN c.operands = 1 .. Newest(c)
  BY NewestIsNat DEF Intact
<1>4. \A i : Plain(i).result = i.result /\ Plain(i).args = i.args
  BY DEF Plain
<1>5. \A i : ReadBy(Plain(i)) = ReadBy(i)
  BY <1>4 DEF ReadBy
<1>6. /\ DOMAIN b.prologue = DOMAIN c.prologue
      /\ \A k \in DOMAIN c.prologue : b.prologue[k] = Plain(c.prologue[k])
      /\ DOMAIN b.body = DOMAIN c.body
      /\ \A k \in DOMAIN c.body : b.body[k] = Plain(c.body[k])
  BY <1>2
<1>7. DOMAIN c.body = 1 .. Len(b.body) /\ Len(b.body) \in Nat
  <2>1. DOMAIN c.body = 1 .. Len(c.body) /\ Len(c.body) \in Nat
    BY <1>3, ElementsOfSeq DEF Sound, Shape, IsSequence
  <2>2. b.body = [k \in 1 .. Len(c.body) |-> Plain(c.body[k])]
    BY <1>2, <2>1
  <2>3. Len(b.body) = Len(c.body)
    BY <2>1, <2>2
  <2>. QED
    BY <2>1, <2>3
<1>8. b.outputs \subseteq {o \in 1 .. Newest(c) : ~c.operands[o].vector}
  <2>1. \A k \in DOMAIN c.outputs : c.outputs[k] \in 1 .. Newest(c)
    BY ElementsOfSeq DEF Intact
  <2>. QED
    BY <1>2, <2>1 DEF Intact
<1>9. GridReads(b) \subseteq {o \in 1 .. Newest(c) : IsEarly(c, o)}
  BY <1>2 DEF GridReads, Intact
<1>. QED
  BY <1>2, <1>3, <1>4, <1>5, <1>6, <1>7, <1>8, <1>9 DEF b

\* Of instructions whose results increase, the writer of an older operand comes
\* before.
LEMMA WrittenBefore ==
  ASSUME NEW s, NEW n \in Nat, DOMAIN s = 1 .. n, Increasing(s),
         \A k \in DOMAIN s : s[k].result \in Nat,
         NEW j \in DOMAIN s, NEW k \in DOMAIN s
  PROVE  /\ s[j].result < s[k].result => j \in 1 .. k - 1
         /\ s[j].result = s[k].result => j = k
<1>1. j \in Nat /\ k \in Nat /\ j > 0 /\ s[j].result \in Nat /\ s[k].result \in Nat
  OBVIOUS
<1>2. j < k \/ j = k \/ k < j
  BY <1>1
<1>3. j < k => s[j].result < s[k].result
  BY DEF Increasing
<1>4. k < j => s[k].result < s[j].result
  BY DEF Increasing
<1>. QED
  BY <1>1, <1>2, <1>3, <1>4

\* An intact block is one the passes over blocks can run.
LEMMA IntactIsRunnable ==
  ASSUME NEW c, Intact(c)
  PROVE  Runnable(BlockOf(c))
<1>. DEFINE b == BlockOf(c)
            n == Newest(c)
<1>1. /\ b.vectors = {o \in 1 .. n : c.operands[o].vector}
      /\ b.loaded = {o \in 1 .. n : ~IsTemp(c, o)}
      /\ DOMAIN b.prologue = DOMAIN c.prologue
      /\ \A k \in DOMAIN c.prologue :
           /\ b.prologue[k].result = c.prologue[k].result
           /\ ReadBy(b.prologue[k]) = ReadBy(c.prologue[k])
      /\ DOMAIN b.body = DOMAIN c.body /\ DOMAIN c.body = 1 .. Len(b.body)
      /\ Len(b.body) \in Nat
      /\ \A k \in DOMAIN c.body :
           /\ b.body[k].result = c.body[k].result
           /\ ReadBy(b.body[k]) = ReadBy(c.body[k])
      /\ b.outputs \subseteq {o \in 1 .. n : ~c.operands[o].vector}
      /\ GridReads(b) \subseteq {o \in 1 .. n : IsEarly(c, o)}
  BY BlockSeen
<1>. HIDE DEF b
<1>2. /\ Sound(c) /\ n \in Nat /\ Increasing(c.prologue) /\ Increasing(c.body)
      /\ \A j \in DOMAIN c.prologue, k \in DOMAIN c.body :
           c.prologue[j].result < c.body[k].result
  BY NewestIsNat DEF Intact, Sound
<1>. HIDE DEF n
<1>3. /\ \A k \in DOMAIN c.prologue : c.prologue[k].result \in 1 .. n
      /\ \A k \in DOMAIN c.body : c.body[k].result \in 1 .. n
      /\ \A k \in DOMAIN c.prologue : IsTemp(c, c.prologue[k].result)
      /\ \A k \in DOMAIN c.body : IsTemp(c, c.body[k].result)
  BY <1>2 DEF Sound, IsEmitted, n
<1>4. /\ \A k \in DOMAIN c.prologue :
           \A o \in ReadBy(c.prologue[k]) : o \in 1 .. n /\ o < c.prologue[k].result
      /\ \A k \in DOMAIN c.body :
           \A o \in ReadBy(c.body[k]) : o \in 1 .. n /\ o < c.body[k].result
  <2>1. ASSUME NEW i, IsEmitted(c, i)
        PROVE  \A o \in ReadBy(i) : o \in 1 .. n /\ o < i.result
    BY <1>2, <2>1 DEF IsEmitted, ReadBy, n
  <2>. QED
    BY <1>2, <2>1 DEF Sound
<1>5. ASSUME NEW o \in 1 .. n, o \notin b.loaded
      PROVE  /\ IsTemp(c, o)
             /\ \/ \E j \in DOMAIN c.prologue : c.prologue[j].result = o
                \/ \E j \in DOMAIN c.body : c.body[j].result = o
  BY <1>1, <1>2, <1>5 DEF Sound, WrittenIn, n
<1>6. \A o \in b.vectors : o \in 1 .. n /\ o \notin b.loaded
  BY <1>1, <1>2 DEF Sound, n
<1>7. DOMAIN c.prologue = 1 .. Len(c.prologue) /\ Len(c.prologue) \in Nat
  BY <1>2, ElementsOfSeq DEF Sound, Shape, IsSequence
<1>8. ASSUME NEW k \in DOMAIN c.prologue, NEW o \in ReadBy(c.prologue[k]), o \notin b.loaded
      PROVE  o \in {b.prologue[j].result : j \in 1 .. k - 1}
  <2>1. o \in 1 .. n /\ o < c.prologue[k].result
    BY <1>4
  <2>2. ~\E j \in DOMAIN c.body : c.body[j].result = o
    <3>. SUFFICES ASSUME NEW j \in DOMAIN c.body, c.body[j].result = o
                  PROVE  FALSE
      OBVIOUS
    <3>1. c.prologue[k].result < o /\ c.prologue[k].result \in 1 .. n
      BY <1>2, <1>3
    <3>. QED
      BY <1>2, <2>1, <3>1
  <2>3. PICK j \in DOMAIN c.prologue : c.prologue[j].result = o
    BY <1>5, <1>8, <2>1, <2>2
  <2>4. j \in 1 .. k - 1
    <3>1. c.prologue[j].result < c.prologue[k].result
      BY <2>1, <2>3
    <3>2. \A i \in DOMAIN c.prologue : c.prologue[i].result \in Nat
      BY <1>3
    <3>. QED
      BY <1>2, <1>7, <3>1, <3>2, WrittenBefore
  <2>. QED
    BY <1>1, <2>3, <2>4
<1>9. ASSUME NEW k \in DOMAIN c.body, NEW o \in ReadBy(c.body[k]), o \notin b.loaded
      PROVE  \/ \E j \in DOMAIN c.prologue : c.prologue[j].result = o
             \/ o \in {b.body[j].result : j \in 1 .. k - 1}
  <2>1. o \in 1 .. n /\ o < c.body[k].result
    BY <1>4
  <2>2. CASE \E j \in DOMAIN c.body : c.body[j].result = o
    <3>1. PICK j \in DOMAIN c.body : c.body[j].result = o
      BY <2>2
    <3>2. j \in 1 .. k - 1
      <4>1. c.body[j].result < c.body[k].result
        BY <2>1, <3>1
      <4>2. \A i \in DOMAIN c.body : c.body[i].result \in Nat
        BY <1>3
      <4>. QED
        BY <1>1, <1>2, <4>1, <4>2, WrittenBefore
    <3>. QED
      BY <1>1, <3>1, <3>2
  <2>. QED
    BY <1>5, <1>9, <2>1, <2>2
<1>10. \A k \in DOMAIN c.prologue : \A o \in 1 .. c.prologue[k].result : o \notin b.vectors
  BY <1>1 DEF Intact
<1>11. ScalarsInOrder(b)
  <2>1. \A k \in DOMAIN b.prologue :
          ReadBy(b.prologue[k]) \subseteq
            b.loaded \union {b.prologue[j].result : j \in 1 .. k - 1}
    BY <1>1, <1>8
  <2>2. \A k \in DOMAIN b.body :
          ReadBy(b.body[k]) \ b.vectors \subseteq ScalarsBefore(b, k)
    BY <1>1, <1>9 DEF ScalarsBefore
  <2>3. b.outputs \subseteq b.vectors \union ScalarsBefore(b, Len(b.body) + 1)
    BY <1>1, <1>5 DEF ScalarsBefore
  <2>4. b.loaded \intersect ({b.prologue[j].result : j \in DOMAIN b.prologue} \union
                            {b.body[j].result : j \in DOMAIN b.body}) \subseteq b.vectors
    BY <1>1, <1>3
  <2>5. \A j, k \in DOMAIN b.body :
          j # k /\ b.body[j].result = b.body[k].result => b.body[j].result \in b.vectors
    BY <1>1, <1>2, <1>3, WrittenBefore
  <2>6. \A j, k \in DOMAIN b.prologue :
          j # k /\ b.prologue[j].result = b.prologue[k].result => b.prologue[j].result \in b.vectors
    <3>1. \A i \in DOMAIN c.prologue : c.prologue[i].result \in Nat
      BY <1>3
    <3>. QED
      BY <1>1, <1>2, <1>7, <3>1, WrittenBefore
  <2>7. {b.prologue[j].result : j \in DOMAIN b.prologue} \intersect
          {b.body[j].result : j \in DOMAIN b.body} \subseteq b.vectors
    <3>. SUFFICES ASSUME NEW j \in DOMAIN c.prologue, NEW k \in DOMAIN c.body,
                         c.prologue[j].result = c.body[k].result
                  PROVE  FALSE
      BY <1>1
    <3>1. c.prologue[j].result < c.body[k].result /\ c.body[k].result \in 1 .. n
      BY <1>2, <1>3
    <3>. QED
      BY <1>2, <3>1
  <2>. QED
    BY <2>1, <2>2, <2>3, <2>4, <2>5, <2>6, <2>7 DEF ScalarsInOrder
<1>12. GridReads(b) \subseteq ScalarsBefore(b, 1)
  BY <1>1 DEF IsEarly, WrittenIn, ScalarsBefore
<1>13. \A k \in DOMAIN b.prologue :
         b.vectors \intersect ({b.prologue[k].result} \union ReadBy(b.prologue[k])) = {}
  <2>. SUFFICES ASSUME NEW k \in DOMAIN c.prologue,
                       NEW o \in {c.prologue[k].result} \union ReadBy(c.prologue[k])
                PROVE  o \notin b.vectors
    BY <1>1
  <2>1. o \in 1 .. c.prologue[k].result
    BY <1>2, <1>3, <1>4
  <2>. QED
    BY <1>10, <2>1
<1>14. b.vectors \intersect (b.outputs \union b.loaded) = {}
  BY <1>1, <1>6
<1>15. \A k \in DOMAIN b.body :
         b.vectors \intersect ReadBy(b.body[k]) \subseteq {b.body[j].result : j \in 1 .. k - 1}
  <2>. SUFFICES ASSUME NEW k \in DOMAIN c.body,
                       NEW o \in b.vectors, o \in ReadBy(c.body[k])
                PROVE  o \in {b.body[j].result : j \in 1 .. k - 1}
    BY <1>1
  <2>1. o \notin b.loaded
    BY <1>6
  <2>2. ~\E j \in DOMAIN c.prologue : c.prologue[j].result = o
    <3>1. \A j \in DOMAIN c.prologue : c.prologue[j].result \in 1 .. c.prologue[j].result
      BY <1>2, <1>3
    <3>. QED
      BY <1>10, <3>1
  <2>. QED
    BY <1>9, <2>1, <2>2
<1>16. \A j, k \in DOMAIN b.body : b.body[j].result = b.body[k].result => j = k
  BY <1>1, <1>2, <1>3, WrittenBefore
<1>. QED
  BY <1>11, <1>12, <1>13, <1>14, <1>15, <1>16 DEF Runnable, b

-----------------------------------------------------------------------------
(* The theorems.                                                            *)

\* Whatever tree, include and exposure lowering is handed, and wherever it stands
\* (Lowerer of passLowerToBlock.hpp): every operand is written once or bound, an
\* instruction reads only what is older, the include's own instructions and the
\* grid rest on nothing of the body, and what is remembered names operands.
THEOREM LoweringIsInOrder == LoweringSpec => []LoweringInv
<1>1. LoweringInit => LoweringInv
  BY LoweringStarts
<1>2. LoweringInv /\ [LoweringStep]_loweringVars => LoweringInv'
  BY StepKeeps
<1>. QED
  BY <1>1, <1>2, PTL DEF LoweringSpec

\* What lowering hands on is what the passes over blocks, and the proofs about
\* them, take on trust: nothing is read before it is written, and no time vector
\* is read by the prologue, by the grid or by the caller.
THEOREM LoweredBlocksAreRunnable == LoweringSpec => []BlocksAreRunnable
<1>1. LoweringInv => BlocksAreRunnable
  BY IntactIsRunnable DEF LoweringInv, BlockInv, BlocksAreRunnable
<1>. QED
  BY <1>1, LoweringIsInOrder, PTL
=============================================================================
