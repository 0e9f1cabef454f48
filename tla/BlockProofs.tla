---------------------------- MODULE BlockProofs ----------------------------
(***************************************************************************)
(* Proofs about blocks, for every block lowering could write: about the     *)
(* passes that lay it out, and about one interpreter walking any number of  *)
(* records with it, over grids of any size.                                 *)
(*                                                                         *)
(* LayoutInv (module BlockLayout) is inductive; there is one lemma per      *)
(* group of actions that disturb the same part of it.  Relative to it so    *)
(* are FewestInv, DemandIsRead and SweepInv below, each about one pass, and *)
(* RunInv (module BlockRun) about the records: LayoutInv says which         *)
(* operands share a buffer and which slots are filled, WalkInv what the     *)
(* buffers and registers hold.                                              *)
(***************************************************************************)
EXTENDS BlockRun, DataInduction, FiniteSetTheorems

\* What the type of a block says of its instructions.
LEMMA BlockTypes ==
  ASSUME NEW b \in BlockType
  PROVE  /\ b.vectors \subseteq Operands /\ b.loaded \subseteq Operands
         /\ b.outputs \subseteq Operands /\ b.grid \subseteq Operands
         /\ b.body \in Seq(InstructionType) /\ b.prologue \in Seq(InstructionType)
         /\ Len(b.body) \in Nat /\ Len(b.prologue) \in Nat
         /\ DOMAIN b.body = 1 .. Len(b.body)
         /\ DOMAIN b.prologue = 1 .. Len(b.prologue)
         /\ \A k \in 1 .. Len(b.body) : b.body[k] \in InstructionType
         /\ \A k \in 1 .. Len(b.prologue) : b.prologue[k] \in InstructionType
<1>1. b.body \in Seq(InstructionType) /\ b.prologue \in Seq(InstructionType)
  BY DEF BlockType
<1>2. /\ b.vectors \subseteq Operands /\ b.loaded \subseteq Operands
      /\ b.outputs \subseteq Operands /\ b.grid \subseteq Operands
  BY DEF BlockType
<1>. QED
  BY <1>1, <1>2

\* An instruction reads and writes operands.
LEMMA InstructionTypes ==
  ASSUME NEW i \in InstructionType
  PROVE  i.result \in Operands /\ ReadBy(i) \subseteq Operands /\ i.op \in Ops
<1>1. i.args \in Seq(Operands) /\ i.result \in Operands /\ i.op \in Ops
  BY DEF InstructionType
<1>. QED
  BY <1>1 DEF ReadBy

\* The two lemmas, of the block being laid out.
LEMMA BodyTypes ==
  ASSUME LayoutTypeOK
  PROVE  /\ block.vectors \subseteq Operands
         /\ BodyLength \in Nat
         /\ DOMAIN block.body = 1 .. BodyLength
         /\ \A k \in 1 .. BodyLength :
              /\ block.body[k].result \in Operands
              /\ ReadBy(block.body[k]) \subseteq Operands
              /\ block.body[k].op \in Ops
<1>1. block \in BlockType
  BY DEF LayoutTypeOK
<1>2. /\ block.vectors \subseteq Operands /\ BodyLength \in Nat
      /\ DOMAIN block.body = 1 .. BodyLength
      /\ \A k \in 1 .. BodyLength : block.body[k] \in InstructionType
  BY <1>1, BlockTypes DEF BodyLength
<1>. QED
  BY <1>2, InstructionTypes

-----------------------------------------------------------------------------
LEMMA LayoutStarts == LayoutInit => LayoutInv
<1>. SUFFICES ASSUME LayoutInit PROVE LayoutInv
  OBVIOUS
<1>. USE DEF LayoutInit
<1>1. block \in BlockType /\ ScalarsInOrder(block)
  BY LayoutAssumption
<1>2. LayoutTypeOK
  BY <1>1 DEF LayoutTypeOK, RangeType, NoRange, Passes
<1>3. PositionInv /\ PlacesInv /\ DemandInv /\ BuffersInv
  BY DEF PositionInv, PlacesInv, DemandInv, BuffersInv, AfterLiveness, AfterDemand, BodyLength
<1>4. RangesInv
  BY DEF RangesInv, AfterLiveness
<1>. QED
  BY <1>1, <1>2, <1>3, <1>4 DEF LayoutInv

\* A pipeline that refused the block has nothing left to keep.
LEMMA RefusalKeeps ==
  ASSUME LayoutInv, Refuse
  PROVE  LayoutInv'
<1>. USE DEF Refuse
<1>1. LayoutTypeOK' /\ ScalarsInOrder(block)'
  <2>1. block' = block
    OBVIOUS
  <2>2. ScalarsInOrder(block)'
    BY <2>1 DEF LayoutInv, ScalarsInOrder, ScalarsBefore
  <2>. QED
    BY <2>1, <2>2 DEF LayoutInv, LayoutTypeOK, Passes
<1>2. PositionInv' /\ PlacesInv' /\ DemandInv' /\ BuffersInv'
  BY DEF LayoutInv, PositionInv, PlacesInv, DemandInv, BuffersInv, AfterLiveness, AfterDemand
<1>3. RangesInv'
  BY DEF LayoutInv, RangesInv, AfterLiveness
<1>. QED
  BY <1>1, <1>2, <1>3 DEF LayoutInv

\* From the placement checks to liveness, which has seen nothing yet.
LEMMA CheckPlacesKeeps ==
  ASSUME LayoutInv, CheckPlaces
  PROVE  LayoutInv'
<1>. USE DEF CheckPlaces, GoTo
<1>1. LayoutTypeOK' /\ ScalarsInOrder(block)'
  <2>1. block' = block
    OBVIOUS
  <2>2. ScalarsInOrder(block)'
    BY <2>1 DEF LayoutInv, ScalarsInOrder, ScalarsBefore
  <2>. QED
    BY <2>1, <2>2 DEF LayoutInv, LayoutTypeOK, Passes
<1>2. PositionInv'
  BY BodyTypes DEF LayoutInv, PositionInv, BodyLength
<1>3. PlacesInv' /\ DemandInv' /\ BuffersInv'
  BY DEF LayoutInv, PlacesInv, DemandInv, BuffersInv, AfterLiveness, AfterDemand,
         Misplaced, IsVector, VectorsReadBy
<1>4. RangesInv'
  <2>1. \A v \in block.vectors : ~ranges[v].defined
    BY BodyTypes DEF LayoutInv, RangesInv, NoRange
  <2>. QED
    BY <2>1 DEF RangesInv, Scanned
<1>. QED
  BY <1>1, <1>2, <1>3, <1>4 DEF LayoutInv

-----------------------------------------------------------------------------
\* One instruction of the liveness scan.  Only its result's range starts, and
\* only the ranges of what it reads grow; both end at this instruction.
LEMMA ExtendRangesKeeps ==
  ASSUME LayoutInv, ExtendRanges
  PROVE  LayoutInv'
<1>. USE DEF ExtendRanges
<1>1. /\ at \in 1 .. BodyLength /\ at' = at + 1
      /\ pass = "liveness" /\ BodyLength \in Nat
      /\ Current.result \in Operands
      /\ VectorsReadBy(Current) \subseteq Operands
      /\ \A a \in VectorsReadBy(Current) : IsVector(a) /\ ranges[a].defined
      /\ IsVector(Current.result) => ~ranges[Current.result].defined
      /\ block.vectors \subseteq Operands
  BY BodyTypes DEF LayoutInv, LayoutTypeOK, PositionInv, Current, ReadTooEarly, WrittenTwice,
                   VectorsReadBy
<1>2. /\ block' = block /\ pass' = pass /\ BodyLength' = BodyLength
      /\ \A v \in Operands : ranges'[v] = RangeAfter(v)
  BY DEF BodyLength
<1>3. \A v \in Operands : RangeAfter(v) \in RangeType
  BY <1>1 DEF LayoutInv, LayoutTypeOK, RangeAfter, RangeType
<1>4. LayoutTypeOK' /\ ScalarsInOrder(block)'
  <2>1. ranges' \in [Operands -> RangeType]
    BY <1>3
  <2>2. at' \in Nat
    BY <1>1
  <2>3. LayoutTypeOK'
    BY <2>1, <2>2 DEF LayoutInv, LayoutTypeOK
  <2>4. ScalarsInOrder(block)'
    BY <1>2 DEF LayoutInv, ScalarsInOrder, ScalarsBefore
  <2>. QED
    BY <2>3, <2>4
<1>5. PositionInv' /\ PlacesInv' /\ DemandInv' /\ BuffersInv'
  <2>1. PositionInv'
    BY <1>1, <1>2 DEF PositionInv
  <2>2. PlacesInv'
    BY <1>2 DEF LayoutInv, PlacesInv, AfterLiveness, Misplaced, IsVector, VectorsReadBy
  <2>3. DemandInv' /\ BuffersInv'
    BY <1>2 DEF LayoutInv, DemandInv, BuffersInv, AfterDemand
  <2>. QED
    BY <2>1, <2>2, <2>3
<1>6. RangesInv'
  <2>. Scanned = at - 1 /\ Scanned' = at
    BY <1>1, <1>2 DEF Scanned, LayoutInv, LayoutTypeOK
  <2>1. \A v \in Operands :
          \/ /\ v = Current.result /\ IsVector(v) /\ ~ranges[v].defined
             /\ ranges'[v] = [defined |-> TRUE, definedAt |-> at, lastUsedAt |-> at]
          \/ /\ v # Current.result \/ ~IsVector(v)
             /\ v \in VectorsReadBy(Current) /\ ranges[v].defined
             /\ ranges'[v] = [ranges[v] EXCEPT !.lastUsedAt = at]
          \/ /\ v # Current.result \/ ~IsVector(v)
             /\ v \notin VectorsReadBy(Current) /\ ranges'[v] = ranges[v]
    BY <1>1, <1>2 DEF RangeAfter
  <2>2. \A v \in Operands : ranges[v] \in RangeType
    BY DEF LayoutInv, LayoutTypeOK
  <2>3. \A v \in Operands : ranges[v].defined =>
          ranges'[v].defined /\ ranges'[v].definedAt = ranges[v].definedAt
    BY <2>1, <2>2 DEF RangeType
  <2>4. /\ \A v \in block.vectors : ranges[v].defined =>
             /\ ranges[v].definedAt \in 1 .. at - 1
             /\ ranges[v].definedAt <= ranges[v].lastUsedAt
             /\ ranges[v].lastUsedAt <= at - 1
             /\ block.body[ranges[v].definedAt].result = v
        /\ \A j \in 1 .. at - 1 : IsVector(block.body[j].result) =>
             /\ ranges[block.body[j].result].defined
             /\ ranges[block.body[j].result].definedAt = j
        /\ \A j \in 1 .. at - 1 : \A a \in VectorsReadBy(block.body[j]) :
             /\ ranges[a].defined
             /\ ranges[a].definedAt < j
             /\ j <= ranges[a].lastUsedAt
    BY DEF LayoutInv, RangesInv
  <2>5. ASSUME NEW v \in block.vectors, ranges'[v].defined
        PROVE  /\ ranges'[v].definedAt \in 1 .. at
               /\ ranges'[v].definedAt <= ranges'[v].lastUsedAt
               /\ ranges'[v].lastUsedAt <= at
               /\ block.body[ranges'[v].definedAt].result = v
    BY <1>1, <2>1, <2>2, <2>4, <2>5 DEF RangeType, Current
  <2>6. ASSUME NEW j \in 1 .. at, IsVector(block.body[j].result)
        PROVE  /\ ranges'[block.body[j].result].defined
               /\ ranges'[block.body[j].result].definedAt = j
    <3>1. CASE j = at
      BY <1>1, <2>1, <2>6, <3>1 DEF Current
    <3>2. CASE j # at
      BY <1>1, <2>3, <2>4, <2>6, <3>2 DEF IsVector
    <3>. QED
      BY <3>1, <3>2
  <2>7. ASSUME NEW j \in 1 .. at, NEW a \in VectorsReadBy(block.body[j])
        PROVE  /\ ranges'[a].defined /\ ranges'[a].definedAt < j
               /\ j <= ranges'[a].lastUsedAt
    <3>1. a \in Operands /\ IsVector(a)
      BY <1>1 DEF VectorsReadBy, IsVector
    <3>2. CASE j = at
      <4>1. a \in VectorsReadBy(Current) /\ ranges[a].defined
        BY <1>1, <3>2 DEF Current
      <4>2. ranges'[a] = [ranges[a] EXCEPT !.lastUsedAt = at]
        BY <1>1, <2>1, <3>1, <4>1
      <4>. QED
        BY <1>1, <2>2, <2>4, <3>1, <3>2, <4>1, <4>2 DEF RangeType, IsVector
    <3>3. CASE j # at
      <4>1. j \in 1 .. at - 1 /\ ranges[a].defined /\ j <= ranges[a].lastUsedAt
        BY <1>1, <2>4, <3>3
      <4>2. ranges'[a].lastUsedAt = ranges[a].lastUsedAt \/ ranges'[a].lastUsedAt = at
        BY <2>1, <2>2, <3>1 DEF RangeType
      <4>. QED
        BY <1>1, <2>3, <2>4, <3>1, <4>1, <4>2
    <3>. QED
      BY <3>2, <3>3
  <2>. QED
    BY <1>1, <1>2, <2>5, <2>6, <2>7 DEF RangesInv, IsVector, VectorsReadBy
<1>. QED
  BY <1>4, <1>5, <1>6 DEF LayoutInv

\* Steps that go on to another pass, or past an instruction no time vector
\* comes from: the ranges stay, and cover the whole body once liveness is over.
LEMMA RangesStay ==
  ASSUME LayoutInv, UNCHANGED <<block, ranges>>,
         pass = "liveness" \/ AfterLiveness,
         pass = "liveness" => at = BodyLength + 1,
         pass' \in {"demand", "deadBody", "deadPrologue", "allocate", "ready"}
  PROVE  ScalarsInOrder(block)' /\ PlacesInv' /\ RangesInv'
<1>1. ScalarsInOrder(block)' /\ PlacesInv'
  BY DEF LayoutInv, PlacesInv, ScalarsInOrder, ScalarsBefore, Misplaced, IsVector, VectorsReadBy
<1>2. Scanned = BodyLength /\ BodyLength' = BodyLength /\ Scanned' = BodyLength
  <2>1. BodyLength \in Nat /\ BodyLength' = BodyLength
    BY BodyTypes DEF LayoutInv, BodyLength
  <2>2. pass' # "liveness" /\ AfterLiveness'
    BY DEF AfterLiveness
  <2>. QED
    BY <2>1, <2>2 DEF Scanned
<1>3. /\ \A v \in block.vectors : ranges[v].defined =>
           /\ ranges[v].definedAt \in 1 .. Scanned
           /\ ranges[v].definedAt <= ranges[v].lastUsedAt
           /\ ranges[v].lastUsedAt <= Scanned
           /\ block.body[ranges[v].definedAt].result = v
      /\ \A j \in 1 .. Scanned : IsVector(block.body[j].result) =>
           /\ ranges[block.body[j].result].defined
           /\ ranges[block.body[j].result].definedAt = j
      /\ \A j \in 1 .. Scanned : \A a \in VectorsReadBy(block.body[j]) :
           /\ ranges[a].defined
           /\ ranges[a].definedAt < j
           /\ j <= ranges[a].lastUsedAt
  BY DEF LayoutInv, RangesInv
<1>4. RangesInv'
  BY <1>2, <1>3 DEF RangesInv, IsVector, VectorsReadBy
<1>. QED
  BY <1>1, <1>4

LEMMA EndLivenessKeeps ==
  ASSUME LayoutInv, EndLiveness
  PROVE  LayoutInv'
<1>. USE DEF EndLiveness, GoTo
<1>1. at = BodyLength + 1 /\ BodyLength \in Nat
  BY BodyTypes DEF LayoutInv, LayoutTypeOK, PositionInv
<1>2. LayoutTypeOK' /\ PositionInv'
  BY <1>1 DEF LayoutInv, LayoutTypeOK, PositionInv, Passes, BodyLength
<1>3. DemandInv' /\ BuffersInv'
  <2>1. BodyLength' = BodyLength
    BY DEF BodyLength
  <2>. QED
    BY <1>1, <2>1 DEF LayoutInv, DemandInv, BuffersInv, AfterDemand
<1>4. ScalarsInOrder(block)' /\ PlacesInv' /\ RangesInv'
  BY <1>1, RangesStay
<1>. QED
  BY <1>2, <1>3, <1>4 DEF LayoutInv

-----------------------------------------------------------------------------
\* One instruction of the demand scan.  A demand already passed on stays good:
\* what this instruction reads was written before it, so no result behind the
\* scan is asked for more.
LEMMA PassDemandOnKeeps ==
  ASSUME LayoutInv, PassDemandOn
  PROVE  LayoutInv'
<1>. USE DEF PassDemandOn
<1>1. /\ pass = "demand" /\ at \in 1 .. BodyLength /\ at' = at - 1 /\ BodyLength \in Nat
      /\ block' = block /\ pass' = pass /\ ranges' = ranges /\ BodyLength' = BodyLength
      /\ \A v \in Operands : demand'[v] = DemandAfter(v)
  BY BodyTypes DEF LayoutInv, LayoutTypeOK, PositionInv, BodyLength
<1>2. ArgumentsOf(Current) \subseteq VectorsReadBy(Current)
  <2>1. CASE Finalises(Current)
    <3>1. Current.args \in Seq(Operands) /\ Current.args # <<>> /\ IsVector(Current.args[1])
      <4>1. block \in BlockType
        BY DEF LayoutInv, LayoutTypeOK
      <4>2. Current \in InstructionType
        BY <1>1, <4>1, BlockTypes DEF Current, BodyLength
      <4>3. Current.args \in Seq(Operands)
        BY <4>2 DEF InstructionType
      <4>. QED
        BY <2>1, <4>3 DEF IllShaped
    <3>2. 1 \in DOMAIN Current.args
      BY <3>1
    <3>. QED
      BY <2>1, <3>1, <3>2 DEF ArgumentsOf, VectorsReadBy, ReadBy
  <2>2. CASE ~Finalises(Current)
    BY <2>2 DEF ArgumentsOf
  <2>. QED
    BY <2>1, <2>2
<1>3. Wanted(Current) \subseteq {"midpoints", "death"}
  BY BodyTypes DEF LayoutInv, LayoutTypeOK, Wanted, IsVector
<1>4. LayoutTypeOK' /\ ScalarsInOrder(block)'
  <2>1. \A v \in Operands : DemandAfter(v) \subseteq {"midpoints", "death"}
    BY <1>3 DEF LayoutInv, LayoutTypeOK, DemandAfter
  <2>2. at' \in Nat
    BY <1>1
  <2>3. ScalarsInOrder(block)'
    BY <1>1 DEF LayoutInv, ScalarsInOrder, ScalarsBefore
  <2>. QED
    BY <2>1, <2>2, <2>3 DEF LayoutInv, LayoutTypeOK
<1>5. PositionInv' /\ PlacesInv'
  BY <1>1 DEF LayoutInv, PositionInv, PlacesInv, AfterLiveness, Misplaced, IsVector, VectorsReadBy
<1>6. RangesInv' /\ BuffersInv'
  BY <1>1 DEF LayoutInv, RangesInv, BuffersInv, Scanned, AfterLiveness, IsVector, VectorsReadBy
<1>7. DemandInv'
  <2>1. \A v \in Operands : demand[v] \subseteq demand'[v]
    BY <1>1 DEF DemandAfter
  <2>2. \A a \in ArgumentsOf(Current) : Wanted(Current) \subseteq demand'[a]
    BY <1>1, <1>2, BodyTypes DEF LayoutInv, DemandAfter, VectorsReadBy, Current
  <2>3. ASSUME NEW j \in at .. BodyLength, IsVector(block.body[j].result)
        PROVE  demand'[block.body[j].result] = demand[block.body[j].result]
    <3>. DEFINE v == block.body[j].result
    <3>1. v \in Operands /\ j \in 1 .. BodyLength
      BY <1>1, BodyTypes DEF LayoutInv
    <3>2. ranges[v].definedAt = j /\ Scanned = BodyLength
      BY <1>1, <2>3, <3>1 DEF LayoutInv, RangesInv, Scanned, AfterLiveness
    <3>3. \A a \in VectorsReadBy(Current) : ranges[a].definedAt < at
      BY <1>1, <3>2 DEF LayoutInv, RangesInv, AfterLiveness, Current
    <3>4. v \notin VectorsReadBy(Current)
      BY <1>1, <3>2, <3>3, BodyTypes DEF LayoutInv, LayoutTypeOK, RangeType
    <3>. QED
      BY <1>1, <1>2, <3>1, <3>4 DEF DemandAfter
  <2>4. ASSUME NEW j \in at .. BodyLength
        PROVE  Wanted(block.body[j])' = Wanted(block.body[j])
    <3>1. block.body[j]' = block.body[j]
      BY <1>1
    <3>2. IsVector(block.body[j].result) =>
            demand'[block.body[j].result] = demand[block.body[j].result]
      BY <2>3
    <3>. QED
      BY <1>1, <3>1, <3>2 DEF Wanted, IsVector
  <2>5. ASSUME NEW j \in at .. BodyLength
        PROVE  Demanded(j)'
    <3>1. /\ IllShaped(block.body[j])' = IllShaped(block.body[j])
          /\ ArgumentsOf(block.body[j])' = ArgumentsOf(block.body[j])
      BY <1>1 DEF IllShaped, ArgumentsOf, VectorsReadBy, IsVector, Finalises, ReadBy
    <3>2. CASE j = at
      BY <2>2, <2>4, <3>1, <3>2 DEF Demanded, Current
    <3>3. CASE j # at
      <4>1. Demanded(j) /\ ~IllShaped(block.body[j]) /\ j \in 1 .. BodyLength
        BY <1>1, <3>3 DEF LayoutInv, DemandInv, Demanded
      <4>2. ArgumentsOf(block.body[j]) \subseteq Operands
        <5>1. block.body[j] \in InstructionType
          BY <4>1, BlockTypes DEF LayoutInv, LayoutTypeOK, BodyLength
        <5>2. ReadBy(block.body[j]) \subseteq Operands
          BY <5>1, InstructionTypes
        <5>3. block.vectors \subseteq Operands
          BY BodyTypes DEF LayoutInv
        <5>. QED
          BY <4>1, <5>2, <5>3 DEF ArgumentsOf, VectorsReadBy, IsVector, IllShaped
      <4>. QED
        BY <2>1, <2>4, <3>1, <4>1, <4>2 DEF Demanded
    <3>. QED
      BY <3>2, <3>3
  <2>. QED
    BY <1>1, <2>5 DEF DemandInv, AfterDemand
<1>. QED
  BY <1>4, <1>5, <1>6, <1>7 DEF LayoutInv

LEMMA EndDemandKeeps ==
  ASSUME LayoutInv, EndDemand
  PROVE  LayoutInv'
<1>. USE DEF EndDemand, GoTo
<1>1. /\ pass = "demand" /\ at = 0 /\ BodyLength \in Nat /\ BodyLength' = BodyLength
      /\ pass' = "deadBody" /\ at' = BodyLength
      /\ block' = block /\ demand' = demand
  BY BodyTypes DEF LayoutInv, BodyLength
<1>2. LayoutTypeOK'
  <2>1. block.outputs \union GridReads(block) \subseteq Operands
    <3>1. block.included \in Operands \union {0}
      BY DEF LayoutInv, LayoutTypeOK, BlockType
    <3>. QED
      BY <3>1, BlockTypes DEF LayoutInv, LayoutTypeOK, GridReads
  <2>. QED
    BY <1>1, <2>1 DEF LayoutInv, LayoutTypeOK, Passes
<1>3. PositionInv' /\ BuffersInv'
  BY <1>1 DEF LayoutInv, PositionInv, BuffersInv
<1>4. DemandInv'
  BY <1>1 DEF LayoutInv, DemandInv, AfterDemand, Demanded, IllShaped, ArgumentsOf, Wanted,
     VectorsReadBy, IsVector, Finalises, ReadBy
<1>5. ScalarsInOrder(block)' /\ PlacesInv' /\ RangesInv'
  BY <1>1, RangesStay DEF AfterLiveness
<1>. QED
  BY <1>2, <1>3, <1>4, <1>5 DEF LayoutInv

-----------------------------------------------------------------------------
\* The search for dead instructions only reads what the other passes found.
LEMMA DemandStays ==
  ASSUME LayoutInv, AfterDemand, AfterDemand', UNCHANGED <<block, demand>>
  PROVE  DemandInv'
<1>1. BodyLength' = BodyLength /\ pass' # "demand"
  BY DEF BodyLength, AfterDemand
<1>2. \A j \in 1 .. BodyLength : Demanded(j)
  BY DEF LayoutInv, DemandInv
<1>. QED
  BY <1>1, <1>2 DEF DemandInv, Demanded, IllShaped, ArgumentsOf, Wanted, VectorsReadBy, IsVector,
     Finalises, ReadBy

LEMMA SweepsKeep ==
  ASSUME LayoutInv, SweepBody \/ EndSweepBody \/ SweepPrologue \/ EndSweepPrologue
  PROVE  LayoutInv'
<1>. USE DEF SweepBody, EndSweepBody, SweepPrologue, EndSweepPrologue, Sweep, GoTo
<1>1. /\ block \in BlockType /\ BodyLength \in Nat /\ Len(block.prologue) \in Nat
      /\ block' = block /\ BodyLength' = BodyLength /\ at \in Nat
      /\ UNCHANGED <<ranges, demand, bufferOf, freeFrom>>
      /\ pass \in {"deadBody", "deadPrologue"}
      /\ pass' \in {"deadBody", "deadPrologue", "allocate"}
  BY BlockTypes DEF LayoutInv, LayoutTypeOK, BodyLength
<1>2. /\ pass' = "deadBody" => at' <= BodyLength
      /\ pass' = "deadPrologue" => at' <= Len(block.prologue)
      /\ pass' = "allocate" => at' = 1
      /\ at' \in Nat
  BY <1>1 DEF LayoutInv, PositionInv
<1>3. read' \subseteq Operands
  <2>1. read \subseteq Operands
    BY DEF LayoutInv, LayoutTypeOK
  <2>2. ASSUME SweepBody PROVE ReadBy(block.body[at]) \subseteq Operands
    BY <1>1, <2>2, BodyTypes DEF LayoutInv, PositionInv
  <2>3. ASSUME SweepPrologue PROVE ReadBy(block.prologue[at]) \subseteq Operands
    <3>1. at \in 1 .. Len(block.prologue)
      BY <1>1, <2>3 DEF LayoutInv, PositionInv
    <3>2. block.prologue[at] \in InstructionType
      BY <1>1, <3>1, BlockTypes
    <3>. QED
      BY <3>2, InstructionTypes
  <2>4. CASE SweepBody
    BY <2>1, <2>2, <2>4
  <2>5. CASE SweepPrologue
    BY <2>1, <2>3, <2>5
  <2>. QED
    BY <2>1, <2>4, <2>5
<1>4. LayoutTypeOK'
  BY <1>1, <1>2, <1>3 DEF LayoutInv, LayoutTypeOK, Passes
<1>5. PositionInv'
  BY <1>1, <1>2 DEF PositionInv
<1>6. ScalarsInOrder(block)' /\ PlacesInv' /\ RangesInv'
  BY <1>1, RangesStay DEF AfterLiveness
<1>7. DemandInv'
  BY <1>1, DemandStays DEF AfterDemand
<1>8. BuffersInv'
  <2>1. freeFrom = <<>> /\ \A v \in Operands : bufferOf[v] = 0
    BY <1>1 DEF LayoutInv, BuffersInv
  <2>2. block.vectors \subseteq Operands
    BY BodyTypes DEF LayoutInv
  <2>. QED
    BY <1>1, <2>1, <2>2 DEF BuffersInv
<1>. QED
  BY <1>4, <1>5, <1>6, <1>7, <1>8 DEF LayoutInv

-----------------------------------------------------------------------------
\* The time vector the allocation looks at is written there, and has no buffer
\* yet; those that have one were written before.
LEMMA CurrentIsNew ==
  ASSUME LayoutInv, NeedsBuffer
  PROVE  /\ at \in 1 .. BodyLength /\ BodyLength \in Nat
         /\ Current.result \in block.vectors /\ Current.result \in Operands
         /\ ranges \in [Operands -> RangeType]
         /\ ranges[Current.result].definedAt = at
         /\ at <= ranges[Current.result].lastUsedAt
         /\ FreeAgainFrom \in Nat
         /\ bufferOf[Current.result] = 0
<1>. USE DEF NeedsBuffer
<1>1. /\ at \in 1 .. BodyLength /\ BodyLength \in Nat /\ pass = "allocate"
      /\ Current.result \in block.vectors /\ Current.result \in Operands
      /\ ranges \in [Operands -> RangeType] /\ block.vectors \subseteq Operands
  BY BodyTypes DEF LayoutInv, LayoutTypeOK, PositionInv, IsVector, Current
<1>2. Scanned = BodyLength /\ AfterLiveness
  BY <1>1 DEF Scanned, AfterLiveness
<1>3. /\ ranges[Current.result].defined
      /\ ranges[Current.result].definedAt = at
  BY <1>1, <1>2 DEF LayoutInv, RangesInv, Current, IsVector
<1>4. at <= ranges[Current.result].lastUsedAt
  BY <1>1, <1>2, <1>3 DEF LayoutInv, RangesInv
<1>5. FreeAgainFrom \in Nat
  BY <1>1 DEF FreeAgainFrom, RangeType
<1>6. bufferOf[Current.result] = 0
  BY <1>1, <1>3 DEF LayoutInv, BuffersInv
<1>. QED
  BY <1>1, <1>3, <1>4, <1>5, <1>6

\* What an allocation step leaves alone.
LEMMA AllocationStays ==
  ASSUME LayoutInv, pass = "allocate", pass' \in {"allocate", "ready"},
         UNCHANGED <<block, ranges, demand>>
  PROVE  ScalarsInOrder(block)' /\ PlacesInv' /\ RangesInv' /\ DemandInv'
<1>1. ScalarsInOrder(block)' /\ PlacesInv' /\ RangesInv'
  BY RangesStay DEF AfterLiveness
<1>2. DemandInv'
  BY DemandStays DEF AfterDemand
<1>. QED
  BY <1>1, <1>2

\* Giving a buffer to the time vector at hand keeps its users in turn, if the
\* earlier ones are past their last reader.
LEMMA TakingABufferKeeps ==
  ASSUME LayoutInv, NeedsBuffer, at' = at + 1,
         UNCHANGED <<block, pass, ranges, demand, read>>,
         NEW b \in Nat \ {0},
         bufferOf' = [bufferOf EXCEPT ![Current.result] = b],
         freeFrom' \in Seq(Nat), Len(freeFrom) <= Len(freeFrom'), b <= Len(freeFrom'),
         freeFrom'[b] = FreeAgainFrom,
         \A c \in DOMAIN freeFrom : c # b => freeFrom'[c] = freeFrom[c],
         b \in DOMAIN freeFrom => freeFrom[b] <= at
  PROVE  LayoutInv'
<1>. DEFINE v == Current.result
<1>1. /\ at \in 1 .. BodyLength /\ BodyLength \in Nat /\ BodyLength' = BodyLength
      /\ v \in block.vectors /\ v \in Operands
      /\ ranges \in [Operands -> RangeType]
      /\ ranges[v].definedAt = at /\ at <= ranges[v].lastUsedAt /\ bufferOf[v] = 0
      /\ FreeAgainFrom = ranges[v].lastUsedAt + 1
      /\ pass = "allocate" /\ pass' = "allocate" /\ ranges' = ranges /\ block' = block
  BY CurrentIsNew DEF BodyLength, FreeAgainFrom, NeedsBuffer
<1>2. /\ bufferOf \in [Operands -> 0 .. Len(freeFrom)]
      /\ freeFrom \in Seq(Nat) /\ block.vectors \subseteq Operands
  BY BodyTypes DEF LayoutInv, LayoutTypeOK
<1>3. /\ bufferOf'[v] = b
      /\ \A w \in Operands : w # v => bufferOf'[w] = bufferOf[w]
  BY <1>1, <1>2
<1>4. LayoutTypeOK'
  <2>1. bufferOf' \in [Operands -> 0 .. Len(freeFrom')]
    <3>1. Len(freeFrom) \in Nat /\ Len(freeFrom') \in Nat
      BY <1>2
    <3>2. b \in 0 .. Len(freeFrom') /\ 0 .. Len(freeFrom) \subseteq 0 .. Len(freeFrom')
      BY <3>1
    <3>. QED
      BY <1>2, <3>2
  <2>2. at' \in Nat
    BY <1>1
  <2>. QED
    BY <2>1, <2>2 DEF LayoutInv, LayoutTypeOK
<1>5. PositionInv'
  BY <1>1 DEF PositionInv
<1>6. ScalarsInOrder(block)' /\ PlacesInv' /\ RangesInv' /\ DemandInv'
  BY <1>1, AllocationStays
<1>7. BuffersInv'
  <2>1. ASSUME NEW w \in block.vectors, w # v, bufferOf[w] # 0
        PROVE  /\ ranges[w].defined /\ ranges[w].definedAt < at
               /\ bufferOf[w] \in DOMAIN freeFrom
               /\ ranges[w].lastUsedAt < freeFrom[bufferOf[w]]
               /\ ranges[w].lastUsedAt < freeFrom'[bufferOf[w]]
               /\ bufferOf[w] = b => ranges[w].lastUsedAt < ranges[v].definedAt
    <3>1. /\ ranges[w].defined /\ ranges[w].definedAt < at
          /\ ranges[w].lastUsedAt < freeFrom[bufferOf[w]]
      BY <1>1, <2>1 DEF LayoutInv, BuffersInv
    <3>2. bufferOf[w] \in DOMAIN freeFrom /\ freeFrom[bufferOf[w]] \in Nat
      BY <1>2, <2>1
    <3>3. ranges[w].lastUsedAt \in Nat /\ ranges[v].lastUsedAt \in Nat
      BY <1>1, <1>2 DEF RangeType
    <3>4. CASE bufferOf[w] = b
      <4>1. freeFrom[b] <= at /\ b \in DOMAIN freeFrom
        BY <3>2, <3>4
      <4>2. ranges[w].lastUsedAt < at
        BY <1>1, <3>1, <3>2, <3>3, <3>4, <4>1
      <4>3. freeFrom'[b] = ranges[v].lastUsedAt + 1
        BY <1>1
      <4>4. ranges[w].lastUsedAt < freeFrom'[b]
        BY <1>1, <3>3, <4>2, <4>3
      <4>. QED
        BY <1>1, <3>1, <3>2, <3>4, <4>2, <4>4
    <3>5. CASE bufferOf[w] # b
      BY <3>1, <3>2, <3>5
    <3>. QED
      BY <3>4, <3>5
  <2>2. ASSUME NEW w \in block.vectors, bufferOf'[w] # 0
        PROVE  /\ ranges[w].defined /\ ranges[w].definedAt < at'
               /\ ranges[w].lastUsedAt < freeFrom'[bufferOf'[w]]
    <3>1. CASE w = v
      <4>1. ranges[v].defined
        BY <1>1 DEF LayoutInv, RangesInv, Scanned, AfterLiveness, IsVector, Current
      <4>2. ranges[v].lastUsedAt \in Nat
        BY <1>1 DEF RangeType
      <4>. QED
        BY <1>1, <1>3, <3>1, <4>1, <4>2
    <3>2. CASE w # v
      <4>1. bufferOf'[w] = bufferOf[w] /\ ranges[w].definedAt \in Nat
        BY <1>1, <1>2, <1>3, <3>2 DEF RangeType
      <4>. QED
        BY <1>1, <2>1, <2>2, <3>2, <4>1
    <3>. QED
      BY <3>1, <3>2
  <2>3. ASSUME NEW w \in block.vectors, NEW x \in block.vectors, w # x,
               bufferOf'[w] # 0, bufferOf'[w] = bufferOf'[x]
        PROVE  InTurn(w, x)
    <3>1. CASE w = v
      BY <1>2, <1>3, <2>1, <2>3, <3>1 DEF InTurn
    <3>2. CASE x = v
      BY <1>2, <1>3, <2>1, <2>3, <3>2 DEF InTurn
    <3>3. CASE w # v /\ x # v
      <4>1. bufferOf[w] # 0 /\ bufferOf[w] = bufferOf[x]
        BY <1>2, <1>3, <2>3, <3>3
      <4>. QED
        BY <1>1, <2>3, <4>1 DEF LayoutInv, BuffersInv
    <3>. QED
      BY <3>1, <3>2, <3>3
  <2>. QED
    BY <1>1, <2>2, <2>3 DEF BuffersInv, InTurn
<1>. QED
  BY <1>4, <1>5, <1>6, <1>7 DEF LayoutInv

LEMMA ReuseBufferKeeps ==
  ASSUME LayoutInv, ReuseBuffer
  PROVE  LayoutInv'
<1>1. PICK b \in FreeBuffers :
        /\ bufferOf' = [bufferOf EXCEPT ![Current.result] = b]
        /\ freeFrom' = [freeFrom EXCEPT ![b] = FreeAgainFrom]
  BY DEF ReuseBuffer
<1>2. NeedsBuffer /\ at' = at + 1 /\ UNCHANGED <<block, pass, ranges, demand, read>>
  BY DEF ReuseBuffer
<1>3. freeFrom \in Seq(Nat) /\ FreeAgainFrom \in Nat
  BY <1>2, CurrentIsNew DEF LayoutInv, LayoutTypeOK
<1>4. b \in 1 .. Len(freeFrom) /\ freeFrom[b] <= at
  BY <1>3 DEF FreeBuffers
<1>5. /\ freeFrom' \in Seq(Nat) /\ Len(freeFrom') = Len(freeFrom)
      /\ freeFrom'[b] = FreeAgainFrom
      /\ \A c \in DOMAIN freeFrom : c # b => freeFrom'[c] = freeFrom[c]
  BY <1>1, <1>3, <1>4
<1>6. b \in Nat \ {0} /\ Len(freeFrom) <= Len(freeFrom') /\ b <= Len(freeFrom')
  BY <1>3, <1>4, <1>5
<1>. QED
  BY <1>1, <1>2, <1>4, <1>5, <1>6, TakingABufferKeeps

LEMMA NewBufferKeeps ==
  ASSUME LayoutInv, NewBuffer
  PROVE  LayoutInv'
<1>. DEFINE b == Len(freeFrom) + 1
<1>1. /\ NeedsBuffer /\ at' = at + 1 /\ UNCHANGED <<block, pass, ranges, demand, read>>
      /\ bufferOf' = [bufferOf EXCEPT ![Current.result] = b]
      /\ freeFrom' = Append(freeFrom, FreeAgainFrom)
  BY DEF NewBuffer
<1>2. freeFrom \in Seq(Nat) /\ FreeAgainFrom \in Nat
  BY <1>1, CurrentIsNew DEF LayoutInv, LayoutTypeOK
<1>3. /\ freeFrom' \in Seq(Nat) /\ Len(freeFrom') = b /\ b \in Nat \ {0}
      /\ freeFrom'[b] = FreeAgainFrom /\ b \notin DOMAIN freeFrom
      /\ \A c \in DOMAIN freeFrom : freeFrom'[c] = freeFrom[c]
  BY <1>1, <1>2
<1>4. Len(freeFrom) <= Len(freeFrom') /\ b <= Len(freeFrom')
  BY <1>2, <1>3
<1>. QED
  BY <1>1, <1>3, <1>4, TakingABufferKeeps

LEMMA NoBufferKeeps ==
  ASSUME LayoutInv, NoBufferNeeded \/ EndAllocation
  PROVE  LayoutInv'
<1>. USE DEF NoBufferNeeded, EndAllocation, GoTo
<1>1. /\ pass = "allocate" /\ pass' \in {"allocate", "ready"}
      /\ at \in Nat \ {0} /\ at <= BodyLength + 1 /\ BodyLength \in Nat
      /\ at' \in Nat \ {0} /\ at <= at'
      /\ pass' = "allocate" => at' <= BodyLength + 1
      /\ UNCHANGED <<block, ranges, demand, read, bufferOf, freeFrom>> /\ BodyLength' = BodyLength
      /\ pass' = "ready" => \A v \in block.vectors : bufferOf[v] # 0
  BY BodyTypes DEF LayoutInv, LayoutTypeOK, PositionInv, BodyLength, Unassigned
<1>2. LayoutTypeOK' /\ PositionInv'
  BY <1>1 DEF LayoutInv, LayoutTypeOK, PositionInv, Passes
<1>3. ScalarsInOrder(block)' /\ PlacesInv' /\ RangesInv' /\ DemandInv'
  BY <1>1, AllocationStays
<1>4. BuffersInv'
  <2>1. \A v \in block.vectors : ranges[v].definedAt \in Nat
    BY BodyTypes DEF LayoutInv, LayoutTypeOK, RangeType
  <2>2. \A v \in block.vectors : bufferOf[v] # 0 =>
          /\ ranges[v].defined /\ ranges[v].definedAt < at'
          /\ ranges[v].lastUsedAt < freeFrom[bufferOf[v]]
    BY <1>1, <2>1 DEF LayoutInv, BuffersInv
  <2>3. \A v, w \in block.vectors :
          v # w /\ bufferOf[v] # 0 /\ bufferOf[v] = bufferOf[w] => InTurn(v, w)
    BY <1>1 DEF LayoutInv, BuffersInv
  <2>. QED
    BY <1>1, <2>2, <2>3 DEF BuffersInv, InTurn
<1>. QED
  BY <1>2, <1>3, <1>4 DEF LayoutInv

-----------------------------------------------------------------------------
LEMMA LayoutStepKeeps ==
  ASSUME LayoutInv, LayoutStep
  PROVE  LayoutInv'
<1>1. CASE RefusePlaces \/ RefuseRange \/ RefuseShape \/ RefuseAssignment
  <2>1. Refuse
    BY <1>1 DEF RefusePlaces, RefuseRange, RefuseShape, RefuseAssignment
  <2>. QED
    BY <2>1, RefusalKeeps
<1>2. CASE CheckPlaces
  BY <1>2, CheckPlacesKeeps
<1>3. CASE ExtendRanges \/ EndLiveness
  BY <1>3, ExtendRangesKeeps, EndLivenessKeeps
<1>4. CASE PassDemandOn \/ EndDemand
  BY <1>4, PassDemandOnKeeps, EndDemandKeeps
<1>5. CASE SweepBody \/ EndSweepBody \/ SweepPrologue \/ EndSweepPrologue
  BY <1>5, SweepsKeep
<1>6. CASE ReuseBuffer \/ NewBuffer
  BY <1>6, ReuseBufferKeeps, NewBufferKeeps
<1>7. CASE NoBufferNeeded \/ EndAllocation
  BY <1>7, NoBufferKeeps
<1>. QED
  BY <1>1, <1>2, <1>3, <1>4, <1>5, <1>6, <1>7 DEF LayoutStep

\* A step that touches none of the pipeline's state: the pipeline standing
\* still, or the interpreter running.
LEMMA LayoutStutterKeeps ==
  ASSUME LayoutInv, UNCHANGED layoutVars
  PROVE  LayoutInv'
<1>. USE DEF layoutVars
<1>1. LayoutTypeOK' /\ ScalarsInOrder(block)' /\ PositionInv' /\ PlacesInv'
  <2>1. LayoutTypeOK'
    BY DEF LayoutInv, LayoutTypeOK
  <2>2. block' = block /\ ScalarsInOrder(block)'
    BY DEF LayoutInv, ScalarsInOrder, ScalarsBefore
  <2>3. PositionInv'
    BY DEF LayoutInv, PositionInv, BodyLength
  <2>4. PlacesInv'
    BY DEF LayoutInv, PlacesInv, AfterLiveness, Misplaced, IsVector, VectorsReadBy, BodyLength
  <2>. QED
    BY <2>1, <2>2, <2>3, <2>4
<1>2. RangesInv'
  BY DEF LayoutInv, RangesInv, Scanned, AfterLiveness, IsVector, VectorsReadBy, BodyLength
<1>3. DemandInv'
  BY DEF LayoutInv, DemandInv, AfterDemand, Demanded, IllShaped, ArgumentsOf, Wanted,
     VectorsReadBy, IsVector, Finalises, ReadBy, BodyLength
<1>4. BuffersInv'
  BY DEF LayoutInv, BuffersInv, InTurn
<1>. QED
  BY <1>1, <1>2, <1>3, <1>4 DEF LayoutInv

\* The four passes establish, and keep, what LayoutInv says of ranges, demands
\* and buffers, for every block.
THEOREM LayoutInvariant == LayoutSpec => []LayoutInv
<1>1. LayoutInit => LayoutInv
  BY LayoutStarts
<1>2. LayoutInv /\ [LayoutNext]_layoutVars => LayoutInv'
  BY LayoutStepKeeps, LayoutStutterKeeps DEF LayoutNext
<1>. QED
  BY <1>1, <1>2, PTL DEF LayoutSpec

\* The types of the pipeline's state, for every block.
THEOREM LayoutTypes == LayoutSpec => []LayoutTypeOK
<1>1. LayoutInv => LayoutTypeOK
  BY DEF LayoutInv
<1>. QED
  BY <1>1, LayoutInvariant, PTL

\* A time vector that is live at an instruction has a range that covers it.
LEMMA LiveInRange ==
  ASSUME LayoutInv, pass = "ready", NEW i \in 1 .. BodyLength, NEW v \in LiveAt(i)
  PROVE  /\ v \in block.vectors /\ ranges[v].definedAt \in Nat /\ ranges[v].lastUsedAt \in Nat
         /\ ranges[v].definedAt <= i /\ i <= ranges[v].lastUsedAt
<1>1. Scanned = BodyLength /\ AfterLiveness /\ BodyLength \in Nat
  BY BodyTypes DEF LayoutInv, Scanned, AfterLiveness
<1>2. v \in block.vectors /\ v \in Operands
  BY BodyTypes DEF LayoutInv, LiveAt
<1>3. ranges[v].definedAt \in Nat /\ ranges[v].lastUsedAt \in Nat
  BY <1>2 DEF LayoutInv, LayoutTypeOK, RangeType
<1>4. PICK j \in 1 .. i :
        /\ block.body[j].result = v
        /\ j = i \/ \E k \in i .. BodyLength : v \in ReadBy(block.body[k])
  BY DEF LiveAt
<1>5. ranges[v].defined /\ ranges[v].definedAt = j /\ j <= ranges[v].lastUsedAt
  BY <1>1, <1>2, <1>4 DEF LayoutInv, RangesInv, IsVector
<1>6. CASE j = i
  BY <1>2, <1>3, <1>5, <1>6
<1>7. CASE j # i
  <2>1. PICK k \in i .. BodyLength : v \in ReadBy(block.body[k])
    BY <1>4, <1>7
  <2>2. v \in VectorsReadBy(block.body[k]) /\ k \in 1 .. BodyLength
    BY <1>1, <1>2, <2>1 DEF VectorsReadBy, IsVector
  <2>3. k <= ranges[v].lastUsedAt
    BY <1>1, <2>2 DEF LayoutInv, RangesInv
  <2>. QED
    BY <1>1, <1>2, <1>3, <1>4, <1>5, <2>2, <2>3
<1>. QED
  BY <1>6, <1>7

LEMMA ReadyIsApart == LayoutInv => LiveVectorsAreApart
<1>. SUFFICES ASSUME LayoutInv, pass = "ready", NEW i \in 1 .. BodyLength,
                     NEW v \in LiveAt(i), NEW w \in LiveAt(i), v # w
              PROVE  bufferOf[v] # bufferOf[w]
  BY DEF LiveVectorsAreApart
<1>1. /\ v \in block.vectors /\ w \in block.vectors
      /\ ~InTurn(v, w)
  <2>1. /\ v \in block.vectors /\ ranges[v].definedAt \in Nat /\ ranges[v].lastUsedAt \in Nat
        /\ ranges[v].definedAt <= i /\ i <= ranges[v].lastUsedAt
    BY LiveInRange
  <2>2. /\ w \in block.vectors /\ ranges[w].definedAt \in Nat /\ ranges[w].lastUsedAt \in Nat
        /\ ranges[w].definedAt <= i /\ i <= ranges[w].lastUsedAt
    BY LiveInRange
  <2>. QED
    BY <2>1, <2>2 DEF InTurn
<1>2. bufferOf[v] # 0
  BY <1>1 DEF LayoutInv, BuffersInv
<1>. QED
  BY <1>1, <1>2 DEF LayoutInv, BuffersInv

\* Two time vectors that hold a value at one instruction are never in one
\* buffer, an instruction's result and its arguments included.
THEOREM LiveVectorsStayApart == LayoutSpec => []LiveVectorsAreApart
<1>. QED
  BY ReadyIsApart, LayoutInvariant, PTL

-----------------------------------------------------------------------------
(* As few buffers as can be.                                                *)

\* A range ends where its time vector is written or read.
RangesEnd ==
  pass = "liveness" \/ AfterLiveness =>
    \A v \in block.vectors : ranges[v].defined =>
      \/ ranges[v].lastUsedAt = ranges[v].definedAt
      \/ v \in ReadBy(block.body[ranges[v].lastUsedAt])

\* A buffer is taken until the last reader of the time vector it was given to last.
HoldersInv ==
  pass \in {"allocate", "ready"} =>
    \A c \in DOMAIN freeFrom :
      \E v \in block.vectors : bufferOf[v] = c /\ freeFrom[c] = ranges[v].lastUsedAt + 1

\* A buffer was added only where as many time vectors are live.
PeakInv ==
  pass \in {"allocate", "ready"} /\ freeFrom # <<>> =>
    \E i \in 1 .. BodyLength : Len(freeFrom) <= Cardinality(LiveAt(i))

FewestInv == RangesEnd /\ HoldersInv /\ PeakInv

LEMMA LiveStays ==
  ASSUME block' = block
  PROVE  BodyLength' = BodyLength /\ \A i : LiveAt(i)' = LiveAt(i)
BY DEF BodyLength, LiveAt

\* One set into another.
LEMMA NoMoreThan ==
  ASSUME NEW S, NEW T, IsFiniteSet(T), NEW f \in [S -> T],
         \A a, b \in S : f[a] = f[b] => a = b
  PROVE  IsFiniteSet(S) /\ Cardinality(S) \in Nat /\ Cardinality(S) <= Cardinality(T)
<1>1. f \in Injection(S, T)
  BY DEF Injection, IsInjective
<1>2. IsFiniteSet(S) /\ Cardinality(S) <= Cardinality(T)
  BY <1>1, FS_Injection
<1>. QED
  BY <1>2, FS_CardinalityType

LEMMA ExtendingEndsRanges ==
  ASSUME LayoutInv, RangesEnd, ExtendRanges
  PROVE  RangesEnd'
<1>1. /\ at \in 1 .. BodyLength /\ pass = "liveness" /\ block' = block
      /\ block.vectors \subseteq Operands /\ Current = block.body[at]
      /\ \A v \in Operands : ranges'[v] = RangeAfter(v) /\ ranges[v] \in RangeType
  BY BodyTypes DEF ExtendRanges, LayoutInv, LayoutTypeOK, PositionInv, Current
<1>. SUFFICES ASSUME NEW v \in block.vectors, ranges'[v].defined
              PROVE  \/ ranges'[v].lastUsedAt = ranges'[v].definedAt
                     \/ v \in ReadBy(block.body[ranges'[v].lastUsedAt])
  BY <1>1 DEF RangesEnd
<1>2. CASE v = Current.result /\ IsVector(v)
  <2>1. ranges'[v] = [defined |-> TRUE, definedAt |-> at, lastUsedAt |-> at]
    BY <1>1, <1>2 DEF RangeAfter
  <2>. QED
    BY <2>1
<1>3. CASE ~(v = Current.result /\ IsVector(v)) /\ v \in VectorsReadBy(Current)
  BY <1>1, <1>3 DEF RangeAfter, RangeType, VectorsReadBy
<1>4. CASE ~(v = Current.result /\ IsVector(v)) /\ v \notin VectorsReadBy(Current)
  BY <1>1, <1>4 DEF RangeAfter, RangesEnd
<1>. QED
  BY <1>2, <1>3, <1>4

\* A new buffer is taken where none is free: each of the others is held by a time
\* vector that is still to be read, and one more is written.
LEMMA PeakAtANewBuffer ==
  ASSUME LayoutInv, FewestInv, NewBuffer
  PROVE  /\ IsFiniteSet(LiveAt(at))
         /\ Len(freeFrom) + 1 <= Cardinality(LiveAt(at))
<1>. DEFINE v == Current.result
            n == Len(freeFrom)
<1>1. /\ at \in 1 .. BodyLength /\ BodyLength \in Nat /\ v \in block.vectors
      /\ bufferOf[v] = 0 /\ pass = "allocate"
      /\ freeFrom \in Seq(Nat) /\ n \in Nat /\ DOMAIN freeFrom = 1 .. n
      /\ bufferOf \in [Operands -> 0 .. n] /\ ranges \in [Operands -> RangeType]
      /\ block.vectors \subseteq Operands /\ Scanned = BodyLength /\ AfterLiveness
  BY CurrentIsNew, BodyTypes DEF NewBuffer, NeedsBuffer, LayoutInv, LayoutTypeOK, Scanned,
                                 AfterLiveness
<1>2. v \in LiveAt(at)
  BY <1>1 DEF LiveAt, Current
<1>3. ASSUME NEW c \in 1 .. n
      PROVE  \E w \in LiveAt(at) : bufferOf[w] = c
  <2>1. PICK w \in block.vectors : bufferOf[w] = c /\ freeFrom[c] = ranges[w].lastUsedAt + 1
    BY <1>1 DEF FewestInv, HoldersInv
  <2>2. ~(freeFrom[c] <= at) /\ freeFrom[c] \in Nat
    BY <1>1 DEF NewBuffer, NoneIsFree, FreeBuffers
  <2>3. /\ ranges[w].defined /\ ranges[w].definedAt < at
        /\ ranges[w].definedAt \in 1 .. BodyLength /\ ranges[w].lastUsedAt <= BodyLength
        /\ block.body[ranges[w].definedAt].result = w
    BY <1>1, <2>1 DEF LayoutInv, BuffersInv, RangesInv
  <2>4. ranges[w].lastUsedAt \in Nat
    BY <1>1, <2>1 DEF RangeType
  <2>5. ranges[w].lastUsedAt \in at .. BodyLength /\ ranges[w].definedAt \in 1 .. at
        /\ ranges[w].lastUsedAt # ranges[w].definedAt
    BY <1>1, <2>1, <2>2, <2>3, <2>4
  <2>6. w \in ReadBy(block.body[ranges[w].lastUsedAt])
    BY <1>1, <2>1, <2>3, <2>5 DEF FewestInv, RangesEnd
  <2>7. w \in LiveAt(at)
    BY <2>1, <2>3, <2>5, <2>6 DEF LiveAt
  <2>. QED
    BY <2>1, <2>7
<1>4. IsFiniteSet(LiveAt(at))
  <2>1. IsFiniteSet(1 .. at)
    BY <1>1, FS_Interval
  <2>. DEFINE f == [w \in LiveAt(at) |-> CHOOSE j \in 1 .. at : block.body[j].result = w]
  <2>2. \A w \in LiveAt(at) : \E j \in 1 .. at : block.body[j].result = w
    BY DEF LiveAt
  <2>3. \A w \in LiveAt(at) : f[w] \in 1 .. at /\ block.body[f[w]].result = w
    BY <2>2
  <2>4. f \in [LiveAt(at) -> 1 .. at]
    BY <2>3
  <2>. HIDE DEF f
  <2>5. \A a, b \in LiveAt(at) : f[a] = f[b] => a = b
    BY <2>3
  <2>. QED
    BY <2>1, <2>4, <2>5, NoMoreThan
<1>. DEFINE T == LiveAt(at)
            g == [c \in 1 .. n |-> CHOOSE w \in T : bufferOf[w] = c]
<1>5. \A c \in 1 .. n : g[c] \in T /\ bufferOf[g[c]] = c
  BY <1>3
<1>6. g \in [1 .. n -> T \ {v}]
  BY <1>1, <1>5
<1>. HIDE DEF g
<1>7. IsFiniteSet(T \ {v}) /\ Cardinality(T) = Cardinality(T \ {v}) + 1
  <2>1. v \notin T \ {v} /\ (T \ {v}) \union {v} = T
    BY <1>2
  <2>2. IsFiniteSet(T \ {v})
    BY <1>4, FS_RemoveElement
  <2>. HIDE DEF v, T
  <2>. QED
    BY <2>1, <2>2, FS_AddElement
<1>8. \A a, b \in 1 .. n : g[a] = g[b] => a = b
  BY <1>5
<1>9. Cardinality(1 .. n) = n
  <2>1. n \in Nat
    BY <1>1
  <2>. HIDE DEF n
  <2>. QED
    BY <2>1, FS_Interval
<1>10. n <= Cardinality(T \ {v})
  BY <1>6, <1>7, <1>8, <1>9, NoMoreThan
<1>11. Cardinality(T \ {v}) \in Nat
  BY <1>7, FS_CardinalityType
<1>. HIDE DEF v, T, n
<1>. QED
  BY <1>1, <1>4, <1>7, <1>10, <1>11 DEF T, n

LEMMA HoldersStay ==
  ASSUME LayoutInv, HoldersInv, NeedsBuffer, block' = block, ranges' = ranges,
         NEW b \in Nat \ {0},
         bufferOf' = [bufferOf EXCEPT ![Current.result] = b],
         freeFrom'[b] = FreeAgainFrom,
         DOMAIN freeFrom' \subseteq DOMAIN freeFrom \union {b},
         \A c \in DOMAIN freeFrom : c # b => freeFrom'[c] = freeFrom[c]
  PROVE  HoldersInv'
<1>. DEFINE v == Current.result
<1>1. /\ v \in block.vectors /\ v \in Operands /\ bufferOf[v] = 0
      /\ FreeAgainFrom = ranges[v].lastUsedAt + 1
      /\ bufferOf \in [Operands -> 0 .. Len(freeFrom)] /\ block.vectors \subseteq Operands
      /\ DOMAIN freeFrom = 1 .. Len(freeFrom) /\ pass = "allocate"
  BY CurrentIsNew, BodyTypes DEF FreeAgainFrom, LayoutInv, LayoutTypeOK, NeedsBuffer
<1>2. bufferOf'[v] = b /\ \A w \in Operands : w # v => bufferOf'[w] = bufferOf[w]
  BY <1>1
<1>. SUFFICES ASSUME NEW c \in DOMAIN freeFrom'
              PROVE  \E w \in block.vectors :
                       bufferOf'[w] = c /\ freeFrom'[c] = ranges[w].lastUsedAt + 1
  BY DEF HoldersInv
<1>3. CASE c = b
  BY <1>1, <1>2, <1>3
<1>4. CASE c # b
  <2>1. c \in DOMAIN freeFrom /\ c # 0
    BY <1>1, <1>4
  <2>2. PICK w \in block.vectors : bufferOf[w] = c /\ freeFrom[c] = ranges[w].lastUsedAt + 1
    BY <1>1, <2>1 DEF HoldersInv
  <2>3. w # v /\ w \in Operands
    BY <1>1, <2>1, <2>2
  <2>. QED
    BY <1>2, <1>4, <2>1, <2>2, <2>3
<1>. QED
  BY <1>3, <1>4

LEMMA AllocatingKeepsFewest ==
  ASSUME LayoutInv, FewestInv, ReuseBuffer \/ NewBuffer
  PROVE  FewestInv'
<1>1. /\ NeedsBuffer /\ UNCHANGED <<block, pass, ranges>> /\ pass = "allocate"
      /\ at \in 1 .. BodyLength
      /\ freeFrom \in Seq(Nat) /\ FreeAgainFrom \in Nat
      /\ DOMAIN freeFrom = 1 .. Len(freeFrom) /\ Len(freeFrom) \in Nat
  BY CurrentIsNew DEF ReuseBuffer, NewBuffer, NeedsBuffer, LayoutInv, LayoutTypeOK
<1>2. RangesEnd'
  BY <1>1 DEF FewestInv, RangesEnd, AfterLiveness
<1>3. BodyLength' = BodyLength /\ \A i : LiveAt(i)' = LiveAt(i)
  BY <1>1, LiveStays
<1>4. CASE ReuseBuffer
  <2>1. PICK b \in FreeBuffers :
          /\ bufferOf' = [bufferOf EXCEPT ![Current.result] = b]
          /\ freeFrom' = [freeFrom EXCEPT ![b] = FreeAgainFrom]
    BY <1>4 DEF ReuseBuffer
  <2>2. b \in DOMAIN freeFrom /\ b \in Nat \ {0}
    BY <1>1, <2>1 DEF FreeBuffers
  <2>3. /\ freeFrom'[b] = FreeAgainFrom /\ DOMAIN freeFrom' = DOMAIN freeFrom
        /\ Len(freeFrom') = Len(freeFrom) /\ freeFrom # <<>>
        /\ \A c \in DOMAIN freeFrom : c # b => freeFrom'[c] = freeFrom[c]
    BY <1>1, <2>1, <2>2
  <2>4. HoldersInv'
    BY <1>1, <2>1, <2>2, <2>3, HoldersStay DEF FewestInv
  <2>5. PeakInv'
    <3>1. PICK i \in 1 .. BodyLength : Len(freeFrom) <= Cardinality(LiveAt(i))
      BY <1>1, <2>3 DEF FewestInv, PeakInv
    <3>2. Len(freeFrom') <= Cardinality(LiveAt(i)')
      BY <1>3, <2>3, <3>1
    <3>. QED
      BY <1>3, <3>2 DEF PeakInv
  <2>. QED
    BY <1>2, <2>4, <2>5 DEF FewestInv
<1>5. CASE NewBuffer
  <2>. DEFINE b == Len(freeFrom) + 1
  <2>1. /\ bufferOf' = [bufferOf EXCEPT ![Current.result] = b]
        /\ freeFrom' = Append(freeFrom, FreeAgainFrom)
    BY <1>5 DEF NewBuffer
  <2>2. b \in Nat \ {0}
    BY <1>1
  <2>3. /\ freeFrom'[b] = FreeAgainFrom /\ Len(freeFrom') = b
        /\ DOMAIN freeFrom' = DOMAIN freeFrom \union {b}
        /\ \A c \in DOMAIN freeFrom : c # b => freeFrom'[c] = freeFrom[c]
    BY <1>1, <2>1
  <2>4. HoldersInv'
    BY <1>1, <2>1, <2>2, <2>3, HoldersStay DEF FewestInv
  <2>5. PeakInv'
    <3>1. PICK i \in 1 .. BodyLength : i = at
      BY <1>1
    <3>2. Len(freeFrom') <= Cardinality(LiveAt(i))
      BY <1>5, <2>3, <3>1, PeakAtANewBuffer
    <3>3. Len(freeFrom') <= Cardinality(LiveAt(i)')
      BY <1>3, <3>2
    <3>. QED
      BY <1>3, <3>3 DEF PeakInv
  <2>. QED
    BY <1>2, <2>4, <2>5 DEF FewestInv
<1>. QED
  BY <1>4, <1>5

\* The steps that take no buffer.
LEMMA OthersKeepFewest ==
  ASSUME LayoutInv, FewestInv, LayoutStep, ~ReuseBuffer, ~NewBuffer
  PROVE  FewestInv'
<1>1. block' = block /\ bufferOf' = bufferOf /\ freeFrom' = freeFrom
  BY DEF LayoutStep, RefusePlaces, CheckPlaces, RefuseRange, ExtendRanges, EndLiveness,
         RefuseShape, PassDemandOn, EndDemand, SweepBody, EndSweepBody, SweepPrologue, Sweep,
         EndSweepPrologue, NoBufferNeeded, RefuseAssignment, EndAllocation, Refuse
<1>2. RangesEnd'
  <2>1. CASE ExtendRanges
    BY <2>1, ExtendingEndsRanges DEF FewestInv
  <2>2. CASE CheckPlaces
    <3>1. \A v \in block.vectors : ~ranges[v].defined
      BY <2>2, BodyTypes DEF CheckPlaces, LayoutInv, RangesInv, NoRange
    <3>. QED
      BY <2>2, <3>1 DEF CheckPlaces, RangesEnd
  <2>3. CASE pass' = "refused"
    BY <2>3 DEF RangesEnd, AfterLiveness
  <2>4. CASE (pass = "liveness" \/ AfterLiveness) /\ ranges' = ranges
    BY <1>1, <2>4 DEF FewestInv, RangesEnd
  <2>. QED
    BY <2>1, <2>2, <2>3, <2>4
       DEF LayoutStep, RefusePlaces, RefuseRange, EndLiveness, AfterLiveness,
           RefuseShape, PassDemandOn, EndDemand, SweepBody, EndSweepBody, SweepPrologue, Sweep,
           EndSweepPrologue, NoBufferNeeded, RefuseAssignment, EndAllocation, Refuse
<1>3. CASE pass' \notin {"allocate", "ready"}
  BY <1>2, <1>3 DEF FewestInv, HoldersInv, PeakInv
<1>4. CASE EndSweepPrologue
  <2>1. freeFrom' = <<>>
    BY <1>1, <1>4 DEF EndSweepPrologue, LayoutInv, BuffersInv
  <2>. QED
    BY <1>2, <2>1 DEF FewestInv, HoldersInv, PeakInv
<1>5. CASE NoBufferNeeded \/ EndAllocation
  <2>1. pass = "allocate" /\ ranges' = ranges
    BY <1>5 DEF NoBufferNeeded, EndAllocation
  <2>2. BodyLength' = BodyLength /\ \A i : LiveAt(i)' = LiveAt(i)
    BY <1>1, LiveStays
  <2>3. PeakInv'
    BY <1>1, <2>1, <2>2 DEF FewestInv, PeakInv
  <2>. QED
    BY <1>1, <1>2, <2>1, <2>3 DEF FewestInv, HoldersInv
<1>. QED
  BY <1>3, <1>4, <1>5
     DEF LayoutStep, RefusePlaces, CheckPlaces, RefuseRange, ExtendRanges, EndLiveness,
         RefuseShape, PassDemandOn, EndDemand, SweepBody, EndSweepBody, SweepPrologue, Sweep,
         RefuseAssignment, Refuse, GoTo

LEMMA StutterKeepsFewest ==
  ASSUME FewestInv, UNCHANGED layoutVars
  PROVE  FewestInv'
<1>1. block' = block /\ pass' = pass /\ ranges' = ranges /\ bufferOf' = bufferOf
      /\ freeFrom' = freeFrom
  BY DEF layoutVars
<1>2. BodyLength' = BodyLength /\ \A i : LiveAt(i)' = LiveAt(i)
  BY <1>1, LiveStays
<1>3. PeakInv'
  BY <1>1, <1>2 DEF FewestInv, PeakInv
<1>. QED
  BY <1>1, <1>3 DEF FewestInv, RangesEnd, HoldersInv, AfterLiveness

\* No assignment needs fewer buffers than the pass hands out: no instruction has
\* more time vectors live than there are, and one has as many
\* (passAllocateVectorBuffers.hpp:25).
THEOREM FewestBuffersAreUsed == LayoutSpec => []FewestBuffers
<1>1. LayoutInit => FewestInv
  BY DEF LayoutInit, FewestInv, RangesEnd, HoldersInv, PeakInv, AfterLiveness
<1>2. LayoutInv /\ FewestInv /\ [LayoutNext]_layoutVars => FewestInv'
  BY AllocatingKeepsFewest, OthersKeepFewest, StutterKeepsFewest DEF LayoutNext
<1>3. LayoutInv /\ FewestInv => FewestBuffers
  <2>. SUFFICES ASSUME LayoutInv, FewestInv, pass = "ready"
                PROVE  /\ \A i \in 1 .. BodyLength : Cardinality(LiveAt(i)) <= Len(freeFrom)
                       /\ freeFrom # <<>> =>
                            \E i \in 1 .. BodyLength : Cardinality(LiveAt(i)) = Len(freeFrom)
    BY DEF FewestBuffers
  <2>. DEFINE n == Len(freeFrom)
  <2>1. n \in Nat /\ bufferOf \in [Operands -> 0 .. n] /\ block.vectors \subseteq Operands
    BY BodyTypes DEF LayoutInv, LayoutTypeOK
  <2>2. IsFiniteSet(1 .. n) /\ Cardinality(1 .. n) = n
    <3>. HIDE DEF n
    <3>. QED
      BY <2>1, FS_Interval
  <2>3. ASSUME NEW i \in 1 .. BodyLength
        PROVE  Cardinality(LiveAt(i)) <= n /\ Cardinality(LiveAt(i)) \in Nat
    <3>. DEFINE f == [v \in LiveAt(i) |-> bufferOf[v]]
    <3>1. \A v \in LiveAt(i) : v \in block.vectors /\ bufferOf[v] # 0
      BY DEF LiveAt, LayoutInv, BuffersInv
    <3>2. f \in [LiveAt(i) -> 1 .. n]
      BY <2>1, <3>1
    <3>3. \A v, w \in LiveAt(i) : f[v] = f[w] => v = w
      BY ReadyIsApart DEF LiveVectorsAreApart
    <3>. HIDE DEF f, n
    <3>. QED
      BY <2>2, <3>2, <3>3, NoMoreThan
  <2>4. ASSUME freeFrom # <<>>
        PROVE  \E i \in 1 .. BodyLength : Cardinality(LiveAt(i)) = n
    <3>1. PICK i \in 1 .. BodyLength : n <= Cardinality(LiveAt(i))
      BY <2>4 DEF FewestInv, PeakInv
    <3>. HIDE DEF n
    <3>. QED
      BY <2>1, <2>3, <3>1
  <2>. QED
    BY <2>3, <2>4
<1>. QED
  BY <1>1, <1>2, <1>3, LayoutInvariant, PTL DEF LayoutSpec

-----------------------------------------------------------------------------
(* What the demand scan finds.                                              *)

\* The recursion PartsWithin is defined by has a value.
LEMMA PartsGrow ==
  ASSUME BodyLength \in Nat
  PROVE  /\ PartsWithin[0] = CollapsedParts
         /\ \A n \in 1 .. BodyLength :
              PartsWithin[n] = PartsWithin[n - 1] \union
                UNION {ThroughTo(k, PartsWithin[n - 1]) : k \in 1 .. BodyLength}
<1>. DEFINE N == BodyLength
            More(found) == found \union UNION {ThroughTo(k, found) : k \in 1 .. N}
            IsParts(f) ==
              f = [n \in 0 .. N |-> IF n = 0 THEN CollapsedParts ELSE More(f[n - 1])]
            U == {q[1] : q \in CollapsedParts} \union UNION {ReadBy(block.body[k]) : k \in 1 .. N}
            V == SUBSET (U \X {"midpoints", "death"})
            G == [n \in 1 .. N |-> [found \in V |-> More(found)]]
<1>1. CollapsedParts \in V
  BY DEF CollapsedParts
<1>2. G \in [1 .. N -> [V -> V]]
  <2>1. ASSUME NEW found \in V, NEW k \in 1 .. N
        PROVE  ThroughTo(k, found) \subseteq U \X {"midpoints", "death"}
    BY DEF ThroughTo, VectorsReadBy
  <2>2. \A found \in V : More(found) \in V
    <3>. HIDE DEF U
    <3>. QED
      BY <2>1
  <2>. HIDE DEF V, More
  <2>. QED
    BY <2>2
<1>3. PICK f : IsIterated(f, N, V, CollapsedParts, G)
  <2>1. N \in Nat
    OBVIOUS
  <2>. HIDE DEF G, N, V
  <2>. QED
    BY <1>1, <1>2, <2>1, RecursionHasAValue
<1>4. IsParts(f)
  <2>1. ASSUME NEW n \in 0 .. N
        PROVE  f[n] = IF n = 0 THEN CollapsedParts ELSE More(f[n - 1])
    <3>. HIDE DEF V, More
    <3>1. n # 0 => n \in 1 .. N /\ f[n - 1] \in V
      BY <1>3 DEF IsIterated
    <3>. QED
      BY <1>3, <3>1 DEF IsIterated
  <2>. HIDE DEF More
  <2>. QED
    BY <1>3, <2>1 DEF IsIterated
<1>5. IsParts(PartsWithin)
  <2>1. PartsWithin = CHOOSE h : IsParts(h)
    BY DEF PartsWithin
  <2>. HIDE DEF IsParts
  <2>. QED
    BY <1>4, <2>1
<1>. HIDE DEF More
<1>6. /\ PartsWithin[0] = CollapsedParts
      /\ \A n \in 1 .. N : PartsWithin[n] = More(PartsWithin[n - 1])
  BY <1>5
<1>. QED
  BY <1>6 DEF More

LEMMA PartsStay ==
  ASSUME block' = block
  PROVE  PartsWithin' = PartsWithin /\ ReadParts' = ReadParts
<1>3. PartsWithin' = PartsWithin
  BY DEF PartsWithin, BodyLength, CollapsedParts, Finalises, ThroughTo, VectorsReadBy, IsVector,
         ReadBy
<1>1. BodyLength' = BodyLength
  BY DEF BodyLength
<1>. QED
  BY <1>1, <1>3 DEF ReadParts

\* Found at the first look, found for good.
LEMMA CollapsedStay ==
  ASSUME BodyLength \in Nat, NEW n \in 0 .. BodyLength
  PROVE  CollapsedParts \subseteq PartsWithin[n]
<1>. DEFINE N == BodyLength
            S == {m \in 0 .. N : CollapsedParts \subseteq PartsWithin[m]}
<1>1. 0 \in S
  BY PartsGrow
<1>2. ASSUME NEW m \in 0 .. N - 1, m \in S
      PROVE  m + 1 \in S
  <2>1. m + 1 \in 1 .. N /\ (m + 1) - 1 = m
    OBVIOUS
  <2>2. PartsWithin[m] \subseteq PartsWithin[m + 1]
    BY <2>1, PartsGrow
  <2>. QED
    BY <1>2, <2>1, <2>2
<1>. HIDE DEF S
<1>3. 0 .. N \subseteq S
  BY <1>1, <1>2, UpTo
<1>. QED
  BY <1>3 DEF S

\* Nothing is demanded that is not read: the scan has followed, from the parts
\* collapsed, no more steps than it has taken.
DemandIsRead ==
  /\ pass \in {"places", "liveness"} => \A v \in Operands : demand[v] = {}
  /\ pass = "demand" =>
       \A v \in Operands : \A p \in demand[v] : <<v, p>> \in PartsWithin[BodyLength - at]
  /\ AfterDemand => \A v \in Operands : \A p \in demand[v] : <<v, p>> \in ReadParts

LEMMA DemandingKeepsRead ==
  ASSUME LayoutInv, DemandIsRead, PassDemandOn
  PROVE  DemandIsRead'
<1>1. /\ pass = "demand" /\ at \in 1 .. BodyLength /\ at' = at - 1 /\ BodyLength \in Nat
      /\ block' = block /\ pass' = pass /\ ~IllShaped(Current)
      /\ \A v \in Operands : demand'[v] = DemandAfter(v)
      /\ Current.result \in Operands /\ Current.op \in Ops /\ block.vectors \subseteq Operands
  BY BodyTypes DEF PassDemandOn, LayoutInv, LayoutTypeOK, PositionInv, Current
<1>2. BodyLength' = BodyLength /\ PartsWithin' = PartsWithin
  BY <1>1, PartsStay DEF BodyLength
<1>3. PICK m \in 0 .. BodyLength - 1 : m = BodyLength - at /\ m + 1 = BodyLength - at'
  BY <1>1
<1>4. /\ m + 1 \in 1 .. BodyLength /\ (m + 1) - 1 = m /\ m \in 0 .. BodyLength
  BY <1>1, <1>3
<1>5. PartsWithin[m + 1] = PartsWithin[m] \union
        UNION {ThroughTo(k, PartsWithin[m]) : k \in 1 .. BodyLength}
  BY <1>1, <1>4, PartsGrow
<1>6. ASSUME NEW v \in ArgumentsOf(Current), NEW p \in Wanted(Current)
      PROVE  <<v, p>> \in PartsWithin[m + 1]
  <2>1. CASE Finalises(Current)
    <3>1. v = Current.args[1]
      BY <1>6, <2>1 DEF ArgumentsOf
    <3>2. p = IF Current.op = "integrate" THEN "midpoints" ELSE "death"
      BY <1>1, <1>6, <2>1 DEF Wanted, Finalises, Ops
    <3>3. <<v, p>> \in CollapsedParts
      BY <1>1, <2>1, <3>1, <3>2 DEF CollapsedParts, Current
    <3>. QED
      BY <1>1, <1>4, <3>3, CollapsedStay
  <2>2. CASE ~Finalises(Current)
    <3>1. v \in VectorsReadBy(Current)
      BY <1>6, <2>2 DEF ArgumentsOf
    <3>2. p \in demand[Current.result]
      BY <1>6, <2>2 DEF Wanted, Finalises
    <3>3. <<Current.result, p>> \in PartsWithin[m]
      BY <1>1, <1>3, <3>2 DEF DemandIsRead
    <3>4. <<v, p>> \in ThroughTo(at, PartsWithin[m])
      BY <3>1, <3>3 DEF ThroughTo, Current
    <3>. QED
      BY <1>1, <1>5, <3>4
  <2>. QED
    BY <2>1, <2>2
<1>7. ASSUME NEW v \in Operands, NEW p \in demand'[v]
      PROVE  <<v, p>> \in PartsWithin[m + 1]
  <2>1. CASE p \in demand[v]
    <3>1. <<v, p>> \in PartsWithin[m]
      BY <1>1, <1>3, <2>1 DEF DemandIsRead
    <3>. QED
      BY <1>5, <3>1
  <2>2. CASE p \notin demand[v]
    BY <1>1, <1>6, <1>7, <2>2 DEF DemandAfter
  <2>. QED
    BY <2>1, <2>2
<1>. QED
  BY <1>1, <1>2, <1>3, <1>7 DEF DemandIsRead, AfterDemand

LEMMA OthersKeepRead ==
  ASSUME LayoutInv, DemandIsRead, LayoutStep, ~PassDemandOn
  PROVE  DemandIsRead'
<1>1. block' = block /\ demand' = demand
  BY DEF LayoutStep, RefusePlaces, CheckPlaces, RefuseRange, ExtendRanges, EndLiveness,
         RefuseShape, EndDemand, SweepBody, EndSweepBody, SweepPrologue, Sweep, EndSweepPrologue,
         ReuseBuffer, NewBuffer, NoBufferNeeded, RefuseAssignment, EndAllocation, Refuse
<1>2. BodyLength' = BodyLength /\ BodyLength \in Nat /\ PartsWithin' = PartsWithin
      /\ ReadParts' = ReadParts
  BY <1>1, PartsStay, BodyTypes DEF BodyLength, LayoutInv
<1>3. CASE EndLiveness
  BY <1>1, <1>3 DEF EndLiveness, GoTo, DemandIsRead, AfterDemand
<1>4. CASE EndDemand
  <2>1. pass = "demand" /\ BodyLength - at = BodyLength
    BY <1>2, <1>4 DEF EndDemand
  <2>. QED
    BY <1>1, <1>2, <1>4, <2>1 DEF EndDemand, GoTo, DemandIsRead, AfterDemand, ReadParts
<1>5. CASE pass' = "refused"
  BY <1>5 DEF DemandIsRead, AfterDemand
<1>6. CASE pass \in {"places", "liveness"} /\ pass' \in {"places", "liveness"}
  BY <1>1, <1>6 DEF DemandIsRead, AfterDemand
<1>7. CASE AfterDemand /\ AfterDemand'
  BY <1>1, <1>2, <1>7 DEF DemandIsRead, AfterDemand
<1>. QED
  BY <1>3, <1>4, <1>5, <1>6, <1>7
     DEF LayoutStep, RefusePlaces, CheckPlaces, RefuseRange, ExtendRanges, RefuseShape,
         SweepBody, EndSweepBody, SweepPrologue, Sweep, EndSweepPrologue, ReuseBuffer, NewBuffer,
         NoBufferNeeded, RefuseAssignment, EndAllocation, Refuse, GoTo, NeedsBuffer, AfterDemand

\* One backward scan finds what is read of each time vector, and no more
\* (passComputeSlotDemand.hpp:25).
THEOREM DemandIsAlwaysWhatIsRead == LayoutSpec => []DemandIsWhatIsRead
<1>1. LayoutInit => DemandIsRead
  BY DEF LayoutInit, DemandIsRead, AfterDemand
<1>2. LayoutInv /\ DemandIsRead /\ [LayoutNext]_layoutVars => DemandIsRead'
  <2>1. ASSUME DemandIsRead, UNCHANGED layoutVars
        PROVE  DemandIsRead'
    <3>1. /\ pass' = pass /\ demand' = demand /\ at' = at /\ block' = block
          /\ BodyLength' = BodyLength
      BY <2>1 DEF layoutVars, BodyLength
    <3>2. PartsWithin' = PartsWithin /\ ReadParts' = ReadParts
      BY <3>1, PartsStay
    <3>. QED
      BY <2>1, <3>1, <3>2 DEF DemandIsRead, AfterDemand
  <2>. QED
    BY <2>1, DemandingKeepsRead, OthersKeepRead DEF LayoutNext
<1>3. LayoutInv /\ DemandIsRead => DemandIsWhatIsRead
  <2>. SUFFICES ASSUME LayoutInv, DemandIsRead, pass = "ready", NEW v \in block.vectors
                PROVE  demand[v] = {p[2] : p \in {q \in ReadParts : q[1] = v}}
    BY DEF DemandIsWhatIsRead
  <2>1. /\ v \in Operands /\ AfterDemand /\ BodyLength \in Nat
        /\ \A k \in 1 .. BodyLength : Demanded(k) /\ ~IllShaped(block.body[k])
    BY BodyTypes DEF LayoutInv, DemandInv, Demanded, AfterDemand
  <2>. DEFINE N == BodyLength
              S == {n \in 0 .. N :
                      \A q \in PartsWithin[n] : IsVector(q[1]) /\ q[2] \in demand[q[1]]}
  <2>2. 0 \in S
    <3>. SUFFICES ASSUME NEW q \in CollapsedParts
                  PROVE  IsVector(q[1]) /\ q[2] \in demand[q[1]]
      BY <2>1, PartsGrow
    <3>1. PICK k \in 1 .. N :
            /\ Finalises(block.body[k])
            /\ q = <<block.body[k].args[1],
                     IF block.body[k].op = "integrate" THEN "midpoints" ELSE "death">>
      BY DEF CollapsedParts
    <3>2. block.body[k].op \in {"integrate", "diedValue"}
      BY <3>1, BodyTypes DEF LayoutInv, Finalises, Ops
    <3>3. IsVector(q[1]) /\ q[1] \in ArgumentsOf(block.body[k])
      BY <2>1, <3>1 DEF IllShaped, ArgumentsOf
    <3>4. q[2] \in Wanted(block.body[k])
      BY <3>1, <3>2 DEF Wanted
    <3>. QED
      BY <2>1, <3>3, <3>4 DEF Demanded
  <2>3. ASSUME NEW n \in 0 .. N - 1, n \in S
        PROVE  n + 1 \in S
    <3>1. n + 1 \in 1 .. N /\ (n + 1) - 1 = n
      BY <2>1
    <3>. SUFFICES ASSUME NEW k \in 1 .. N, NEW q \in ThroughTo(k, PartsWithin[n])
                  PROVE  IsVector(q[1]) /\ q[2] \in demand[q[1]]
      BY <2>1, <2>3, <3>1, PartsGrow
    <3>2. PICK a \in VectorsReadBy(block.body[k]), p \in PartsWithin[n] :
            p[1] = block.body[k].result /\ q = <<a, p[2]>>
      BY DEF ThroughTo
    <3>3. IsVector(block.body[k].result) /\ p[2] \in demand[block.body[k].result]
      BY <2>3, <3>2
    <3>4. ~Finalises(block.body[k])
      BY <2>1, <3>3 DEF IllShaped
    <3>5. a \in ArgumentsOf(block.body[k]) /\ p[2] \in Wanted(block.body[k])
      BY <3>2, <3>3, <3>4 DEF ArgumentsOf, Wanted, Finalises
    <3>6. IsVector(a)
      BY <3>2 DEF VectorsReadBy
    <3>. QED
      BY <2>1, <3>2, <3>5, <3>6 DEF Demanded
  <2>4. 0 .. N \subseteq S
    <3>. HIDE DEF S
    <3>. QED
      BY <2>1, <2>2, <2>3, UpTo
  <2>5. \A q \in ReadParts : q[2] \in demand[q[1]]
    BY <2>1, <2>4 DEF ReadParts
  <2>6. \A p \in demand[v] : <<v, p>> \in ReadParts
    BY <2>1 DEF DemandIsRead
  <2>. DEFINE R == {p[2] : p \in {q \in ReadParts : q[1] = v}}
  <2>7. ASSUME NEW p \in demand[v]
        PROVE  p \in R
    <3>1. <<v, p>> \in ReadParts /\ <<v, p>>[1] = v /\ <<v, p>>[2] = p
      BY <2>6
    <3>. QED
      BY <3>1
  <2>8. R \subseteq demand[v]
    BY <2>5
  <2>. QED
    BY <2>7, <2>8
<1>. QED
  BY <1>1, <1>2, <1>3, LayoutInvariant, PTL DEF LayoutSpec

-----------------------------------------------------------------------------
(* What the search for dead instructions finds.  The instructions are       *)
(* numbered in the order they run, the prologue first.                      *)

PrologueLength == Len(block.prologue)
ProgramLength == PrologueLength + BodyLength

Name(m) == IF m <= PrologueLength THEN <<"prologue", m>> ELSE <<"body", m - PrologueLength>>
Step(m) == At(Name(m))

LEMMA ProgramFacts ==
  ASSUME LayoutTypeOK
  PROVE  /\ PrologueLength \in Nat /\ BodyLength \in Nat /\ ProgramLength \in Nat
         /\ \A m \in 1 .. PrologueLength :
              Name(m) = <<"prologue", m>> /\ Step(m) = block.prologue[m]
         /\ \A i \in 1 .. BodyLength :
              /\ PrologueLength + i \in 1 .. ProgramLength
              /\ Name(PrologueLength + i) = <<"body", i>>
              /\ Step(PrologueLength + i) = block.body[i]
         /\ Instructions = {Name(m) : m \in 1 .. ProgramLength}
         /\ Cardinality(Instructions) = ProgramLength
<1>1. /\ PrologueLength \in Nat /\ BodyLength \in Nat /\ ProgramLength \in Nat
      /\ DOMAIN block.prologue = 1 .. PrologueLength /\ DOMAIN block.body = 1 .. BodyLength
  <2>1. block \in BlockType
    BY DEF LayoutTypeOK
  <2>2. PrologueLength \in Nat /\ BodyLength \in Nat
    BY <2>1, BlockTypes DEF PrologueLength, BodyLength
  <2>3. DOMAIN block.prologue = 1 .. PrologueLength /\ DOMAIN block.body = 1 .. BodyLength
    BY <2>1, BlockTypes DEF PrologueLength, BodyLength
  <2>. QED
    BY <2>2, <2>3 DEF ProgramLength
<1>2. \A m \in 1 .. PrologueLength : Name(m) = <<"prologue", m>> /\ Step(m) = block.prologue[m]
  <2>1. \A m \in 1 .. PrologueLength : Name(m) = <<"prologue", m>>
    BY <1>1 DEF Name
  <2>. QED
    BY <2>1 DEF Step, At
<1>3. ASSUME NEW i \in 1 .. BodyLength
      PROVE  /\ PrologueLength + i \in 1 .. ProgramLength
             /\ Name(PrologueLength + i) = <<"body", i>>
             /\ Step(PrologueLength + i) = block.body[i]
  <2>1. /\ PrologueLength + i \in 1 .. ProgramLength
        /\ ~(PrologueLength + i <= PrologueLength)
        /\ PrologueLength + i - PrologueLength = i
    BY <1>1 DEF ProgramLength
  <2>2. Name(PrologueLength + i) = <<"body", i>>
    BY <1>1, <2>1 DEF Name
  <2>. QED
    BY <2>1, <2>2 DEF Step, At
<1>4. ASSUME NEW m \in 1 .. ProgramLength
      PROVE  m \in 1 .. PrologueLength \/ \E i \in 1 .. BodyLength : m = PrologueLength + i
  <2>1. CASE m <= PrologueLength
    BY <1>1, <2>1
  <2>2. CASE ~(m <= PrologueLength)
    <3>1. m - PrologueLength \in 1 .. BodyLength /\ m = PrologueLength + (m - PrologueLength)
      BY <1>1, <2>2 DEF ProgramLength
    <3>. QED
      BY <3>1
  <2>. QED
    BY <2>1, <2>2
<1>5. Instructions = {Name(m) : m \in 1 .. ProgramLength}
  <2>1. \A m \in 1 .. PrologueLength : m \in 1 .. ProgramLength
    BY <1>1 DEF ProgramLength
  <2>2. ASSUME NEW n \in Instructions
        PROVE  \E m \in 1 .. ProgramLength : n = Name(m)
    BY <1>1, <1>2, <1>3, <2>1, <2>2 DEF Instructions
  <2>3. ASSUME NEW m \in 1 .. ProgramLength
        PROVE  Name(m) \in Instructions
    BY <1>1, <1>2, <1>3, <1>4, <2>3 DEF Instructions
  <2>. QED
    BY <2>2, <2>3
<1>6. \A m, k \in 1 .. ProgramLength : Name(m) = Name(k) => m = k
  <2>1. \A m \in 1 .. ProgramLength :
          Name(m) \in {<<"prologue", m>>, <<"body", m - PrologueLength>>}
    BY DEF Name
  <2>. SUFFICES ASSUME NEW m \in 1 .. ProgramLength, NEW k \in 1 .. ProgramLength,
                       Name(m) = Name(k)
                PROVE  m = k
    OBVIOUS
  <2>2. Name(m)[1] = Name(k)[1] /\ Name(m)[2] = Name(k)[2]
    OBVIOUS
  <2>3. CASE m <= PrologueLength /\ k <= PrologueLength
    BY <2>2, <2>3 DEF Name
  <2>4. CASE ~(m <= PrologueLength) /\ ~(k <= PrologueLength)
    <3>1. m - PrologueLength = k - PrologueLength
      BY <2>2, <2>4 DEF Name
    <3>. QED
      BY <1>1, <3>1
  <2>5. CASE (m <= PrologueLength) # (k <= PrologueLength)
    BY <2>2, <2>5 DEF Name
  <2>. QED
    BY <2>3, <2>4, <2>5
<1>7. Cardinality(Instructions) = ProgramLength
  <2>. DEFINE f == [m \in 1 .. ProgramLength |-> Name(m)]
  <2>1. f \in Injection(1 .. ProgramLength, Instructions)
    <3>1. f \in [1 .. ProgramLength -> Instructions]
      BY <1>5
    <3>. QED
      BY <1>6, <3>1 DEF Injection, IsInjective
  <2>2. f \in Surjection(1 .. ProgramLength, Instructions)
    BY <1>5 DEF Surjection
  <2>3. IsFiniteSet(1 .. ProgramLength) /\ Cardinality(1 .. ProgramLength) = ProgramLength
    BY <1>1, FS_Interval
  <2>. HIDE DEF f
  <2>4. ExistsBijection(1 .. ProgramLength, Instructions)
    BY <2>1, <2>2 DEF ExistsBijection, Bijection
  <2>. QED
    BY <2>3, <2>4, FS_Bijection
<1>. QED
  BY <1>1, <1>2, <1>3, <1>5, <1>7

\* An instruction reads nothing that it or a later one writes.
LEMMA ReadsAreOfEarlier ==
  ASSUME LayoutInv, AfterLiveness,
         NEW m \in 1 .. ProgramLength, NEW k \in 1 .. m
  PROVE  Step(m).result \notin ReadBy(Step(k))
<1>. DEFINE o == Step(m).result
            P == PrologueLength
<1>1. /\ LayoutTypeOK /\ ScalarsInOrder(block) /\ ~Misplaced /\ Scanned = BodyLength
      /\ DOMAIN block.prologue = 1 .. P /\ DOMAIN block.body = 1 .. BodyLength
  BY BlockTypes DEF LayoutInv, LayoutTypeOK, PlacesInv, PrologueLength, BodyLength,
                    Scanned, AfterLiveness
<1>2. P \in Nat /\ BodyLength \in Nat /\ ProgramLength = P + BodyLength
  BY <1>1, ProgramFacts DEF ProgramLength
<1>3. ASSUME NEW l \in 1 .. P, o \in ReadBy(block.prologue[l])
      PROVE  /\ ~IsVector(o)
             /\ o \in block.loaded \/ \E j \in 1 .. l - 1 : o = block.prologue[j].result
  BY <1>1, <1>3 DEF ScalarsInOrder, Misplaced, VectorsReadBy
<1>4. CASE m <= P
  <2>1. m \in 1 .. P /\ k \in 1 .. P
    BY <1>2, <1>4
  <2>2. o = block.prologue[m].result /\ Step(k) = block.prologue[k]
    BY <1>1, <2>1, ProgramFacts
  <2>. SUFFICES ASSUME o \in ReadBy(block.prologue[k]) PROVE FALSE
    BY <2>2
  <2>3. ~IsVector(o) /\ (o \in block.loaded \/ \E j \in 1 .. k - 1 : o = block.prologue[j].result)
    BY <1>3, <2>1
  <2>4. o \notin block.loaded
    BY <1>1, <2>1, <2>2, <2>3 DEF ScalarsInOrder, IsVector
  <2>5. PICK j \in 1 .. k - 1 : o = block.prologue[j].result
    BY <2>3, <2>4
  <2>6. j \in 1 .. P /\ j # m
    BY <1>2, <2>1
  <2>. QED
    BY <1>1, <2>1, <2>2, <2>3, <2>5, <2>6 DEF ScalarsInOrder, IsVector
<1>5. CASE ~(m <= P)
  <2>1. PICK i \in 1 .. BodyLength : m = P + i
    <3>1. m - P \in 1 .. BodyLength /\ m = P + (m - P)
      BY <1>2, <1>5
    <3>. QED
      BY <3>1
  <2>2. o = block.body[i].result
    BY <1>1, <2>1, ProgramFacts
  <2>3. ~IsVector(o) => o \notin block.loaded /\ \A j \in 1 .. P : o # block.prologue[j].result
    BY <1>1, <2>2 DEF ScalarsInOrder, IsVector
  <2>4. CASE k <= P
    <3>1. k \in 1 .. P
      BY <1>2, <2>4
    <3>2. Step(k) = block.prologue[k]
      BY <1>1, <3>1, ProgramFacts
    <3>3. \A j \in 1 .. k - 1 : j \in 1 .. P
      BY <1>2, <3>1
    <3>. QED
      BY <1>3, <2>3, <3>1, <3>2, <3>3
  <2>5. CASE ~(k <= P)
    <3>1. PICK l \in 1 .. i : k = P + l
      <4>1. k - P \in 1 .. i /\ k = P + (k - P)
        BY <1>2, <2>1, <2>5
      <4>. QED
        BY <4>1
    <3>2. l \in 1 .. BodyLength /\ l \in Nat /\ i \in Nat /\ l <= i
      BY <1>2, <3>1
    <3>3. Step(k) = block.body[l]
      BY <1>1, <3>1, <3>2, ProgramFacts
    <3>. SUFFICES ASSUME o \in ReadBy(block.body[l]) PROVE FALSE
      BY <3>3
    <3>4. ~IsVector(o)
      <4>. SUFFICES ASSUME IsVector(o) PROVE FALSE
        OBVIOUS
      <4>1. ranges[o].definedAt = i
        BY <1>1, <2>2 DEF LayoutInv, RangesInv
      <4>2. ranges[o].definedAt < l
        BY <1>1, <3>2 DEF LayoutInv, RangesInv, VectorsReadBy
      <4>. QED
        BY <3>2, <4>1, <4>2
    <3>5. o \in ScalarsBefore(block, l)
      BY <1>1, <3>2, <3>4 DEF ScalarsInOrder, IsVector
    <3>6. PICK j \in 1 .. l - 1 : o = block.body[j].result
      BY <1>1, <2>3, <3>4, <3>5 DEF ScalarsBefore
    <3>7. j \in 1 .. BodyLength /\ j # i
      BY <1>2, <3>2
    <3>. QED
      BY <1>1, <2>2, <3>4, <3>6, <3>7 DEF ScalarsInOrder, IsVector
  <2>. QED
    BY <2>4, <2>5
<1>. QED
  BY <1>4, <1>5

\* The recursion NeededWithin is defined by has a value.
LEMMA NeededGrows ==
  ASSUME LayoutTypeOK
  PROVE  /\ NeededWithin[0] = block.outputs \union GridReads(block)
         /\ \A n \in 1 .. ProgramLength :
              NeededWithin[n] = NeededWithin[n - 1] \union MoreNeeded(NeededWithin[n - 1])
         /\ Needed = NeededWithin[ProgramLength]
<1>. DEFINE N == ProgramLength
            Base == block.outputs \union GridReads(block)
            More(found) == found \union MoreNeeded(found)
            IsNeeded(f) == f = [n \in 0 .. N |-> IF n = 0 THEN Base ELSE More(f[n - 1])]
            V == SUBSET (Base \union UNION {ReadBy(At(n)) : n \in Instructions})
            G == [n \in 1 .. N |-> [found \in V |-> More(found)]]
<1>1. N \in Nat /\ Cardinality(Instructions) = N
  BY ProgramFacts
<1>2. Base \in V
  OBVIOUS
<1>3. G \in [1 .. N -> [V -> V]]
  <2>1. \A found \in V : More(found) \in V
    <3>. HIDE DEF Base
    <3>. QED
      BY DEF MoreNeeded
  <2>. HIDE DEF V, More
  <2>. QED
    BY <2>1
<1>4. PICK f : IsIterated(f, N, V, Base, G)
  <2>. HIDE DEF G, N, V, Base
  <2>. QED
    BY <1>1, <1>2, <1>3, RecursionHasAValue
<1>5. IsNeeded(f)
  <2>. HIDE DEF V, More, Base
  <2>1. ASSUME NEW n \in 0 .. N
        PROVE  f[n] = IF n = 0 THEN Base ELSE More(f[n - 1])
    <3>. HIDE DEF N
    <3>1. n # 0 => n \in 1 .. N /\ f[n - 1] \in V
      BY <1>1, <1>4 DEF IsIterated
    <3>. QED
      BY <1>4, <3>1 DEF IsIterated
  <2>. QED
    BY <1>4, <2>1 DEF IsIterated
<1>6. IsNeeded(NeededWithin)
  <2>1. NeededWithin = CHOOSE h : IsNeeded(h)
    BY <1>1 DEF NeededWithin
  <2>. HIDE DEF IsNeeded
  <2>. QED
    BY <1>5, <2>1
<1>. HIDE DEF More, Base
<1>7. /\ NeededWithin[0] = Base
      /\ \A n \in 1 .. N : NeededWithin[n] = More(NeededWithin[n - 1])
  <2>. HIDE DEF N
  <2>. QED
    BY <1>1, <1>6
<1>. QED
  BY <1>1, <1>7 DEF More, Base, Needed

LEMMA ProgramStays ==
  ASSUME block' = block
  PROVE  /\ PrologueLength' = PrologueLength /\ ProgramLength' = ProgramLength
         /\ \A m : Name(m)' = Name(m) /\ Step(m)' = Step(m)
         /\ GridReads(block)' = GridReads(block)
         /\ NeededWithin' = NeededWithin
<1>1. PrologueLength' = PrologueLength /\ ProgramLength' = ProgramLength
  BY DEF PrologueLength, ProgramLength, BodyLength
<1>2. \A m : Name(m)' = Name(m) /\ Step(m)' = Step(m)
  BY DEF Name, Step, At, PrologueLength
<1>3. GridReads(block)' = GridReads(block)
  BY DEF GridReads
<1>4. NeededWithin' = NeededWithin
  BY DEF NeededWithin, Instructions, MoreNeeded, At, ReadBy, GridReads
<1>. QED
  BY <1>1, <1>2, <1>3, <1>4

\* The search has come back to instruction m: what it found to be read is needed
\* and read by the instructions behind it that are not dead, and those are known.
SweptTo(m) ==
  /\ block.outputs \union GridReads(block) \subseteq read
  /\ read \subseteq NeededWithin[ProgramLength - m]
  /\ \A k \in m + 1 .. ProgramLength : Step(k).result \in read => ReadBy(Step(k)) \subseteq read
  /\ dead = {Name(k) : k \in {j \in m + 1 .. ProgramLength : Step(j).result \notin read}}

LEMMA OneMoreIsSwept ==
  ASSUME LayoutInv, AfterLiveness, NEW m \in 1 .. ProgramLength, SweptTo(m), block' = block,
         IF Step(m).result \notin read
         THEN dead' = dead \union {Name(m)} /\ read' = read
         ELSE read' = read \union ReadBy(Step(m)) /\ dead' = dead
  PROVE  SweptTo(m - 1)'
<1>. DEFINE N == ProgramLength
            n == N - m
<1>1. /\ N \in Nat /\ m \in Nat /\ (m - 1) + 1 = m /\ N - (m - 1) = n + 1
      /\ n + 1 \in 1 .. N /\ (n + 1) - 1 = n
      /\ LayoutTypeOK
      /\ m .. N = {m} \union (m + 1 .. N)
      /\ Instructions = {Name(k) : k \in 1 .. N}
  <2>1. LayoutTypeOK
    BY DEF LayoutInv
  <2>2. N \in Nat /\ Instructions = {Name(k) : k \in 1 .. N} /\ m \in 1 .. N
    BY <2>1, ProgramFacts
  <2>. HIDE DEF N
  <2>3. /\ m \in Nat /\ (m - 1) + 1 = m /\ N - (m - 1) = n + 1
        /\ n + 1 \in 1 .. N /\ (n + 1) - 1 = n
    BY <2>2
  <2>4. m .. N = {m} \union (m + 1 .. N)
    BY <2>2
  <2>. QED
    BY <2>1, <2>2, <2>3, <2>4
<1>2. NeededWithin[n + 1] = NeededWithin[n] \union MoreNeeded(NeededWithin[n])
  <2>. HIDE DEF n
  <2>. QED
    BY <1>1, NeededGrows
<1>3. \A k \in m .. N : Step(k).result \notin ReadBy(Step(m))
  BY <1>1, ReadsAreOfEarlier
<1>4. \A k \in m .. N : Step(k).result \in read' <=> Step(k).result \in read
  BY <1>3
<1>5. block.outputs \union GridReads(block) \subseteq read'
  BY DEF SweptTo
<1>6. read' \subseteq NeededWithin[n + 1]
  <2>1. read \subseteq NeededWithin[n]
    BY DEF SweptTo
  <2>2. CASE Step(m).result \notin read
    BY <1>2, <2>1, <2>2
  <2>3. CASE Step(m).result \in read
    <3>1. Name(m) \in Instructions /\ At(Name(m)).result \in NeededWithin[n]
      BY <1>1, <2>1, <2>3 DEF Step
    <3>2. ReadBy(Step(m)) \subseteq MoreNeeded(NeededWithin[n])
      BY <3>1 DEF MoreNeeded, Step
    <3>. QED
      BY <1>2, <2>1, <2>3, <3>2
  <2>. QED
    BY <2>2, <2>3
<1>7. ASSUME NEW k \in m .. N, Step(k).result \in read'
      PROVE  ReadBy(Step(k)) \subseteq read'
  <2>1. CASE k = m
    BY <1>4, <1>7, <2>1
  <2>2. CASE k # m
    <3>1. k \in m + 1 .. N
      BY <1>1, <2>2
    <3>. QED
      BY <1>4, <1>7, <3>1 DEF SweptTo
  <2>. QED
    BY <2>1, <2>2
<1>8. dead' = {Name(k) : k \in {j \in m .. N : Step(j).result \notin read'}}
  <2>. DEFINE Behind == {j \in m + 1 .. N : Step(j).result \notin read}
              Now == {j \in m .. N : Step(j).result \notin read'}
  <2>1. dead = {Name(k) : k \in Behind}
    BY DEF SweptTo
  <2>2. Now = IF Step(m).result \notin read THEN {m} \union Behind ELSE Behind
    BY <1>1, <1>4
  <2>3. dead' = IF Step(m).result \notin read THEN dead \union {Name(m)} ELSE dead
    OBVIOUS
  <2>. HIDE DEF Behind, Now
  <2>4. {Name(k) : k \in {m} \union Behind} = {Name(m)} \union {Name(k) : k \in Behind}
    OBVIOUS
  <2>5. dead' = {Name(k) : k \in Now}
    BY <2>1, <2>2, <2>3, <2>4
  <2>. QED
    BY <2>5 DEF Now
<1>. QED
  BY <1>1, <1>5, <1>6, <1>7, <1>8, ProgramStays DEF SweptTo

\* How many instructions the search has not come to.
Left ==
  CASE pass = "deadBody" -> PrologueLength + at
    [] pass = "deadPrologue" -> at
    [] OTHER -> 0

SweepInv ==
  /\ pass \in {"places", "liveness", "demand"} => dead = {}
  /\ AfterDemand => SweptTo(Left)

\* A scan ends where the next begins.
LEMMA SweepStays ==
  ASSUME LayoutInv, AfterDemand, SweptTo(Left), block' = block, read' = read, dead' = dead,
         Left' = Left
  PROVE  SweptTo(Left)'
<1>1. PICK m : m = Left
  OBVIOUS
<1>2. SweptTo(m)'
  BY <1>1, ProgramStays DEF SweptTo
<1>. QED
  BY <1>1, <1>2 DEF SweptTo

LEMMA SweepingKeeps ==
  ASSUME LayoutInv, SweepInv, SweepBody \/ SweepPrologue
  PROVE  SweepInv'
<1>1. /\ LayoutTypeOK /\ AfterLiveness /\ AfterDemand /\ at \in Nat /\ at >= 1
      /\ block' = block /\ pass' = pass /\ at' = at - 1
  BY DEF SweepBody, SweepPrologue, Sweep, LayoutInv, LayoutTypeOK, AfterLiveness, AfterDemand
<1>2. PICK m \in 1 .. ProgramLength :
        /\ m = Left
        /\ Left' = m - 1
        /\ IF Step(m).result \notin read
           THEN dead' = dead \union {Name(m)} /\ read' = read
           ELSE read' = read \union ReadBy(Step(m)) /\ dead' = dead
  <2>1. PrologueLength \in Nat /\ BodyLength \in Nat /\ PrologueLength' = PrologueLength
        /\ ProgramLength = PrologueLength + BodyLength
    BY <1>1, ProgramFacts, ProgramStays DEF ProgramLength
  <2>2. CASE SweepBody
    <3>1. at \in 1 .. BodyLength /\ pass = "deadBody"
      BY <1>1, <2>1, <2>2 DEF SweepBody, LayoutInv, PositionInv
    <3>2. PICK m \in 1 .. ProgramLength : m = PrologueLength + at
      BY <1>1, <2>1, <3>1
    <3>3. Name(m) = <<"body", at>> /\ Step(m) = block.body[at]
      BY <1>1, <3>1, <3>2, ProgramFacts
    <3>4. m = Left /\ Left' = m - 1
      BY <1>1, <2>1, <3>1, <3>2 DEF Left
    <3>. QED
      BY <2>2, <3>3, <3>4 DEF SweepBody, Sweep
  <2>3. CASE SweepPrologue
    <3>1. at \in 1 .. PrologueLength /\ pass = "deadPrologue"
      BY <1>1, <2>1, <2>3 DEF SweepPrologue, LayoutInv, PositionInv, PrologueLength
    <3>2. PICK m \in 1 .. ProgramLength : m = at
      BY <1>1, <2>1, <3>1
    <3>3. Name(m) = <<"prologue", at>> /\ Step(m) = block.prologue[at]
      BY <1>1, <3>1, <3>2, ProgramFacts
    <3>4. m = Left /\ Left' = m - 1
      BY <1>1, <2>1, <3>1, <3>2 DEF Left
    <3>. QED
      BY <2>3, <3>3, <3>4 DEF SweepPrologue, Sweep
  <2>. QED
    BY <2>2, <2>3
<1>3. SweptTo(m)
  BY <1>1, <1>2 DEF SweepInv
<1>4. SweptTo(m - 1)'
  BY <1>1, <1>2, <1>3, OneMoreIsSwept
<1>5. SweptTo(Left)'
  BY <1>2, <1>4 DEF SweptTo
<1>. QED
  BY <1>1, <1>5 DEF SweepInv, AfterDemand

LEMMA OthersKeepSwept ==
  ASSUME LayoutInv, SweepInv, LayoutStep, ~SweepBody, ~SweepPrologue
  PROVE  SweepInv'
<1>1. block' = block /\ dead' = dead /\ LayoutTypeOK
  BY DEF LayoutStep, RefusePlaces, CheckPlaces, RefuseRange, ExtendRanges, EndLiveness,
         RefuseShape, PassDemandOn, EndDemand, EndSweepBody, EndSweepPrologue,
         ReuseBuffer, NewBuffer, NoBufferNeeded, RefuseAssignment, EndAllocation, Refuse, LayoutInv
<1>2. CASE pass' = "refused"
  BY <1>2 DEF SweepInv, AfterDemand
<1>3. CASE pass \in {"places", "liveness", "demand"} /\ pass' \in {"places", "liveness", "demand"}
  BY <1>1, <1>3 DEF SweepInv, AfterDemand
<1>4. CASE EndDemand
  <2>1. PICK m : m = ProgramLength
    OBVIOUS
  <2>2. /\ dead = {} /\ pass' = "deadBody" /\ at' = BodyLength
        /\ read' = block.outputs \union GridReads(block)
    BY <1>4 DEF EndDemand, GoTo, SweepInv
  <2>3. m \in Nat /\ m + 1 .. m = {} /\ m - m = 0 /\ Left' = m /\ ProgramLength' = m
    BY <1>1, <2>1, <2>2, ProgramFacts, ProgramStays DEF Left, ProgramLength
  <2>4. read' \subseteq NeededWithin[0]
    BY <1>1, <2>2, NeededGrows
  <2>5. SweptTo(m)'
    BY <1>1, <2>2, <2>3, <2>4, ProgramStays DEF SweptTo
  <2>6. SweptTo(Left)'
    BY <2>3, <2>5 DEF SweptTo
  <2>. QED
    BY <2>2, <2>6 DEF SweepInv
<1>5. CASE AfterDemand /\ AfterDemand' /\ Left' = Left /\ read' = read
  BY <1>1, <1>5, SweepStays DEF SweepInv, AfterDemand
<1>6. ASSUME EndSweepBody \/ EndSweepPrologue
      PROVE  Left' = Left
  <2>1. PrologueLength \in Nat /\ PrologueLength' = PrologueLength
    BY <1>1, ProgramFacts, ProgramStays
  <2>. QED
    BY <1>6, <2>1 DEF EndSweepBody, EndSweepPrologue, GoTo, Left, PrologueLength
<1>7. CASE EndSweepBody \/ EndSweepPrologue
  <2>1. AfterDemand /\ AfterDemand' /\ read' = read
    BY <1>7 DEF EndSweepBody, EndSweepPrologue, GoTo, AfterDemand
  <2>. QED
    BY <1>5, <1>6, <1>7, <2>1
<1>8. CASE pass = "allocate" /\ pass' \in {"allocate", "ready"} /\ read' = read
  <2>1. Left = 0 /\ Left' = 0
    BY <1>8 DEF Left
  <2>. QED
    BY <1>5, <1>8, <2>1 DEF AfterDemand
<1>. QED
  BY <1>2, <1>3, <1>4, <1>7, <1>8
     DEF LayoutStep, RefusePlaces, CheckPlaces, RefuseRange, ExtendRanges, EndLiveness, RefuseShape,
         PassDemandOn, ReuseBuffer, NewBuffer, NoBufferNeeded, RefuseAssignment, EndAllocation,
         Refuse, GoTo, NeedsBuffer

\* What was found to be read, when the search is over, is what is needed.
LEMMA ReadIsNeeded ==
  ASSUME LayoutTypeOK, SweptTo(0)
  PROVE  /\ read = Needed
         /\ dead = {n \in Instructions : At(n).result \notin Needed}
<1>. DEFINE N == ProgramLength
            S == {n \in 0 .. N : NeededWithin[n] \subseteq read}
<1>1. N \in Nat /\ Instructions = {Name(k) : k \in 1 .. N} /\ Needed = NeededWithin[N] /\ N - 0 = N
  BY ProgramFacts, NeededGrows
<1>2. 0 \in S
  BY <1>1, NeededGrows DEF SweptTo
<1>3. ASSUME NEW n \in 0 .. N - 1, n \in S
      PROVE  n + 1 \in S
  <2>1. n + 1 \in 1 .. N /\ (n + 1) - 1 = n
    BY <1>1
  <2>2. NeededWithin[n + 1] = NeededWithin[n] \union MoreNeeded(NeededWithin[n])
    BY <2>1, NeededGrows
  <2>3. MoreNeeded(NeededWithin[n]) \subseteq read
    <3>. SUFFICES ASSUME NEW i \in Instructions, At(i).result \in read
                  PROVE  ReadBy(At(i)) \subseteq read
      BY <1>3 DEF MoreNeeded
    <3>1. PICK k \in 1 .. N : i = Name(k)
      BY <1>1
    <3>2. Step(k).result \in read => ReadBy(Step(k)) \subseteq read
      BY <1>1 DEF SweptTo
    <3>. QED
      BY <3>1, <3>2 DEF Step
  <2>. QED
    BY <1>1, <1>3, <2>1, <2>2, <2>3
<1>4. 0 .. N \subseteq S
  <2>. HIDE DEF S, N
  <2>. QED
    BY <1>1, <1>2, <1>3, UpTo
<1>5. read = Needed
  BY <1>1, <1>4 DEF SweptTo
<1>6. dead = {Name(k) : k \in {j \in 1 .. N : Step(j).result \notin read}}
  BY DEF SweptTo
<1>7. ASSUME NEW n \in Instructions, At(n).result \notin Needed
      PROVE  n \in dead
  <2>1. PICK k \in 1 .. N : n = Name(k)
    BY <1>1
  <2>. QED
    BY <1>5, <1>6, <1>7, <2>1 DEF Step
<1>8. ASSUME NEW n \in dead
      PROVE  n \in Instructions /\ At(n).result \notin Needed
  BY <1>1, <1>5, <1>6 DEF Step
<1>. QED
  BY <1>5, <1>7, <1>8

\* The instructions reported dead are those no output and no grid bound depends
\* on, whatever the block (passFindDeadInstructions.hpp:31).
THEOREM DeadIsAlwaysUnneeded == LayoutSpec => []DeadIsUnneeded
<1>1. LayoutInit => SweepInv
  BY DEF LayoutInit, SweepInv, AfterDemand
<1>2. LayoutInv /\ SweepInv /\ [LayoutNext]_layoutVars => SweepInv'
  <2>1. ASSUME SweepInv, LayoutInv, UNCHANGED layoutVars
        PROVE  SweepInv'
    <3>1. block' = block /\ pass' = pass /\ at' = at /\ read' = read /\ dead' = dead
      BY <2>1 DEF layoutVars
    <3>2. Left' = Left
      BY <3>1, ProgramStays DEF Left
    <3>. QED
      BY <2>1, <3>1, <3>2, SweepStays DEF SweepInv, AfterDemand
  <2>. QED
    BY <2>1, SweepingKeeps, OthersKeepSwept DEF LayoutNext
<1>3. LayoutInv /\ SweepInv => DeadIsUnneeded
  <2>. SUFFICES ASSUME LayoutInv, SweepInv, pass = "ready"
                PROVE  dead = {n \in Instructions : At(n).result \notin Needed}
    BY DEF DeadIsUnneeded
  <2>1. SweptTo(0)
    BY DEF SweepInv, AfterDemand, Left
  <2>. QED
    BY <2>1, ReadIsNeeded DEF LayoutInv
<1>. QED
  BY <1>1, <1>2, <1>3, LayoutInvariant, PTL DEF LayoutSpec

-----------------------------------------------------------------------------
(* Walking records.                                                         *)

\* What the pipeline established, once the interpreter exists.
LEMMA ReadyFacts ==
  ASSUME LayoutInv, pass = "ready"
  PROVE  /\ block.vectors \subseteq Operands /\ BodyLength \in Nat
         /\ DOMAIN block.body = 1 .. BodyLength
         /\ \A k \in 1 .. BodyLength : block.body[k].result \in Operands
         /\ \A v \in block.vectors :
              /\ bufferOf[v] \in 1 .. Len(freeFrom)
              /\ ranges[v].definedAt \in 1 .. BodyLength
              /\ ranges[v].lastUsedAt \in Nat
              /\ ranges[v].definedAt <= ranges[v].lastUsedAt
              /\ block.body[ranges[v].definedAt].result = v
              /\ demand[v] \subseteq {"midpoints", "death"}
<1>1. /\ block.vectors \subseteq Operands /\ BodyLength \in Nat
      /\ DOMAIN block.body = 1 .. BodyLength
      /\ \A k \in 1 .. BodyLength : block.body[k].result \in Operands
  BY BodyTypes DEF LayoutInv
<1>2. Scanned = BodyLength /\ AfterLiveness
  BY <1>1 DEF Scanned, AfterLiveness
<1>3. ASSUME NEW v \in block.vectors
      PROVE  /\ bufferOf[v] \in 1 .. Len(freeFrom)
             /\ ranges[v].definedAt \in 1 .. BodyLength
             /\ ranges[v].lastUsedAt \in Nat
             /\ ranges[v].definedAt <= ranges[v].lastUsedAt
             /\ block.body[ranges[v].definedAt].result = v
             /\ demand[v] \subseteq {"midpoints", "death"}
  <2>1. /\ v \in Operands /\ bufferOf[v] \in 0 .. Len(freeFrom) /\ bufferOf[v] # 0
        /\ ranges[v] \in RangeType /\ demand[v] \subseteq {"midpoints", "death"}
        /\ freeFrom \in Seq(Nat)
    BY <1>1, <1>3 DEF LayoutInv, LayoutTypeOK, BuffersInv
  <2>2. ranges[v].defined
    BY <1>3, <2>1 DEF LayoutInv, BuffersInv
  <2>3. bufferOf[v] \in 1 .. Len(freeFrom)
    BY <2>1
  <2>. QED
    BY <1>2, <1>3, <2>1, <2>2, <2>3 DEF LayoutInv, RangesInv, RangeType
<1>. QED
  BY <1>1, <1>3

\* Of the instruction about to run: what is well-formed about it, which of its
\* operands are live, and what is wanted of them.
LEMMA InstructionFacts ==
  ASSUME LayoutInv, pass = "ready", NEW k \in 1 .. BodyLength
  PROVE  /\ Demanded(k) /\ ~IllShaped(block.body[k])
         /\ IsVector(block.body[k].result) => ranges[block.body[k].result].definedAt = k
         /\ \A a \in VectorsReadBy(block.body[k]) :
              a \in block.vectors /\ ranges[a].definedAt < k /\ k <= ranges[a].lastUsedAt
         /\ ReadBy(block.body[k]) \ block.vectors \subseteq ScalarsBefore(block, k)
<1>1. Scanned = BodyLength /\ AfterLiveness /\ AfterDemand /\ DOMAIN block.body = 1 .. BodyLength
  BY BodyTypes DEF LayoutInv, Scanned, AfterLiveness, AfterDemand
<1>2. Demanded(k) /\ ~IllShaped(block.body[k])
  BY <1>1 DEF LayoutInv, DemandInv, Demanded
<1>3. ReadBy(block.body[k]) \ block.vectors \subseteq ScalarsBefore(block, k)
  BY <1>1 DEF LayoutInv, ScalarsInOrder
<1>4. IsVector(block.body[k].result) => ranges[block.body[k].result].definedAt = k
  BY <1>1 DEF LayoutInv, RangesInv
<1>5. \A a \in VectorsReadBy(block.body[k]) :
        a \in block.vectors /\ ranges[a].definedAt < k /\ k <= ranges[a].lastUsedAt
  BY <1>1 DEF LayoutInv, RangesInv, VectorsReadBy, IsVector
<1>. QED
  BY <1>2, <1>3, <1>4, <1>5

\* The slots of a record's grid.
LEMMA GridFacts ==
  ASSUME RunTypeOK
  PROVE  /\ grid.integration \in Nat /\ grid.death \in BOOLEAN /\ SlotCount \in Nat
         /\ SlotCount = IF grid.death THEN grid.integration + 1 ELSE grid.integration
<1>1. grid \in [integration : Nat, death : BOOLEAN]
  <2>1. EmptyGrid \in [integration : Nat, death : BOOLEAN]
    BY DEF EmptyGrid
  <2>2. Grids \subseteq [integration : Nat, death : BOOLEAN]
    BY RunAssumption DEF Grids
  <2>. QED
    BY <2>1, <2>2 DEF RunTypeOK
<1>. QED
  BY <1>1 DEF SlotCount

\* The slots filled for a time vector are the grid's, and more the more is wanted.
LEMMA FilledInGrid ==
  ASSUME RunTypeOK, NEW v
  PROVE  Filled(v) \subseteq 1 .. SlotCount
BY GridFacts DEF Filled, FirstSlot, LastSlot

LEMMA FilledGrows ==
  ASSUME RunTypeOK, NEW v, NEW a, demand[v] \subseteq demand[a]
  PROVE  Filled(v) \subseteq Filled(a)
BY GridFacts DEF Filled, FirstSlot, LastSlot

\* The slots a collapsing instruction reads are among those filled for it.
LEMMA CollapsedAreFilled ==
  ASSUME RunTypeOK, LayoutInv, pass = "ready", NEW k \in 1 .. BodyLength,
         Finalises(block.body[k])
  PROVE  SlotsCollapsed(block.body[k]) \subseteq Filled(block.body[k].args[1])
<1>. DEFINE i == block.body[k]
<1>. DEFINE a == block.body[k].args[1]
<1>1. Wanted(i) \subseteq demand[a]
  BY InstructionFacts DEF Demanded, ArgumentsOf
<1>2. i.op \in Ops
  BY BodyTypes DEF LayoutInv
<1>3. CASE i.op = "integrate"
  <2>1. "midpoints" \in demand[a]
    BY <1>1, <1>3 DEF Wanted
  <2>2. SlotsCollapsed(i) = 1 .. grid.integration /\ FirstSlot(a) = 1
    BY <1>3, <2>1 DEF SlotsCollapsed, FirstSlot
  <2>3. grid.integration <= LastSlot(a)
    BY GridFacts DEF LastSlot
  <2>4. LastSlot(a) \in Nat
    BY GridFacts DEF LastSlot
  <2>. QED
    BY <2>2, <2>3, <2>4, GridFacts DEF Filled
<1>4. CASE i.op = "diedValue"
  <2>1. "death" \in demand[a]
    BY <1>1, <1>4 DEF Wanted
  <2>. QED
    BY <1>4, <2>1, GridFacts DEF SlotsCollapsed, Filled, FirstSlot, LastSlot
<1>. QED
  BY <1>2, <1>3, <1>4, InstructionFacts DEF Finalises, Ops

\* What is read of a live time vector is this record's.
LEMMA LiveIsRight ==
  ASSUME RunInv, InBody, NEW a \in VectorsReadBy(Instruction)
  PROVE  /\ DOMAIN BufferOf(a) = 1 .. SlotCount
         /\ \A slot \in Filled(a) : RightAt(a, slot)
<1>1. LayoutInv /\ pass = "ready" /\ pc \in 1 .. BodyLength
  BY BodyTypes DEF RunInv, RunTypeOK, LayoutInv, InBody
<1>2. a \in block.vectors /\ ranges[a].definedAt < pc /\ pc <= ranges[a].lastUsedAt
  BY <1>1, InstructionFacts DEF Instruction
<1>3. /\ DOMAIN BufferOf(a) = 1 .. SlotCount
      /\ \A slot \in Filled(a) : BufferOf(a)[slot] = <<a, record>>
  BY <1>2 DEF RunInv, WalkInv, InBody
<1>. QED
  BY <1>3, FilledInGrid DEF RunInv, RightAt, InBounds

\* And so is every scalar it reads.
LEMMA ScalarsAreRight ==
  ASSUME RunInv, InBody
  PROVE  RightScalars(Instruction)
<1>1. LayoutInv /\ pass = "ready" /\ pc \in 1 .. BodyLength
  BY BodyTypes DEF RunInv, RunTypeOK, LayoutInv, InBody
<1>2. ReadBy(Instruction) \ block.vectors \subseteq ScalarsBefore(block, pc)
  BY <1>1, InstructionFacts DEF Instruction
<1>. QED
  BY <1>2 DEF RunInv, WalkInv, InBody, RightScalars, IsVector

-----------------------------------------------------------------------------
LEMMA RunStarts == RunInit => RunInv
<1>. SUFFICES ASSUME RunInit PROVE RunInv
  OBVIOUS
<1>. USE DEF RunInit
<1>1. LayoutInv
  BY LayoutStarts
<1>2. RunTypeOK
  <2>1. buffers \in Seq(Seq(Values))
    BY DEF Values
  <2>. QED
    BY <1>1, <2>1, RunAssumption DEF RunTypeOK, LayoutInv, Stages
<1>3. WalkInv
  BY DEF WalkInv
<1>. QED
  BY <1>1, <1>2, <1>3 DEF RunInv

\* While the block is laid out there is no interpreter yet.
LEMMA LayoutKeeps ==
  ASSUME RunInv, Layout
  PROVE  RunInv'
<1>. USE DEF Layout, runVars
<1>1. LayoutInv'
  BY LayoutStepKeeps DEF RunInv
<1>2. RunTypeOK'
  BY <1>1 DEF RunInv, RunTypeOK, LayoutInv, Stages, Grids, EmptyGrid, Values
<1>3. WalkInv'
  BY DEF WalkInv
<1>. QED
  BY <1>1, <1>2, <1>3 DEF RunInv

LEMMA ConstructKeeps ==
  ASSUME RunInv, Construct
  PROVE  RunInv'
<1>. USE DEF Construct
<1>1. LayoutInv'
  BY LayoutStutterKeeps DEF RunInv
<1>2. Len(freeFrom) \in Nat /\ freeFrom' = freeFrom /\ block' = block /\ pass' = pass
  BY DEF RunInv, LayoutInv, LayoutTypeOK, layoutVars
<1>3. buffers' \in Seq(Seq(Values)) /\ Len(buffers') = Len(freeFrom)
  <2>1. <<>> \in Seq(Values)
    OBVIOUS
  <2>2. buffers' \in [1 .. Len(freeFrom) -> Seq(Values)]
    BY <2>1
  <2>. QED
    BY <1>2, <2>2
<1>4. RunTypeOK'
  BY <1>1, <1>2, <1>3 DEF RunInv, RunTypeOK, LayoutInv, Stages, Grids, EmptyGrid, Values
<1>5. WalkInv'
  BY DEF WalkInv
<1>. QED
  BY <1>1, <1>4, <1>5 DEF RunInv

-----------------------------------------------------------------------------
\* The operands a stored scalar may be.
LEMMA StoreTypes ==
  ASSUME RunInv, NEW o \in Operands, NEW right \in BOOLEAN, Store(o, right)
  PROVE  /\ registers' \in [Operands -> 0 .. MaxRecords]
         /\ right => registers'[o] = record
         /\ \A x \in Operands : x # o => registers'[x] = registers[x]
<1>1. registers \in [Operands -> 0 .. MaxRecords] /\ record \in 0 .. MaxRecords /\ MaxRecords \in Nat
  BY RunAssumption DEF RunInv, RunTypeOK
<1>. QED
  BY <1>1 DEF Store

LEMMA LoadColumnsKeeps ==
  ASSUME RunInv, LoadColumns
  PROVE  RunInv'
<1>. USE DEF LoadColumns
<1>1. LayoutInv'
  BY LayoutStutterKeeps DEF RunInv
<1>2. /\ block' = block /\ pass' = pass /\ freeFrom' = freeFrom /\ pass = "ready"
      /\ record' \in 1 .. MaxRecords /\ MaxRecords \in Nat
      /\ block.loaded \subseteq Operands /\ Len(block.prologue) \in Nat
  BY RunAssumption, BlockTypes DEF RunInv, RunTypeOK, LayoutInv, LayoutTypeOK, layoutVars
<1>3. registers' \in [Operands -> 0 .. MaxRecords]
  BY <1>2 DEF RunInv, RunTypeOK
<1>4. RunTypeOK'
  BY <1>1, <1>2, <1>3 DEF RunInv, RunTypeOK, LayoutInv, Stages, Grids, EmptyGrid, Values
<1>5. \A o \in block.loaded : registers'[o] = record'
  BY <1>2
<1>6. WalkInv'
  BY <1>2, <1>5 DEF WalkInv
<1>. QED
  BY <1>1, <1>4, <1>6 DEF RunInv

LEMMA ExecutePrologueKeeps ==
  ASSUME RunInv, ExecutePrologue
  PROVE  RunInv'
<1>. USE DEF ExecutePrologue
<1>. DEFINE i == block.prologue[pc]
<1>1. LayoutInv'
  BY LayoutStutterKeeps DEF RunInv
<1>2. /\ block' = block /\ pass' = pass /\ freeFrom' = freeFrom /\ pass = "ready"
      /\ pc \in 1 .. Len(block.prologue) /\ Len(block.prologue) \in Nat
      /\ DOMAIN block.prologue = 1 .. Len(block.prologue)
      /\ block.loaded \subseteq Operands
      /\ \A k \in 1 .. Len(block.prologue) : block.prologue[k].result \in Operands
  BY BlockTypes, InstructionTypes DEF RunInv, RunTypeOK, LayoutInv, LayoutTypeOK, layoutVars
<1>3. RightScalars(i)
  <2>1. ReadBy(i) \subseteq block.loaded \union {block.prologue[j].result : j \in 1 .. pc - 1}
    BY <1>2 DEF RunInv, LayoutInv, ScalarsInOrder
  <2>. QED
    BY <2>1 DEF RightScalars, RunInv, WalkInv
<1>4. /\ registers' \in [Operands -> 0 .. MaxRecords]
      /\ registers'[i.result] = record
      /\ \A x \in Operands : x # i.result => registers'[x] = registers[x]
  BY <1>2, <1>3, StoreTypes
<1>5. RunTypeOK'
  BY <1>1, <1>2, <1>4 DEF RunInv, RunTypeOK, LayoutInv, Stages, Grids, EmptyGrid, Values
<1>6. \A o \in block.loaded \union {block.prologue[j].result : j \in 1 .. pc} :
        registers'[o] = record
  BY <1>2, <1>4 DEF RunInv, WalkInv
<1>7. WalkInv'
  BY <1>2, <1>6 DEF WalkInv
<1>. QED
  BY <1>1, <1>5, <1>7 DEF RunInv

\* A skipped record, or the outputs added: what the interpreter holds is kept,
\* and nothing more is claimed of it.
LEMMA BetweenKeeps ==
  ASSUME RunInv, SkipRecord \/ AddOutputs
  PROVE  RunInv'
<1>. USE DEF SkipRecord, AddOutputs, PrologueEnds
<1>1. LayoutInv'
  BY LayoutStutterKeeps DEF RunInv
<1>2. grid' \in Grids \union {EmptyGrid}
  BY DEF RunInv, RunTypeOK
<1>3. pass' = pass /\ pass = "ready" /\ freeFrom' = freeFrom /\ block' = block
  BY DEF RunInv, RunTypeOK, layoutVars
<1>4. RunTypeOK'
  BY <1>1, <1>2, <1>3 DEF RunInv, RunTypeOK, LayoutInv, Stages, Values
<1>5. WalkInv'
  BY DEF WalkInv
<1>. QED
  BY <1>1, <1>4, <1>5 DEF RunInv

LEMMA BuildGridKeeps ==
  ASSUME RunInv, BuildGrid
  PROVE  RunInv'
<1>. USE DEF BuildGrid, PrologueEnds
<1>1. LayoutInv'
  BY LayoutStutterKeeps DEF RunInv
<1>2. grid' \in Grids \union {EmptyGrid}
  BY DEF RunInv, RunTypeOK
<1>3. /\ pass' = pass /\ pass = "ready" /\ freeFrom' = freeFrom /\ block' = block /\ ranges' = ranges
      /\ BodyLength \in Nat /\ BodyLength' = BodyLength
      /\ Len(block.prologue) \in Nat /\ pc = Len(block.prologue) + 1
      /\ DOMAIN block.prologue = 1 .. Len(block.prologue)
  <2>1. LayoutTypeOK /\ block \in BlockType
    BY DEF RunInv, LayoutInv, LayoutTypeOK
  <2>2. block' = block /\ pass' = pass /\ freeFrom' = freeFrom /\ ranges' = ranges
    BY DEF layoutVars
  <2>3. BodyLength \in Nat /\ BodyLength' = BodyLength
    BY <2>1, <2>2, BodyTypes DEF BodyLength
  <2>4. Len(block.prologue) \in Nat /\ DOMAIN block.prologue = 1 .. Len(block.prologue)
    BY <2>1, BlockTypes
  <2>5. pass = "ready" /\ pc = Len(block.prologue) + 1
    <3>1. /\ stage = "prologue" => pc <= Len(block.prologue) + 1
          /\ stage # "layout" => pass = "ready"
          /\ pc \in Nat
      BY DEF RunInv, RunTypeOK
    <3>. QED
      BY <2>4, <3>1
  <2>. QED
    BY <2>2, <2>3, <2>4, <2>5
<1>4. RunTypeOK'
  BY <1>1, <1>2, <1>3 DEF RunInv, RunTypeOK, LayoutInv, Stages, Values
<1>5. WalkInv'
  <2>1. \A o \in ScalarsBefore(block, 1) : registers[o] = record
    BY <1>3 DEF RunInv, WalkInv, ScalarsBefore
  <2>2. \A v \in block.vectors : ~(ranges[v].definedAt < 1)
    BY <1>3, ReadyFacts DEF RunInv
  <2>3. ScalarsBefore(block, 1)' = ScalarsBefore(block, 1)
    BY <1>3 DEF ScalarsBefore
  <2>4. pc' = 1 /\ stage' = "body" /\ 1 <= BodyLength + 1 /\ registers' = registers /\ record' = record
    BY <1>3
  <2>5. ScalarsBefore(block, pc)' = ScalarsBefore(block, 1)
    BY <2>4, <1>3 DEF ScalarsBefore
  <2>. QED
    BY <1>3, <2>1, <2>2, <2>4, <2>5 DEF WalkInv
<1>. QED
  BY <1>1, <1>4, <1>5 DEF RunInv

-----------------------------------------------------------------------------
\* What every instruction of the body finds and leaves alone.
LEMMA BodyStep ==
  ASSUME RunInv, InBody, pc' = pc + 1, UNCHANGED <<layoutVars, stage, record, grid>>
  PROVE  /\ LayoutInv' /\ LayoutInv /\ RunTypeOK /\ pass = "ready" /\ pass' = "ready"
         /\ pc \in 1 .. BodyLength /\ BodyLength \in Nat /\ BodyLength' = BodyLength
         /\ Instruction.result \in Operands
         /\ record \in 1 .. MaxRecords
         /\ block' = block /\ ranges' = ranges /\ demand' = demand
         /\ bufferOf' = bufferOf /\ freeFrom' = freeFrom
         /\ SlotCount' = SlotCount /\ \A v : Filled(v)' = Filled(v)
         /\ ScalarsBefore(block, pc)' = ScalarsBefore(block, pc) \union {Instruction.result}
<1>1. LayoutInv'
  BY LayoutStutterKeeps DEF RunInv
<1>2. /\ LayoutInv /\ RunTypeOK /\ pass = "ready" /\ pass' = "ready"
      /\ pc \in 1 .. BodyLength /\ BodyLength \in Nat
      /\ block' = block /\ ranges' = ranges /\ demand' = demand
      /\ bufferOf' = bufferOf /\ freeFrom' = freeFrom
      /\ BodyLength' = BodyLength
  BY BodyTypes DEF RunInv, RunTypeOK, LayoutInv, InBody, layoutVars, BodyLength
<1>3. Instruction.result \in Operands
  BY <1>2, ReadyFacts DEF Instruction
<1>4. record \in 1 .. MaxRecords
  BY RunAssumption DEF RunInv, RunTypeOK, InBody
<1>5. SlotCount' = SlotCount /\ \A v : Filled(v)' = Filled(v)
  BY <1>2 DEF SlotCount, Filled, FirstSlot, LastSlot
<1>6. ScalarsBefore(block, pc)' = ScalarsBefore(block, pc) \union {Instruction.result}
  <2>1. 1 .. pc' - 1 = (1 .. pc - 1) \union {pc}
    BY <1>2
  <2>. QED
    BY <1>2, <2>1 DEF ScalarsBefore, Instruction
<1>. QED
  BY <1>1, <1>2, <1>3, <1>4, <1>5, <1>6

\* An instruction that writes a scalar, and writes the right one.
LEMMA StoreKeeps ==
  ASSUME RunInv, InBody, ~IsVector(Instruction.result), Store(Instruction.result, TRUE),
         pc' = pc + 1, UNCHANGED <<layoutVars, stage, record, grid, buffers>>
  PROVE  RunInv'
<1>1. /\ registers' \in [Operands -> 0 .. MaxRecords]
      /\ registers'[Instruction.result] = record
      /\ \A x \in Operands : x # Instruction.result => registers'[x] = registers[x]
  BY BodyStep, StoreTypes
<1>2. RunTypeOK'
  BY <1>1, BodyStep DEF RunInv, RunTypeOK, LayoutInv, InBody
<1>3. WalkInv'
  <2>1. ASSUME NEW o \in ScalarsBefore(block, pc)' \ block.vectors
        PROVE  registers'[o] = record
    <3>1. CASE o = Instruction.result
      BY <1>1, <3>1
    <3>2. CASE o # Instruction.result
      <4>1. o \in ScalarsBefore(block, pc) \ block.vectors
        BY <2>1, <3>2, BodyStep
      <4>2. o \in Operands
        <5>1. block \in BlockType
          BY DEF RunInv, LayoutInv, LayoutTypeOK
        <5>. QED
          BY <4>1, <5>1, BlockTypes, InstructionTypes, BodyStep DEF ScalarsBefore, BodyLength
      <4>. QED
        BY <1>1, <3>2, <4>1, <4>2 DEF RunInv, WalkInv, InBody
    <3>. QED
      BY <3>1, <3>2
  <2>2. ASSUME NEW v \in block.vectors,
               ranges[v].definedAt < pc + 1, pc + 1 <= ranges[v].lastUsedAt
        PROVE  /\ DOMAIN BufferOf(v)' = 1 .. SlotCount
               /\ \A slot \in Filled(v) : BufferOf(v)'[slot] = <<v, record>>
    <3>1. ranges[v].definedAt # pc
      BY BodyStep, ReadyFacts DEF IsVector, Instruction
    <3>2. ranges[v].definedAt < pc /\ pc <= ranges[v].lastUsedAt
      BY <2>2, <3>1, BodyStep, ReadyFacts
    <3>3. BufferOf(v)' = BufferOf(v)
      BY BodyStep DEF BufferOf
    <3>. QED
      BY <3>2, <3>3 DEF RunInv, WalkInv, InBody
  <2>3. pc' <= BodyLength' + 1 /\ stage' = "body"
    BY BodyStep DEF InBody
  <2>. QED
    BY <2>1, <2>2, <2>3, BodyStep DEF WalkInv
<1>. QED
  BY <1>2, <1>3, BodyStep DEF RunInv

LEMMA ExecuteScalarKeeps ==
  ASSUME RunInv, ExecuteScalar
  PROVE  RunInv'
<1>1. RightScalars(Instruction) \in BOOLEAN /\ RightScalars(Instruction)
  BY ScalarsAreRight DEF ExecuteScalar, RightScalars
<1>2. Store(Instruction.result, TRUE)
  BY <1>1 DEF ExecuteScalar, Store
<1>. QED
  BY <1>2, StoreKeeps DEF ExecuteScalar

LEMMA ExecuteFinaliseKeeps ==
  ASSUME RunInv, ExecuteFinalise
  PROVE  RunInv'
<1>. USE DEF ExecuteFinalise
<1>1. LayoutInv /\ RunTypeOK /\ pass = "ready" /\ pc \in 1 .. BodyLength
  BY BodyStep DEF layoutVars
<1>2. ~IsVector(Instruction.result) /\ Instruction.args[1] \in VectorsReadBy(Instruction)
  <2>1. /\ ~IsVector(Instruction.result)
        /\ Instruction.args # <<>> /\ IsVector(Instruction.args[1])
    BY <1>1, InstructionFacts DEF IllShaped, Instruction
  <2>2. Instruction \in InstructionType
    BY <1>1, BlockTypes DEF LayoutInv, LayoutTypeOK, Instruction, BodyLength
  <2>3. 1 \in DOMAIN Instruction.args
    <3>1. Instruction.args \in Seq(Operands)
      BY <2>2 DEF InstructionType
    <3>. QED
      BY <2>1, <3>1
  <2>. QED
    BY <2>1, <2>3 DEF VectorsReadBy, ReadBy
<1>3. \A slot \in SlotsCollapsed(Instruction) : RightAt(Instruction.args[1], slot)
  <2>1. SlotsCollapsed(Instruction) \subseteq Filled(Instruction.args[1])
    BY <1>1, CollapsedAreFilled DEF Instruction
  <2>. QED
    BY <1>2, <2>1, LiveIsRight
<1>4. Store(Instruction.result, TRUE)
  BY <1>3 DEF Store
<1>. QED
  BY <1>2, <1>4, StoreKeeps

\* A time vector is written where no live one is, over every slot its readers
\* will look at.
LEMMA ExecuteVectorKeeps ==
  ASSUME RunInv, ExecuteVector
  PROVE  RunInv'
<1>. USE DEF ExecuteVector
<1>. DEFINE v == Instruction.result
<1>. DEFINE b == bufferOf[v]
<1>. DEFINE new == [slot \in 1 .. SlotCount |->
                      IF slot \in Filled(v) THEN Computed(Instruction, slot)
                      ELSE Resized(b, slot)]
<1>1. /\ LayoutInv /\ RunTypeOK /\ pass = "ready"
      /\ pc \in 1 .. BodyLength /\ BodyLength \in Nat
      /\ v \in block.vectors /\ v \in Operands /\ record \in 1 .. MaxRecords
      /\ SlotCount \in Nat
  BY BodyStep, GridFacts DEF layoutVars, IsVector
<1>2. /\ b \in 1 .. Len(buffers) /\ buffers \in Seq(Seq(Values))
      /\ buffers' = [buffers EXCEPT ![b] = new]
  BY <1>1, ReadyFacts DEF RunInv, RunTypeOK, InBody
<1>3. \A slot \in Filled(v) : new[slot] = <<v, record>>
  <2>1. ASSUME NEW slot \in Filled(v), NEW a \in VectorsReadBy(Instruction)
        PROVE  RightAt(a, slot)
    <3>1. demand[v] \subseteq demand[a]
      <4>1. Demanded(pc) /\ ~Finalises(Instruction)
        BY <1>1, InstructionFacts DEF IllShaped, Instruction
      <4>2. Wanted(Instruction) = demand[v]
        BY <1>1, <4>1 DEF Wanted, Finalises, IsVector
      <4>. QED
        BY <4>1, <4>2 DEF Demanded, ArgumentsOf, Instruction
    <3>2. slot \in Filled(a)
      BY <1>1, <3>1, FilledGrows
    <3>. QED
      BY <3>2, LiveIsRight
  <2>2. RightScalars(Instruction)
    BY ScalarsAreRight
  <2>3. Filled(v) \subseteq 1 .. SlotCount
    BY <1>1, FilledInGrid
  <2>. QED
    BY <2>1, <2>2, <2>3 DEF Computed
<1>4. buffers' \in Seq(Seq(Values)) /\ Len(buffers') = Len(buffers)
  <2>1. \A slot \in 1 .. SlotCount : new[slot] \in Values
    <3>1. <<v, record>> \in Values /\ Junk \in Values
      BY <1>1 DEF Values
    <3>2. \A slot \in 1 .. SlotCount : Resized(b, slot) \in Values
      <4>1. buffers[b] \in Seq(Values)
        BY <1>2
      <4>. QED
        BY <1>1, <3>1, <4>1 DEF Resized
    <3>. QED
      BY <1>3, <3>1, <3>2
  <2>2. new \in Seq(Values)
    BY <1>1, <2>1
  <2>. QED
    BY <1>2, <2>2
<1>5. RunTypeOK'
  BY <1>4, BodyStep DEF RunInv, RunTypeOK, LayoutInv, InBody
<1>6. WalkInv'
  <2>1. ASSUME NEW o \in ScalarsBefore(block, pc)' \ block.vectors
        PROVE  registers'[o] = record
    <3>1. o \in ScalarsBefore(block, pc) \ block.vectors
      BY <1>1, <2>1, BodyStep
    <3>. QED
      BY <3>1 DEF RunInv, WalkInv, InBody
  <2>2. ASSUME NEW w \in block.vectors,
               ranges[w].definedAt < pc + 1, pc + 1 <= ranges[w].lastUsedAt
        PROVE  /\ DOMAIN BufferOf(w)' = 1 .. SlotCount
               /\ \A slot \in Filled(w) : BufferOf(w)'[slot] = <<w, record>>
    <3>1. BufferOf(w)' = buffers'[bufferOf[w]]
      BY BodyStep DEF BufferOf
    <3>2. CASE w = v
      <4>1. BufferOf(w)' = new
        BY <1>2, <3>1, <3>2
      <4>. QED
        BY <1>3, <3>2, <4>1
    <3>3. CASE w # v
      <4>1. ranges[w].definedAt # pc
        BY <1>1, <3>3, ReadyFacts DEF Instruction
      <4>2. ranges[w].definedAt < pc /\ pc <= ranges[w].lastUsedAt
        BY <1>1, <2>2, <4>1, ReadyFacts
      <4>3. bufferOf[w] # b
        <5>1. ranges[v].definedAt = pc
          BY <1>1, InstructionFacts DEF Instruction, IsVector
        <5>2. ~InTurn(v, w)
          BY <1>1, <4>2, <5>1, ReadyFacts DEF InTurn
        <5>. QED
          BY <1>1, <1>2, <3>3, <5>2 DEF LayoutInv, BuffersInv
      <4>4. BufferOf(w)' = BufferOf(w)
        <5>1. bufferOf[w] \in 1 .. Len(buffers)
          BY <1>1, ReadyFacts DEF RunTypeOK, RunInv, InBody
        <5>. QED
          BY <1>2, <3>1, <4>3, <5>1 DEF BufferOf
      <4>. QED
        BY <4>2, <4>4 DEF RunInv, WalkInv, InBody
    <3>. QED
      BY <3>2, <3>3
  <2>3. pc' <= BodyLength' + 1 /\ stage' = "body"
    BY BodyStep DEF InBody
  <2>. QED
    BY <2>1, <2>2, <2>3, BodyStep DEF WalkInv
<1>. QED
  BY <1>5, <1>6, BodyStep DEF RunInv

-----------------------------------------------------------------------------
LEMMA RunStepKeeps ==
  ASSUME RunInv, RunStep
  PROVE  RunInv'
<1>1. CASE Layout \/ Construct
  BY <1>1, LayoutKeeps, ConstructKeeps
<1>2. CASE LoadColumns \/ ExecutePrologue \/ BuildGrid
  BY <1>2, LoadColumnsKeeps, ExecutePrologueKeeps, BuildGridKeeps
<1>3. CASE SkipRecord \/ AddOutputs
  BY <1>3, BetweenKeeps
<1>4. CASE ExecuteVector \/ ExecuteFinalise \/ ExecuteScalar
  BY <1>4, ExecuteVectorKeeps, ExecuteFinaliseKeeps, ExecuteScalarKeeps
<1>. QED
  BY <1>1, <1>2, <1>3, <1>4 DEF RunStep

LEMMA RunStutterKeeps ==
  ASSUME RunInv, UNCHANGED allVars
  PROVE  RunInv'
<1>. USE DEF allVars, runVars
<1>1. LayoutInv'
  BY LayoutStutterKeeps DEF RunInv
<1>2. block' = block /\ pass' = pass /\ freeFrom' = freeFrom /\ BodyLength' = BodyLength
  BY DEF layoutVars, BodyLength
<1>3. RunTypeOK'
  BY <1>1, <1>2 DEF RunInv, RunTypeOK, LayoutInv
<1>4. WalkInv'
  <2>1. /\ stage' = stage /\ pc' = pc /\ record' = record /\ registers' = registers
        /\ ranges' = ranges /\ demand' = demand /\ grid' = grid
    BY DEF layoutVars
  <2>2. ScalarsBefore(block, pc)' = ScalarsBefore(block, pc)
    BY <1>2, <2>1 DEF ScalarsBefore
  <2>3. SlotCount' = SlotCount /\ \A v : Filled(v)' = Filled(v)
    BY <2>1 DEF Filled, FirstSlot, LastSlot, SlotCount
  <2>4. \A v : BufferOf(v)' = BufferOf(v)
    BY DEF BufferOf, layoutVars
  <2>. QED
    BY <1>2, <2>1, <2>2, <2>3, <2>4 DEF RunInv, WalkInv
<1>. QED
  BY <1>1, <1>3, <1>4 DEF RunInv

\* Whatever block was laid out, however many records and however long their
\* grids: scalars already written are this record's, and so is every slot that
\* is still to be read of a time vector.
THEOREM RunInvariant == RunSpec => []RunInv
<1>1. RunInit => RunInv
  BY RunStarts
<1>2. RunInv /\ [RunNext]_allVars => RunInv'
  BY RunStepKeeps, RunStutterKeeps DEF RunNext
<1>. QED
  BY <1>1, <1>2, PTL DEF RunSpec

\* The types of the interpreter's state.
THEOREM RunTypes == RunSpec => []RunTypeOK
<1>1. RunInv => RunTypeOK
  BY DEF RunInv
<1>. QED
  BY <1>1, RunInvariant, PTL

\* No instruction reads past the end of a time vector, whatever the grid: what
\* an earlier, shorter record left in a buffer is resized before it is read.
THEOREM ReadsInBounds == RunSpec => []ReadsStayInBounds
<1>1. RunInv => ReadsStayInBounds
  <2>. SUFFICES ASSUME RunInv, InBody, NEW a \in VectorsReadBy(Instruction),
                       NEW slot \in IF Finalises(Instruction) THEN SlotsCollapsed(Instruction)
                                    ELSE Filled(Instruction.result)
                PROVE  InBounds(a, slot)
    BY DEF ReadsStayInBounds
  <2>1. DOMAIN BufferOf(a) = 1 .. SlotCount
    BY LiveIsRight
  <2>2. slot \in 1 .. SlotCount
    <3>1. CASE Finalises(Instruction)
      BY <3>1, GridFacts DEF SlotsCollapsed, RunInv
    <3>2. CASE ~Finalises(Instruction)
      BY <3>2, FilledInGrid DEF RunInv
    <3>. QED
      BY <3>1, <3>2
  <2>. QED
    BY <2>1, <2>2 DEF InBounds
<1>. QED
  BY <1>1, RunInvariant, PTL

\* Each output of a record that is run is what that record's own values make
\* it: sharing buffers, filling only the slots in demand and keeping buffers
\* from record to record change no answer.
THEOREM AnswersAreRight == RunSpec => []AnswersAreThisRecords
<1>1. RunInv => AnswersAreThisRecords
  <2>. SUFFICES ASSUME RunInv, stage = "body", pc > BodyLength, NEW o \in block.outputs
                PROVE  registers[o] = record
    BY DEF AnswersAreThisRecords
  <2>1. LayoutInv /\ pass = "ready" /\ BodyLength \in Nat /\ pc \in Nat /\ pc <= BodyLength + 1
    BY BodyTypes DEF RunInv, RunTypeOK, LayoutInv, WalkInv
  <2>2. pc = BodyLength + 1
    BY <2>1
  <2>3. o \notin block.vectors
    BY <2>1 DEF LayoutInv, PlacesInv, AfterLiveness, Misplaced, IsVector
  <2>4. o \in ScalarsBefore(block, pc)
    BY <2>1, <2>2, <2>3 DEF LayoutInv, ScalarsInOrder, BodyLength
  <2>. QED
    BY <2>3, <2>4 DEF RunInv, WalkInv
<1>. QED
  BY <1>1, RunInvariant, PTL
=============================================================================
