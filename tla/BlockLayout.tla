----------------------------- MODULE BlockLayout -----------------------------
(***************************************************************************)
(* What runBlockPipeline (src/src/veil_for_R.cpp) decides about a lowered   *)
(* block: passComputeLiveness, passComputeSlotDemand,                       *)
(* passFindDeadInstructions and passAllocateVectorBuffers of src/src/veil/. *)
(*                                                                         *)
(* A block is straight-line code.  Of an instruction the passes tell apart  *)
(* what it writes, what it reads, and whether it works slot by slot or      *)
(* collapses the time vector (integrate, died_value).  Each pass is a scan  *)
(* and each of its iterations an action, so what holds half way through a   *)
(* scan can be stated.  Indices start at 1, buffer 0 is invalidBufferId.    *)
(***************************************************************************)
EXTENDS Naturals, Sequences, FiniteSets

CONSTANTS
  Operands,   \* the operands blocks may name, numbered from 1
  BlockSet    \* the blocks handed to the pipeline

Ops == {"aligned", "integrate", "diedValue"}
InstructionType == [op : Ops, result : Operands, args : Seq(Operands)]

BlockType ==
  [vectors  : SUBSET Operands,         \* the operands that are time vectors
   loaded   : SUBSET Operands,         \* bound to a constant or a column
   prologue : Seq(InstructionType),
   body     : Seq(InstructionType),
   outputs  : SUBSET Operands,
   grid     : SUBSET Operands,         \* what the time grid is built from, if there is one
   included : Operands \union {0}]     \* whether the record counts, 0 if nothing could exclude it

ReadBy(i) == {i.args[k] : k \in DOMAIN i.args}

GridReads(b) == IF b.grid = {} THEN {} ELSE b.grid \union ({b.included} \ {0})

\* Lowering writes every scalar once, and before it is read: each temporary is
\* new, bound to nothing else, and emitted after its arguments, the prologue
\* before the body (passLowerToBlock.hpp:402).  No pass below checks it.
ScalarsBefore(b, k) ==
  b.loaded \union {b.prologue[j].result : j \in DOMAIN b.prologue}
           \union {b.body[j].result : j \in 1 .. k - 1}

ScalarsInOrder(b) ==
  /\ \A k \in DOMAIN b.prologue :
       ReadBy(b.prologue[k]) \subseteq
         b.loaded \union {b.prologue[j].result : j \in 1 .. k - 1}
  /\ \A k \in DOMAIN b.body :
       ReadBy(b.body[k]) \ b.vectors \subseteq ScalarsBefore(b, k)
  /\ b.outputs \subseteq b.vectors \union ScalarsBefore(b, Len(b.body) + 1)
  /\ b.loaded \intersect ({b.prologue[j].result : j \in DOMAIN b.prologue} \union
                         {b.body[j].result : j \in DOMAIN b.body}) \subseteq b.vectors
  /\ \A j, k \in DOMAIN b.body :
       j # k /\ b.body[j].result = b.body[k].result => b.body[j].result \in b.vectors
  /\ \A j, k \in DOMAIN b.prologue :
       j # k /\ b.prologue[j].result = b.prologue[k].result => b.prologue[j].result \in b.vectors
  /\ {b.prologue[j].result : j \in DOMAIN b.prologue} \intersect
     {b.body[j].result : j \in DOMAIN b.body} \subseteq b.vectors

ASSUME LayoutAssumption ==
  /\ Operands \subseteq Nat \ {0}
  /\ BlockSet \subseteq BlockType
  /\ \A b \in BlockSet : ScalarsInOrder(b)

VARIABLES
  block,     \* argument
  pass,      \* the pass that is running, or how the pipeline ended
  at,        \* the instruction it looks at next
  ranges,    \* VectorLiveRange of each operand
  demand,    \* SlotDemand of each operand, as the set of parts read
  read,      \* operands found to be read, in the search for dead instructions
  dead,      \* the instructions found dead
  bufferOf,  \* the buffer of each operand, 0 if it has none
  freeFrom   \* for each buffer, the first instruction that may take it again

layoutVars == <<block, pass, at, ranges, demand, read, dead, bufferOf, freeFrom>>

NoRange == [defined |-> FALSE, definedAt |-> 0, lastUsedAt |-> 0]

LayoutInit ==
  /\ block \in BlockSet
  /\ pass = "places" /\ at = 1
  /\ ranges = [v \in Operands |-> NoRange]
  /\ demand = [v \in Operands |-> {}]
  /\ read = {} /\ dead = {}
  /\ bufferOf = [v \in Operands |-> 0]
  /\ freeFrom = <<>>

IsVector(o) == o \in block.vectors
VectorsReadBy(i) == {a \in ReadBy(i) : IsVector(a)}
BodyLength == Len(block.body)
Current == block.body[at]

Refuse ==
  /\ pass' = "refused"
  /\ UNCHANGED <<block, at, ranges, demand, read, dead, bufferOf, freeFrom>>

\* On to another pass, whose first instruction is the one given.
GoTo(next, first) == pass' = next /\ at' = first

-----------------------------------------------------------------------------
(* passComputeLiveness: where each time vector is written and last read.    *)

\* A time vector in the prologue, as an output, or bound to something.
Misplaced ==
  \/ \E k \in DOMAIN block.prologue :
       \/ IsVector(block.prologue[k].result)
       \/ VectorsReadBy(block.prologue[k]) # {}
  \/ \E o \in block.outputs \union block.loaded : IsVector(o)

RefusePlaces == pass = "places" /\ Misplaced /\ Refuse

CheckPlaces ==
  /\ pass = "places"
  /\ ~Misplaced
  /\ GoTo("liveness", 1)
  /\ UNCHANGED <<block, ranges, demand, read, dead, bufferOf, freeFrom>>

\* Mistake: a read that comes before any write is let through.
ReadsAreNotChecked == FALSE

\* Arguments first: an operand read by the instruction that writes it is read
\* before anything wrote it.
ReadTooEarly == \E a \in VectorsReadBy(Current) : ~ranges[a].defined

WrittenTwice == IsVector(Current.result) /\ ranges[Current.result].defined

RefuseRange ==
  /\ pass = "liveness" /\ at <= BodyLength
  /\ ReadTooEarly \/ WrittenTwice
  /\ Refuse

RangeAfter(v) ==
  IF v = Current.result /\ IsVector(v)
  THEN [defined |-> TRUE, definedAt |-> at, lastUsedAt |-> at]
  ELSE IF v \in VectorsReadBy(Current)
       THEN [ranges[v] EXCEPT !.lastUsedAt = at]
       ELSE ranges[v]

ExtendRanges ==
  /\ pass = "liveness" /\ at <= BodyLength
  /\ ~(ReadTooEarly \/ WrittenTwice)
  /\ ranges' = [v \in Operands |-> RangeAfter(v)]
  /\ at' = at + 1
  /\ UNCHANGED <<block, pass, demand, read, dead, bufferOf, freeFrom>>

EndLiveness ==
  /\ pass = "liveness" /\ at > BodyLength
  /\ GoTo("demand", BodyLength)
  /\ UNCHANGED <<block, ranges, demand, read, dead, bufferOf, freeFrom>>

-----------------------------------------------------------------------------
(* passComputeSlotDemand, from the last instruction to the first.           *)

Finalises(i) == i.op # "aligned"

\* A collapsing op writes a scalar and reads a vector; nothing else that writes
\* a scalar may read one.
IllShaped(i) ==
  \/ Finalises(i) /\ (IsVector(i.result) \/ i.args = <<>> \/ ~IsVector(i.args[1]))
  \/ ~Finalises(i) /\ ~IsVector(i.result) /\ VectorsReadBy(i) # {}

RefuseShape ==
  /\ pass = "demand" /\ at >= 1
  /\ IllShaped(Current)
  /\ Refuse

\* What an instruction wants of the vectors it reads, given what is wanted of
\* its own result.
Wanted(i) ==
  CASE i.op = "integrate" -> {"midpoints"}
    [] i.op = "diedValue" -> {"death"}
    [] OTHER -> IF IsVector(i.result) THEN demand[i.result] ELSE {}

ArgumentsOf(i) == IF Finalises(i) THEN {i.args[1]} ELSE VectorsReadBy(i)

\* Mistake: a second reader's demand replaces the first's.
ReplaceDemand(v) ==
  IF v \in ArgumentsOf(Current) THEN Wanted(Current) ELSE demand[v]

DemandAfter(v) ==
  IF v \in ArgumentsOf(Current) THEN demand[v] \union Wanted(Current) ELSE demand[v]

PassDemandOn ==
  /\ pass = "demand" /\ at >= 1
  /\ ~IllShaped(Current)
  /\ demand' = [v \in Operands |-> DemandAfter(v)]
  /\ at' = at - 1
  /\ UNCHANGED <<block, pass, ranges, read, dead, bufferOf, freeFrom>>

EndDemand ==
  /\ pass = "demand" /\ at = 0
  /\ GoTo("deadBody", BodyLength)
  /\ read' = block.outputs \union GridReads(block)
  /\ UNCHANGED <<block, ranges, demand, dead, bufferOf, freeFrom>>

-----------------------------------------------------------------------------
(* passFindDeadInstructions: the body backwards, then the prologue.         *)

Sweep(list, name) ==
  /\ at >= 1
  /\ IF list[at].result \notin read
     THEN dead' = dead \union {<<name, at>>} /\ UNCHANGED read
     ELSE read' = read \union ReadBy(list[at]) /\ UNCHANGED dead
  /\ at' = at - 1
  /\ UNCHANGED <<block, pass, ranges, demand, bufferOf, freeFrom>>

SweepBody == pass = "deadBody" /\ Sweep(block.body, "body")

EndSweepBody ==
  /\ pass = "deadBody" /\ at = 0
  /\ GoTo("deadPrologue", Len(block.prologue))
  /\ UNCHANGED <<block, ranges, demand, read, dead, bufferOf, freeFrom>>

\* Mistake: the prologue is swept from its first instruction, as it runs.
SweepPrologueForwards ==
  /\ pass = "deadPrologue"
  /\ at >= 1
  /\ LET n == Len(block.prologue) + 1 - at
         i == block.prologue[n]
     IN IF i.result \notin read
        THEN dead' = dead \union {<<"prologue", n>>} /\ UNCHANGED read
        ELSE read' = read \union ReadBy(i) /\ UNCHANGED dead
  /\ at' = at - 1
  /\ UNCHANGED <<block, pass, ranges, demand, bufferOf, freeFrom>>

SweepPrologue == pass = "deadPrologue" /\ Sweep(block.prologue, "prologue")

EndSweepPrologue ==
  /\ pass = "deadPrologue" /\ at = 0
  /\ GoTo("allocate", 1)
  /\ UNCHANGED <<block, ranges, demand, read, dead, bufferOf, freeFrom>>

-----------------------------------------------------------------------------
(* passAllocateVectorBuffers.  The ranges are this block's own, so they     *)
(* agree with the body, which the code checks as it goes.                   *)

NeedsBuffer == pass = "allocate" /\ at <= BodyLength /\ IsVector(Current.result)

FreeBuffers == {b \in DOMAIN freeFrom : freeFrom[b] <= at}

\* Mistake: the last reader's own instruction may take the buffer.
FreeTooSoon == ranges[Current.result].lastUsedAt

\* The first instruction after the last reader.
FreeAgainFrom == ranges[Current.result].lastUsedAt + 1

\* Lowest free buffer first.
ReuseBuffer ==
  /\ NeedsBuffer
  /\ \E b \in FreeBuffers :
       /\ \A c \in FreeBuffers : b <= c
       /\ bufferOf' = [bufferOf EXCEPT ![Current.result] = b]
       /\ freeFrom' = [freeFrom EXCEPT ![b] = FreeAgainFrom]
  /\ at' = at + 1
  /\ UNCHANGED <<block, pass, ranges, demand, read, dead>>

\* Mistake: a new buffer whenever the first one is taken.
FirstIsTaken == 1 \notin FreeBuffers

NoneIsFree == FreeBuffers = {}

NewBuffer ==
  /\ NeedsBuffer
  /\ NoneIsFree
  /\ bufferOf' = [bufferOf EXCEPT ![Current.result] = Len(freeFrom) + 1]
  /\ freeFrom' = Append(freeFrom, FreeAgainFrom)
  /\ at' = at + 1
  /\ UNCHANGED <<block, pass, ranges, demand, read, dead>>

NoBufferNeeded ==
  /\ pass = "allocate" /\ at <= BodyLength
  /\ ~IsVector(Current.result)
  /\ at' = at + 1
  /\ UNCHANGED <<block, pass, ranges, demand, read, dead, bufferOf, freeFrom>>

\* Block::assignVectorBuffers refuses a time vector nothing writes.
Unassigned == \E v \in block.vectors : bufferOf[v] = 0

RefuseAssignment ==
  /\ pass = "allocate" /\ at > BodyLength
  /\ Unassigned
  /\ Refuse

EndAllocation ==
  /\ pass = "allocate" /\ at > BodyLength
  /\ ~Unassigned
  /\ GoTo("ready", at)
  /\ UNCHANGED <<block, ranges, demand, read, dead, bufferOf, freeFrom>>

-----------------------------------------------------------------------------
LayoutStep ==
  \/ RefusePlaces \/ CheckPlaces
  \/ RefuseRange \/ ExtendRanges \/ EndLiveness
  \/ RefuseShape \/ PassDemandOn \/ EndDemand
  \/ SweepBody \/ EndSweepBody \/ SweepPrologue \/ EndSweepPrologue
  \/ ReuseBuffer \/ NewBuffer \/ NoBufferNeeded
  \/ RefuseAssignment \/ EndAllocation

LayoutOver == pass \in {"ready", "refused"}

LayoutNext == LayoutStep \/ (LayoutOver /\ UNCHANGED layoutVars)

LayoutSpec == LayoutInit /\ [][LayoutNext]_layoutVars

Passes ==
  {"places", "liveness", "demand", "deadBody", "deadPrologue", "allocate",
   "ready", "refused"}

RangeType == [defined : BOOLEAN, definedAt : Nat, lastUsedAt : Nat]

\* The types of the pipeline's state.
LayoutTypeOK ==
  /\ block \in BlockType
  /\ pass \in Passes
  /\ at \in Nat
  /\ ranges \in [Operands -> RangeType]
  /\ demand \in [Operands -> SUBSET {"midpoints", "death"}]
  /\ read \subseteq Operands
  /\ bufferOf \in [Operands -> 0 .. Len(freeFrom)]
  /\ freeFrom \in Seq(Nat)

-----------------------------------------------------------------------------
(* What each scan has established so far.                                   *)

AfterLiveness ==
  pass \in {"demand", "deadBody", "deadPrologue", "allocate", "ready"}
AfterDemand == pass \in {"deadBody", "deadPrologue", "allocate", "ready"}

\* Where each scan stands.
PositionInv ==
  /\ pass \in {"places", "liveness", "allocate"} => at >= 1
  /\ pass \in {"liveness", "allocate"} => at <= BodyLength + 1
  /\ pass \in {"demand", "deadBody"} => at <= BodyLength
  /\ pass = "deadPrologue" => at <= Len(block.prologue)

PlacesInv == pass = "liveness" \/ AfterLiveness => ~Misplaced

\* How many instructions liveness has seen.
Scanned == IF pass = "liveness" THEN at - 1 ELSE IF AfterLiveness THEN BodyLength ELSE 0

\* A range is one interval, from the only write to the last read so far.
RangesInv ==
  /\ pass = "places" => ranges = [v \in Operands |-> NoRange]
  /\ pass = "liveness" \/ AfterLiveness =>
       /\ \A v \in block.vectors : ranges[v].defined =>
            /\ ranges[v].definedAt \in 1 .. Scanned
            /\ ranges[v].definedAt <= ranges[v].lastUsedAt
            /\ ranges[v].lastUsedAt <= Scanned
            /\ block.body[ranges[v].definedAt].result = v
       /\ \A j \in 1 .. Scanned : IsVector(block.body[j].result) =>
            /\ ranges[block.body[j].result].defined
            /\ ranges[block.body[j].result].definedAt = j
       /\ \A j \in 1 .. Scanned : \A a \in VectorsReadBy(block.body[j]) :
            /\ ranges[a].defined
            /\ ranges[a].definedAt < j
            /\ j <= ranges[a].lastUsedAt

\* What is wanted of a result is wanted of what it is computed from, for every
\* instruction behind the backward scan.
Demanded(j) ==
  /\ ~IllShaped(block.body[j])
  /\ \A a \in ArgumentsOf(block.body[j]) : Wanted(block.body[j]) \subseteq demand[a]

DemandInv ==
  /\ pass = "demand" => \A j \in at + 1 .. BodyLength : Demanded(j)
  /\ AfterDemand => \A j \in 1 .. BodyLength : Demanded(j)

\* Operands that share a buffer do so one after the other.
InTurn(v, w) ==
  \/ ranges[v].lastUsedAt < ranges[w].definedAt
  \/ ranges[w].lastUsedAt < ranges[v].definedAt

BuffersInv ==
  /\ pass \notin {"allocate", "ready", "refused"} =>
       freeFrom = <<>> /\ \A v \in Operands : bufferOf[v] = 0
  /\ pass \in {"allocate", "ready"} =>
       /\ \A v \in block.vectors : bufferOf[v] # 0 =>
            /\ ranges[v].defined
            /\ pass = "allocate" => ranges[v].definedAt < at
            /\ ranges[v].lastUsedAt < freeFrom[bufferOf[v]]
       /\ \A v, w \in block.vectors :
            v # w /\ bufferOf[v] # 0 /\ bufferOf[v] = bufferOf[w] => InTurn(v, w)
  /\ pass = "ready" => \A v \in block.vectors : bufferOf[v] # 0

LayoutInv ==
  /\ LayoutTypeOK /\ ScalarsInOrder(block)
  /\ PositionInv /\ PlacesInv /\ RangesInv /\ DemandInv /\ BuffersInv

-----------------------------------------------------------------------------
\* The time vectors whose value is written by instruction i or before, and is
\* read by i or after it, or written by i itself.
LiveAt(i) ==
  {v \in block.vectors :
     \E j \in 1 .. i :
       /\ block.body[j].result = v
       /\ j = i \/ \E k \in i .. BodyLength : v \in ReadBy(block.body[k])}

\* Two time vectors that hold a value at one instruction are in different
\* buffers, an instruction's result and its own arguments included: the kernels
\* read one while they write the other (Interpreter.hpp:496 and :644).
LiveVectorsAreApart ==
  pass = "ready" =>
    \A i \in 1 .. BodyLength : \A v, w \in LiveAt(i) :
      v # w => bufferOf[v] # bufferOf[w]

\* No assignment needs fewer buffers: there are exactly as many as hold a value
\* at once somewhere (passAllocateVectorBuffers.hpp:25).
FewestBuffers ==
  pass = "ready" =>
    /\ \A i \in 1 .. BodyLength : Cardinality(LiveAt(i)) <= Len(freeFrom)
    /\ freeFrom # <<>> =>
         \E i \in 1 .. BodyLength : Cardinality(LiveAt(i)) = Len(freeFrom)

\* The parts a collapsing instruction reads, and what reaches the arguments of
\* instruction k of what is found to be read of its result.
CollapsedParts ==
  {<<block.body[k].args[1],
     IF block.body[k].op = "integrate" THEN "midpoints" ELSE "death">> :
     k \in {j \in 1 .. BodyLength : Finalises(block.body[j])}}

ThroughTo(k, found) ==
  {<<a, p[2]>> : a \in VectorsReadBy(block.body[k]),
                 p \in {q \in found : q[1] = block.body[k].result}}

\* What is read of each time vector, found by following readers until nothing
\* is added, in no particular order.
PartsWithin[n \in 0 .. BodyLength] ==
  IF n = 0 THEN CollapsedParts
  ELSE LET before == PartsWithin[n - 1]
       IN before \union UNION {ThroughTo(k, before) : k \in 1 .. BodyLength}

ReadParts == PartsWithin[BodyLength]

\* One backward scan finds exactly the parts of the grid each time vector is
\* read at: none is missed, and no survivor walks a slot that only a death
\* reads (passComputeSlotDemand.hpp:25).
DemandIsWhatIsRead ==
  pass = "ready" =>
    \A v \in block.vectors : demand[v] = {p[2] : p \in {q \in ReadParts : q[1] = v}}

Instructions ==
  {<<"body", k>> : k \in DOMAIN block.body} \union
  {<<"prologue", k>> : k \in DOMAIN block.prologue}

At(n) == IF n[1] = "body" THEN block.body[n[2]] ELSE block.prologue[n[2]]

MoreNeeded(found) ==
  UNION {ReadBy(At(n)) : n \in {m \in Instructions : At(m).result \in found}}

\* The operands an answer or the grid depends on, followed to the end.
NeededWithin[n \in 0 .. Cardinality(Instructions)] ==
  IF n = 0 THEN block.outputs \union GridReads(block)
  ELSE LET before == NeededWithin[n - 1] IN before \union MoreNeeded(before)

Needed == NeededWithin[Cardinality(Instructions)]

\* An instruction is reported dead exactly when no output and no grid bound
\* depends on it, so whoever removes the reported ones changes no answer
\* (passFindDeadInstructions.hpp:31).
DeadIsUnneeded ==
  pass = "ready" => dead = {n \in Instructions : At(n).result \notin Needed}
=============================================================================
