-------------------------------- MODULE Engine --------------------------------
(***************************************************************************)
(* Running blocks over a dataset and adding up what comes out               *)
(* (src/src/veil/Engine.hpp): runCalculations, and runCalculation, which is  *)
(* the same walk with one block.                                            *)
(*                                                                         *)
(* The module composes the pool with what a task body does: task t walks    *)
(* chunk t % chunks of the records for block t \div chunks.  A record's     *)
(* contribution is a symbol, its own index, and an accumulator is the       *)
(* sequence of the contributions added to it, in order: two floating-point  *)
(* totals are bit-identical exactly when these agree.                       *)
(***************************************************************************)
EXTENDS ThreadPool, RecordChunk, Sequences

CONSTANTS
  BlockCounts,   \* how many blocks a call may be given
  RecordCounts,  \* how many records the dataset may have
  ExcludedSets,  \* the <<block, record>> pairs a block's include may reject
  ThrowingSets   \* the <<block, record>> pairs whose walk may throw

\* No dataset is so large, and no call of so many blocks, that their tasks are
\* more than the bound.
ASSUME EngineAssumption ==
  /\ BlockCounts \subseteq Nat /\ RecordCounts \subseteq Nat
  /\ \A b \in BlockCounts, n \in RecordCounts : b * ChunkCount(n) <= MaxTasks

VARIABLES
  blockCount,    \* argument
  records,       \* argument
  numeric,       \* whether every output of every block is a Double
  excluded,      \* pairs loadRecord answers false for
  throwing,      \* pairs whose load or run throws
  phase,         \* "check", "run", or how runCalculations ended
  walked,        \* per thread: records of its current chunk behind it
  partials,      \* per block and chunk: the partial, as a sequence
  tallies,       \* per block and chunk: recordsIncluded
  contributions, \* the <<block, record>> slots written (keepContributions)
  thrown,        \* per task: the record whose walk threw
  totals,        \* per block: the partials folded, in order
  included       \* per block: result.recordsIncluded

data == <<blockCount, records, numeric, excluded, throwing>>
walk == <<walked, partials, tallies, contributions, thrown>>
answer == <<phase, totals, included>>
engineVars == <<data, walk, answer>>
allVars == <<vars, engineVars>>

Blocks == 0 .. blockCount - 1
Chunks == 0 .. ChunkCount(records) - 1
Records == 0 .. records - 1

BlockOf(i) == i \div ChunkCount(records)
ChunkIndexOf(i) == i % ChunkCount(records)
RangeOf(i) == ChunkOf(records, ChunkIndexOf(i))

TaskThrows(i) ==
  \E r \in ChunkRecords(records, ChunkIndexOf(i)) : <<BlockOf(i), r>> \in throwing

EngineInit ==
  /\ blockCount \in BlockCounts
  /\ records \in RecordCounts
  /\ numeric \in BOOLEAN
  /\ excluded \in ExcludedSets
  /\ throwing \in ThrowingSets
  /\ taskCount = blockCount * ChunkCount(records)
  /\ faulty = {i \in Tasks : TaskThrows(i)}
  /\ PoolInit
  /\ phase = "check"
  /\ walked = [t \in Threads |-> 0]
  /\ partials = [b \in Blocks |-> [c \in Chunks |-> <<>>]]
  /\ tallies = [b \in Blocks |-> [c \in Chunks |-> 0]]
  /\ contributions = {}
  /\ thrown = [i \in Tasks |-> 0]
  /\ totals = [b \in Blocks |-> <<>>]
  /\ included = [b \in Blocks |-> 0]

-----------------------------------------------------------------------------
(* Before any thread: no blocks is no work, and an output that is not a     *)
(* number refuses the whole call.                                           *)

NoBlocks ==
  /\ phase = "check"
  /\ blockCount = 0
  /\ phase' = "returned"
  /\ UNCHANGED <<vars, data, walk, totals, included>>

RefuseOutputs ==
  /\ phase = "check"
  /\ blockCount # 0
  /\ ~numeric
  /\ phase' = "refused"
  /\ UNCHANGED <<vars, data, walk, totals, included>>

StartRun ==
  /\ phase = "check"
  /\ blockCount # 0
  /\ numeric
  /\ phase' = "run"
  /\ UNCHANGED <<vars, data, walk, totals, included>>

-----------------------------------------------------------------------------
(* One chunk's work, runOneChunk: the body of a task.                       *)

Current(t) == RangeOf(task[t]).startIndex + walked[t]
AtChunkEnd(t) == Current(t) >= RangeOf(task[t]).endIndex
Pair(t) == <<BlockOf(task[t]), Current(t)>>

InChunk(t) ==
  /\ phase = "run"
  /\ InBody(t)
  /\ ~AtChunkEnd(t)

SkipRecord(t) ==
  /\ InChunk(t)
  /\ Pair(t) \in excluded \ throwing
  /\ walked' = [walked EXCEPT ![t] = @ + 1]
  /\ UNCHANGED <<vars, data, partials, tallies, contributions, thrown, answer>>

\* Mistake: one accumulator for each worker, not for each chunk.
AddToWorkersTotal(t) ==
  /\ InChunk(t)
  /\ Pair(t) \notin excluded \union throwing
  /\ LET b == BlockOf(task[t])
         c == t % ChunkCount(records)
     IN /\ partials' = [partials EXCEPT ![b][c] = Append(@, Current(t))]
        /\ tallies' = [tallies EXCEPT ![b][c] = @ + 1]
  /\ contributions' = contributions \union {Pair(t)}
  /\ walked' = [walked EXCEPT ![t] = @ + 1]
  /\ UNCHANGED <<vars, data, thrown, answer>>

AddRecord(t) ==
  /\ InChunk(t)
  /\ Pair(t) \notin excluded \union throwing
  /\ LET b == BlockOf(task[t])
         c == ChunkIndexOf(task[t])
     IN /\ partials' = [partials EXCEPT ![b][c] = Append(@, Current(t))]
        /\ tallies' = [tallies EXCEPT ![b][c] = @ + 1]
  /\ contributions' = contributions \union {Pair(t)}
  /\ walked' = [walked EXCEPT ![t] = @ + 1]
  /\ UNCHANGED <<vars, data, thrown, answer>>

\* The record's exception leaves the body, where the pool catches it.
ThrowFromRecord(t) ==
  /\ InChunk(t)
  /\ Pair(t) \in throwing
  /\ Throws(t)
  /\ thrown' = [thrown EXCEPT ![task[t]] = Current(t)]
  /\ walked' = [walked EXCEPT ![t] = 0]
  /\ UNCHANGED <<data, partials, tallies, contributions, answer>>

EndChunk(t) ==
  /\ phase = "run"
  /\ InBody(t)
  /\ AtChunkEnd(t)
  /\ Returns(t)
  /\ walked' = [walked EXCEPT ![t] = 0]
  /\ UNCHANGED <<data, partials, tallies, contributions, thrown, answer>>

-----------------------------------------------------------------------------
(* After the pool: fold, give up, or let the exception through.             *)

Ended(how) == phase = "run" /\ outcome \in how

\* The partials of each block, in chunk order.
Fold(b) == [c \in 1 .. ChunkCount(records) |-> partials[b][c - 1]]

TallySum(b) ==
  LET upTo[c \in 0 .. ChunkCount(records)] ==
        IF c = 0 THEN 0 ELSE upTo[c - 1] + tallies[b][c - 1]
  IN upTo[ChunkCount(records)]

FoldPartials ==
  /\ Ended({"completed"})
  /\ phase' = "returned"
  /\ totals' = [b \in Blocks |-> Fold(b)]
  /\ included' = [b \in Blocks |-> TallySum(b)]
  /\ UNCHANGED <<vars, data, walk>>

\* Mistake: what was walked before the interrupt is folded.
FoldWhatThereIs ==
  /\ Ended({"stopped"})
  /\ phase' = "interrupted"
  /\ totals' = [b \in Blocks |-> Fold(b)]
  /\ included' = [b \in Blocks |-> TallySum(b)]
  /\ UNCHANGED <<vars, data, walk>>

\* Every result of the batch is marked, and none is folded.
MarkInterrupted ==
  /\ Ended({"stopped"})
  /\ phase' = "interrupted"
  /\ UNCHANGED <<vars, data, walk, totals, included>>

LetThrough ==
  /\ Ended({"threw", "noThread"})
  /\ phase' = "threw"
  /\ UNCHANGED <<vars, data, walk, totals, included>>

EngineDone ==
  /\ phase \notin {"check", "run"}
  /\ UNCHANGED allVars

PoolRuns(t) ==
  /\ phase = "run"
  /\ (t = Caller /\ CallerControl) \/ LoopControl(t)
  /\ UNCHANGED engineVars

ChunkStep(t) == SkipRecord(t) \/ AddRecord(t) \/ ThrowFromRecord(t) \/ EndChunk(t)

EngineNext ==
  \/ NoBlocks \/ RefuseOutputs \/ StartRun
  \/ \E t \in Threads : PoolRuns(t) \/ ChunkStep(t)
  \/ FoldPartials \/ MarkInterrupted \/ LetThrough
  \/ EngineDone

EngineSpec == EngineInit /\ [][EngineNext]_allVars

-----------------------------------------------------------------------------
\* What a block contributes over a set of records: those its include accepts.
Accepted(b, S) == {r \in S : <<b, r>> \notin excluded}

\* The set of records, each once, in record order.
InRecordOrder(s, S) ==
  /\ s \in Seq(S)
  /\ S = {s[i] : i \in 1 .. Len(s)}
  /\ \A i, j \in 1 .. Len(s) : i < j => s[i] < s[j]

\* The block run alone, on one thread: its partials one after the other, each
\* the accepted records of its chunk in record order, whatever else is in the
\* call and whoever walks its chunks.
AsIfAlone(b, total) ==
  /\ DOMAIN total = 1 .. ChunkCount(records)
  /\ \A c \in Chunks :
       InRecordOrder(total[c + 1], Accepted(b, ChunkRecords(records, c)))

Phases == {"check", "run", "returned", "refused", "interrupted", "threw"}

\* The types of the engine's state.
EngineTypeOK ==
  /\ phase \in Phases
  /\ walked \in [Threads -> Nat]
  /\ partials \in [Blocks -> [Chunks -> Seq(Records)]]
  /\ tallies \in [Blocks -> [Chunks -> Nat]]
  /\ contributions \subseteq Blocks \X Records
  /\ thrown \in [Tasks -> Nat]

\* A result does not depend on the schedule, the thread count or the other
\* blocks of the call: the same additions in the same order as the block run
\* alone on the calling thread (Engine.hpp:30 and :327).
ScheduleCannotMoveATotal ==
  phase = "returned" => \A b \in Blocks : AsIfAlone(b, totals[b])

\* A completed run counts each accepted record of each block exactly once, and
\* the per-record diagnostic agrees with the total (Engine.hpp:60, a chunk
\* folded twice or a boundary out by one).
EveryRecordOnce ==
  phase = "returned" =>
    \A b \in Blocks :
      /\ included[b] = Cardinality(Accepted(b, Records))
      /\ {p[2] : p \in {q \in contributions : q[1] = b}} = Accepted(b, Records)
      /\ \A r \in Accepted(b, Records) :
           \E c \in DOMAIN totals[b], i \in 1 .. RecordsPerChunk :
             i <= Len(totals[b][c]) /\ totals[b][c][i] = r

\* Two threads never walk the same records for the same block, so neither a
\* partial nor a contribution slot is shared while it is written
\* (Engine.hpp:142, "nothing below is shared mutable state").
WritesAreDisjoint ==
  phase = "run" =>
    \A t, u \in Threads :
      t # u /\ InBody(t) /\ InBody(u) /\ BlockOf(task[t]) = BlockOf(task[u]) =>
        \/ RangeOf(task[t]).endIndex <= RangeOf(task[u]).startIndex
        \/ RangeOf(task[u]).endIndex <= RangeOf(task[t]).startIndex

Before(p, q) == p[1] < q[1] \/ (p[1] = q[1] /\ p[2] <= q[2])

\* The error of a failing call is that of the first failing record of the
\* lowest-numbered block, the same every time (Engine.hpp:238).
FirstFailingRecordSurfaces ==
  phase = "threw" /\ outcome = "threw" =>
    LET reported == <<BlockOf(error), thrown[error]>>
        possible == throwing \intersect (Blocks \X Records)
    IN reported \in possible /\ \A p \in possible : Before(reported, p)

\* A call that did not complete leaves every total as it was assigned: never a
\* block that was folded beside one that was not (Engine.hpp:246).
NoPartialAnswer ==
  phase # "returned" => \A b \in Blocks : totals[b] = <<>> /\ included[b] = 0

-----------------------------------------------------------------------------
(* What holds between the steps and makes the above inductive.              *)

\* The tasks that have been begun, whatever became of them.
Begun == done \union Running \union Failed

Partial(i) == partials[BlockOf(i)][ChunkIndexOf(i)]

\* The records of a task's chunk, or those of them below a limit.
RecordsOf(i) == ChunkRecords(records, ChunkIndexOf(i))
RecordsBelow(i, limit) == {r \in RecordsOf(i) : r < limit}

\* The tasks are the block and chunk pairs, and those that fail are known
\* before any is run.
DataInv ==
  /\ blockCount \in Nat /\ records \in Nat
  /\ taskCount = blockCount * ChunkCount(records)
  /\ faulty = {i \in Tasks : TaskThrows(i)}

\* A thread has passed no record that throws, and holds a place only while it
\* is in a chunk.
WalkInv ==
  \A t \in Threads :
    IF InBody(t)
    THEN /\ Current(t) <= RangeOf(task[t]).endIndex
         /\ \A r \in RecordsBelow(task[t], Current(t)) :
              <<BlockOf(task[t]), r>> \notin throwing
    ELSE walked[t] = 0

\* A partial is empty until its task begins, and then has what the thread that
\* walks the chunk has passed.
PartialsInv ==
  /\ \A i \in Tasks \ Begun : Partial(i) = <<>>
  /\ \A t \in Threads : InBody(t) =>
       InRecordOrder(Partial(task[t]),
                     Accepted(BlockOf(task[t]), RecordsBelow(task[t], Current(t))))
  /\ \A i \in done :
       InRecordOrder(Partial(i), Accepted(BlockOf(i), RecordsOf(i)))

\* What a failed task threw is from the first of its records that throws.
ThrownInv ==
  \A i \in Failed :
    /\ thrown[i] \in RecordsOf(i)
    /\ <<BlockOf(i), thrown[i]>> \in throwing
    /\ \A r \in RecordsBelow(i, thrown[i]) : <<BlockOf(i), r>> \notin throwing

\* A chunk's tally is of what its partial has, and the slots written are those of
\* the records in some partial of their block.
InPartials(b, r) == \E c \in Chunks : \E k \in 1 .. Len(partials[b][c]) : partials[b][c][k] = r

CountsInv ==
  /\ \A b \in Blocks, c \in Chunks : tallies[b][c] = Len(partials[b][c])
  /\ \A b \in Blocks, r \in Records : <<b, r>> \in contributions <=> InPartials(b, r)

EngineInv ==
  /\ PoolInv
  /\ EngineTypeOK
  /\ DataInv
  /\ WalkInv
  /\ PartialsInv
  /\ ThrownInv
  /\ NoPartialAnswer
  /\ ScheduleCannotMoveATotal
=============================================================================
