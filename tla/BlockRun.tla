------------------------------- MODULE BlockRun -------------------------------
(***************************************************************************)
(* One interpreter walking records with one block (class Interpreter of     *)
(* src/src/veil/Interpreter.hpp, as runOneChunk of Engine.hpp drives it),   *)
(* after the pipeline of module BlockLayout has laid the block out.         *)
(*                                                                         *)
(* Registers and buffers outlive a record.  A number is represented by what *)
(* it is the right value of: a register holds the record whose value it is, *)
(* a slot of a buffer the operand and the record; what is computed from      *)
(* anything else is Junk.  Reading the wrong buffer, a slot that was not     *)
(* filled or a value left by an earlier record therefore shows in the       *)
(* answer.                                                                  *)
(***************************************************************************)
EXTENDS BlockLayout

CONSTANTS
  MaxRecords,   \* bound: how many records the interpreter walks
  MaxSlots      \* bound: integration slots of one exposure

ASSUME RunAssumption ==
  /\ MaxRecords \in Nat
  /\ MaxSlots \in Nat \ {0}

VARIABLES
  stage,      \* what the interpreter is doing
  pc,         \* the instruction it executes next
  record,     \* the record it walks, from 1
  grid,       \* that record's time grid: its slots and whether one is the death
  registers,  \* of each scalar operand, the record whose value it holds
  buffers     \* the time-vector buffers

runVars == <<stage, pc, record, grid, registers, buffers>>
allVars == <<layoutVars, runVars>>

\* No operand of no record.
Junk == <<0, 0>>
EmptyGrid == [integration |-> 0, death |-> FALSE]
Grids == [integration : 1 .. MaxSlots, death : BOOLEAN]
SlotCount == grid.integration + (IF grid.death THEN 1 ELSE 0)

RunInit ==
  /\ LayoutInit
  /\ stage = "layout" /\ pc = 1 /\ record = 0
  /\ grid = EmptyGrid
  /\ registers = [o \in Operands |-> 0]
  /\ buffers = <<>>

Layout == stage = "layout" /\ LayoutStep /\ UNCHANGED runVars

\* The interpreter is built: as many buffers as the block says, all empty.
Construct ==
  /\ stage = "layout" /\ pass = "ready"
  /\ stage' = "between"
  /\ buffers' = [b \in 1 .. Len(freeFrom) |-> <<>>]
  /\ UNCHANGED <<layoutVars, pc, record, grid, registers>>

-----------------------------------------------------------------------------
(* loadRecord: the columns, the prologue, then the grid.                    *)

\* A constant, written once, is right for every record.
LoadColumns ==
  /\ stage = "between" /\ record < MaxRecords
  /\ record' = record + 1
  /\ registers' = [o \in Operands |-> IF o \in block.loaded THEN record + 1 ELSE registers[o]]
  /\ stage' = "prologue" /\ pc' = 1
  /\ UNCHANGED <<layoutVars, grid, buffers>>

RightScalars(i) == \A a \in ReadBy(i) : ~IsVector(a) => registers[a] = record

Store(o, right) == registers' = [registers EXCEPT ![o] = IF right THEN record ELSE 0]

ExecutePrologue ==
  /\ stage = "prologue" /\ pc <= Len(block.prologue)
  /\ Store(block.prologue[pc].result, RightScalars(block.prologue[pc]))
  /\ pc' = pc + 1
  /\ UNCHANGED <<layoutVars, stage, record, grid, buffers>>

PrologueEnds == stage = "prologue" /\ pc > Len(block.prologue)

\* The include leaves nothing of this record: the body is not run.
SkipRecord ==
  /\ PrologueEnds
  /\ block.grid # {} /\ block.included # 0
  /\ grid' = EmptyGrid
  /\ stage' = "between"
  /\ UNCHANGED <<layoutVars, pc, record, registers, buffers>>

BuildGrid ==
  /\ PrologueEnds
  /\ grid' \in IF block.grid = {} THEN {grid} ELSE Grids
  /\ stage' = "body" /\ pc' = 1
  /\ UNCHANGED <<layoutVars, record, registers, buffers>>

-----------------------------------------------------------------------------
(* run: the body, in order.                                                 *)

Instruction == block.body[pc]
InBody == stage = "body" /\ pc <= BodyLength

BufferOf(v) == buffers[bufferOf[v]]

InBounds(v, slot) == slot \in DOMAIN BufferOf(v)
RightAt(v, slot) == InBounds(v, slot) /\ BufferOf(v)[slot] = <<v, record>>

\* The slots of a result that are filled, from its demand.
FirstSlot(v) == IF "midpoints" \in demand[v] THEN 1 ELSE grid.integration + 1
LastSlot(v) == IF "death" \in demand[v] THEN SlotCount ELSE grid.integration
Filled(v) == FirstSlot(v) .. LastSlot(v)

Computed(i, slot) ==
  IF RightScalars(i) /\ \A a \in VectorsReadBy(i) : RightAt(a, slot)
  THEN <<i.result, record>> ELSE Junk

\* A buffer resized to the whole grid: what was there stays, the rest is zero.
Resized(b, slot) == IF slot <= Len(buffers[b]) THEN buffers[b][slot] ELSE Junk

\* Mistake: a buffer is sized only when it is first used.
ExecuteVectorUnsized ==
  /\ InBody /\ IsVector(Instruction.result)
  /\ LET v == Instruction.result
     IN buffers' = [buffers EXCEPT ![bufferOf[v]] =
          [slot \in IF @ = <<>> THEN 1 .. SlotCount ELSE DOMAIN @ |->
             IF slot \in Filled(v) THEN Computed(Instruction, slot)
             ELSE Resized(bufferOf[v], slot)]]
  /\ pc' = pc + 1
  /\ UNCHANGED <<layoutVars, stage, record, grid, registers>>

ExecuteVector ==
  /\ InBody /\ IsVector(Instruction.result)
  /\ LET v == Instruction.result
     IN buffers' = [buffers EXCEPT ![bufferOf[v]] =
          [slot \in 1 .. SlotCount |->
             IF slot \in Filled(v) THEN Computed(Instruction, slot)
             ELSE Resized(bufferOf[v], slot)]]
  /\ pc' = pc + 1
  /\ UNCHANGED <<layoutVars, stage, record, grid, registers>>

\* The slots a collapsing instruction reads; of a survivor died_value reads none.
SlotsCollapsed(i) ==
  IF i.op = "integrate" THEN 1 .. grid.integration
  ELSE IF grid.death THEN {grid.integration + 1} ELSE {}

ExecuteFinalise ==
  /\ InBody /\ Finalises(Instruction)
  /\ Store(Instruction.result,
           \A slot \in SlotsCollapsed(Instruction) : RightAt(Instruction.args[1], slot))
  /\ pc' = pc + 1
  /\ UNCHANGED <<layoutVars, stage, record, grid, buffers>>

ExecuteScalar ==
  /\ InBody /\ ~Finalises(Instruction) /\ ~IsVector(Instruction.result)
  /\ Store(Instruction.result, RightScalars(Instruction))
  /\ pc' = pc + 1
  /\ UNCHANGED <<layoutVars, stage, record, grid, buffers>>

\* The outputs are read and added to the totals of the chunk.
AddOutputs ==
  /\ stage = "body" /\ pc > BodyLength
  /\ stage' = "between"
  /\ UNCHANGED <<layoutVars, pc, record, grid, registers, buffers>>

RunOver ==
  \/ pass = "refused"
  \/ stage = "between" /\ record = MaxRecords

RunStep ==
  \/ Layout \/ Construct
  \/ LoadColumns \/ ExecutePrologue \/ SkipRecord \/ BuildGrid
  \/ ExecuteVector \/ ExecuteFinalise \/ ExecuteScalar \/ AddOutputs

RunNext == RunStep \/ (RunOver /\ UNCHANGED allVars)

RunSpec == RunInit /\ [][RunNext]_allVars

-----------------------------------------------------------------------------
Stages == {"layout", "between", "prologue", "body"}
Values == (Operands \X (1 .. MaxRecords)) \union {Junk}

\* The types of the interpreter's state.
RunTypeOK ==
  /\ LayoutTypeOK
  /\ stage \in Stages
  /\ stage # "layout" => pass = "ready"
  /\ pc \in Nat \ {0}
  /\ stage = "prologue" => pc <= Len(block.prologue) + 1
  /\ record \in 0 .. MaxRecords
  /\ stage \in {"prologue", "body"} => record # 0
  /\ grid \in Grids \union {EmptyGrid}
  /\ registers \in [Operands -> 0 .. MaxRecords]
  /\ buffers \in Seq(Seq(Values))
  /\ stage # "layout" => Len(buffers) = Len(freeFrom)

\* In the record being walked: scalars already written are that record's, and
\* so is every time vector still to be read, wherever it is read.
WalkInv ==
  /\ stage = "prologue" =>
       \A o \in block.loaded \union {block.prologue[j].result : j \in 1 .. pc - 1} :
         registers[o] = record
  /\ stage = "body" =>
       /\ pc <= BodyLength + 1
       /\ \A o \in ScalarsBefore(block, pc) \ block.vectors : registers[o] = record
       /\ \A v \in block.vectors :
            ranges[v].definedAt < pc /\ pc <= ranges[v].lastUsedAt =>
              /\ DOMAIN BufferOf(v) = 1 .. SlotCount
              /\ \A slot \in Filled(v) : BufferOf(v)[slot] = <<v, record>>

\* What holds in every state of a run.
RunInv == LayoutInv /\ RunTypeOK /\ WalkInv

\* Every slot the next instruction reads is in the buffer it reads it from: an
\* index past a vector's end is undefined (Interpreter.hpp:456 and :685).
ReadsStayInBounds ==
  InBody =>
    \A a \in VectorsReadBy(Instruction) :
      \A slot \in IF Finalises(Instruction) THEN SlotsCollapsed(Instruction)
                  ELSE Filled(Instruction.result) :
        InBounds(a, slot)

\* Sharing buffers, filling only the slots in demand and keeping buffers from
\* one record to the next change no answer: each output of each record that is
\* run is what that record's own values make it (veil_for_R.cpp:1104,
\* test-veil_buffers.R:88).
AnswersAreThisRecords ==
  stage = "body" /\ pc > BodyLength => \A o \in block.outputs : registers[o] = record
=============================================================================
