----------------------------- MODULE RecordChunk -----------------------------
(***************************************************************************)
(* How a dataset is divided into chunks (src/src/veil/RecordChunk.hpp).     *)
(* The division is arithmetic on the record count alone: no state.  The     *)
(* products stay far below 2^64 for any dataset that fits in memory, so     *)
(* size_t is modelled by the naturals.                                      *)
(***************************************************************************)
EXTENDS Naturals

CONSTANT RecordsPerChunk   \* the compile-time constant, 10000 in the code

ASSUME ChunkAssumption == RecordsPerChunk \in Nat \ {0}

ChunkCount(records) == (records + RecordsPerChunk - 1) \div RecordsPerChunk

\* Where chunk i of the proportional division starts; chunk i ends where
\* chunk i + 1 starts.
ChunkStart(records, i) == (i * records) \div ChunkCount(records)

\* Mistake: the end of a chunk is taken for its last record.
ChunkWithItsEnd(records, i) ==
  IF i >= ChunkCount(records)
  THEN [startIndex |-> records, endIndex |-> records]
  ELSE [startIndex |-> ChunkStart(records, i),
        endIndex   |-> ChunkStart(records, i + 1) + 1]

\* The half-open range of a chunk; past the last chunk it is empty.
ChunkOf(records, i) ==
  IF i >= ChunkCount(records)
  THEN [startIndex |-> records, endIndex |-> records]
  ELSE [startIndex |-> ChunkStart(records, i),
        endIndex   |-> ChunkStart(records, i + 1)]

ChunkSize(records, i) ==
  ChunkOf(records, i).endIndex - ChunkOf(records, i).startIndex

\* The records a chunk stands for.
ChunkRecords(records, i) ==
  {r \in 0 .. records - 1 :
     ChunkOf(records, i).startIndex <= r /\ r < ChunkOf(records, i).endIndex}
=============================================================================
