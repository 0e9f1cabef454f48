SPECIFICATION RunSpec
CONSTANTS
  Operands <- MCOperands
  BlockSet <- MCBlockSet
  MaxRecords = 2
  MaxSlots = 2
INVARIANTS
  LiveVectorsAreApart
  FewestBuffers
  DemandIsWhatIsRead
  DeadIsUnneeded
  ReadsStayInBounds
  AnswersAreThisRecords
