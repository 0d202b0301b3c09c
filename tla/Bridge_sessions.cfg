SPECIFICATION Spec
CONSTANTS
  f1 = f1
  f2 = f2
  File <- MCFile
  Role = {"send", "receive"}
  Chunks = 3
  BufferSize = 2
  BinaryCapacity = 1
  Repeats = 2
  Plans <- MCPlans
INVARIANTS FinishedIsLast PinRequestKept ResultsMatchFiles BytesInOrder SenderIsDeaf
CHECK_DEADLOCK FALSE
