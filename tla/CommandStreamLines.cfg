SPECIFICATION Spec
CONSTANTS
  Letters = {"s"}
  RIO_BUFSIZE = 9
  MAX_ALLOCATED = 3
  MaxGets = 3
  INT_MAX = 7
  MaxLen = 4
  Inputs <- AnyInput
  Strays <- SomeWords
INVARIANTS
  TypeOK
  HasNextMeansWord
  NothingSkipped
  AllocatedFits
  NumberKept
  MessageKept
PROPERTIES
  ReadsLines
CHECK_DEADLOCK FALSE
