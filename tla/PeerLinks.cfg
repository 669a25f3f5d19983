SPECIFICATION FairSpec
CONSTANTS
  a = a
  b = b
  Peers = {a, b}
  NoPeer = NoPeer
  NoEnd = NoEnd
  Calls <- CrossCalls
  MaxLinks = 2
  Said = 3
  Starts = 1
  MaxSaid <- SaidOf
  MaxStarts <- StartsOf
  Capacity = 1
INVARIANTS
  TypeOK
  OneVoice
PROPERTIES
  HalfMadeEnds
  LinesAreRead
  SayReturns
CHECK_DEADLOCK FALSE
