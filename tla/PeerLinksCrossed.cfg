SPECIFICATION FairSpec
CONSTANTS
  a = a
  b = b
  Peers = {a, b}
  NoPeer = NoPeer
  NoEnd = NoEnd
  Calls <- CrossCalls
  MaxLinks = 2
  Said = 1
  Starts = 0
  MaxSaid <- SaidOf
  MaxStarts <- StartsOf
  Capacity = 1
PROPERTIES
  LinksAgree
CHECK_DEADLOCK FALSE
