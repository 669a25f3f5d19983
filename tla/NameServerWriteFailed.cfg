SPECIFICATION Spec
CONSTANTS
  c1 = c1
  c2 = c2
  ann = ann
  bob = bob
  Conns = {c1, c2}
  Names = {ann, bob}
  NoConn = NoConn
  NoName = NoName
  Radix = 2
  SockBuf = 1
  MaxLines = 2
  MaxFds = 2
SYMMETRY Interchangeable
INVARIANTS
  OnlyFailedWritesEndSessions
CHECK_DEADLOCK FALSE
