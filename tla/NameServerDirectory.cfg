SPECIFICATION Spec
CONSTANTS
  c1 = c1
  c2 = c2
  c3 = c3
  ann = ann
  bob = bob
  Conns = {c1, c2, c3}
  Names = {ann, bob}
  NoConn = NoConn
  NoName = NoName
  Radix = 10
  SockBuf = 1
  MaxLines = 2
  MaxFds = 2
SYMMETRY Interchangeable
PROPERTIES
  ImplementsDirectory
CHECK_DEADLOCK FALSE
