SPECIFICATION FairSpec
CONSTANTS
  c1 = c1
  c2 = c2
  ann = ann
  Conns = {c1, c2}
  Names = {ann}
  Main = Main
  NoConn = NoConn
  NoName = NoName
  MAX_MESSAGE_COUNT = 1
  MAX_THREADS = 2
  MaxLines = 1
PROPERTIES
  CommandsReturn
  ThreadsEnd
CHECK_DEADLOCK FALSE
