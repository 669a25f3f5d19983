SPECIFICATION FairSpec
CONSTANTS
  c1 = c1
  ann = ann
  Conns = {c1}
  Names = {ann}
  Main = Main
  NoConn = NoConn
  NoName = NoName
  MAX_MESSAGE_COUNT = 1
  MAX_THREADS = 2
  MaxLines = 3
PROPERTIES
  CommandsReturnWhenFull
CHECK_DEADLOCK FALSE
