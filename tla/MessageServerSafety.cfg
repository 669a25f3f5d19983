SPECIFICATION Spec
CONSTANTS
  c1 = c1
  c2 = c2
  ann = ann
  bob = bob
  Conns = {c1, c2}
  Names = {ann, bob}
  Main = Main
  NoConn = NoConn
  NoName = NoName
  MAX_MESSAGE_COUNT = 3
  MAX_THREADS = 2
  MaxLines = 2
SYMMETRY Interchangeable
INVARIANTS
  TypeOK
  MutexInv
  ThreadsRegistered
  SendersUnique
  NodesOwned
  MessageSenderLive
  MessagesInOrder
PROPERTIES
  ImplementsMailbox
CHECK_DEADLOCK FALSE
