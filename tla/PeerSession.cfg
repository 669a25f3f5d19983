SPECIFICATION FairSpec
CONSTANTS
  Other = Other
  ann = ann
  bob = bob
  p1 = p1
  p2 = p2
  MaxLogins = 3
  Names = {ann, bob}
  OtherNames = {bob}
  Ports = {p1, p2}
  NoSession = NoSession
  NoName = NoName
  NoPort = NoPort
  Typed <- ThreeLogins
  MaxAsked <- OneQuestion
INVARIANTS
  TypeOK
  AnswersInStep
PROPERTIES
  LogoutFreesName
  LogoutStopsListening
CHECK_DEADLOCK FALSE
