CONSTANTS
  Char <- MCChar
  Illegal <- MCIllegal
  Underscore = "_"
  Ids <- MCIds
  Docs <- MCDocs
  SslTypes = {1, 2}
  NoAnswer = NoAnswer
  NoChannel = NoChannel
SPECIFICATION MCSpec
INVARIANTS
  TypeOK
  Mirror
  RoutesMeet
  PeersNotIsolated
  AnswerIsPolicy
CHECK_DEADLOCK FALSE
