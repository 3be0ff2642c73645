CONSTANTS
  Requests = {r1}
  Conns <- MCConns
  Paths <- MCPaths
SPECIFICATION Spec
CHECK_DEADLOCK FALSE
INVARIANTS NoTaskIsLost AnsweredOnce
PROPERTIES LostIsLeft CloseEnds RequestsAnswered
