SPECIFICATION ConnectSpec
CONSTANTS
  Pages <- MCPages
  Radio <- MCRadio
  Draws <- MCDraws
  Transfers <- MCTransfers
  MaxNext = 3
  MaxPrev = 2
  Extra = {"q"}
  ClientLists <- MCLists
  Longest = 4
  Threshold = 2
  Commands = 4
CHECK_DEADLOCK FALSE
INVARIANTS  PrevUndoesNext
PROPERTIES CurrentKept
