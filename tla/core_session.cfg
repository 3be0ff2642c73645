CONSTANTS
  sub = sub
  key = key
  Asks <- MCAsks
  Subscribers <- MCSubscribers
  Keys <- MCKeys
  MaxApTries = 3
  MaxRetries = 1
  MaxIn = 1
SPECIFICATION Spec
CHECK_DEADLOCK FALSE
INVARIANTS SilenceEnds NobodyWaits
PROPERTIES NothingHangs PromiseKept
