\* A failed try drops the access point at once (after three in the code), the
\* second one is the last.
CONSTANTS
  k1 = k1
  k2 = k2
  Callers <- MCCallers
  MaxTries = 2
  Trials = 1
  TokenTries = 1
  LoginTries = 2
  Counts = 2
  MaxAddresses = 1
  Burst = 1
  FallbackFits = TRUE
SPECIFICATION WebSpec
CHECK_DEADLOCK FALSE
INVARIANTS ResolverAnswers
PROPERTIES EveryCallEnds ClientTokenTolerated
