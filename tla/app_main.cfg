CONSTANTS
  u1 = u1
  u2 = u2
  NoUser = NoUser
  Users <- MCUsers
  MaxSpircs = 2
  MaxQueue = 2
  RateLimit = 1
  OnEvent = TRUE
  Avahi = TRUE
SPECIFICATION Spec
CHECK_DEADLOCK FALSE
INVARIANTS OneSpirc LastUserWins
PROPERTIES SpircComesBack ShutdownEnds
