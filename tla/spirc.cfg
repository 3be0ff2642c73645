CONSTANTS
  Size = 3
  Unreadable = {3}
  Volumes = 1
  MaxInputs = 2
  MaxFails = 2
SPECIFICATION SpircSpec
CHECK_DEADLOCK FALSE
INVARIANTS StatusFollowsPlayer ServerKnows
PROPERTIES ComesToRest
