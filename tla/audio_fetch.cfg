CONSTANTS
  FileSize = 3
  MinDownload = 1
  ReadAhead = 1
  Throughputs = {0, 2}
  MaxDesired = 2
  Lengths = {2}
  MaxUrls = 2
  MaxCmds = 0
  MaxFails = 1
SPECIFICATION FetchSpec
CHECK_DEADLOCK FALSE
INVARIANTS RangesAreSets ReadsAreReal FetchedOnce FetchPersists
