CONSTANTS
    device = device
    quiet = quiet
    played = played
    bar = bar
    panel = panel
    Key = {device, quiet, played}
    Persistent = {device, quiet}
    UpdateKey = {quiet}
    Value = {1, 2}
    Default = 1
    Worker = {w1, w2}
    Main = main
    Reader = {bar}
    Shower = {panel}
    Topic <- OnDevice
    NoOne = noone
    MaxCalls = 4
SPECIFICATION FairSpec
INVARIANTS DiskMatches ReaderConverges
PROPERTIES EveryCallReturns
CHECK_DEADLOCK FALSE
