CONSTANTS
    Updater = {heartbeat}
    Caller = {command}
    Main = main
    MainAsks = FALSE
    NoOne = noone
    MaxVersion = 2
    Silent = {1}
SPECIFICATION FairSpec
PROPERTIES ServiceNeverGoesBack StoreCatchesUp
