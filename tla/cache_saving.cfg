SPECIFICATION Spec
CONSTANTS
    Key = {k1, k2}
    Thread = {t1, t2}
    Saver = {s1}
    TTL = {1}
    MaxSize = 1
    MaxClock = 2
INVARIANTS
    NoLostSave
    SizeBound
SYMMETRY Symmetry
VIEW View
