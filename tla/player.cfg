SPECIFICATION Spec
CONSTANTS
    Track = {t1, t2}
    NoTrack = NoTrack
    Explicit = {t1}
    Local = {t2}
    Loader = {l1, l2}
    NoLoader = NoLoader
    Length = 1
    Window = 1
    Position <- MCPosition
    Gapless = FALSE
    MaxId = 1
CHECK_DEADLOCK FALSE
INVARIANTS OutsideIsState DecoderIsTracks StartedAsAsked
PROPERTIES NothingHangs
