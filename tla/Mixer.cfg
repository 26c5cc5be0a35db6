SPECIFICATION Spec
CONSTANTS
    Calls = {loop, c1, c2}
    Loop = loop
    Files = {f}
    Texts = {t}
    NilSound = nil
    Length <- MCLength
    BufSize = 2
    MaxPlays = 2
INVARIANTS
    SpeechNotMixed
    NotifiedWaits
PROPERTIES
    PlayReplacesNothing
    SoundsEnd
    SyncReturns
CHECK_DEADLOCK FALSE
