SPECIFICATION Spec
CONSTANTS
    Calls = {loop, c1, c2}
    Loop = loop
    Files = {f}
    Texts = {t}
    NilSound = nil
    Length <- MCLength
    BufSize = 2
    MaxPlays = 2
PROPERTIES
    PowerOffSpoken
CHECK_DEADLOCK FALSE
