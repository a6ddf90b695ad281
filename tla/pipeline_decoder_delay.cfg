SPECIFICATION Spec
CONSTANTS
    NumPackets = 7
    Headers = {0, 2, 4, 6}
    KeyHeaders = {0, 4}
    FirstSeq = 7
    MaxPsBuffer = 8
    Losable = {3}
    MaxDups = 0
    Reordering = FALSE
    DecoderDelay = 1
INVARIANTS
    ShownFramesAreWhole
CHECK_DEADLOCK FALSE
