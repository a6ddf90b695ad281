SPECIFICATION Spec
CONSTANTS
    NumPackets = 9
    Headers = {0, 2, 4, 6, 8}
    KeyHeaders = {0, 4}
    FirstSeq = 7
    MaxPsBuffer = 8
    Losable = {4}
    MaxDups = 0
    Reordering = FALSE
    DecoderDelay = 1
INVARIANTS
    KeyFramePassedFirst
CHECK_DEADLOCK FALSE
