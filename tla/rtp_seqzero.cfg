\* The stream passes sequence number 0: packet 1 is number 65535, packet 2 is 0.
SPECIFICATION RtpSpec
CONSTANTS
    NumPackets = 6
    Headers = {0, 4}
    FirstSeq = 65534
    MaxPsBuffer = 8
    Losable = {0, 1, 2, 3, 4, 5}
    MaxDups = 0
    Reordering = FALSE
INVARIANTS
    WholeFrames
CHECK_DEADLOCK FALSE
