\* Frames of 2, 3 and at least 1 packets over a network that loses any packet,
\* reorders and duplicates once; three payloads fill the buffer, so that stray
\* packets overflow it.  Sequence numbers stay clear of 0.
SPECIFICATION Spec
CONSTANTS
    NumPackets = 6
    Headers = {0, 2, 5}
    FirstSeq = 7
    MaxPsBuffer = 3
    Losable = {0, 1, 2, 3, 4, 5}
    MaxDups = 1
    Reordering = TRUE
    H264FrameSizeMax = 2097152
    Payload <- StreamPayload
    Video <- StreamVideo
INVARIANTS
    WholeFrames
    BufferInv
    DemuxInv
    FramesAreDemuxed
    OnlyLossCrashes
PROPERTIES
    DemuxAdvances
CHECK_DEADLOCK FALSE
