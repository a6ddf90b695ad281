\* Six frames of two packets, I frames at 2 and 6, and a decoder that keeps two
\* pictures.  Everything may be lost but the header of the first I frame and what
\* belongs to the frames from the second I frame on; packet 7 has number 0. The buffer holds
\* what two frames without a header between them need.
SPECIFICATION FairSpec
CONSTANTS
    NumPackets = 13
    Headers = {0, 2, 4, 6, 8, 10, 12}
    KeyHeaders = {2, 6}
    FirstSeq = 65529
    MaxPsBuffer = 4
    Losable = {0, 1, 3, 4, 5}
    MaxDups = 0
    Reordering = FALSE
    DecoderDelay = 2
INVARIANTS
    TypeOK
    FlagsEarned
    PicturesInOrder
    DamageComesLate
PROPERTIES
    PassesWholeFramesInOrder
    CleanFramesAreShown
CHECK_DEADLOCK FALSE
