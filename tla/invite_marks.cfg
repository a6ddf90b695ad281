\* Two channels and two calls; a user who clicks at any time, and cameras that
\* answer, refuse or stay silent.  The SIP thread alone is fair.
SPECIFICATION FairSpec
CONSTANTS
    NumChannels = 2
    MaxCalls = 2
    Outcomes = {"answered", "refused", "silent"}
INVARIANTS
    TypeOK
    MarksExplained
PROPERTIES
    AnswerClearsOwnChannel
    TimelyMarkIsRemoved
CHECK_DEADLOCK FALSE
