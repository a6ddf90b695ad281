\* One call, answered before setCallId.
SPECIFICATION Spec
CONSTANTS
    NumChannels = 1
    MaxCalls = 1
    Outcomes = {"answered"}
INVARIANTS
    MarkMeansInProgress
CHECK_DEADLOCK FALSE
