\* A camera that lists two channels in one message.
SPECIFICATION Spec
CONSTANTS
    c1 = c1
    c2 = c2
    a = a
    b = b
    Cameras = {c1}
    WrongPassword = {}
    ChannelIds = {a, b}
    Report <- TwoItems
    OtherMessages = FALSE
    MaxEpochs <- NoneStartsOver
    MaxClicks = 0
    MaxRestarts = 0
INVARIANTS
    ReportedChannelsAreKnown
CHECK_DEADLOCK FALSE
