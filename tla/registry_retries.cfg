\* c1 may give up or register anew once, and the user asks for a catalog once.
\* Streams change nothing the properties speak of, so none is asked for.
SPECIFICATION MediaSpec
CONSTANTS
    c1 = c1
    c2 = c2
    a = a
    b = b
    Cameras = {c1, c2}
    WrongPassword = {}
    ChannelIds = {a, b}
    Report <- OneItemPerMessage
    OtherMessages = FALSE
    MaxEpochs <- FirstStartsOver
    MaxClicks = 1
    MaxRestarts = 0
    MaxInvites = 0
INVARIANTS
    RegisteredIsListed
    ReportedChannelsAreKnown
    EntriesHaveNoDoubles
    StreamsAreRouted
    ChannelsHaveOneOwner
    WindowShowsDeviceList
    NoRequestForgotten
