SPECIFICATION Spec
CONSTANTS
    Devices = {d1, d2}
    MaxEntries = 2
    MaxChannels = 2
    MaxUpdates = 2
    MaxStops = 1
INVARIANTS
    HandlesAreLive
    ButtonsFitSelection
    WindowInv
    VideoGoesToLastItem
    ChannelsHaveWindows
    CrashExplained
CHECK_DEADLOCK FALSE
