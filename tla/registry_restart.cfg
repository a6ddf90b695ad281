\* The server is restarted at any moment, the user asks for a catalog and for video once,
\* and c2 keeps trying with a wrong password.
SPECIFICATION FairMediaSpec
CONSTANTS
    c1 = c1
    c2 = c2
    a = a
    b = b
    Cameras = {c1, c2}
    WrongPassword = {c2}
    ChannelIds = {a, b}
    Report <- OneCamera
    OtherMessages = TRUE
    MaxEpochs <- NoneStartsOver
    MaxClicks = 1
    MaxRestarts = 1
    MaxInvites = 1
INVARIANTS
    TypeOK
    NewStreamsArrive
PROPERTIES
    CamerasComeBack
