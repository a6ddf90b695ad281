\* Three starts on two addresses: a deleted server's address may be used again
\* or not.
SPECIFICATION FairSpec
CONSTANTS
    Objects = {o1, o2}
    MaxStarts = 3
INVARIANTS
    LifecycleInv
    SipThreadKeepsServer
    LookupsFindOwnServer
    ExitExplained
PROPERTIES
    StopAlwaysReturns
    StartedServerServes
CHECK_DEADLOCK FALSE
