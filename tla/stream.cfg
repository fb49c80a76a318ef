CONSTANTS
    LinkPeriod = 1
    LinkTimeout = 2
    WakeDelay = 1
    ReadDelay = 0
    MaxFrames = 2
SPECIFICATION FairSpec
INVARIANTS ForgottenInTime
PROPERTIES ExpiredForCause Settles
