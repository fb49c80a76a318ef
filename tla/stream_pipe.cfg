CONSTANTS
    LinkPeriod = 1
    LinkTimeout = 4
    WakeDelay = 1
    ReadDelay = 1
    MaxFrames = 1
SPECIFICATION FairSpec
PROPERTIES TimedOutDeleted
