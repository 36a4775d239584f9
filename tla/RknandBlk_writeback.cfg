\* A driver that found no capacity, or whose threads did not start, idles.
CHECK_DEADLOCK FALSE
SPECIFICATION FairSpec
CONSTANTS
    s1 = s1
    Submitters = {s1}
    Users = {}
    NoRq = NoRq
    Free = Free
    QueueDepth = 1
    MaxAttempts = 2
    Events = {}
    Failures = {}
PROPERTIES
    IdleWriteBack
