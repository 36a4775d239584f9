\* A driver that found no capacity, or whose threads did not start, idles.
CHECK_DEADLOCK FALSE
SPECIFICATION FairSpec
CONSTANTS
    s1 = s1
    s2 = s2
    Submitters = {s1, s2}
    Users = {}
    NoRq = NoRq
    Free = Free
    QueueDepth = 1
    MaxAttempts = 2
    Events = {"shutdown"}
    Failures = {"gc"}
PROPERTIES
    QueueImplemented
    ProvisionEnds
    ShutdownReturns
    WindowWritesBack
