SPECIFICATION Spec
CONSTANTS
    s1 = s1
    Submitters = {s1}
    Users = {}
    NoRq = NoRq
    Free = Free
    QueueDepth = 1
    MaxAttempts = 2
    Events = {"rmmod"}
    Failures = {}
INVARIANTS
    TextOutlivesThreads
