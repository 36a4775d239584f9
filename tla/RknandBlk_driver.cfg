SPECIFICATION Spec
CONSTANTS
    s1 = s1
    s2 = s2
    u1 = u1
    Submitters = {s1, s2}
    Users = {u1}
    NoRq = NoRq
    Free = Free
    QueueDepth = 1
    MaxAttempts = 1
    Events = {"suspend", "shutdown", "rmmod"}
    Failures = {"driver", "ftl_init", "blkdev", "buffer", "tagset", "provision",
                "disk", "procfs", "sys", "vendor", "gc"}
SYMMETRY Symmetry
INVARIANTS
    TypeOK
    BlobSerial
    AsleepQuiet
    NoStrandedRequest
    RequestServedOnce
    IdleAllowsGc
    JoinWillComplete
    JoinedBeforeDeInit
PROPERTIES
    ShutdownJoinsGc
    FailedLoadUnwound
