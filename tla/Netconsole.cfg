\* A writer that faults keeps the list lock, and the rest waits for it.
CHECK_DEADLOCK FALSE
SPECIFICATION FairSpec
CONSTANTS
    Params = {p}
    Configs = {c}
    Names = {eth0, eth1}
    DefaultName = eth0
    NoTarget = NoTarget
INVARIANTS RefPerTarget FreedIsUnused NameFollowsDevice
PROPERTIES SendUndisturbed EventClearsTargets EventEnds
