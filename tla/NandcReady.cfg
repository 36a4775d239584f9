SPECIFICATION FairSpec
INVARIANTS
    WakeUpComing
    OneInterruptPerArming
PROPERTIES
    OperationEnds
