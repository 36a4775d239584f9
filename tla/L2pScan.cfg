\* The scan ends.
CHECK_DEADLOCK FALSE
SPECIFICATION Spec
CONSTANTS
    NPages = 4
    OffsetPages = 2
    Half = 4
    Steps = 3
    Lpns = {0, 1}
    MagicSpan = 2
    DataMagic = 1
    Flashes <- MCFlashes
INVARIANT NewestPerLpn
