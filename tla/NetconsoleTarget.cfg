SPECIFICATION FairSpec
CONSTANTS
    Chunk = 1000
    ReleaseLen = 8
    SkbSize = 1502
    Reserved = 454
    Msgs <- MCMsgs
    NoMsg = NoMsg
    ExtendedLog = FALSE
    PrependRelease = FALSE
INVARIANTS OneFamily ReleaseNeedsExtended PacketsTile PacketFits
PROPERTIES MessageWhole MessageEnds
