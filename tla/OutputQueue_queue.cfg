CONSTANTS
    Runs = {r1}
    Lens <- MCLens
    MaxChunks = 4
SPECIFICATION FairSpec
INVARIANTS NothingLostOrReordered
PROPERTIES ChannelSpec DrainEnds FlusherEnds
CHECK_DEADLOCK FALSE
