CONSTANTS
    Snapshot = {1, 2, 3, 4}
    None = None
SPECIFICATION FairSpec
INVARIANTS CommonIsAncestor NoneIsDisjoint DescentDecided
PROPERTIES SearchEnds
CHECK_DEADLOCK FALSE
