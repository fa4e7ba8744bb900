\* Swaps that overlap, all operations in turn, all operations overlapping and failing.
CONSTANTS
    c1 = c1
    c2 = c2
    c3 = c3
    s1 = s1
    s2 = s2
    s3 = s3
    None = None
    Callers <- ThreeCallers
    Slots <- ThreeSlots
    Usages <- AllUsages
SPECIFICATION FairSpec
INVARIANTS NoDoubleTeardown Exclusive StatusTruthful
PROPERTIES LastRequestWins ImplementsSwitch EveryCallAnswered
CHECK_DEADLOCK FALSE
