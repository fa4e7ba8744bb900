\* The design calls the modes exclusive; overlapping requests are not.
CONSTANTS
    c1 = c1
    c2 = c2
    c3 = c3
    s1 = s1
    s2 = s2
    s3 = s3
    None = None
    Callers <- ThreeCallers
    Slots <- ThreeSlots
    Usages <- TwoRequests
SPECIFICATION Spec
INVARIANTS ModesExclusive
CHECK_DEADLOCK FALSE
