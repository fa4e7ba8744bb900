\* A second drop after the anchor was weighed.
CONSTANTS
    EscalateAfter = 1
    Usages = {"plain"}
SPECIFICATION Spec
INVARIANT NextDropStartsFresh
