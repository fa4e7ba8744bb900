\* A boat swinging out, in, out and in again.
CONSTANTS
    EscalateAfter = 1
    Usages = {"plain"}
SPECIFICATION Spec
INVARIANT StickyUntilAck
