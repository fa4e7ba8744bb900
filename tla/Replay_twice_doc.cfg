\* Two starts, as the source mode controller makes them, as fast as possible.
CONSTANTS
    Offsets <- MCOffsets
    Realtime = FALSE
    Starts = 2
    MaxClock = 0
SPECIFICATION ReplaySpec
INVARIANT EachFrameOnce
CHECK_DEADLOCK FALSE
