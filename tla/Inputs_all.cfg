\* Each part in turn: two autopilot commands of two frames over two live
\* sources; two devices to be asked; four sources of a channel, two of them
\* preferred and matched by a second entry of the rule each, one unlisted;
\* a session of five frames replayed at its pace.
CONSTANTS
    InitialMs = 1
    MaxMs = 5
    Commands = {c1, c2}
    Frames = 2
    MaxDrivers = 2
    Sources = {s1, s2}
    Delay = 1
    Interval = 3
    gps = gps
    gpsB = gpsB
    aux = aux
    other = other
    Tags = {gps, gpsB, aux, other}
    Pattern <- MCPattern
    Fresh = 1
    MaxBack = 1
    Offsets <- MCOffsets
    Realtime = TRUE
    Starts = 1
    MaxClock = 7
SPECIFICATION InputsSpec
INVARIANTS OneWayForward NoSplicedLines
           FramesInOrder PreferredHolds
PROPERTIES Reconnects NothingStaleIsSent CommandsAnswered
           AsksAreDue ChannelLives WholeSession
CHECK_DEADLOCK FALSE
