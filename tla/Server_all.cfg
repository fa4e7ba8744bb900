\* Each part in turn: calls of the hub that overlap and calls in turn, drivers
\* that fail; two live sources under every usage; requests over settings.json
\* that overlap each other and live sources, and ones in turn; packets of up to
\* three frames; gaps, glitches, mode swaps, restarts and inserts that fail in
\* the trip log; starts of the database cut anywhere, by two boats.
CONSTANTS
    None = None
    Labels = {l1, l2, l3}
    Drivers = {d1, d2, d3}
    Callers = {a, b, c}
    Faulty = {"start", "stop"}
    MaxLives = 2
    LiveUsages = {"steady", "unplugged", "unsteady", "overlapping"}
    planner = planner
    tab1 = tab1
    planning = planning
    socketCan = socketCan
    Clients = {planner, tab1}
    SocketCan = socketCan
    Key <- MCKey
    Off = off
    Values = {off, can0, can1}
    SeqNumbers = 8
    MaxFrames = 3
    UnderwayHold = 2
    MooredHold = 2
    GapClose = 3
    GlitchTime = 2
    GlitchJump = 1
    MinTrip = 2
    Legs = {0, 1, 2}
    DbAnswers = {TRUE, FALSE}
    MaxClock = 10
    Boats = {b1, b2}
    Modes = {1, 2}
    Configs = {1, 2}
    MaxRevisions = 2
    MaxStamp = 1
SPECIFICATION ServerSpec
INVARIANTS RegisteredOnBus NoShadow
           RegistriesFollow TornDownIsSilent
           KeysKeptApart 
           NeverCorrupt TripsInOrder
           PaintKept RestartKeepsPolar
PROPERTIES EndsAtRest
CHECK_DEADLOCK FALSE
