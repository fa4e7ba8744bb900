\* Each part in turn: one request and the recorder over two tracks; two
\* components on one URL; three refreshes.
CONSTANTS
    Clients = {c1}
    MaxTracks = 2
    Components = {p1, p2}
    MaxVersion = 2
    Totals = {0, 3}
    Concurrency = 2
    MaxGeneration = 3
SPECIFICATION WebSpec
INVARIANTS ProgressIsTheLatest
PROPERTIES RecordingGoesOn NeverGoesBack
CHECK_DEADLOCK FALSE
