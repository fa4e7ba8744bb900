\* The recorder and one request over one track.
CONSTANTS
    Clients = {c1}
    MaxTracks = 1
SPECIFICATION TracksSpec
INVARIANTS OnlyLiveFixes
CHECK_DEADLOCK FALSE
