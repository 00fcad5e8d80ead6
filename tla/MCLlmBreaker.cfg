SPECIFICATION FairSpec
CONSTANTS
    None = None
    Runs = {r1, r2}
    Streams = {s1}
    FailMax = 5
    MaxAttempts = 3
INVARIANTS
    OneCallAtATime
PROPERTIES
    OnlyAProbeCloses
    RequestsEnd
    Recovers
