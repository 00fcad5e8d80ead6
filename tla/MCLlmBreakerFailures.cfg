SPECIFICATION Spec
CONSTANTS
    None = None
    Runs = {r1, r2}
    Streams = {}
    FailMax = 5
    MaxAttempts = 3
INVARIANTS
    FailuresOpen
