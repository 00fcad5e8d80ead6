SPECIFICATION Spec
CONSTANTS
    q1 = q1
    q2 = q2
    q3 = q3
    q4 = q4
    None = None
    Requests <- MCRequests
    Limit = 2
    WindowSecs = 3
    MaxTime = 8
SYMMETRY Symmetry
INVARIANTS
    LimitHolds
    CountersExpire
