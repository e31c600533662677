SPECIFICATION Spec
CONSTANTS
    Session = {s1}
    Request = {r1, r2}
    None = None
    SlidingWindow = 2
    MaxLifetime = 3
    MaxTime = 6
    MaxPassword = 3
PROPERTY ResetHolds
CHECK_DEADLOCK FALSE
