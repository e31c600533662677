SPECIFICATION Spec
CONSTANTS
    u1 = u1
    u2 = u2
    t1 = t1
    t2 = t2
    p1 = p1
    p2 = p2
    User = {u1, u2}
    Team = {t1, t2}
    Project = {p1, p2}
    TeamOf <- MCTeamOf
    Founder <- MCFounder
    Existing <- MCExisting
    RowLimit = 1
    MaxFound = 2
    Request = {q1}
    None = None
INVARIANT DenialRevealsNothing
CHECK_DEADLOCK FALSE
