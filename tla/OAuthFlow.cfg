SPECIFICATION FairSpec
CONSTANTS
    Client = {cl1, cl2}
    Redirect = {u1, u2}
    Verifier = {v1, v2}
    Challenge = {v1}
    Allowed = {u1}
    Grantee = {g1}
    Code = {c1, c2}
    Exchange = {x1, x2}
    None = None
    MaxFaults = 1
INVARIANTS TypeOK OneTokenPerCode BoundToApproval BurnedOwedToFaults
PROPERTIES ImplementsAuthorizationGrant RetrySucceeds
CHECK_DEADLOCK FALSE
