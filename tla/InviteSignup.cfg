SPECIFICATION FairSpec
CONSTANTS
    ann = ann
    bob = bob
    cat = cat
    t1 = t1
    Person = {ann, bob, cat}
    Team = {t1}
    Invite = {i1, i2}
    Request = {q1, q2}
    Founder <- MCFounder
    Operator = Operator
    None = None
INVARIANTS TypeOK AnswersTrue
PROPERTIES ImplementsInviteContract ClaimsEnd
CHECK_DEADLOCK FALSE
