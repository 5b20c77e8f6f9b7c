\* Two requests race on one visit and its BioStar user.
SPECIFICATION Spec
CONSTANTS
    v1 = v1
    v2 = v2
    u1 = u1
    r1 = r1
    r2 = r2
    Visits = {v1}
    Visitors = {u1}
    VisitorOf <- OneVisitor
    Requests = {r1, r2}
    Closer = cron
    NumConns = 1
    Users = {"uuid"}
    UserIdOn <- SameId
    NoUser = NoUser
    NoVisit = NoVisit
    MaxTime = 0
    MaxLinks = 1
SYMMETRY RequestSymmetry
INVARIANTS TypeOK RowsCoherent AccessRevoked
PROPERTIES NeverBackToScheduled FollowsLifecycle
