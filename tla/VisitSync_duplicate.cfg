\* Two active visits of one visitor.
SPECIFICATION Spec
CONSTANTS
    v1 = v1
    v2 = v2
    u1 = u1
    r1 = r1
    r2 = r2
    Visits = {v1, v2}
    Visitors = {u1}
    VisitorOf <- OneVisitor
    Requests = {r1, r2}
    Closer = cron
    NumConns = 1
    Users = {"uuid"}
    UserIdOn <- SameId
    NoUser = NoUser
    NoVisit = NoVisit
    MaxTime = 0
    MaxLinks = 0
SYMMETRY RequestSymmetry
INVARIANTS OneActiveVisit
