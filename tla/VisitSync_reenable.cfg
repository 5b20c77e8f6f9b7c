\* A request and the cron race on a visit that is temporarily re-enabled.
SPECIFICATION FairSpec
CONSTANTS
    v1 = v1
    v2 = v2
    u1 = u1
    r1 = r1
    r2 = r2
    Visits = {v1}
    Visitors = {u1}
    VisitorOf <- OneVisitor
    Requests = {r1}
    Closer = cron
    NumConns = 1
    Users = {"uuid"}
    UserIdOn <- SameId
    NoUser = NoUser
    NoVisit = NoVisit
    MaxTime = 2
    MaxLinks = 1
PROPERTIES AdmissionKept ReenablementEnds
