\* Two visits of one visitor, two servers, one request at a time; save compares
\* and writes in two steps.
SPECIFICATION SplitSpec
CONSTANTS
    v1 = v1
    v2 = v2
    u1 = u1
    r1 = r1
    r2 = r2
    Visits = {v1, v2}
    Visitors = {u1}
    VisitorOf <- OneVisitor
    Requests = {r1}
    Closer = cron
    NumConns = 2
    Users = {"uuid"}
    UserIdOn <- SameId
    NoUser = NoUser
    NoVisit = NoVisit
    MaxTime = 0
    MaxLinks = 0
INVARIANTS AccessRevoked AccessGranted
