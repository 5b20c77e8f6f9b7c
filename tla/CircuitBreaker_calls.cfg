\* Four concurrent calls.
SPECIFICATION FairSpec
CONSTANTS
    Callers = {c1, c2, c3, c4}
    FailureThreshold = 3
    FailureWindow = 2
    ResetTimeout = 1
INVARIANTS TypeOK ClosedBelowThreshold
PROPERTIES OpensOnConsecutiveFailures RecoversFromOutage
