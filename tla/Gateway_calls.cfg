\* Two concurrent calls of any kind beside a health check, a breaker that opens at
\* the first failure.
SPECIFICATION FairSpec
CONSTANTS
    c1 = c1
    c2 = c2
    h1 = h1
    Callers = {c1, c2}
    Checkers = {h1}
    FailureThreshold = 1
    FailureWindow = 0
    ResetTimeout = 1
    MaxPolls = 2
INVARIANTS TypeOK SessionHeals
PROPERTIES RecoversFromTrouble
