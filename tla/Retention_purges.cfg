\* Two visits of one or two visitors, one of whom is on the blacklist; one QR
\* renewed, one purge cut short.
SPECIFICATION FairSpec
CONSTANTS
    Visits = {1, 2}
    Visitors = {1, 2}
    Held = {2}
    MaxRenewals = 1
    MaxFaults = 1
INVARIANTS TypeOK
PROPERTIES PurgeIsThorough OldVisitsGo
CHECK_DEADLOCK FALSE
