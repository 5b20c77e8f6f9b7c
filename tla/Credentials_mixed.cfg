\* One handler at a time, a card, a BioStar 2 and a BioStar X, one fault.
SPECIFICATION Spec
CONSTANTS
    Requests = {r1}
    NumConns = 2
    BioStarX = {2}
    Cards = {k1}
    NoCard = NoCard
    MaxQrs = 2
    MaxFaults = 1
INVARIANTS TypeOK SyncedCardOpens
PROPERTIES RevocationLasts
