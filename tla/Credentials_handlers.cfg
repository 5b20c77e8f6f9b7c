\* Two handlers on the QR codes, one BioStar 2.
SPECIFICATION Spec
CONSTANTS
    Requests = {r1, r2}
    NumConns = 1
    BioStarX = {}
    Cards = {}
    NoCard = NoCard
    MaxQrs = 2
    MaxFaults = 0
INVARIANTS OneActiveQr QrCardTracked UserGoesAtCheckout
SYMMETRY RequestSymmetry
