\* a is deleted while b, of the same issuer, is registered and ingested.
SPECIFICATION Spec
CONSTANTS
    a = a
    b = b
    x = x
    y = y
    h = h
    g = g
    Issuances = {a, b}
    Accounts = {x, h, g}
    IssuerOf <- SameIssuer
    LedgerOf <- SameLedgers
    Touches <- SameTouches
    IndexOf <- SameIndex
    LastLedger = 2
    Initial = {a}
    MaxInHand = 1
    MaxDeletes = 1
    MaxFaults = 1
INVARIANTS
    TypeOK
    ReferentialIntegrity
    CoverageHonoured
    TrackedRegistered
PROPERTIES
    PurgeSpares
    DeleteEnds
