\* A holder's MPToken modified without a change of its amount.
SPECIFICATION Spec
CONSTANTS
    m = m
    c = c
    iss = iss
    h = h
    g = g
    Issuances = {m, c}
    Mpts = {m}
    Accounts = {iss, h, g}
    LowSide = {h}
    Gone = Gone
    Absent = Absent
    IssuerOf <- BothIssuer
    LedgerOf <- BothLedgers
    Touches <- BothTouches
    IndexOf <- BothIndex
    After <- FlaggedAfter
    HashRank <- HashOrder
    ObjectRank <- IdOrder
    PageLimit = 1
    CloseTime <- Times
    Untimed = {1}
    Requests <- NoRequests
    StartTip = 2
    LastLedger = 3
INVARIANTS
    DeltasReproduceBalance
