\* An IOU whose sweep is under way, its holders covered by the sweep of an MPT.
SPECIFICATION Spec
CONSTANTS
    m = m
    c = c
    iss = iss
    h = h
    g = g
    Issuances = {m, c}
    Mpts = {m}
    Accounts = {iss, h, g}
    LowSide = {h}
    Gone = Gone
    Absent = Absent
    IssuerOf <- BothIssuer
    LedgerOf <- BothLedgers
    Touches <- BothTouches
    IndexOf <- BothIndex
    After <- BothAfter
    HashRank <- HashOrder
    ObjectRank <- IdOrder
    PageLimit = 1
    CloseTime <- Times
    Untimed = {1}
    Requests <- GatewayRequests
    StartTip = 3
    LastLedger = 3
INVARIANTS
    NeverUnderCounted
