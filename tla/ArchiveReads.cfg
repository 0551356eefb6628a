\* An MPT and an IOU of one issuer, while sweeps, holder jobs and the tail store
\* their rows and one more ledger closes.
SPECIFICATION Spec
CONSTANTS
    m = m
    c = c
    iss = iss
    h = h
    g = g
    Issuances = {m, c}
    Mpts = {m}
    Accounts = {iss, h, g}
    LowSide = {h}
    Gone = Gone
    Absent = Absent
    IssuerOf <- BothIssuer
    LedgerOf <- BothLedgers
    Touches <- BothTouches
    IndexOf <- BothIndex
    After <- BothAfter
    HashRank <- HashOrder
    ObjectRank <- IdOrder
    PageLimit = 1
    CloseTime <- Times
    Untimed = {1}
    Requests <- AllRequests
    StartTip = 2
    LastLedger = 3
INVARIANTS
    TypeOK
    PagesComplete
    ListingExact
    GatewayExact
    ReportExact
    ResolverExact
    LinesExact
    TieOutAgrees
PROPERTIES
    SearchNarrows
