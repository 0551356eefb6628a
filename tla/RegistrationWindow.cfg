\* A registration while the tail lags behind.
SPECIFICATION Spec
CONSTANTS
    a = a
    b = b
    issuer = issuer
    other = other
    h = h
    g = g
    Issuances = {a, b}
    Initial = {a}
    Accounts = {issuer, other, h, g}
    IssuerOf <- TwoIssuer
    LedgerOf <- TwoLedgers
    Touches <- TwoTouches
    IndexOf <- TwoIndex
    StartTip = 2
    LastLedger = 5
    MaxDrops = 0
    MaxFetchFaults = 0
    MaxCrashes = 0
INVARIANTS
    RegistrationWindowClosed
