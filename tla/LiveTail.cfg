\* A tracked issuance and one that registers, under fairness: dropped
\* connections, failed fetches, restarts.
SPECIFICATION LiveSpec
CONSTANTS
    a = a
    b = b
    issuer = issuer
    other = other
    h = h
    g = g
    Issuances = {a, b}
    Initial = {a}
    Accounts = {issuer, other, h, g}
    IssuerOf <- TwoIssuer
    LedgerOf <- TwoLedgers
    Touches <- TwoTouches
    IndexOf <- TwoIndex
    StartTip = 2
    LastLedger = 5
    MaxDrops = 2
    MaxFetchFaults = 1
    MaxCrashes = 2
INVARIANTS
    TypeOK
    NothingSlips
PROPERTIES
    TailCatchesUp
