\* The claim of a sweep resumed past its last kept transaction.
SPECIFICATION Spec
CONSTANTS
    a = a
    issuer = issuer
    h = h
    w1 = w1
    w2 = w2
    Issuances = {a}
    Accounts = {issuer, h}
    IssuerOf <- OneIssuer
    LedgerOf <- OneLedgers
    Touches <- OneTouches
    IndexOf <- OneIndex
    BackfillFrom <- OneFrom
    Runners = {w1, w2}
    Concurrency = 2
    StartTip = 2
    LastLedger = 3
    MaxFaults = 2
SYMMETRY Symmetry
INVARIANTS
    StoredInsideClaim
