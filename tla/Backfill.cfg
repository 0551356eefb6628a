\* One issuance and its holder, two runners; one of: a crash, a failure, a delete begun (and aborted).
SPECIFICATION LiveSpec
CONSTANTS
    a = a
    issuer = issuer
    h = h
    w1 = w1
    w2 = w2
    Issuances = {a}
    Accounts = {issuer, h}
    IssuerOf <- OneIssuer
    LedgerOf <- OneLedgers
    Touches <- OneTouches
    IndexOf <- OneIndex
    BackfillFrom <- OneFrom
    Runners = {w1, w2}
    Concurrency = 2
    StartTip = 2
    LastLedger = 3
    MaxFaults = 1
INVARIANTS
    TypeOK
    MarkerSafe
    SweepCoverageSound
    HolderCoverageSound
    DiscoveryKept
PROPERTIES
    SweepCompletes
