\* A restart in the middle of a heal.
SPECIFICATION Spec
CONSTANTS
    a = a
    b = b
    issuer = issuer
    other = other
    h = h
    g = g
    Issuances = {a}
    Initial = {a}
    Accounts = {issuer, h}
    IssuerOf <- OneIssuer
    LedgerOf <- OneLedgers
    Touches <- OneTouches
    IndexOf <- OneIndex
    StartTip = 2
    LastLedger = 5
    MaxDrops = 1
    MaxFetchFaults = 0
    MaxCrashes = 1
PROPERTIES
    AnchorKnownComplete
