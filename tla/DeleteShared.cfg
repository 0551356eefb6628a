\* The holder of a deleted issuance issues another.
SPECIFICATION Spec
CONSTANTS
    a = a
    b = b
    x = x
    y = y
    h = h
    g = g
    Issuances = {a, b}
    Accounts = {x, y, h}
    IssuerOf <- CrossIssuer
    LedgerOf <- SameLedgers
    Touches <- CrossTouches
    IndexOf <- CrossIndex
    LastLedger = 2
    Initial = {a, b}
    MaxInHand = 1
    MaxDeletes = 1
    MaxFaults = 0
PROPERTIES
    NothingNeededRemoved
