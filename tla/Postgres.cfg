\* Two processes boot together, a dropped connection, a crash; three writers of
\* one of them, two locking the same rows in opposite orders.
SPECIFICATION LiveSpec
CONSTANTS
    p1 = p1
    p2 = p2
    w1 = w1
    w2 = w2
    w3 = w3
    k1 = k1
    k2 = k2
    None = None
    Procs = {p1, p2}
    Writers = {w1, w2, w3}
    HomeOf <- Home
    KeysOf <- Locked
    PoolMax <- Pools
    Last = 2
    MaxRetries = 1
    MaxDrops = 1
    MaxCrashes = 1
INVARIANTS
    TypeOK
    PoolSound
    AppliedOnce
    BootsInTurn
    SchemaComplete
PROPERTIES
    EverythingEnds
CHECK_DEADLOCK FALSE
