SPECIFICATION LiveSpec
CONSTANTS
    u1 = u1
    u2 = u2
    k1 = k1
    k2 = k2
    s1 = s1
    s2 = s2
    r1 = r1
    r2 = r2
    w1 = w1
    w2 = w2
    Requests <- TwoRequests
    Users <- OneUser
    Keys <- TwoKeys
    Sales <- OneSale
    Workers <- TwoWorkers
    NoStock = NoStock
    NoMarker = NoMarker
    NoSale = NoSale
    NoPurchase = NoPurchase
    InitialStock = 1
    MaxAttempts = 1
    Faults <- BrokerFaults
    MaxFaults = 1
INVARIANTS
    DeadLettersAreCancelled

    
