CONSTANTS
    t1 = t1  t2 = t2
    Thread = {t1, t2}
    Nobody = Nobody
    Buffer = 3
    Latency = 1
    Lifetime = {3, 5}
    MaxLife = 5
    MaxTime = 8
SPECIFICATION FairSpec
INVARIANTS IInv SingleFetch NoExpiredUse RevocationOutageIsBounded
PROPERTIES TokenSourceSpec EveryCallEnds
