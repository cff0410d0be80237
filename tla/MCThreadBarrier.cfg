SPECIFICATION BarrierFairSpec
CONSTANTS
    Threads = {t1, t2, t3, t4}
    None = None
    MaxGen = 3
INVARIANT OneLeader
PROPERTIES EveryCallReturns ImplementsFairRendezvous
