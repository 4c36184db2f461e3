SPECIFICATION OperatedSpec
CONSTANTS
    owner = owner
    w1 = w1
    w2 = w2
    t1 = t1
    t2 = t2
    NoTask = NoTask
    Node = {owner, w1}
    Owner = owner
    Peers <- PairPeers
    Task = {t1, t2}
    Verifiable <- PairVerifies
    PageSize = 2
    Capacity = 6
    MaxFaults = 1
INVARIANTS
    SaidOnce
    CausalOrder
    SyncKeepsPromise
PROPERTIES
    SpreadsFromSigners
    ReceiptsArrive
