SPECIFICATION MCSpec
CONSTANTS
    bob = bob
    alice = alice
    t1 = t1
    t2 = t2
    Null = Null
    Reducer <- Reduce
    Fuel = 64
    Programs <- MCPrograms
    Scale = 1000000
    Seed <- MCSeed
    Holder = {bob, alice}
    Tx = {t1, t2}
    Amounts = {1, 50}
    Expiry = 999999
    MaxLegs = 3
INVARIANTS
    BlameLands
    QuorumJudges
    ReductionAgrees
    LedgerMatches
    NoGain
SYMMETRY
    MCSymmetry
CHECK_DEADLOCK FALSE
