SPECIFICATION MCSpec
CONSTANTS
    None = None
    Jobs <- MCJobs
    Depth = 4
    Observations = {"o1", "o2"}
    ClaimPool <- MCClaims
    Verifications <- MCVerifications
    PropositionPool <- MCPropositions
    BetPool <- MCBets
    Replays <- MCReplays
    MaxEntries = 4
INVARIANTS
    AnswerIsExact
    CounterexampleIsLeast
    RepairIsLeast
    PropositionsSettle
    PositiveIsEarned
    LedgerAgrees
CHECK_DEADLOCK FALSE
