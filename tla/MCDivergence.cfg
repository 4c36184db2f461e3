SPECIFICATION MCSpec
CONSTANTS
    None = None
    Jobs = {}
    Depth = 4
    Observations = {"o1", "o2"}
    ClaimPool <- MCClaims
    Verifications <- MCVerifications
    PropositionPool <- MCPropositions
    BetPool <- MCBets
    Replays <- MCReplays
    MaxEntries = 4
INVARIANTS
    DivergenceShows
CHECK_DEADLOCK FALSE
