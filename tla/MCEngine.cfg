SPECIFICATION FairSpec
CONSTANTS
    s1 = s1
    s2 = s2
    Supervisor = {s1, s2}
    Nobody = Nobody
    Impatient = FALSE
    MaxLaunches = 6
    MaxDeaths = 1
    MaxMishaps = 1
CHECK_DEADLOCK FALSE
INVARIANTS
    LockCoversChildren
    OnlyOrphansOverlap
    ConfigurationHasKeys
PROPERTIES
    OrphansStop
    BusyReleased
