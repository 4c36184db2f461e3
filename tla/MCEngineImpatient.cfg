SPECIFICATION Spec
CONSTANTS
    s1 = s1
    s2 = s2
    Supervisor = {s1, s2}
    Nobody = Nobody
    Impatient = TRUE
    MaxLaunches = 6
    MaxDeaths = 0
    MaxMishaps = 0
CHECK_DEADLOCK FALSE
INVARIANTS
    LockCoversChildren
