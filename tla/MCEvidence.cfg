SPECIFICATION MCSpec
CONSTANTS
    a = a
    b = b
    w1 = w1
    w2 = w2
    w3 = w3
    v3 = v3
    here = here
    t1 = t1
    t2 = t2
    t3 = t3
    c1 = c1
    c3 = c3
    e1 = e1
    e3 = e3
    e5 = e5
    q1 = q1
    q3 = q3
    q5 = q5
    s1 = s1
    s2 = s2
    sb = sb
    f3 = f3
    fa = fa
    x3 = x3
    x2 = x2
    l2 = l2
    d1 = d1
    p1 = p1
    p2 = p2
    g0 = g0
    g1 = g1
    g2 = g2
    h0 = h0
    h1 = h1
    h2 = h2
    j0 = j0
    j1 = j1
    j2 = j2
    r0 = r0
    r1 = r1
    u0 = u0
    u1 = u1
    u2 = u2
    u3 = u3
    x1 = x1
    y1 = y1
    d0 = d0
    d2 = d2
    m = m
    n = n
    o = o
    k1 = k1
    k2 = k2
    k3 = k3
    k4 = k4
    k5 = k5
    k6 = k6
    missing = missing
    Throws = Throws
    EventId <- MCEvents
    ev <- MCev
    Admitted <- MCAdmitted
    Registry = {"sum", "other"}
    Result <- MCResult
    Histories <- MCHistories
    Reviews <- MCReviews
    Inputs <- MCInputs
INVARIANTS
    PassIsEarned
    LoopsAgree
PROPERTIES
    JudgementStands
    DecisionsStand
    StatusClimbs
    CounterexampleSticks
    PassIsLostForCause
    FailureIsFinal
    Terminates
