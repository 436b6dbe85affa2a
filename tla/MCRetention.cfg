CONSTANTS
    w1 = w1  w2 = w2  k1 = k1  k2 = k2
    r1 = r1  r2 = r2  r3 = r3
    p1 = p1  p2 = p2  d1 = d1  d2 = d2  bad = bad
    c1 = c1  c2 = c2  c3 = c3
    Workers = {w1}
    Cleaners = {k1, k2}
    RevIds = {r1, r2, r3}
    None = None
    Paths = {p1}
    Docs = {d1, d2}
    NoDoc = NoDoc
    Commits = {c1, c2}
    Tree <- MCSmallTree
    Unparsable = {}
    KeepPromoted = 2
    BatchSize = 1
    MaxFaults = 1
SPECIFICATION FairSpec
INVARIANTS OneServed
PROPERTIES KeepsNewest OrphansCollected PassEnds
