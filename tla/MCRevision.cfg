CONSTANTS
    w1 = w1  w2 = w2  k1 = k1  k2 = k2
    r1 = r1  r2 = r2  r3 = r3
    p1 = p1  p2 = p2  d1 = d1  d2 = d2  bad = bad
    c1 = c1  c2 = c2  c3 = c3
    Workers = {w1, w2}
    Cleaners = {}
    RevIds = {r1, r2, r3}
    None = None
    Paths = {p1, p2}
    Docs = {d1, d2, bad}
    NoDoc = NoDoc
    Commits = {c1, c2, c3}
    Tree <- MCTree
    Unparsable = {bad}
    KeepPromoted = 1
    BatchSize = 1
    MaxFaults = 2
SYMMETRY MCSymmetry
SPECIFICATION Spec
INVARIANTS TypeOK ServedMatchesCommit LinearHistory
PROPERTIES PublishedImmutable Implements
