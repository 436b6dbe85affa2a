SPECIFICATION MCSpec
SYMMETRY MCSymmetry
CONSTANTS
    x1 = x1  x2 = x2  x3 = x3  w1 = w1  w2 = w2
    v1 = v1  v2 = v2  c1 = c1  c2 = c2  d1 = d1  d2 = d2
    None = None  Absent = Absent
    Documents <- MCDocuments
    Count <- MCCount
    TakeTail <- MCTakeTail
    TargetMax = 5
    MaxInput = 7
    Overlap = 2
    Texts = {x1, x2, x3}
    Size <- MCSize
    Runs <- MCRuns
    Widths = {w1, w2}
    ConfiguredWidths = {w1, Absent}
    MaxItems = 2
    MaxTokens = 3
    MaxAttempts = 3
    Vaults = {v1, v2}
    Configs = {c1, c2}
    Remote = {c2}
    Dims = {d1, d2}
    Backends = {"postgres", "sqlite"}
    MaxPublished = 1
INVARIANTS ChunksFaithful VectorsMatch AnswersTrue DenseHonest
CHECK_DEADLOCK FALSE
