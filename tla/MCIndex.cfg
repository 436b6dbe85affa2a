SPECIFICATION MCSpec
SYMMETRY MCSymmetry
CONSTANTS
    a = a  b = b  bad = bad  i1 = i1  i2 = i2  m1 = m1  m2 = m2  g1 = g1  g2 = g2
    Procs = {i1, i2}
    Paths = {1, 2}
    Folded <- MCFolded
    Contents = {a, b, bad}
    Unparsable = {bad}
    Manifests = {m1, m2}
    Edited <- MCForward
    Configs = {g1}
    Changed = {}
    None = None
    MaxEdits = 1
    MaxFaults = 2
INVARIANTS TablesAgree VectorOfItsText LabelHonest
PROPERTIES RebuildAllOrNothing
