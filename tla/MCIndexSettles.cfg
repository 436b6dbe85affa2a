SPECIFICATION MCFair
CONSTANTS
    a = a  b = b  bad = bad  i1 = i1  i2 = i2  m1 = m1  m2 = m2  g1 = g1  g2 = g2
    Procs = {i1}
    Paths = {1, 2, 3}
    Folded <- MCFolded
    Contents = {a, b, bad}
    Unparsable = {bad}
    Manifests = {m1, m2}
    Edited <- MCReverted
    Configs = {g1, g2}
    Changed <- MCChanged
    None = None
    MaxEdits = 2
    MaxFaults = 1
PROPERTIES CleanRunConverges EventuallyCurrent
