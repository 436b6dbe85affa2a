SPECIFICATION MCFair
CONSTANTS
    Parts = {"lock", "sync"}
    Readers = {r1, r2, r3}
    Writers = {w1, w2}
    TimedWriters = {w2}
    c1 = c1  c2 = c2  c3 = c3  c4 = c4
    p1 = p1  p2 = p2  p3 = p3  d1 = d1  d2 = d2  bad = bad  raw = raw
    Commits = {c1, c2, c3, c4}
    None = None
    Paths = {p1, p2, p3}
    Docs = {d1, d2, bad, raw}
    NoDoc = NoDoc
    Tree <- MCTree
    Undecodable = {raw}
    Unparsable = {bad}
    BadManifest = {c4}
    Follows <- MCForward
    Queries = {q1}
    MaxFaults = 2
INVARIANTS NoLostWakeup AnswerTrue
PROPERTIES KeepsGate WriterGetsIn ReaderAnswered ServedUntilActivated VaultConverges
