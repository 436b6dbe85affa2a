SPECIFICATION MCSpec
CONSTANTS
    v1 = v1  v2 = v2  a = a  b = b  p1 = p1  p2 = p2  m1 = m1  m2 = m2  m3 = m3
    Parts = {"queue"}
    Replicas = {p1, p2}
    PoolSize <- MCPoolSize
    Operations = 1
    MaxCuts = 0
    MaxCancels = 1
    None = None
    Vaults = {v1, v2}
    Texts = {a, b}
    Upstream <- MCUpstream
    BatchSize = 1
    MaxFaults = 1
    Migrators = {m1, m2, m3}
    Packaged <- MCPackaged
    Nobody = Nobody
    Workers = {w1}
    VaultIds = {v1, v2}
    Nil = Nil
    Repositories <- MCRepositories
    Requests = {q1, q2}
    MaxFailures = 0
    MaxStops = 2
PROPERTIES EveryRequestHonoured
CHECK_DEADLOCK FALSE
