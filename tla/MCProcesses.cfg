SPECIFICATION MCSpec
CONSTANTS
    v1 = v1  v2 = v2  a = a  b = b  p1 = p1  p2 = p2  m1 = m1  m2 = m2  m3 = m3
    Parts = {"poll", "lease", "content", "migrate", "queue"}
    Replicas = {p1, p2}
    PoolSize <- MCPoolSize
    Operations = 1
    MaxCuts = 1
    MaxCancels = 1
    None = None
    Vaults = {v1, v2}
    Texts = {a, b}
    Upstream <- MCUpstream
    BatchSize = 1
    MaxFaults = 1
    Migrators = {m1, m2, m3}
    Packaged <- MCPackaged
    Nobody = Nobody
    Workers = {w1, w2}
    VaultIds = {v1, v2}
    Nil = Nil
    Repositories <- MCRepositories
    Requests = {q1, q2}
    MaxFailures = 1
    MaxStops = 2
INVARIANTS ClosedForGood SessionsOwned ContentThere MigratorsAgree OneOpen LeaseFollowsPass
PROPERTIES OutcomeIsOwn RequestAnswered PendingHonoured CallsTakeEffect KeepsLease LeaseReturned ContentServed ContentCollected
CHECK_DEADLOCK FALSE
