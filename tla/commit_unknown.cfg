SPECIFICATION Spec
CONSTANTS
    None = None
    n1 = n1  n2 = n2  shop = shop  blog = blog  alice = alice  rp1 = rp1  rp2 = rp2
    fp1 = fp1  fp2 = fp2  t0 = t0  t1 = t1  t2 = t2  c1 = c1  c2 = c2
    a1 = a1  k1 = k1  k2 = k2  r1 = r1  r2 = r2  r3 = r3
    Nodes = {n1}
    Apps = {shop}
    Subjects = {alice}
    RPs = {rp1}
    Fingerprints = {fp1}
    Config <- ShopOnly
    Tokens = {t0, t1}
    CredIds = {c1}
    Authenticators = {a1}
    LockKeys = {k1}
    LockKey <- OneKey
    MaxCount = 0
    TTL = 2
    MaxTime = 0
    Seed <- LoginSeed
    Requests = {r1, r2}
    PoolSize = 2
SYMMETRY Symmetric
PROPERTIES InfraFailureDoesNotConsume
