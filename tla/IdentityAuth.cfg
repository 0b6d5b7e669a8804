\* Two handlers, rotation of the one published key, the configurations of MCConfigs.
\* Requests stop coming at some point, and with them the system.
CONSTANTS
    r1 = r1
    r2 = r2
    oidc = oidc
    stray = stray
    shared = shared
    k1 = k1
    elsewhere = elsewhere
    Handlers = {r1, r2}
    Tokens <- MCTokens
    Malformed = Malformed
    Alg <- MCAlg
    CacheKey <- MCCacheKey
    SignedBy <- MCSignedBy
    Expires <- MCExpires
    Keys = {k1}
    Secret = Secret
    Ttl = 1
    FetchLimit = 1
    Leeway = 0
    MaxClock = 3
    MaxRotations = 1
    Configs <- MCConfigs
SPECIFICATION FairSpec
CHECK_DEADLOCK FALSE
INVARIANTS
    BoundedAfterlife
    OwnOrSameKey
    ProductionIsClosed
PROPERTIES
    Resolved
