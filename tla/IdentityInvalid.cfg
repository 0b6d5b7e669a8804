\* A token that does not verify, after one with the same first 32 bytes that does.
CONSTANTS
    r1 = r1
    r2 = r2
    oidc = oidc
    stray = stray
    shared = shared
    k1 = k1
    elsewhere = elsewhere
    Handlers = {r1, r2}
    Tokens <- MCTokens
    Malformed = Malformed
    Alg <- MCAlg
    CacheKey <- MCCacheKey
    SignedBy <- MCSignedBy
    Expires <- MCExpires
    Keys = {k1}
    Secret = Secret
    Ttl = 1
    FetchLimit = 1
    Leeway = 0
    MaxClock = 3
    MaxRotations = 1
    Configs <- MCConfigs
SPECIFICATION Spec
CHECK_DEADLOCK FALSE
INVARIANT
    InvalidTokenRefused
