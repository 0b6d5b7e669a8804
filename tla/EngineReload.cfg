\* docs/PRODUCT_OVERVIEW.md:125: a deployed revision reaches the running proxy.
CONSTANTS
    a = a
    bad = bad
    k1 = k1
    k2 = k2
    c1 = c1
    c2 = c2
    p1 = p1
    p2 = p2
    Contents <- MCContents
    Invalid <- MCInvalid
    Keys <- MCKeys
    Paths <- OnePath
    DefaultPath = p1
    Clis <- OneCli
    MaxClock = 1
    MaxMishaps = 0
    Absent = Absent
    Empty = Empty
    Garbled = Garbled
    NoBundle = NoBundle
    NoSigner = NoSigner
    Unsigned = Unsigned
SPECIFICATION FairEngineSpec
PROPERTIES
    DeployReachesEngine
