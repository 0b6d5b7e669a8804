\* docs/SECURITY.md:53-56: a bundle the key file does not verify is refused.
CONSTANTS
    a = a
    bad = bad
    k1 = k1
    k2 = k2
    c1 = c1
    c2 = c2
    p1 = p1
    p2 = p2
    Contents <- MCContents
    Invalid <- MCInvalid
    Keys <- MCKeys
    Paths <- TwoPaths
    DefaultPath = p1
    Clis <- MCClis
    MaxClock = 0
    MaxMishaps = 0
    Absent = Absent
    Empty = Empty
    Garbled = Garbled
    NoBundle = NoBundle
    NoSigner = NoSigner
    Unsigned = Unsigned
SPECIFICATION EngineSpec
SYMMETRY Names
INVARIANTS
    VerifiedBeforeServing
