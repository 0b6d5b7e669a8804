\* Two commands one of which may break off anywhere, beside a proxy that is
\* started in either mode and stopped.
CONSTANTS
    a = a
    bad = bad
    k1 = k1
    k2 = k2
    c1 = c1
    c2 = c2
    p1 = p1
    p2 = p2
    Contents <- MCContents
    Invalid <- MCInvalid
    Keys <- MCKeys
    Paths <- OnePath
    DefaultPath = p1
    Clis <- MCClis
    MaxClock = 1
    MaxMishaps = 1
    Absent = Absent
    Empty = Empty
    Garbled = Garbled
    NoBundle = NoBundle
    NoSigner = NoSigner
    Unsigned = Unsigned
SPECIFICATION EngineSpec
SYMMETRY Names
INVARIANTS
    HeadResolves
    DeployedIsSigned
    WholeUnlessBroken
    ServesWhatWasSigned
    ServesValidText
