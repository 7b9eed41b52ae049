\* Once every job is done there may be nothing left to do.
SPECIFICATION Spec
CONSTANTS
    c1 = c1
    c2 = c2
    j1 = j1
    j2 = j2
    w1 = w1
    w2 = w2
    s1 = s1
    NoVersion = NoVersion
    NoCity = NoCity
    NoJob = NoJob
    City <- MCCity
    Version <- MCVersion
    Job <- MCJob
    JobVersion <- MCJobVersion
    Rotator <- MCRotator
    Sweeper <- MCSweeper
    MaxStalled = 1
SYMMETRY Symmetry
INVARIANTS
    OneActiveKey
    ValuesStayReadable
    ShortfallExplained
PROPERTIES
    NeverKeyless
CHECK_DEADLOCK FALSE
