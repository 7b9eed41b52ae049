\* After the last start nothing is left to do.
SPECIFICATION Spec
CONSTANTS
    r1 = r1
    r2 = r2
    Runner <- MCRunner
    Migration <- MCMigration
    Fact <- MCFact
    Needs <- MCNeeds
    Adds <- MCAdds
    Copies <- MCCopies
    Concurrently = {50}
    Repeatable = {21, 24, 35, 50}
    Releases <- MCReleases
    MAX_PASSES = 5
    MaxStarts = 3
    MaxFaults = 1
SYMMETRY RunnerSymmetry
INVARIANTS
    RecordedWasApplied
    UnrecordedExplained
    StopsAtFixpoint
    LostOnlyOutOfOrder
CHECK_DEADLOCK FALSE
