\* The same concurrency given twice: `--concurrency 1,1`.
CONSTANTS
    Levels <- RepeatedLevels
    PerLevel = 1
    Cases = 1
SPECIFICATION Spec
INVARIANTS
    ThroughputPerLevel
