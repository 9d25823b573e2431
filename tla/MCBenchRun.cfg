\* Two levels of four requests over three workload cases.
CONSTANTS
    Levels <- RisingLevels
    PerLevel = 4
    Cases = 3
SPECIFICATION FairSpec
INVARIANTS
    ReportIsComplete
    SameCasesAtEveryLevel
    SamplingOutlivesLoad
    ThroughputPerLevel
PROPERTIES
    CommandEnds
