\* Two runs with the same or different output directories; one may be killed.
CONSTANTS
    Runs = {r1, r2}
    Outputs = {d1, d2}
    Answers <- SomeAnswers
    Cases <- SomeCases
    MaxKills = 1
SPECIFICATION FairSpec
INVARIANTS
    ExitTellsTheTruth
    UnreadIsNeverMatch
    EvaluationIsFair
    FixturesAreWholeWhenUsed
PROPERTIES
    ImplementsWriteOnce
    RunsEnd
