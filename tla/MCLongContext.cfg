\* Windows at and above the overhead, which differs from marker to marker, a
\* source that is too short or exactly long enough, and a
\* tokenizer that makes up to two tokens more or less of the whole.
CONSTANTS
    Windows <- SomeWindows
    Needles <- SomeNeedles
    Reserves = {0, 2}
    Sources = {5, 12}
    Overhead <- SomeOverhead
    MaxDrift = 2
SPECIFICATION FairSpec
CHECK_DEADLOCK FALSE
INVARIANTS
    PromptFits
    NeedleWhereItSays
    PromptUsesTheWindow
PROPERTIES
    CallEnds
