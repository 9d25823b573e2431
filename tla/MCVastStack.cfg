\* Two killed processes and one edit of the environment, two valid tokens.
CONSTANTS
    Tokens = {t1, t2}
    NoToken = none
    MaxCrashes = 2
    MaxChanges = 1
SPECIFICATION FairSpec
INVARIANTS
    SmokeIsEarned
    OrderlyStart
    TokenOfThisStart
    ReadyMeansSeen
PROPERTIES
    ComesUp
