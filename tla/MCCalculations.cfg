\* Samples of up to five numbers, streams of up to three events, up to four rules.
CONSTANTS
    Samples <- SmallSamples
    MaxEvents = 3
    Embeddings <- FewRules
SPECIFICATION Spec
CHECK_DEADLOCK FALSE
INVARIANTS
    PercentilesAreRight
    SuccessIsEarned
    ClosestRulesFirst
