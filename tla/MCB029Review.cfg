\* One run; Vision answers something that is no JSON.
CONSTANTS
    Runs = {r1}
    Outputs = {d1}
    Answers <- SomeAnswers
    Cases <- SomeCases
    MaxKills = 0
SPECIFICATION Spec
INVARIANTS
    InvalidJsonGoesToReview
