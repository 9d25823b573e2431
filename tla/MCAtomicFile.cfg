\* Two calls of write_report, or of write_manifest_atomic, on the same paths.
CONSTANTS
    Writers = {w1, w2}
    Jobs <- BothJobs
SPECIFICATION Spec
INVARIANTS
    NeverTorn
    NewerFirst
    ReturnedMeansInPlace
    NoLeftovers
