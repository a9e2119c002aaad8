\* An objection filed while the proof packet is written.
CONSTANTS
    Threads = {t1, t2}
    People = {a, b, c}
    Links = {}
    RequiredReviewers = 1
    HighImpact = FALSE
    MaxRuns = 1
    MaxReviews = 2
    MaxPackets = 1
    MaxCode = 1
SPECIFICATION Spec
SYMMETRY Interchangeable
INVARIANTS
    ObjectionBlocksRelease
