\* Two requests at a time; one reviewer is enough, the code may change.
CONSTANTS
    Threads = {t1, t2}
    People = {a, b, c}
    Links = {l1}
    RequiredReviewers = 1
    HighImpact = FALSE
    MaxRuns = 1
    MaxReviews = 2
    MaxPackets = 1
    MaxCode = 2
SPECIFICATION Spec
SYMMETRY Interchangeable
INVARIANTS
    RecordsAreOrdered
    LateEvidenceBlocks
    ReleaseIsReviewed
    PacketCoversRelease
