\* A contradiction of a claim beneath the promoted one.
CONSTANTS
    SetFields = {"populations"}
    Names = {"x", "y"}
    Precisions = {"*", "fine"}
    Assumptions = {}
    Star = "*"
    Claims = {"a", "b", "c"}
    Evidence = {"e1", "e2"}
    Protocols = {"pa", "pb", "pc"}
    MaxRuns = 3
    Studies <- OneStudy
    Links <- MCLinks
SPECIFICATION Spec
INVARIANTS
    ContradictionsAreGlobal
CHECK_DEADLOCK FALSE
