\* Chains and alternatives of claims, links and resolutions at any time.
CONSTANTS
    SetFields = {"populations"}
    Names = {"x", "y"}
    Precisions = {"*", "fine"}
    Assumptions = {}
    Star = "*"
    Claims = {"a", "b", "c"}
    Evidence = {"e1", "e2"}
    Protocols = {"pa", "pb", "pc"}
    MaxRuns = 3
    Studies <- MCStudies
    Links <- MCLinks
SPECIFICATION Spec
INVARIANTS
    SelectedIsActive
    ProofIsWellFounded
    ScopeNeverWidens
    SupportIsComplete
    ReplayAgrees
CHECK_DEADLOCK FALSE
