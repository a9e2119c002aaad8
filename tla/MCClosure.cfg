CONSTANTS
    Events <- MCEvents
    Entities <- MCEntities
    Chronologies <- MCChronologies
    Protocols <- MCProtocols
    ScopeIds <- MCScopeIds
    Inside <- MCInside
    MaxRuns = 4
SPECIFICATION Spec
INVARIANTS
    FeedbackIsUnrolled
    EdgesEstimateThePath
    CertificateNeverWidens
\* The bound on runs ends every behaviour.
CHECK_DEADLOCK FALSE
