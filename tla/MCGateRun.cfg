\* Every outcome of every gate, in the engine's order; the run ends once it is recorded or lost.
CONSTANTS
    Order <- MCOrder
    Plans <- MCPlans
SPECIFICATION Spec
INVARIANTS
    TypeOK
    PromotionNeedsEveryGate
    CertificateIsExhaustive
    PromotionIsRobust
    FirewallHolds
    RefutationFitsQuantifier
    FalsificationIsGenuine
    ValidityIsNotMasked
    AnalysisIsSetWhenUsed
    ReleaseIsConclusive
CHECK_DEADLOCK FALSE
