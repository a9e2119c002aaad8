CONSTANTS
    \* Every graph on four nodes; one of them may have an unknown prerequisite.
    Nodes = {1, 2, 3, 4}
    Outside = {9}
    \* One named-set field: the fields are compared independently of each other.
    SetFields = {"populations"}
    Names = {"a", "b", "c"}
    NamesListed = {"a", "b"}
    Precisions = {"*", "fine", "coarse"}
    Assumptions = {"A"}
    Star = "*"
    Starts = {0, 2}
    Ends = {0, 2, 3}
    Moments = {0, 1, 2, 3, 4}
    \* Four pieces of evidence with any of three things in common.
    Refs = 4
    Tokens = {"raw", "key", "ancestor"}
    \* Chains and diamonds of derived evidence, before and after a cutoff.
    Items = 4
    Instants = {1, 2}
    \* A claim beneath the protocol's, a resolved link, a run behind a closure.
    NoRef = 0
    Kinds <- MCKinds
    Records <- MCRecords
    \* Ties, zero, one, values at a threshold; up to four tests in a family.
    Unit = 240
    Tests = 4
    PValues = {0, 12, 24, 48, 240}
    Levels = {24, 48, 60}
    \* A network in which the first shortest path stands in the way.
    Source = 1
    Sink = 6
    Junctions = {1, 2, 3, 4, 5, 6}
    Pipes <- MCPipes
    Capacities = {0, 1, 2}
SPECIFICATION Spec
INVARIANTS
    OrderIsCorrect
    SearchIsCorrect
    WithinIsContainment
    ClustersAreComponents
    LineageIsSound
    SnapshotReplays
    AdjustmentIsCorrect
    FlowIsMaximal
PROPERTIES
    SupportIsInherited
\* A query is answered, and that is all.
CHECK_DEADLOCK FALSE
