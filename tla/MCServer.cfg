\* More connections than permits, and more runs than run permits.
CONSTANTS
    Clients = {c1, c2, c3}
    HttpCapacity = 2
    RunCapacity = 1
SPECIFICATION FairSpec
INVARIANTS
    PermitsAreExact
    AnswersAreTrue
PROPERTIES
    ConnectionsEnd
