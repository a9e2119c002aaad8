\* Two threads on one source that comes in two versions, one backup.
CONSTANTS
    Workers = {w1, w2}
    Sources = {s1}
    Items = {e1}
    SourceOf <- MCSourceOf
    Contents = {"x", "y"}
    Times = {1, 2}
SPECIFICATION BackupSpec
SYMMETRY Threads
INVARIANTS
    RegisteredIsReadable
    AuditIsExact
    StoredMeansRegistered
    BackupRestores
    RestoredIsPast
PROPERTIES
    ImplementsRegistry
