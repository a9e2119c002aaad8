------------------------------ MODULE MCBackup ------------------------------
EXTENDS Backup, TLC

MCSourceOf == [e \in Items |-> CHOOSE s \in Sources : TRUE]

Threads == Permutations(Workers)
=============================================================================
