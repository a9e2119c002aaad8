-------------------------- MODULE MCEvidenceStore --------------------------
EXTENDS EvidenceStore

MCSourceOf == [e \in Items |-> CHOOSE s \in Sources : TRUE]
=============================================================================
