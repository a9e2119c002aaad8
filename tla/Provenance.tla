----------------------------- MODULE Provenance -----------------------------
(***************************************************************************)
(* Where evidence comes from (graphs/provenance.py): every item of         *)
(* evidence has a source and may have parents.  Registration compares an   *)
(* item with its direct parents only; a run asks for the whole lineage.    *)
(*                                                                         *)
(* A store is a function from ids to records of kind, parents (parent_refs), *)
(* source (source_ref of evidence) and known_at.                           *)
(***************************************************************************)
EXTENDS Integers

(* The kinds that may be in a lineage. *)
Lineal == {"SourceSpec", "EvidenceItem"}

ParentsOf(item) ==
    IF item.kind = "EvidenceItem" THEN item.parents \cup {item.source} ELSE item.parents

NotBefore(item, parent) == parent.known_at <= item.known_at

(* A plausible fault: derived evidence is compared with its source only. *)
AdmissibleBySource(store, item) ==
    /\ item.kind = "SourceSpec" =>
         \A p \in item.parents : store[p].kind = "SourceSpec" /\ NotBefore(item, store[p])
    /\ item.kind = "EvidenceItem" =>
         store[item.source].kind = "SourceSpec" /\ NotBefore(item, store[item.source])

(* What acquire asks of a source and register of evidence.  The parents of *)
(* evidence may be anything that has a time of knowledge.                  *)
Admissible(store, item) ==
    /\ item.kind = "SourceSpec" =>
         \A p \in item.parents : store[p].kind = "SourceSpec" /\ NotBefore(item, store[p])
    /\ item.kind = "EvidenceItem" =>
         /\ store[item.source].kind = "SourceSpec"
         /\ \A p \in ParentsOf(item) : NotBefore(item, store[p])

(* ancestors: the lineage of ref, itself included; an error for one of     *)
(* another kind and for one met again beneath itself.                      *)
Ancestors(store, ref) ==
    LET visit[at \in (SUBSET DOMAIN store) \X DOMAIN store] ==
          LET active == at[1]
              r      == at[2]
              above  == {visit[<<active \cup {r}, p>>] : p \in ParentsOf(store[r])}
          IN  IF r \in active \/ store[r].kind \notin Lineal
              THEN [found |-> {}, error |-> TRUE]
              ELSE [found |-> {r} \cup UNION {v.found : v \in above},
                    error |-> \E v \in above : v.error]
    IN  visit[<<{}, ref>>]

(* verify_evidence: whether the lineage of ref is accepted at a cutoff.    *)
(* What is in broken can no longer be read, or extracted as recorded.      *)
Verified(store, broken, ref, cutoff) ==
    LET lineage == Ancestors(store, ref)
    IN  /\ ~ lineage.error
        /\ \A r \in lineage.found :
             /\ store[r].known_at <= cutoff
             /\ r \notin broken
             /\ store[r].kind = "EvidenceItem" =>
                  \A p \in ParentsOf(store[r]) : NotBefore(store[r], store[p])
        /\ \E r \in lineage.found : store[r].kind = "SourceSpec"
=============================================================================
