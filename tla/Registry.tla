------------------------------ MODULE Registry ------------------------------
(***************************************************************************)
(* What the evidence store promises, without threads, files or crashes:    *)
(* content is stored once and stays; a record is registered at most once,  *)
(* after the content it speaks of, together with its audit event; nothing  *)
(* is ever changed or removed ("append-only", docs/ARCHITECTURE.md).       *)
(***************************************************************************)
EXTENDS Sequences

CONSTANTS Ids, Contents, Payloads, ContentOf(_)

VARIABLES
    stored,    \* the contents that can be read back
    records,   \* records[id]: the payload registered under id, <<>> before
    log        \* the audit events of the registrations

Unregistered == <<>>

Init ==
    /\ stored = {}
    /\ records = [id \in Ids |-> Unregistered]
    /\ log = <<>>

Store(c) ==
    /\ c \notin stored
    /\ stored' = stored \cup {c}
    /\ UNCHANGED <<records, log>>

Register(id, p) ==
    /\ records[id] = Unregistered
    /\ ContentOf(p) \in stored
    /\ records' = [records EXCEPT ![id] = p]
    /\ log' = Append(log, [target |-> id, payload |-> p])
    /\ UNCHANGED stored

Next ==
    \/ \E c \in Contents : Store(c)
    \/ \E id \in Ids, p \in Payloads : Register(id, p)

Spec == Init /\ [][Next]_<<stored, records, log>>
=============================================================================
