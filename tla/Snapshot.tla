------------------------------ MODULE Snapshot ------------------------------
(***************************************************************************)
(* What a protocol freezes and a proof packet carries: the records it      *)
(* rests on (storage/db.py references, service.py collect), and their      *)
(* replay into an empty store (proof/packet.py reproduce_packet).          *)
(*                                                                         *)
(* A store is a function from ids to records of kind, one (the reference   *)
(* of a field named _ref that collect looks at, NoRef if there is none),   *)
(* refs (the other references of _ref and _refs fields and the mandatory   *)
(* dependencies) and routes (proof_routes).                                *)
(***************************************************************************)
EXTENDS Integers, FiniteSets, Sequences

CONSTANT NoRef

(* Records the service writes itself, whose references nobody checks. *)
Managed == {"ReviewRecord", "RunRecord"}

References(record) ==
    (record.refs \cup {record.one} \cup UNION {record.routes[i] : i \in DOMAIN record.routes}) \ {NoRef}

(* The references a record must have to be inserted. *)
Checked(record) == IF record.kind \in Managed THEN {} ELSE References(record)

(* Those of a kind that are about a record: links of a claim, resolutions of a link. *)
About(store, kind, ref) == {r \in DOMAIN store : store[r].kind = kind /\ store[r].one = ref}

(* What the visit of a record visits next. *)
Visits(store, ref) ==
    Checked(store[ref]) \cup
    (IF store[ref].kind # "ClaimSpec" THEN {}
     ELSE LET links == About(store, "EvidenceLink", ref)
          IN  links \cup UNION {About(store, "ResolutionSpec", l) : l \in links})

(* The records visited from ref. *)
Collect(store, ref) ==
    LET visited[k \in 0..Cardinality(DOMAIN store)] ==
          IF k = 0 THEN {ref}
          ELSE visited[k - 1] \cup UNION {Visits(store, r) : r \in visited[k - 1]}
    IN  visited[Cardinality(DOMAIN store)]

(* freeze: the records collected and the last run of each of their claims  *)
(* but the protocol's own; records are numbered in the order of their      *)
(* registration.                                                           *)
Frozen(store, protocol) ==
    LET entries == Collect(store, protocol)
        runs    == {About(store, "RunRecord", c) : c \in
                      {r \in entries : store[r].kind = "ClaimSpec"} \ {store[protocol].one}}
    IN  entries \cup {CHOOSE r \in mine : \A s \in mine : s <= r : mine \in runs \ {{}}}

(* A plausible fault: replay asks for the references of every record. *)
RegistrableAll(store, entries, done) ==
    {r \in entries \ done : References(store[r]) \subseteq done}

(* The pending entries a pass of the replay loop can register, when those  *)
(* in done are: it tries them in the order of the packet, until a pass     *)
(* registers none.                                                         *)
Registrable(store, entries, done) ==
    {r \in entries \ done : Checked(store[r]) \subseteq done}

(* "Proof snapshot has dangling or cyclic references" *)
Stuck(store, entries, done) ==
    done # entries /\ Registrable(store, entries, done) = {}
=============================================================================
