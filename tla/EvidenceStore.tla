--------------------------- MODULE EvidenceStore ---------------------------
(***************************************************************************)
(* Storage of sources and evidence: the content-addressed raw files of     *)
(* storage/objects.py, the immutable object and audit tables of            *)
(* storage/db.py, and the operations of service.py that use both, acquire, *)
(* extract and verify, as threads of one or several processes that may      *)
(* crash at any point.                                                     *)
(*                                                                         *)
(* A content and its SHA-256 address are one and the same here.  A database *)
(* transaction is one step: the code takes a lock and BEGIN IMMEDIATE.     *)
(***************************************************************************)
EXTENDS Integers, Sequences, FiniteSets

CONSTANTS
    Workers,     \* threads that acquire and extract
    Sources,     \* ids of SourceSpec records
    Items,       \* ids of EvidenceItem records
    SourceOf,    \* the source each item is extracted from
    Contents,    \* nonempty byte strings
    Times        \* values now() may return

ASSUME StoreAssumption ==
    /\ Sources \cap Items = {}
    /\ SourceOf \in [Items -> Sources]
    /\ Times \subseteq Nat \ {0}

Ids == Sources \cup Items

(* acquired_at is part of a source's payload; an item has none. *)
Undated  == 0
Payloads == [content : Contents, acquired : Times \cup {Undated}]

Unregistered == <<>>

VARIABLES
    files,     \* files[c]: the raw file at the address of c
    objects,   \* objects[id]: the registered payload
    audit,     \* the audit events of registrations, oldest first
    job,       \* job[w]: what worker w does
    check      \* a verification in progress

vars == <<files, objects, audit, job, check>>

Idle    == [at |-> "idle"]
Answers == {"stored", "conflict", "damaged", "missing", "failed"}

(* Files, records, events and jobs are in their ranges; evidence has no time. *)
TypeOK ==
    /\ files \in [Contents -> {"absent", "partial", "complete"}]
    /\ objects \in [Ids -> Payloads \cup {Unregistered}]
    /\ \A id \in Ids : objects[id] # Unregistered => (objects[id].acquired = Undated <=> id \in Items)
    /\ audit \in Seq([target : Ids, payload : Payloads])
    /\ \A w \in Workers :
         \/ job[w] = Idle
         \/ job[w] \in [at : {"create", "write", "lookup"} \cup Answers, id : Sources, content : Contents]
         \/ job[w] \in [at : {"read"} \cup Answers, id : Items]
         \/ job[w] \in [at : {"put"} \cup Answers, id : Ids, content : Contents,
                        acquired : Times \cup {Undated}]
    /\ check.at \in {"idle", "objects", "raw", "verified", "unaudited", "unreadable"}

Init ==
    /\ files = [c \in Contents |-> "absent"]
    /\ objects = [id \in Ids |-> Unregistered]
    /\ audit = <<>>
    /\ job = [w \in Workers |-> Idle]
    /\ check = [at |-> "idle"]

Free(w) == job[w].at \in {"idle"} \cup Answers

Goto(w, step) == job' = [job EXCEPT ![w].at = step]

---------------------------------------------------------------------------
(* Service.acquire.                                                        *)

Acquire(w, s, c) ==
    /\ Free(w)
    /\ job' = [job EXCEPT ![w] = [at |-> "create", id |-> s, content |-> c]]
    /\ UNCHANGED <<files, objects, audit, check>>

(* RawStore.put opens the file exclusively: it exists, empty, from now on. *)
Create(w) ==
    /\ job[w].at = "create"
    /\ files[job[w].content] = "absent"
    /\ files' = [files EXCEPT ![job[w].content] = "partial"]
    /\ Goto(w, "write")
    /\ UNCHANGED <<objects, audit, check>>

(* A plausible fault: a file that exists is taken to be complete. *)
RereadUnchecked(w) ==
    /\ job[w].at = "create"
    /\ files[job[w].content] # "absent"
    /\ Goto(w, "lookup")
    /\ UNCHANGED <<files, objects, audit, check>>

(* The file exists: it is read back and compared with its address. *)
Reread(w) ==
    /\ job[w].at = "create"
    /\ files[job[w].content] # "absent"
    /\ Goto(w, IF files[job[w].content] = "complete" THEN "lookup" ELSE "damaged")
    /\ UNCHANGED <<files, objects, audit, check>>

(* Written, flushed and synced; the file system may fail instead. *)
Write(w) ==
    /\ job[w].at = "write"
    /\ \/ /\ files' = [files EXCEPT ![job[w].content] = "complete"]
          /\ Goto(w, "lookup")
       \/ /\ UNCHANGED files
          /\ Goto(w, "failed")
    /\ UNCHANGED <<objects, audit, check>>

(* A known source keeps its acquired_at, so that acquiring it again is     *)
(* idempotent; a new one gets the current time.                            *)
Lookup(w) ==
    /\ job[w].at = "lookup"
    /\ LET old == objects[job[w].id]
       IN  \E t \in IF old = Unregistered THEN Times ELSE {old.acquired} :
             job' = [job EXCEPT ![w] = [at |-> "put", id |-> @.id, content |-> @.content, acquired |-> t]]
    /\ UNCHANGED <<files, objects, audit, check>>

---------------------------------------------------------------------------
(* Service.extract.                                                        *)

Extract(w, e) ==
    /\ Free(w)
    /\ job' = [job EXCEPT ![w] = [at |-> "read", id |-> e]]
    /\ UNCHANGED <<files, objects, audit, check>>

(* The value comes from the raw file of the registered source. *)
Read(w) ==
    /\ job[w].at = "read"
    /\ LET source == objects[SourceOf[job[w].id]]
       IN  \/ source = Unregistered /\ Goto(w, "missing")
           \/ /\ source # Unregistered
              /\ files[source.content] # "complete"
              /\ Goto(w, "damaged")
           \/ /\ source # Unregistered
              /\ files[source.content] = "complete"
              /\ job' = [job EXCEPT ![w] = [at |-> "put", id |-> @.id, content |-> source.content,
                                           acquired |-> Undated]]
    /\ UNCHANGED <<files, objects, audit, check>>

---------------------------------------------------------------------------
(* Database.put: one transaction.                                          *)

Submitted(w) == [content |-> job[w].content, acquired |-> job[w].acquired]

Insert(w) ==
    /\ objects[job[w].id] = Unregistered
    /\ objects' = [objects EXCEPT ![job[w].id] = Submitted(w)]
    /\ audit' = Append(audit, [target |-> job[w].id, payload |-> Submitted(w)])
    /\ Goto(w, "stored")

(* A plausible fault: the event is recorded before the payload is compared. *)
CompareAudited(w) ==
    /\ objects[job[w].id] # Unregistered
    /\ Goto(w, IF objects[job[w].id] = Submitted(w) THEN "stored" ELSE "conflict")
    /\ audit' = Append(audit, [target |-> job[w].id, payload |-> Submitted(w)])
    /\ UNCHANGED objects

(* A plausible fault: a registered payload is replaced. *)
CompareReplacing(w) ==
    /\ objects[job[w].id] # Unregistered
    /\ objects' = [objects EXCEPT ![job[w].id] = Submitted(w)]
    /\ Goto(w, "stored")
    /\ UNCHANGED audit

(* A plausible fault: an id that exists is stored, whatever its payload. *)
CompareIds(w) ==
    /\ objects[job[w].id] # Unregistered
    /\ Goto(w, "stored")
    /\ UNCHANGED <<objects, audit>>

(* The same payload again is a success, another one a conflict. *)
Compare(w) ==
    /\ objects[job[w].id] # Unregistered
    /\ Goto(w, IF objects[job[w].id] = Submitted(w) THEN "stored" ELSE "conflict")
    /\ UNCHANGED <<objects, audit>>

Put(w) ==
    /\ job[w].at = "put"
    /\ Insert(w) \/ Compare(w)
    /\ UNCHANGED <<files, check>>

---------------------------------------------------------------------------
(* Service.verify: the audit events, then the objects, then the raw files  *)
(* are read, each under the lock for itself.                               *)

VerifyAudit ==
    /\ check.at \notin {"objects", "raw"}
    /\ check' = [at |-> "objects", events |-> Len(audit)]
    /\ UNCHANGED <<files, objects, audit, job>>

VerifyObjects ==
    /\ check.at = "objects"
    /\ LET recorded == {audit[i] : i \in 1..check.events}
           listed   == {id \in Ids : objects[id] # Unregistered}
       IN  check' = [at |-> IF \A id \in listed : [target |-> id, payload |-> objects[id]] \in recorded
                            THEN "raw" ELSE "unaudited"]
    /\ UNCHANGED <<files, objects, audit, job>>

VerifyRaw ==
    /\ check.at = "raw"
    /\ LET listed == {s \in Sources : objects[s] # Unregistered}
       IN  check' = [at |-> IF \A s \in listed : files[objects[s].content] = "complete"
                            THEN "verified" ELSE "unreadable"]
    /\ UNCHANGED <<files, objects, audit, job>>

---------------------------------------------------------------------------
(* The process ends: files and committed transactions stay. *)
Crash ==
    /\ job' = [w \in Workers |-> Idle]
    /\ check' = [at |-> "idle"]
    /\ UNCHANGED <<files, objects, audit>>

Step(w) == Create(w) \/ Reread(w) \/ Write(w) \/ Lookup(w) \/ Read(w) \/ Put(w)

Request(w) ==
    \/ \E s \in Sources, c \in Contents : Acquire(w, s, c)
    \/ \E e \in Items : Extract(w, e)

Next ==
    \/ \E w \in Workers : Request(w) \/ Step(w)
    \/ VerifyAudit \/ VerifyObjects \/ VerifyRaw
    \/ Crash

(* A thread that has work to do is scheduled. *)
Fairness == \A w \in Workers : WF_vars(Step(w))

Spec     == Init /\ [][Next]_vars
FairSpec == Spec /\ Fairness

---------------------------------------------------------------------------
(* Properties.                                                             *)

(* "Content first": whatever crashes or runs at the same time, the raw     *)
(* bytes of a registered source are complete, and registered evidence was  *)
(* extracted from the bytes its source is registered with.                 *)
RegisteredIsReadable ==
    /\ \A s \in Sources : objects[s] # Unregistered => files[objects[s].content] = "complete"
    /\ \A e \in Items : objects[e] # Unregistered =>
         objects[SourceOf[e]] # Unregistered /\ objects[e].content = objects[SourceOf[e]].content

(* Objects and registration events correspond one to one.                  *)
AuditIsExact ==
    /\ \A id \in Ids : objects[id] # Unregistered =>
         \E i \in DOMAIN audit : audit[i] = [target |-> id, payload |-> objects[id]]
    /\ \A i \in DOMAIN audit : objects[audit[i].target] = audit[i].payload
    /\ \A i, j \in DOMAIN audit : audit[i].target = audit[j].target => i = j

(* A worker that is told "stored" has its id and content registered, also  *)
(* if another worker's insertion came first.                               *)
StoredMeansRegistered ==
    \A w \in Workers : job[w].at = "stored" =>
      objects[job[w].id] # Unregistered /\ objects[job[w].id].content = job[w].content

(* The store implements the append-only registry.                          *)
R == INSTANCE Registry WITH
       stored <- {c \in Contents : files[c] = "complete"},
       records <- objects, log <- audit,
       ContentOf <- LAMBDA p : p.content

ImplementsRegistry == R!Spec

(* docs: "if a later record is rejected ... the corrected import can be    *)
(* retried": bytes are found damaged only while somebody writes them.      *)
RetryFindsNoDebris ==
    [][\A w \in Workers :
         job[w].at = "create" /\ job'[w].at = "damaged" =>
           \E v \in Workers \ {w} : job[v].at = "write" /\ job[v].content = job[w].content]_vars

(* verify's error "Object has no corresponding audit event" is true.       *)
UnauditedIsTrue ==
    [][check'.at = "unaudited" =>
         \E id \in Ids : objects[id] # Unregistered /\
           [target |-> id, payload |-> objects[id]] \notin {audit[i] : i \in DOMAIN audit}]_vars
=============================================================================
