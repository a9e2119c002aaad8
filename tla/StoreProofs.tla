---------------------------- MODULE StoreProofs ----------------------------
(***************************************************************************)
(* Proofs about the evidence store and its backup, for any number of       *)
(* threads, sources, items and contents, and any interleaving and crashes: *)
(* the store's safety, that it implements the append-only registry, and    *)
(* that every complete backup restores to a moment of the past.            *)
(***************************************************************************)
EXTENDS Backup, SequenceTheorems, TLAPS

---------------------------------------------------------------------------
(* The inductive invariant of the store.                                   *)

JobSpec ==
    {Idle} \cup
    [at : {"create", "write", "lookup"} \cup Answers, id : Sources, content : Contents] \cup
    [at : {"read"} \cup Answers, id : Items] \cup
    [at : {"put"} \cup Answers, id : Ids, content : Contents, acquired : Times \cup {Undated}]

Typed ==
    /\ files \in [Contents -> {"absent", "partial", "complete"}]
    /\ objects \in [Ids -> Payloads \cup {Unregistered}]
    /\ \A id \in Ids : objects[id] # Unregistered => (objects[id].acquired = Undated <=> id \in Items)
    /\ audit \in Seq([target : Ids, payload : Payloads])
    /\ job \in [Workers -> JobSpec]
    /\ check.at \in {"idle", "objects", "raw", "verified", "unaudited", "unreadable"}

(* What a thread has seen to before it goes on: the bytes are in place     *)
(* when a source is put, the source when evidence is.                      *)
ReadyToPut(j) ==
    /\ j.at = "lookup" => files[j.content] = "complete"
    /\ j.at = "put" /\ j.id \in Sources => files[j.content] = "complete" /\ j.acquired # Undated
    /\ j.at = "put" /\ j.id \in Items =>
         /\ j.acquired = Undated
         /\ objects[SourceOf[j.id]] # Unregistered
         /\ objects[SourceOf[j.id]].content = j.content

Prepared == \A w \in Workers : ReadyToPut(job[w])

IInv == Typed /\ Prepared /\ RegisteredIsReadable /\ AuditIsExact /\ StoredMeansRegistered

(* A payload is not the mark of what is not registered.                    *)
LEMMA PayloadsAreRegistered == \A p \in Payloads : p # Unregistered
  BY DEF Payloads, Unregistered

(* What no step ever undoes.                                               *)
Grows ==
    /\ \A c \in Contents : files[c] = "complete" => files'[c] = "complete"
    /\ \A id \in Ids : objects[id] # Unregistered => objects'[id] = objects[id]

LEMMA StepGrows == ASSUME Typed, [Next]_vars PROVE Grows
<1>1. ASSUME NEW w \in Workers, Create(w) PROVE Grows
  BY <1>1 DEF Create, Typed, Grows
<1>2. ASSUME NEW w \in Workers, Write(w) PROVE Grows
  BY <1>2 DEF Write, Typed, Grows
<1>3. ASSUME NEW w \in Workers, Put(w) PROVE Grows
  BY <1>3 DEF Put, Insert, Compare, Typed, Grows
<1>4. CASE UNCHANGED <<files, objects>>
  BY <1>4 DEF Grows
<1> QED
  BY <1>1, <1>2, <1>3, <1>4 DEF Next, Step, Request, Acquire, Extract, Reread, Lookup, Read,
       VerifyAudit, VerifyObjects, VerifyRaw, Crash, vars

(* A job is one of its kinds, at each point of an operation.               *)
LEMMA JobKinds ==
  ASSUME NEW j \in JobSpec
  PROVE  /\ j.at \in {"create", "write", "lookup"} => j.id \in Sources /\ j.content \in Contents
         /\ j.at = "read" => j.id \in Items
         /\ j.at = "put" => j.id \in Ids /\ j.content \in Contents /\ j.acquired \in Times \cup {Undated}
         /\ j.at # "idle" => j.id \in Ids
  BY DEF JobSpec, Idle, Answers, Ids

(* A job that goes on to another point keeps what it is about.             *)
LEMMA JobGoesOn ==
  ASSUME NEW j \in JobSpec, NEW step,
         \/ j.at \in {"create", "write", "lookup"} /\ step \in {"write", "lookup"} \cup Answers
         \/ j.at = "read" /\ step \in Answers
         \/ j.at = "put" /\ step \in Answers
  PROVE  LET k == [j EXCEPT !.at = step]
         IN  /\ k \in JobSpec /\ k.at = step /\ k.id = j.id
             /\ j.at # "read" => k.content = j.content
<1>1. CASE j.at \in {"create", "write", "lookup"} /\ step \in {"write", "lookup"} \cup Answers
  <2>1. j \in [at : {"create", "write", "lookup"} \cup Answers, id : Sources, content : Contents]
    BY <1>1 DEF JobSpec, Idle, Answers
  <2> QED
    BY <1>1, <2>1 DEF JobSpec
<1>2. CASE j.at = "read" /\ step \in Answers
  <2>1. j \in [at : {"read"} \cup Answers, id : Items]
    BY <1>2 DEF JobSpec, Idle, Answers
  <2> QED
    BY <1>2, <2>1 DEF JobSpec
<1>3. CASE j.at = "put" /\ step \in Answers
  <2>1. j \in [at : {"put"} \cup Answers, id : Ids, content : Contents, acquired : Times \cup {Undated}]
    BY <1>3 DEF JobSpec, Idle, Answers
  <2> QED
    BY <1>3, <2>1 DEF JobSpec
<1> QED
  BY <1>1, <1>2, <1>3

(* What a thread has seen to stays so.                                     *)
LEMMA ReadyStays ==
  ASSUME Grows, NEW j \in JobSpec, ReadyToPut(j)
  PROVE  ReadyToPut(j)'
<1>1. j.at \in {"lookup", "put"} => j.content \in Contents
  BY JobKinds
<1>2. j.at = "put" /\ j.id \in Items => SourceOf[j.id] \in Ids
  BY StoreAssumption DEF Ids
<1> QED
  BY <1>1, <1>2 DEF ReadyToPut, Grows

(* One thread moves, and is ready for what it comes to.                    *)
LEMMA OneMoves ==
  ASSUME Typed, Prepared, Grows, NEW w \in Workers, NEW j \in JobSpec,
         job' = [job EXCEPT ![w] = j], ReadyToPut(j)'
  PROVE  job' \in [Workers -> JobSpec] /\ Prepared'
<1>1. job' \in [Workers -> JobSpec]
  BY DEF Typed
<1>2. ASSUME NEW v \in Workers, v # w PROVE ReadyToPut(job[v])' /\ job'[v] = job[v]
  <2>1. PICK k : k = job[v]
    OBVIOUS
  <2>2. k \in JobSpec /\ ReadyToPut(k) /\ job'[v] = k
    BY <1>2, <2>1 DEF Typed, Prepared
  <2>3. ReadyToPut(k)'
    BY <2>2, ReadyStays
  <2> QED
    BY <2>1, <2>2, <2>3
<1>3. job'[w] = j
  BY DEF Typed
<1> QED
  BY <1>1, <1>2, <1>3 DEF Prepared

(* A request, and the steps that come before a registration.               *)
LEMMA RequestStep ==
  ASSUME Typed, Prepared, Grows, NEW w \in Workers, Request(w)
  PROVE  job' \in [Workers -> JobSpec] /\ Prepared'
<1>1. ASSUME NEW s \in Sources, NEW c \in Contents, Acquire(w, s, c)
      PROVE  job' \in [Workers -> JobSpec] /\ Prepared'
  <2>1. PICK j : j = [at |-> "create", id |-> s, content |-> c]
    OBVIOUS
  <2>2. j \in JobSpec /\ ReadyToPut(j)'
    BY <2>1 DEF JobSpec, ReadyToPut
  <2> QED
    BY <1>1, <2>1, <2>2, OneMoves DEF Acquire
<1>2. ASSUME NEW e \in Items, Extract(w, e)
      PROVE  job' \in [Workers -> JobSpec] /\ Prepared'
  <2>1. PICK j : j = [at |-> "read", id |-> e]
    OBVIOUS
  <2>2. j \in JobSpec /\ ReadyToPut(j)'
    BY <2>1 DEF JobSpec, ReadyToPut
  <2> QED
    BY <1>2, <2>1, <2>2, OneMoves DEF Extract
<1> QED
  BY <1>1, <1>2 DEF Request

LEMMA CreateStep ==
  ASSUME Typed, Prepared, Grows, NEW w \in Workers, Create(w)
  PROVE  job' \in [Workers -> JobSpec] /\ Prepared' /\ files' \in [Contents -> {"absent", "partial", "complete"}]
<1>1. PICK j : j = [job[w] EXCEPT !.at = "write"]
  OBVIOUS
<1>2. job[w] \in JobSpec /\ job[w].at = "create" /\ job' = [job EXCEPT ![w] = j]
  BY <1>1 DEF Create, Goto, Typed
<1>3. j \in JobSpec /\ j.at = "write"
  BY <1>1, <1>2, JobGoesOn
<1>4. ReadyToPut(j)'
  BY <1>3 DEF ReadyToPut
<1>5. files' \in [Contents -> {"absent", "partial", "complete"}]
  BY DEF Create, Typed
<1> QED
  BY <1>2, <1>3, <1>4, <1>5, OneMoves

LEMMA RereadStep ==
  ASSUME Typed, Prepared, Grows, NEW w \in Workers, Reread(w)
  PROVE  job' \in [Workers -> JobSpec] /\ Prepared'
<1>1. PICK j : j = [job[w] EXCEPT !.at = IF files[job[w].content] = "complete" THEN "lookup" ELSE "damaged"]
  OBVIOUS
<1>2. job[w] \in JobSpec /\ job[w].at = "create" /\ job' = [job EXCEPT ![w] = j]
  BY <1>1 DEF Reread, Goto, Typed
<1>3. /\ j \in JobSpec /\ j.content = job[w].content
      /\ j.at = IF files[job[w].content] = "complete" THEN "lookup" ELSE "damaged"
  BY <1>1, <1>2, JobGoesOn DEF Answers
<1>4. ReadyToPut(j)'
  BY <1>3 DEF ReadyToPut, Reread
<1> QED
  BY <1>2, <1>3, <1>4, OneMoves

LEMMA WriteStep ==
  ASSUME Typed, Prepared, Grows, NEW w \in Workers, Write(w)
  PROVE  job' \in [Workers -> JobSpec] /\ Prepared' /\ files' \in [Contents -> {"absent", "partial", "complete"}]
<1>1. PICK step \in {"lookup", "failed"} :
        /\ job' = [job EXCEPT ![w].at = step]
        /\ \/ step = "lookup" /\ files' = [files EXCEPT ![job[w].content] = "complete"]
           \/ step = "failed" /\ UNCHANGED files
  BY DEF Write, Goto
<1>2. PICK j : j = [job[w] EXCEPT !.at = step]
  OBVIOUS
<1>3. job[w] \in JobSpec /\ job[w].at = "write" /\ job' = [job EXCEPT ![w] = j]
  BY <1>1, <1>2 DEF Write, Typed
<1>4. j \in JobSpec /\ j.content = job[w].content /\ j.at = step /\ job[w].content \in Contents
  BY <1>2, <1>3, JobGoesOn, JobKinds DEF Answers
<1>5. ReadyToPut(j)'
  BY <1>1, <1>4 DEF ReadyToPut, Typed
<1>6. files' \in [Contents -> {"absent", "partial", "complete"}]
  BY <1>1 DEF Typed
<1> QED
  BY <1>3, <1>4, <1>5, <1>6, OneMoves

LEMMA LookupStep ==
  ASSUME Typed, Prepared, Grows, NEW w \in Workers, Lookup(w)
  PROVE  job' \in [Workers -> JobSpec] /\ Prepared'
<1>1. job[w] \in JobSpec /\ job[w].at = "lookup" /\ job[w].id \in Sources /\ job[w].content \in Contents
  BY JobKinds DEF Lookup, Typed
<1>2. PICK t \in IF objects[job[w].id] = Unregistered THEN Times ELSE {objects[job[w].id].acquired} :
        job' = [job EXCEPT ![w] = [at |-> "put", id |-> job[w].id, content |-> job[w].content, acquired |-> t]]
  BY DEF Lookup, Typed
<1>3. t \in Times \cup {Undated} /\ t # Undated
  <2>1. CASE objects[job[w].id] = Unregistered
    BY <1>2, <2>1, StoreAssumption DEF Undated
  <2>2. CASE objects[job[w].id] # Unregistered
    BY <1>1, <1>2, <2>2, StoreAssumption DEF Typed, Payloads, Ids
  <2> QED
    BY <2>1, <2>2
<1>4. PICK j : j = [at |-> "put", id |-> job[w].id, content |-> job[w].content, acquired |-> t]
  OBVIOUS
<1>5. j \in JobSpec
  BY <1>1, <1>3, <1>4 DEF JobSpec, Ids
<1>6. files[job[w].content] = "complete" /\ files' = files
  BY <1>1 DEF Lookup, Prepared, ReadyToPut
<1>7. ReadyToPut(j)'
  BY <1>1, <1>3, <1>4, <1>6, StoreAssumption DEF ReadyToPut
<1> QED
  BY <1>2, <1>4, <1>5, <1>7, OneMoves

LEMMA ReadStep ==
  ASSUME Typed, Prepared, Grows, NEW w \in Workers, Read(w)
  PROVE  job' \in [Workers -> JobSpec] /\ Prepared'
<1>1. job[w] \in JobSpec /\ job[w].at = "read" /\ job[w].id \in Items /\ SourceOf[job[w].id] \in Ids
  BY JobKinds, StoreAssumption DEF Read, Typed, Ids
<1>2. CASE Goto(w, "missing") \/ Goto(w, "damaged")
  <2>1. PICK step \in {"missing", "damaged"} : Goto(w, step)
    BY <1>2
  <2>2. PICK j : j = [job[w] EXCEPT !.at = step]
    OBVIOUS
  <2>3. j \in JobSpec /\ j.at = step /\ job' = [job EXCEPT ![w] = j]
    BY <1>1, <2>1, <2>2, JobGoesOn DEF Goto, Typed, Answers
  <2>4. ReadyToPut(j)'
    BY <2>3 DEF ReadyToPut
  <2> QED
    BY <2>3, <2>4, OneMoves
<1>3. CASE /\ objects[SourceOf[job[w].id]] # Unregistered
           /\ job' = [job EXCEPT ![w] = [at |-> "put", id |-> job[w].id,
                         content |-> objects[SourceOf[job[w].id]].content, acquired |-> Undated]]
  <2>1. PICK j : j = [at |-> "put", id |-> job[w].id,
                      content |-> objects[SourceOf[job[w].id]].content, acquired |-> Undated]
    OBVIOUS
  <2>2. j \in JobSpec
    BY <1>1, <1>3, <2>1 DEF JobSpec, Typed, Payloads, Ids
  <2>3. ReadyToPut(j)'
    BY <1>1, <1>3, <2>1, StoreAssumption DEF ReadyToPut, Read
  <2> QED
    BY <1>3, <2>1, <2>2, <2>3, OneMoves
<1> QED
  BY <1>2, <1>3 DEF Read, Typed

---------------------------------------------------------------------------
(* The steps that register, and what the others leave as it is.            *)

LEMMA ReadableStays ==
  ASSUME Typed, RegisteredIsReadable, Grows, objects' = objects
  PROVE  RegisteredIsReadable'
<1>1. \A s \in Sources : objects[s] # Unregistered => objects[s].content \in Contents
  BY DEF Typed, Payloads, Ids
<1> QED
  BY <1>1 DEF RegisteredIsReadable, Grows

LEMMA StoredStays ==
  ASSUME Typed, StoredMeansRegistered, Grows,
         \A v \in Workers : job'[v].at = "stored" => job'[v] = job[v]
  PROVE  StoredMeansRegistered'
<1> SUFFICES ASSUME NEW v \in Workers, job'[v].at = "stored"
             PROVE  objects'[job'[v].id] # Unregistered /\ objects'[job'[v].id].content = job'[v].content
  BY DEF StoredMeansRegistered
<1>1. job'[v] = job[v] /\ job[v].at = "stored" /\ job[v] \in JobSpec
  BY DEF Typed
<1>2. job[v].id \in Ids
  BY <1>1, JobKinds
<1> QED
  BY <1>1, <1>2 DEF StoredMeansRegistered, Grows

(* Sources and evidence under one id: which payloads a put may carry.      *)
LEMMA SubmittedIsDated ==
  ASSUME NEW w \in Workers, IInv, Put(w)
  PROVE  /\ job[w].id \in Ids /\ Submitted(w) \in Payloads
         /\ Submitted(w).acquired = Undated <=> job[w].id \in Items
         /\ Submitted(w).content = job[w].content
<1>1. job[w] \in JobSpec /\ job[w].at = "put"
  BY DEF IInv, Typed, Put
<1>2. job[w].id \in Ids /\ Submitted(w) \in Payloads
  BY <1>1, JobKinds DEF Submitted, Payloads
<1>3. ReadyToPut(job[w])
  BY DEF IInv, Prepared
<1> QED
  BY <1>1, <1>2, <1>3, StoreAssumption DEF ReadyToPut, Submitted, Ids

(* Appending to a log.                                                     *)
LEMMA LogGrows ==
  ASSUME NEW S, NEW log \in Seq(S), NEW e \in S
  PROVE  /\ Len(log) \in Nat /\ DOMAIN log = 1..Len(log)
         /\ Len(Append(log, e)) = Len(log) + 1 /\ DOMAIN Append(log, e) = 1..(Len(log) + 1)
         /\ \A i \in 1..Len(log) : Append(log, e)[i] = log[i] /\ log[i] \in S
         /\ Append(log, e)[Len(log) + 1] = e
  OBVIOUS

LEMMA InsertStep ==
  ASSUME NEW w \in Workers, IInv, Grows, Put(w), Insert(w)
  PROVE  IInv'
<1>1. PICK id, p, new :
        /\ id = job[w].id
        /\ p = Submitted(w)
        /\ new = [job[w] EXCEPT !.at = "stored"]
  OBVIOUS
<1>2. /\ id \in Ids /\ p \in Payloads /\ p # Unregistered
      /\ p.acquired = Undated <=> id \in Items
      /\ p.content = job[w].content
  BY <1>1, SubmittedIsDated, PayloadsAreRegistered
<1>3. /\ objects[id] = Unregistered
      /\ objects' = [objects EXCEPT ![id] = p]
      /\ audit' = Append(audit, [target |-> id, payload |-> p])
      /\ job' = [job EXCEPT ![w] = new]
      /\ files' = files /\ check' = check
  BY <1>1 DEF Put, Insert, Goto, IInv, Typed
<1>4. job[w] \in JobSpec /\ job[w].at = "put" /\ ReadyToPut(job[w])
  BY DEF IInv, Typed, Prepared, Put
<1>5. new \in JobSpec /\ new.at = "stored" /\ new.id = id /\ new.content = p.content
  BY <1>1, <1>2, <1>4, JobGoesOn DEF Answers
<1>6. job' \in [Workers -> JobSpec] /\ Prepared'
  <2>1. ReadyToPut(new)'
    BY <1>5 DEF ReadyToPut
  <2> QED
    BY <1>3, <1>5, <2>1, OneMoves DEF IInv
<1>7. objects'[id] = p /\ \A i \in Ids \ {id} : objects'[i] = objects[i]
  BY <1>2, <1>3 DEF IInv, Typed
<1>8. Typed'
  <2>1. objects' \in [Ids -> Payloads \cup {Unregistered}]
    BY <1>2, <1>3 DEF IInv, Typed
  <2>2. \A i \in Ids : objects'[i] # Unregistered => (objects'[i].acquired = Undated <=> i \in Items)
    BY <1>2, <1>7 DEF IInv, Typed
  <2>3. audit' \in Seq([target : Ids, payload : Payloads])
    BY <1>2, <1>3 DEF IInv, Typed
  <2> QED
    BY <1>3, <1>6, <2>1, <2>2, <2>3 DEF IInv, Typed
<1>9. RegisteredIsReadable'
  <2>1. ASSUME NEW s \in Sources, objects'[s] # Unregistered
        PROVE  files'[objects'[s].content] = "complete"
    <3>1. CASE s = id
      BY <1>1, <1>2, <1>3, <1>4, <1>7, <3>1 DEF ReadyToPut
    <3>2. CASE s # id
      BY <1>3, <1>7, <2>1, <3>2 DEF IInv, RegisteredIsReadable, Ids
    <3> QED
      BY <3>1, <3>2
  <2>2. ASSUME NEW e \in Items, objects'[e] # Unregistered
        PROVE  objects'[SourceOf[e]] # Unregistered /\ objects'[e].content = objects'[SourceOf[e]].content
    <3>1. objects[SourceOf[e]] # Unregistered /\ objects'[e].content = objects[SourceOf[e]].content
      <4>1. CASE e = id
        BY <1>1, <1>2, <1>4, <1>7, <4>1 DEF ReadyToPut
      <4>2. CASE e # id
        BY <1>7, <2>2, <4>2 DEF IInv, RegisteredIsReadable, Ids
      <4> QED
        BY <4>1, <4>2
    <3>2. SourceOf[e] \in Ids
      BY StoreAssumption DEF Ids
    <3> QED
      BY <3>1, <3>2 DEF Grows
  <2> QED
    BY <2>1, <2>2 DEF RegisteredIsReadable
<1>10. AuditIsExact'
  <2>1. PICK n \in Nat : n = Len(audit)
    BY DEF IInv, Typed
  <2>2. /\ DOMAIN audit = 1..n /\ DOMAIN audit' = 1..(n + 1)
        /\ \A i \in 1..n :
             audit'[i] = audit[i] /\ audit[i].target \in Ids /\ audit[i].payload \in Payloads
        /\ audit'[n + 1] = [target |-> id, payload |-> p]
    <3>1. PICK Events : Events = [target : Ids, payload : Payloads]
      OBVIOUS
    <3>2. PICK e : e = [target |-> id, payload |-> p]
      OBVIOUS
    <3>3. audit \in Seq(Events) /\ e \in Events /\ audit' = Append(audit, e)
      BY <1>2, <1>3, <3>1, <3>2 DEF IInv, Typed
    <3>4. /\ DOMAIN audit = 1..n /\ DOMAIN audit' = 1..(n + 1)
          /\ \A i \in 1..n : audit'[i] = audit[i] /\ audit[i] \in Events
          /\ audit'[n + 1] = e
      BY <2>1, <3>3, LogGrows
    <3>5. \A event \in Events : event.target \in Ids /\ event.payload \in Payloads
      BY <3>1
    <3> QED
      BY <3>2, <3>4, <3>5
  <2>3. \A i \in 1..n : audit[i].target # id
    <3> SUFFICES ASSUME NEW i \in 1..n, audit[i].target = id PROVE FALSE
      OBVIOUS
    <3>1. audit[i].payload \in Payloads /\ objects[id] = audit[i].payload
      BY <2>2 DEF IInv, AuditIsExact
    <3> QED
      BY <1>3, <3>1, PayloadsAreRegistered
  <2>4. ASSUME NEW i \in Ids, objects'[i] # Unregistered
        PROVE  \E k \in DOMAIN audit' : audit'[k] = [target |-> i, payload |-> objects'[i]]
    <3>1. CASE i = id
      BY <1>7, <2>2, <3>1
    <3>2. CASE i # id
      <4>1. PICK k \in 1..n : audit[k] = [target |-> i, payload |-> objects[i]]
        BY <1>7, <2>2, <2>4, <3>2 DEF IInv, AuditIsExact
      <4> QED
        BY <1>7, <2>2, <3>2, <4>1
    <3> QED
      BY <3>1, <3>2
  <2>5. ASSUME NEW i \in DOMAIN audit' PROVE objects'[audit'[i].target] = audit'[i].payload
    <3>1. CASE i = n + 1
      BY <1>7, <2>2, <3>1
    <3>2. CASE i \in 1..n
      BY <1>7, <2>2, <2>3, <3>2 DEF IInv, AuditIsExact
    <3> QED
      BY <2>2, <3>1, <3>2
  <2>6. ASSUME NEW i \in DOMAIN audit', NEW k \in DOMAIN audit', audit'[i].target = audit'[k].target
        PROVE  i = k
    <3>1. CASE i \in 1..n /\ k \in 1..n
      BY <2>2, <2>6, <3>1 DEF IInv, AuditIsExact
    <3>2. CASE i = n + 1 \/ k = n + 1
      BY <2>2, <2>3, <2>6, <3>2
    <3> QED
      BY <2>2, <3>1, <3>2
  <2> QED
    BY <2>4, <2>5, <2>6 DEF AuditIsExact
<1>11. StoredMeansRegistered'
  <2> SUFFICES ASSUME NEW v \in Workers, job'[v].at = "stored"
               PROVE  objects'[job'[v].id] # Unregistered /\ objects'[job'[v].id].content = job'[v].content
    BY DEF StoredMeansRegistered
  <2>1. CASE v = w
    BY <1>2, <1>3, <1>5, <1>7, <2>1 DEF IInv, Typed
  <2>2. CASE v # w
    <3>1. job'[v] = job[v] /\ job[v] \in JobSpec /\ job[v].at = "stored"
      BY <1>3, <2>2 DEF IInv, Typed
    <3>2. job[v].id \in Ids
      BY <3>1, JobKinds
    <3> QED
      BY <3>1, <3>2 DEF IInv, StoredMeansRegistered, Grows
  <2> QED
    BY <2>1, <2>2
<1> QED
  BY <1>6, <1>8, <1>9, <1>10, <1>11 DEF IInv

LEMMA CompareStep ==
  ASSUME NEW w \in Workers, IInv, Grows, Put(w), Compare(w)
  PROVE  IInv'
<1>1. PICK step \in {"stored", "conflict"} :
        /\ step = "stored" => objects[job[w].id] = Submitted(w)
        /\ job' = [job EXCEPT ![w].at = step]
  BY DEF Compare, Goto
<1>2. /\ objects[job[w].id] # Unregistered
      /\ objects' = objects /\ audit' = audit /\ files' = files /\ check' = check
  BY DEF Put, Compare
<1>3. PICK new : new = [job[w] EXCEPT !.at = step]
  OBVIOUS
<1>4. job[w] \in JobSpec /\ job[w].at = "put" /\ job' = [job EXCEPT ![w] = new]
  BY <1>1, <1>3 DEF IInv, Typed, Put
<1>5. new \in JobSpec /\ new.at = step /\ new.id = job[w].id /\ new.content = job[w].content
  BY <1>3, <1>4, JobGoesOn DEF Answers
<1>6. job' \in [Workers -> JobSpec] /\ Prepared'
  <2>1. ReadyToPut(new)'
    BY <1>5 DEF ReadyToPut
  <2> QED
    BY <1>4, <1>5, <2>1, OneMoves DEF IInv
<1>7. Typed' /\ RegisteredIsReadable' /\ AuditIsExact'
  BY <1>2, <1>6 DEF IInv, Typed, RegisteredIsReadable, AuditIsExact
<1>8. StoredMeansRegistered'
  <2> SUFFICES ASSUME NEW v \in Workers, job'[v].at = "stored"
               PROVE  objects'[job'[v].id] # Unregistered /\ objects'[job'[v].id].content = job'[v].content
    BY DEF StoredMeansRegistered
  <2>1. CASE v = w
    <3>1. job'[v] = new /\ step = "stored"
      BY <1>4, <1>5, <2>1 DEF IInv, Typed
    <3> QED
      BY <1>1, <1>2, <1>5, <3>1, SubmittedIsDated
  <2>2. CASE v # w
    BY <1>2, <1>4, <2>2 DEF IInv, Typed, StoredMeansRegistered
  <2> QED
    BY <2>1, <2>2
<1> QED
  BY <1>6, <1>7, <1>8 DEF IInv

---------------------------------------------------------------------------
(* Every step.                                                             *)

LEMMA StoreStep == ASSUME IInv, [Next]_vars PROVE IInv'
<1>1. Grows
  BY StepGrows DEF IInv
<1>2. ASSUME job' \in [Workers -> JobSpec], Prepared',
             files' \in [Contents -> {"absent", "partial", "complete"}],
             objects' = objects, audit' = audit, check' = check,
             \A v \in Workers : job'[v].at = "stored" => job'[v] = job[v]
      PROVE  IInv'
  <2>1. RegisteredIsReadable' /\ StoredMeansRegistered'
    BY <1>1, <1>2, ReadableStays, StoredStays DEF IInv
  <2>2. Typed' /\ AuditIsExact'
    BY <1>2 DEF IInv, Typed, AuditIsExact
  <2> QED
    BY <1>2, <2>1, <2>2 DEF IInv
<1>3. ASSUME UNCHANGED <<files, objects, audit, job>>, 
             check'.at \in {"idle", "objects", "raw", "verified", "unaudited", "unreadable"}
      PROVE  IInv'
  BY <1>3 DEF IInv, Typed, Prepared, ReadyToPut, RegisteredIsReadable, AuditIsExact, StoredMeansRegistered
<1>4. ASSUME NEW w \in Workers, Request(w) PROVE IInv'
  <2>1. job' \in [Workers -> JobSpec] /\ Prepared'
    BY <1>1, <1>4, RequestStep DEF IInv
  <2>2. \A v \in Workers : job'[v].at = "stored" => job'[v] = job[v]
    BY <1>4 DEF Request, Acquire, Extract, IInv, Typed
  <2> QED
    BY <1>2, <1>4, <2>1, <2>2 DEF Request, Acquire, Extract, IInv, Typed
<1>5. ASSUME NEW w \in Workers, Create(w) PROVE IInv'
  <2>1. /\ job' \in [Workers -> JobSpec] /\ Prepared'
        /\ files' \in [Contents -> {"absent", "partial", "complete"}]
    BY <1>1, <1>5, CreateStep DEF IInv
  <2>2. \A v \in Workers : job'[v].at = "stored" => job'[v] = job[v]
    <3>1. job[w] \in JobSpec /\ job[w].at = "create" /\ job' = [job EXCEPT ![w] = [job[w] EXCEPT !.at = "write"]]
      BY <1>5 DEF Create, Goto, IInv, Typed
    <3>2. [job[w] EXCEPT !.at = "write"].at = "write"
      BY <3>1, JobGoesOn
    <3> QED
      BY <3>1, <3>2 DEF IInv, Typed
  <2> QED
    BY <1>2, <1>5, <2>1, <2>2 DEF Create
<1>6. ASSUME NEW w \in Workers, Reread(w) PROVE IInv'
  <2>1. job' \in [Workers -> JobSpec] /\ Prepared'
    BY <1>1, <1>6, RereadStep DEF IInv
  <2>2. \A v \in Workers : job'[v].at = "stored" => job'[v] = job[v]
    <3>1. PICK step \in {"lookup", "damaged"} : job' = [job EXCEPT ![w] = [job[w] EXCEPT !.at = step]]
      BY <1>6 DEF Reread, Goto, IInv, Typed
    <3>2. job[w] \in JobSpec /\ job[w].at = "create"
      BY <1>6 DEF Reread, IInv, Typed
    <3>3. [job[w] EXCEPT !.at = step].at = step
      BY <3>2, JobGoesOn DEF Answers
    <3> QED
      BY <3>1, <3>3 DEF IInv, Typed
  <2> QED
    BY <1>2, <1>6, <2>1, <2>2 DEF Reread, IInv, Typed
<1>7. ASSUME NEW w \in Workers, Write(w) PROVE IInv'
  <2>1. /\ job' \in [Workers -> JobSpec] /\ Prepared'
        /\ files' \in [Contents -> {"absent", "partial", "complete"}]
    BY <1>1, <1>7, WriteStep DEF IInv
  <2>2. \A v \in Workers : job'[v].at = "stored" => job'[v] = job[v]
    <3>1. PICK step \in {"lookup", "failed"} : job' = [job EXCEPT ![w] = [job[w] EXCEPT !.at = step]]
      BY <1>7 DEF Write, Goto, IInv, Typed
    <3>2. job[w] \in JobSpec /\ job[w].at = "write"
      BY <1>7 DEF Write, IInv, Typed
    <3>3. [job[w] EXCEPT !.at = step].at = step
      BY <3>2, JobGoesOn DEF Answers
    <3> QED
      BY <3>1, <3>3 DEF IInv, Typed
  <2> QED
    BY <1>2, <1>7, <2>1, <2>2 DEF Write
<1>8. ASSUME NEW w \in Workers, Lookup(w) PROVE IInv'
  <2>1. job' \in [Workers -> JobSpec] /\ Prepared'
    BY <1>1, <1>8, LookupStep DEF IInv
  <2>2. \A v \in Workers : job'[v].at = "stored" => job'[v] = job[v]
    BY <1>8 DEF Lookup, IInv, Typed
  <2> QED
    BY <1>2, <1>8, <2>1, <2>2 DEF Lookup, IInv, Typed
<1>9. ASSUME NEW w \in Workers, Read(w) PROVE IInv'
  <2>1. job' \in [Workers -> JobSpec] /\ Prepared'
    BY <1>1, <1>9, ReadStep DEF IInv
  <2>2. \A v \in Workers : job'[v].at = "stored" => job'[v] = job[v]
    <3>1. job[w] \in JobSpec /\ job[w].at = "read"
      BY <1>9 DEF Read, IInv, Typed
    <3>2. ASSUME NEW step \in {"missing", "damaged"}, Goto(w, step)
          PROVE  \A v \in Workers : job'[v].at = "stored" => job'[v] = job[v]
      <4>1. [job[w] EXCEPT !.at = step].at = step
        BY <3>1, JobGoesOn DEF Answers
      <4> QED
        BY <3>2, <4>1 DEF Goto, IInv, Typed
    <3> QED
      BY <1>9, <3>2 DEF Read, IInv, Typed
  <2> QED
    BY <1>2, <1>9, <2>1, <2>2 DEF Read, IInv, Typed
<1>10. ASSUME NEW w \in Workers, Put(w) PROVE IInv'
  BY <1>1, <1>10, InsertStep, CompareStep DEF Put
<1>11. CASE VerifyAudit \/ VerifyObjects \/ VerifyRaw
  BY <1>3, <1>11 DEF VerifyAudit, VerifyObjects, VerifyRaw
<1>12. CASE Crash
  <2>1. job' \in [Workers -> JobSpec] /\ \A v \in Workers : job'[v] = Idle
    BY <1>12 DEF Crash, JobSpec
  <2>2. Prepared' /\ StoredMeansRegistered'
    BY <2>1 DEF Prepared, ReadyToPut, StoredMeansRegistered, Idle
  <2>3. Typed' /\ RegisteredIsReadable' /\ AuditIsExact'
    BY <1>12, <2>1 DEF Crash, IInv, Typed, RegisteredIsReadable, AuditIsExact
  <2> QED
    BY <2>2, <2>3 DEF IInv
<1>13. CASE UNCHANGED vars
  BY <1>3, <1>13 DEF vars, IInv, Typed
<1> QED
  BY <1>4, <1>5, <1>6, <1>7, <1>8, <1>9, <1>10, <1>11, <1>12, <1>13 DEF Next, Step

LEMMA StoreInit == Init => IInv
<1> SUFFICES ASSUME Init PROVE IInv
  OBVIOUS
<1>1. Typed
  BY DEF Init, Typed, JobSpec, Idle
<1>2. Prepared /\ StoredMeansRegistered
  BY DEF Init, Prepared, ReadyToPut, StoredMeansRegistered, Idle
<1>3. RegisteredIsReadable
  BY DEF Init, RegisteredIsReadable, Ids
<1>4. AuditIsExact
  BY DEF Init, AuditIsExact
<1> QED
  BY <1>1, <1>2, <1>3, <1>4 DEF IInv

(* The invariant is inductive.                                             *)
THEOREM Inductive == Spec => []IInv
  BY StoreInit, StoreStep, PTL DEF Spec

(* Files, records, events and jobs stay in their ranges.                   *)
THEOREM TypeCorrect == Spec => []TypeOK
<1>1. IInv => TypeOK
  BY DEF IInv, Typed, TypeOK, JobSpec
<1> QED
  BY <1>1, Inductive, PTL

(* Registered sources can be read back and registered evidence has its     *)
(* source beside it: service.acquire and service.extract, with the content *)
(* put before the object, whatever crashes in between.                     *)
THEOREM ReadableTheorem == Spec => []RegisteredIsReadable
<1>1. IInv => RegisteredIsReadable
  BY DEF IInv
<1> QED
  BY <1>1, Inductive, PTL

(* The objects and the audit events of their registrations agree one to    *)
(* one: Database.put writes both in one transaction.                       *)
THEOREM AuditTheorem == Spec => []AuditIsExact
<1>1. IInv => AuditIsExact
  BY DEF IInv
<1> QED
  BY <1>1, Inductive, PTL

(* The answer "stored" is true, and stays true.                            *)
THEOREM StoredTheorem == Spec => []StoredMeansRegistered
<1>1. IInv => StoredMeansRegistered
  BY DEF IInv
<1> QED
  BY <1>1, Inductive, PTL

---------------------------------------------------------------------------
(* The store implements the append-only registry: a write that completes   *)
(* is Store, an insertion Register, everything else a stutter.             *)

LEMMA RegistryInit == Init => R!Init
<1> SUFFICES ASSUME Init PROVE R!Init
  OBVIOUS
<1>1. {c \in Contents : files[c] = "complete"} = {}
  BY DEF Init
<1> QED
  BY <1>1 DEF Init, R!Init, R!Unregistered, Unregistered

LEMMA RegistryStep ==
  ASSUME IInv, [Next]_vars
  PROVE  [R!Next]_<<{c \in Contents : files[c] = "complete"}, objects, audit>>
<1>1. CASE UNCHANGED <<files, objects, audit>>
  BY <1>1
<1>2. ASSUME NEW w \in Workers, Create(w) PROVE UNCHANGED <<{c \in Contents : files[c] = "complete"}, objects, audit>>
  BY <1>2 DEF Create, IInv, Typed
<1>3. ASSUME NEW w \in Workers, Write(w), files' # files
      PROVE  R!Next \/ UNCHANGED <<{c \in Contents : files[c] = "complete"}, objects, audit>>
  <2>1. PICK d : d = job[w].content
    OBVIOUS
  <2>2. d \in Contents /\ files' = [files EXCEPT ![d] = "complete"]
    BY <1>3, <2>1, JobKinds DEF Write, IInv, Typed
  <2>3. {c \in Contents : files'[c] = "complete"} = {c \in Contents : files[c] = "complete"} \cup {d}
    BY <2>2 DEF IInv, Typed
  <2>4. CASE files[d] = "complete"
    BY <1>3, <2>2, <2>3, <2>4 DEF Write
  <2>5. CASE files[d] # "complete"
    <3>1. R!Store(d)
      BY <1>3, <2>3, <2>5 DEF Write, R!Store
    <3> QED
      BY <2>2, <3>1 DEF R!Next
  <2> QED
    BY <2>4, <2>5
<1>4. ASSUME NEW w \in Workers, Put(w), Insert(w) PROVE R!Next
  <2>1. /\ job[w].id \in Ids /\ Submitted(w) \in Payloads
        /\ Submitted(w).content = job[w].content
    BY <1>4, SubmittedIsDated
  <2>2. job[w].content \in Contents /\ files[job[w].content] = "complete"
    <3>1. job[w] \in JobSpec /\ job[w].at = "put" /\ ReadyToPut(job[w])
      BY <1>4 DEF IInv, Typed, Prepared, Put
    <3>2. CASE job[w].id \in Sources
      BY <3>1, <3>2, JobKinds DEF ReadyToPut
    <3>3. CASE job[w].id \in Items
      BY <3>1, <3>3, JobKinds, StoreAssumption DEF ReadyToPut, IInv, RegisteredIsReadable
    <3> QED
      BY <2>1, <3>2, <3>3 DEF Ids
  <2>3. R!Register(job[w].id, Submitted(w))
    BY <1>4, <2>1, <2>2 DEF Put, Insert, R!Register, R!Unregistered, Unregistered
  <2> QED
    BY <2>1, <2>3 DEF R!Next
<1> QED
  BY <1>1, <1>2, <1>3, <1>4 DEF Next, Step, Request, Acquire, Extract, Reread, Write, Lookup, Read,
       Put, Compare, VerifyAudit, VerifyObjects, VerifyRaw, Crash, vars

(* docs/ARCHITECTURE.md's append-only registry is what any number of       *)
(* threads and crashes show of the store.                                  *)
THEOREM RegistryTheorem == Spec => ImplementsRegistry
  BY RegistryInit, RegistryStep, Inductive, PTL DEF Spec, ImplementsRegistry, R!Spec

---------------------------------------------------------------------------
(* Backup.  The copied database is one state of the original and the       *)
(* original only grows; the files come after it, and every file the copied *)
(* objects need was complete before they were registered.                  *)

Events == [target : Ids, payload : Payloads]

CopyTyped ==
    copy \in [at : {"none", "begun", "failed", "copying", "complete", "restored", "rejected"},
              objects : [Ids -> Payloads \cup {Unregistered}], audit : Seq(Events),
              raw : [Contents -> {"absent", "partial", "complete"}], todo : SUBSET Contents]

(* The copy holds a database.                                              *)
Copied == copy.at \in {"copying", "complete", "restored", "rejected"}

CopyIsPast ==
    /\ \A id \in Ids : copy.objects[id] # Unregistered => objects[id] = copy.objects[id]
    /\ Len(copy.audit) <= Len(audit)
    /\ \A i \in 1..Len(copy.audit) : copy.audit[i] = audit[i]

CopyIsExact ==
    /\ \A id \in Ids : copy.objects[id] # Unregistered =>
         \E i \in DOMAIN copy.audit : copy.audit[i] = [target |-> id, payload |-> copy.objects[id]]
    /\ \A i \in DOMAIN copy.audit : copy.objects[copy.audit[i].target] = copy.audit[i].payload

CopyIsReadable ==
    /\ \A e \in Items : copy.objects[e] # Unregistered => copy.objects[SourceOf[e]] # Unregistered
    /\ \A s \in Sources : copy.objects[s] # Unregistered /\ copy.objects[s].content \notin copy.todo =>
         copy.raw[copy.objects[s].content] = "complete"

BackupInv ==
    /\ CopyTyped
    /\ Copied => CopyIsPast /\ CopyIsExact /\ CopyIsReadable
    /\ copy.at \in {"none", "begun"} => copy.todo = Contents
    /\ copy.at \in {"complete", "restored", "rejected"} => copy.todo = {}
    /\ BackupRestores

LEMMA AuditGrows ==
  ASSUME IInv, [Next]_vars
  PROVE  Len(audit) <= Len(audit') /\ \A i \in 1..Len(audit) : audit'[i] = audit[i]
<1>1. audit \in Seq(Events)
  BY DEF IInv, Typed, Events
<1>2. CASE UNCHANGED audit
  BY <1>1, <1>2
<1>3. ASSUME NEW w \in Workers, Put(w), Insert(w)
      PROVE  Len(audit) <= Len(audit') /\ \A i \in 1..Len(audit) : audit'[i] = audit[i]
  <2>1. PICK e : e = [target |-> job[w].id, payload |-> Submitted(w)]
    OBVIOUS
  <2>2. e \in Events /\ audit' = Append(audit, e)
    BY <1>3, <2>1, SubmittedIsDated DEF Insert, Events
  <2>3. Len(Append(audit, e)) = Len(audit) + 1 /\ Len(audit) \in Nat
    BY <1>1, <2>2, LogGrows
  <2> QED
    BY <1>1, <2>2, <2>3, LogGrows
<1> QED
  BY <1>2, <1>3 DEF Next, Step, Request, Acquire, Extract, Create, Reread, Write, Lookup, Read,
       Put, Compare, VerifyAudit, VerifyObjects, VerifyRaw, Crash, vars

(* What is registered has its events in the log, and its files complete.   *)
LEMMA NowIsReadable ==
  ASSUME IInv
  PROVE  /\ \A id \in Ids : objects[id] # Unregistered => objects[id].content \in Contents
         /\ \A e \in Items : objects[e] # Unregistered => objects[SourceOf[e]] # Unregistered
         /\ \A s \in Sources : objects[s] # Unregistered => files[objects[s].content] = "complete"
  BY DEF IInv, Typed, RegisteredIsReadable, Payloads

LEMMA BackupStep == ASSUME IInv, BackupInv, [BackupNext]_backupVars PROVE BackupInv'
<1>1. CASE Next /\ UNCHANGED copy
  <2>1. Grows
    BY <1>1, StepGrows DEF IInv
  <2>2. /\ Len(audit) <= Len(audit') /\ Len(audit) \in Nat /\ Len(audit') \in Nat
        /\ \A i \in 1..Len(audit) : audit'[i] = audit[i]
    <3>1. IInv'
      BY <1>1, StoreStep
    <3>2. Len(audit) \in Nat /\ Len(audit') \in Nat
      BY <3>1 DEF IInv, Typed
    <3> QED
      BY <1>1, <3>2, AuditGrows
  <2>3. Len(copy.audit) \in Nat
    BY DEF BackupInv, CopyTyped
  <2>4. CopyIsPast => CopyIsPast'
    BY <1>1, <2>1, <2>2, <2>3 DEF CopyIsPast, Grows
  <2> QED
    BY <1>1, <2>4 DEF BackupInv, CopyTyped, Copied, CopyIsExact, CopyIsReadable, BackupRestores
<1>2. CASE Begin \/ BackupCrash
  BY <1>2 DEF Begin, BackupCrash, BackupInv, CopyTyped, Copied, BackupRestores
<1>3. CASE Snapshot
  <2>1. copy' \in [at : {"copying"}, objects : {objects}, audit : {audit},
                   raw : {copy.raw}, todo : {copy.todo}]
    BY <1>3 DEF Snapshot, BackupInv, CopyTyped
  <2>2. CopyTyped'
    BY <1>3, <2>1 DEF BackupInv, CopyTyped, IInv, Typed, Events
  <2>3. CopyIsPast' /\ CopyIsExact'
    <3>1. Len(audit) \in Nat
      BY DEF IInv, Typed
    <3> QED
      BY <1>3, <2>1, <3>1 DEF Snapshot, vars, CopyIsPast, CopyIsExact, IInv, AuditIsExact
  <2>4. copy.todo = Contents
    BY <1>3 DEF Snapshot, BackupInv
  <2>5. CopyIsReadable'
    BY <1>3, <2>1, <2>4, NowIsReadable DEF CopyIsReadable, Snapshot, vars, Ids
  <2> QED
    BY <2>1, <2>2, <2>3, <2>5 DEF BackupInv, BackupRestores
<1>4. ASSUME NEW c \in Contents, CopyFile(c) PROVE BackupInv'
  <2>1. /\ copy'.at = "copying" /\ copy'.objects = copy.objects /\ copy'.audit = copy.audit
        /\ copy'.raw = [copy.raw EXCEPT ![c] = files[c]] /\ copy'.todo = copy.todo \ {c}
        /\ objects' = objects /\ audit' = audit /\ files' = files /\ copy.at = "copying"
    BY <1>4 DEF CopyFile, BackupInv, CopyTyped, vars
  <2>2. CopyTyped'
    BY <1>4 DEF CopyFile, BackupInv, CopyTyped, vars, IInv, Typed
  <2>3. CopyIsPast' /\ CopyIsExact'
    BY <2>1 DEF BackupInv, Copied, CopyIsPast, CopyIsExact
  <2>4. CopyIsReadable'
    <3>1. ASSUME NEW s \in Sources, copy.objects[s] # Unregistered,
                 copy.objects[s].content \notin copy.todo \ {c}
          PROVE  copy'.raw[copy.objects[s].content] = "complete"
      <4>1. copy.objects[s] = objects[s] /\ objects[s].content \in Contents
        BY <2>1, <3>1, NowIsReadable DEF BackupInv, Copied, CopyIsPast, Ids
      <4>2. files[copy.objects[s].content] = "complete"
        BY <3>1, <4>1, NowIsReadable
      <4>3. copy.raw \in [Contents -> {"absent", "partial", "complete"}]
        BY DEF BackupInv, CopyTyped
      <4>4. CASE copy.objects[s].content = c
        BY <2>1, <4>2, <4>3, <4>4
      <4>5. CASE copy.objects[s].content # c
        BY <2>1, <3>1, <4>1, <4>3, <4>5 DEF BackupInv, Copied, CopyIsReadable
      <4> QED
        BY <4>4, <4>5
    <3> QED
      BY <2>1, <3>1 DEF CopyIsReadable, BackupInv, Copied
  <2> QED
    BY <2>1, <2>2, <2>3, <2>4 DEF BackupInv, BackupRestores
<1>5. CASE WriteManifest
  <2>1. /\ copy'.at = "complete" /\ copy'.objects = copy.objects /\ copy'.audit = copy.audit
        /\ copy'.raw = copy.raw /\ copy'.todo = copy.todo /\ copy.at = "copying" /\ copy.todo = {}
        /\ objects' = objects /\ audit' = audit
    BY <1>5 DEF WriteManifest, BackupInv, CopyTyped, vars
  <2>2. CopyTyped'
    BY <1>5 DEF WriteManifest, BackupInv, CopyTyped
  <2> QED
    BY <2>1, <2>2 DEF BackupInv, Copied, CopyIsPast, CopyIsExact, CopyIsReadable, BackupRestores
<1>6. CASE Restore
  <2>1. CopyVerifies
    <3>1. Copied /\ copy.todo = {}
      BY <1>6 DEF Restore, BackupInv, Copied
    <3> QED
      BY <3>1 DEF BackupInv, CopyVerifies, CopyIsExact, CopyIsReadable
  <2>2. /\ copy'.at = "restored" /\ copy'.objects = copy.objects /\ copy'.audit = copy.audit
        /\ copy'.raw = copy.raw /\ copy'.todo = copy.todo /\ copy.at = "complete"
        /\ objects' = objects /\ audit' = audit
    BY <1>6, <2>1 DEF Restore, BackupInv, CopyTyped, vars
  <2>3. CopyTyped'
    BY <1>6, <2>1 DEF Restore, BackupInv, CopyTyped
  <2> QED
    BY <2>2, <2>3 DEF BackupInv, Copied, CopyIsPast, CopyIsExact, CopyIsReadable, BackupRestores
<1>7. CASE UNCHANGED backupVars
  BY <1>7 DEF backupVars, vars, BackupInv, CopyTyped, Copied, CopyIsPast, CopyIsExact, CopyIsReadable, BackupRestores
<1> QED
  BY <1>1, <1>2, <1>3, <1>4, <1>5, <1>6, <1>7 DEF BackupNext

(* A backup beside the store changes nothing of it.                        *)
LEMMA StoreUndisturbed == [BackupNext]_backupVars => [Next]_vars
  BY DEF BackupNext, backupVars, Begin, Snapshot, CopyFile, WriteManifest, BackupCrash, Restore

LEMMA BackupIsStore == BackupSpec => Spec
<1>1. BackupInit => Init
  BY DEF BackupInit
<1> QED
  BY <1>1, StoreUndisturbed, PTL DEF BackupSpec, Spec

LEMMA BackupStarts == BackupInit => BackupInv
  BY DEF BackupInit, NoCopy, BackupInv, CopyTyped, Copied, BackupRestores

LEMMA BackupInductive == BackupSpec => [](IInv /\ BackupInv)
<1>1. BackupSpec => []IInv
  BY BackupIsStore, Inductive, PTL
<1>2. IInv /\ BackupInv /\ [BackupNext]_backupVars => BackupInv'
  BY BackupStep
<1> QED
  BY <1>1, <1>2, BackupStarts, PTL DEF BackupSpec

(* operations.backup: a backup that completed passes the verification that *)
(* restore ends with, whatever ran, failed or crashed while it was made.   *)
THEOREM BackupTheorem == BackupSpec => []BackupRestores
<1>1. BackupInv => BackupRestores
  BY DEF BackupInv
<1> QED
  BY <1>1, BackupInductive, PTL

(* operations.restore: what it yields is a prefix of the log, the objects  *)
(* that prefix lists, and the bytes all their evidence comes from.         *)
THEOREM RestoreTheorem == BackupSpec => []RestoredIsPast
<1>1. IInv /\ BackupInv => RestoredIsPast
  <2> SUFFICES ASSUME IInv, BackupInv, copy.at = "restored" PROVE RestoredIsPast
    BY DEF RestoredIsPast
  <2>1. CopyTyped /\ CopyIsPast /\ CopyIsExact /\ CopyIsReadable /\ copy.todo = {}
    BY DEF BackupInv, Copied
  <2>2. PICK n : n = Len(copy.audit)
    OBVIOUS
  <2>3. copy.audit \in Seq(Events) /\ audit \in Seq(Events) /\ n \in Nat /\ n <= Len(audit)
    BY <2>1, <2>2 DEF CopyTyped, CopyIsPast, IInv, Typed, Events
  <2>4. copy.audit = SubSeq(audit, 1, n)
    <3>1. PICK past : past = SubSeq(audit, 1, n)
      OBVIOUS
    <3>2. past \in Seq(Events) /\ Len(past) = n /\ \A i \in 1..n : past[i] = audit[i]
      BY <2>3, <3>1
    <3>3. \A i \in 1..n : copy.audit[i] = past[i]
      BY <2>1, <2>2, <3>2 DEF CopyIsPast
    <3> QED
      BY <2>2, <2>3, <3>1, <3>2, <3>3, SeqEqual
  <2>5. ASSUME NEW id \in Ids
        PROVE  copy.objects[id] =
                 IF \E i \in DOMAIN copy.audit : copy.audit[i].target = id THEN objects[id] ELSE Unregistered
    <3>1. CASE copy.objects[id] # Unregistered
      <4>1. PICK i \in DOMAIN copy.audit : copy.audit[i] = [target |-> id, payload |-> copy.objects[id]]
        BY <2>1, <3>1 DEF CopyIsExact
      <4>2. copy.audit[i].target = id /\ objects[id] = copy.objects[id]
        BY <2>1, <3>1, <4>1 DEF CopyIsPast
      <4> QED
        BY <4>2
    <3>2. CASE copy.objects[id] = Unregistered
      <4>1. ASSUME NEW i \in DOMAIN copy.audit, copy.audit[i].target = id PROVE FALSE
        <5>1. copy.audit[i].payload \in Payloads
          <6>1. i \in 1..Len(copy.audit)
            BY <2>3, <4>1, LogGrows
          <6>2. copy.audit[i] \in Events
            BY <2>3, <6>1
          <6> QED
            BY <6>2 DEF Events
        <5> QED
          BY <2>1, <3>2, <4>1, <5>1, PayloadsAreRegistered DEF CopyIsExact
      <4> QED
        BY <3>2, <4>1
    <3> QED
      BY <3>1, <3>2
  <2>6. \A e \in Items : copy.objects[e] # Unregistered =>
          copy.raw[copy.objects[SourceOf[e]].content] = "complete"
    BY <2>1, StoreAssumption DEF CopyIsReadable
  <2> QED
    BY <2>2, <2>3, <2>4, <2>5, <2>6 DEF RestoredIsPast, CopyIsPast
<1> QED
  BY <1>1, BackupInductive, PTL
=============================================================================
