---------------------------- MODULE ServerProofs ----------------------------
(***************************************************************************)
(* Safety of the HTTP server, for any number of connections and permits.   *)
(*                                                                         *)
(* Each step moves one connection.  Of the sets of served and of running   *)
(* connections it adds or removes that one, or leaves them alone, and the  *)
(* permits go the other way; what a connection may answer depends on its   *)
(* own state alone.                                                        *)
(***************************************************************************)
EXTENDS Server, FiniteSetTheorems, TLAPS

(* What is known of a request at each point of dispatch. *)
Consistent(state, r) ==
    /\ state \in {"reading", "unavailable"} => r = Unread
    /\ state \in {"working", "running"} =>
         r.kind # "page" /\ r.done = "none" /\ ~r.logged
    /\ state = "running" => r.kind = "run"
    /\ state = "auditing" =>
         r.kind # "page" /\ ~r.logged /\ (r.kind # "download" => r.done = "all")
    /\ state \in {"replying", "ok"} =>
         \/ r.kind = "page" /\ ~r.logged
         \/ r.done = "all" /\ r.logged
    /\ r.logged /\ r.kind # "download" => r.done = "all"

Consistency == \A c \in Clients : Consistent(conn[c], request[c])

IInv == TypeOK /\ PermitsAreExact /\ Consistency

---------------------------------------------------------------------------
(* The sets of connections that hold a permit are finite.                  *)
LEMMA HoldersFinite ==
    ASSUME TypeOK
    PROVE  /\ IsFiniteSet(Served) /\ Cardinality(Served) \in Nat
           /\ IsFiniteSet(Running) /\ Cardinality(Running) \in Nat
  <1>1. Served \subseteq Clients /\ Running \subseteq Clients
    BY DEF Served, Running
  <1>2. IsFiniteSet(Served) /\ IsFiniteSet(Running)
    BY <1>1, CapacityAssumption, FS_Subset
  <1> QED
    BY <1>2, FS_CardinalityType

(* Goto changes the state of its own connection and of no other.           *)
LEMMA OneMoves ==
    ASSUME TypeOK, NEW c \in Clients, NEW state \in Serving \cup Outcomes, Goto(c, state)
    PROVE  /\ conn' \in [Clients -> Serving \cup Outcomes]
           /\ conn'[c] = state
           /\ \A d \in Clients \ {c} : conn'[d] = conn[d]
  BY DEF TypeOK, Goto

(* A connection that is given a thread adds one holder of a permit.        *)
LEMMA ThreadStarts ==
    ASSUME TypeOK, NEW c \in Clients, conn[c] \notin Serving,
           NEW state \in Serving, Goto(c, state)
    PROVE  Cardinality(Served') = Cardinality(Served) + 1
  <1>1. Served' = Served \cup {c}
    BY OneMoves DEF Served
  <1>2. c \notin Served
    BY DEF Served
  <1> QED
    BY <1>1, <1>2, HoldersFinite, FS_AddElement

(* A connection that ends removes one.                                     *)
LEMMA ThreadEnds ==
    ASSUME TypeOK, NEW c \in Clients, conn[c] \in Serving,
           NEW state \in Outcomes, Goto(c, state)
    PROVE  Cardinality(Served') = Cardinality(Served) - 1
  <1>1. Served' = Served \ {c}
    BY OneMoves DEF Served, Serving, Outcomes
  <1>2. c \in Served
    BY DEF Served
  <1> QED
    BY <1>1, <1>2, HoldersFinite, FS_RemoveElement

(* Any other step of a connection leaves the holders alone.                *)
LEMMA ThreadStays ==
    ASSUME TypeOK, NEW c \in Clients, NEW state \in Serving \cup Outcomes,
           conn[c] \in Serving <=> state \in Serving, Goto(c, state)
    PROVE  Cardinality(Served') = Cardinality(Served)
  <1>1. Served' = Served
    BY OneMoves DEF Served
  <1> QED
    BY <1>1

(* The same of the connections that run: one starts, *)
LEMMA RunStarts ==
    ASSUME TypeOK, NEW c \in Clients, conn[c] # "running", Goto(c, "running")
    PROVE  Cardinality(Running') = Cardinality(Running) + 1
  <1>1. Running' = Running \cup {c}
    BY OneMoves DEF Running, Serving
  <1>2. c \notin Running
    BY DEF Running
  <1> QED
    BY <1>1, <1>2, HoldersFinite, FS_AddElement

(* one ends, *)
LEMMA RunEnds ==
    ASSUME TypeOK, NEW c \in Clients, conn[c] = "running",
           NEW state \in (Serving \cup Outcomes) \ {"running"}, Goto(c, state)
    PROVE  Cardinality(Running') = Cardinality(Running) - 1
  <1>1. Running' = Running \ {c}
    BY OneMoves DEF Running
  <1>2. c \in Running
    BY DEF Running
  <1> QED
    BY <1>1, <1>2, HoldersFinite, FS_RemoveElement

(* and one that neither ran nor runs changes nothing.                      *)
LEMMA RunStays ==
    ASSUME TypeOK, NEW c \in Clients, conn[c] # "running",
           NEW state \in (Serving \cup Outcomes) \ {"running"}, Goto(c, state)
    PROVE  Cardinality(Running') = Cardinality(Running)
  <1>1. Running' = Running
    BY OneMoves DEF Running
  <1> QED
    BY <1>1

---------------------------------------------------------------------------
(* A server that starts has all its permits and serves nobody.             *)
LEMMA InitIInv == Init => IInv
  <1> SUFFICES ASSUME Init PROVE IInv
    OBVIOUS
  <1>1. TypeOK
    BY CapacityAssumption DEF Init, TypeOK, Outcomes, Request, Unread, Asked, Kinds
  <1>2. Served = {} /\ Running = {}
    BY DEF Init, Served, Running, Serving
  <1>3. PermitsAreExact
    BY <1>2, FS_EmptySet, CapacityAssumption DEF Init, PermitsAreExact
  <1>4. Consistency
    BY DEF Init, Consistency, Consistent, Unread, Asked
  <1> QED
    BY <1>1, <1>3, <1>4 DEF IInv

(* What a step does to the permits, it does to the number of their holders. *)
LEMMA StepExact ==
    ASSUME TypeOK, PermitsAreExact, NEW c \in Clients,
           Refuse(c) \/ Admit(c) \/ StartFails(c) \/ Handle(c)
    PROVE  PermitsAreExact'
  <1> DEFINE sizes(served, running) ==
               /\ Cardinality(Served') = Cardinality(Served) + served
               /\ Cardinality(Running') = Cardinality(Running) + running
  <1>1. CASE Refuse(c) \/ StartFails(c)
    <2>1. PICK state \in {"unavailable", "lost"} : conn[c] \in Outcomes /\ Goto(c, state)
      BY <1>1 DEF Refuse, StartFails
    <2>2. sizes(0, 0)
      BY <2>1, ThreadStays, RunStays, HoldersFinite DEF Serving, Outcomes
    <2> QED
      BY <1>1, <2>2, HoldersFinite DEF Refuse, StartFails, PermitsAreExact
  <1>2. CASE Admit(c)
    <2>1. conn[c] \in Outcomes /\ Goto(c, "reading")
      BY <1>2 DEF Admit
    <2>2. sizes(1, 0)
      BY <2>1, ThreadStarts, RunStays, HoldersFinite DEF Serving, Outcomes
    <2> QED
      BY <1>2, <2>2, HoldersFinite, CapacityAssumption DEF Admit, PermitsAreExact, TypeOK
  <1>3. CASE Read(c) \/ Work(c) \/ Audit(c) \/ ReplyFails(c)
    <2>1. PICK state \in {"working", "replying", "refusing", "auditing"} :
            conn[c] \in Serving \ {"running"} /\ Goto(c, state)
      BY <1>3 DEF Read, Work, Audit, ReplyFails, Serving
    <2>2. sizes(0, 0)
      BY <2>1, ThreadStays, RunStays, HoldersFinite DEF Serving, Outcomes
    <2> QED
      BY <1>3, <2>2, HoldersFinite DEF Read, Work, Audit, ReplyFails, PermitsAreExact
  <1>4. CASE StartRun(c) /\ runCapacity = 0
    <2>1. conn[c] = "working" /\ Goto(c, "refusing")
      BY <1>4 DEF StartRun
    <2>2. sizes(0, 0)
      BY <2>1, ThreadStays, RunStays, HoldersFinite DEF Serving, Outcomes
    <2> QED
      BY <1>4, <2>2, HoldersFinite DEF StartRun, PermitsAreExact
  <1>5. CASE StartRun(c) /\ runCapacity # 0
    <2>1. conn[c] = "working" /\ Goto(c, "running")
      BY <1>5 DEF StartRun
    <2>2. sizes(0, 1)
      BY <2>1, ThreadStays, RunStarts, HoldersFinite DEF Serving, Outcomes
    <2> QED
      BY <1>5, <2>2, HoldersFinite, CapacityAssumption DEF StartRun, PermitsAreExact, TypeOK
  <1>6. CASE EndRun(c)
    <2>1. PICK state \in {"auditing", "refusing"} : conn[c] = "running" /\ Goto(c, state)
      BY <1>6 DEF EndRun
    <2>2. sizes(0, -1)
      BY <2>1, ThreadStays, RunEnds, HoldersFinite DEF Serving, Outcomes
    <2> QED
      BY <1>6, <2>2, HoldersFinite, CapacityAssumption DEF EndRun, PermitsAreExact, TypeOK
  <1>7. CASE Reply(c)
    <2>1. PICK state \in {"lost", "ok", "error"} :
            conn[c] \in {"replying", "refusing"} /\ Goto(c, state)
      BY <1>7 DEF Reply
    <2>2. sizes(-1, 0)
      BY <2>1, ThreadEnds, RunStays, HoldersFinite DEF Serving, Outcomes
    <2> QED
      BY <1>7, <2>2, HoldersFinite, CapacityAssumption DEF Reply, PermitsAreExact, TypeOK
  <1> QED
    BY <1>1, <1>2, <1>3, <1>4, <1>5, <1>6, <1>7 DEF Handle

(* A step keeps every variable in its range.                               *)
LEMMA StepTyped ==
    ASSUME TypeOK, PermitsAreExact', NEW c \in Clients,
           Refuse(c) \/ Admit(c) \/ StartFails(c) \/ Handle(c)
    PROVE  TypeOK'
  <1>1. \E state \in Serving \cup Outcomes : Goto(c, state)
    BY DEF Refuse, Admit, StartFails, Handle, Read, Work, StartRun, EndRun, Audit, Reply,
           ReplyFails, Serving, Outcomes
  <1>2. conn' \in [Clients -> Serving \cup Outcomes]
    BY <1>1, OneMoves
  <1>3. request' \in [Clients -> Request]
    <2>1. Unread \in Request /\ \A k \in Kinds : Asked(k) \in Request
      BY DEF Unread, Asked, Request, Kinds
    <2>2. /\ [request[c] EXCEPT !.done = "all", !.logged = TRUE] \in Request
          /\ [request[c] EXCEPT !.logged = TRUE] \in Request
          /\ \A d \in {"part", "all"} : [request[c] EXCEPT !.done = d] \in Request
      BY DEF TypeOK, Request
    <2>3. request' = request \/ \E r \in Request : Becomes(c, r)
      <3>1. CASE Refuse(c) \/ Admit(c) \/ StartFails(c)
        BY <2>1, <3>1 DEF Refuse, Admit, StartFails
      <3>2. CASE Read(c)
        BY <2>1, <3>2 DEF Read, Kinds
      <3>3. CASE Work(c) \/ EndRun(c)
        <4>1. request' = request \/ \E d \in {"part", "all"} : Commits(c, d)
          BY <3>3 DEF Work, EndRun
        <4> QED
          BY <2>2, <4>1 DEF Becomes, Commits
      <3>4. CASE Audit(c)
        BY <2>2, <3>4 DEF Audit
      <3>5. CASE StartRun(c) \/ Reply(c) \/ ReplyFails(c)
        BY <3>5 DEF StartRun, Reply, ReplyFails
      <3> QED
        BY <3>1, <3>2, <3>3, <3>4, <3>5 DEF Handle
    <2> QED
      BY <2>3 DEF TypeOK, Becomes
  <1>4. Cardinality(Served') \in Nat /\ Cardinality(Running') \in Nat
    <2>1. Served' \subseteq Clients /\ Running' \subseteq Clients
      BY DEF Served, Running
    <2> QED
      BY <2>1, CapacityAssumption, FS_Subset, FS_CardinalityType
  <1>5. capacity' \in Int /\ capacity' >= 0 /\ runCapacity' \in Int /\ runCapacity' >= 0
    BY CapacityAssumption
    DEF Refuse, Admit, StartFails, Handle, Read, Work, StartRun, EndRun, Audit, Reply,
        ReplyFails, TypeOK
  <1> QED
    BY <1>2, <1>3, <1>4, <1>5, CapacityAssumption DEF TypeOK, PermitsAreExact

(* Only the connection that moves changes, and each step keeps it          *)
(* consistent.                                                             *)
LEMMA StepConsistent ==
    ASSUME TypeOK, Consistency, NEW c \in Clients,
           Refuse(c) \/ Admit(c) \/ StartFails(c) \/ Handle(c)
    PROVE  Consistency'
  <1>1. \A d \in Clients \ {c} : conn'[d] = conn[d] /\ request'[d] = request[d]
    <2>1. \E state \in Serving \cup Outcomes : Goto(c, state)
      BY DEF Refuse, Admit, StartFails, Handle, Read, Work, StartRun, EndRun, Audit, Reply,
             ReplyFails, Serving, Outcomes
    <2>2. request' = request \/ \E r : Becomes(c, r)
      BY DEF Refuse, Admit, StartFails, Handle, Read, Work, StartRun, EndRun, Audit, Reply,
             ReplyFails, Becomes, Commits
    <2> QED
      BY <2>1, <2>2, OneMoves DEF TypeOK, Becomes
  <1>2. Consistent(conn'[c], request'[c])
    <2> USE DEF TypeOK, Consistency, Consistent, Goto, Becomes, Commits, Request
    <2>1. CASE Refuse(c) \/ Admit(c) \/ StartFails(c)
      <3>1. request'[c] = Unread /\ conn'[c] \in {"unavailable", "reading", "lost"}
        BY <2>1 DEF Refuse, Admit, StartFails
      <3> QED
        BY <3>1 DEF Unread, Asked
    <2>2. CASE Read(c)
      <3>1. \/ conn'[c] = "refusing" /\ request'[c] = Unread
            \/ conn'[c] = "replying" /\ request'[c] = Asked("page")
            \/ /\ conn'[c] = "working"
               /\ \E k \in Kinds \ {"unread", "page"} : request'[c] = Asked(k)
        BY <2>2 DEF Read
      <3>2. \A k : Asked(k).kind = k /\ Asked(k).done = "none" /\ Asked(k).logged = FALSE
        BY DEF Asked
      <3>3. conn'[c] \in {"refusing", "replying", "working"} /\ \E k : request'[c] = Asked(k)
        BY <3>1 DEF Unread
      <3>4. conn'[c] = "replying" => request'[c].kind = "page"
        BY <3>1, <3>2
      <3>5. conn'[c] = "working" => request'[c].kind # "page"
        BY <3>1, <3>2 DEF Kinds
      <3> QED
        BY <3>2, <3>3, <3>4, <3>5
    <2>3. CASE Work(c)
      BY <2>3 DEF Work
    <2>4. CASE StartRun(c)
      BY <2>4 DEF StartRun
    <2>5. CASE EndRun(c)
      BY <2>5 DEF EndRun
    <2>6. CASE Audit(c)
      <3> DEFINE r == request[c]
      <3>1. r.kind # "page" /\ ~r.logged /\ (r.kind # "download" => r.done = "all")
        BY <2>6 DEF Audit
      <3>2. \/ conn'[c] = "refusing" /\ request'[c] = r
            \/ /\ conn'[c] = "replying"
               /\ request'[c] = [r EXCEPT !.done = "all", !.logged = TRUE]
            \/ /\ r.kind = "download"
               /\ conn'[c] = "refusing"
               /\ request'[c] = [r EXCEPT !.logged = TRUE]
        BY <2>6 DEF Audit
      <3>3. r \in Request
        OBVIOUS
      <3> QED
        BY <3>1, <3>2, <3>3
    <2>7. CASE Reply(c) \/ ReplyFails(c)
      BY <2>7 DEF Reply, ReplyFails
    <2> QED
      BY <2>1, <2>2, <2>3, <2>4, <2>5, <2>6, <2>7 DEF Handle
  <1> QED
    BY <1>1, <1>2 DEF Consistency

(* Every step keeps the invariant, *)
LEMMA NextIInv == IInv /\ [Next]_vars => IInv'
  <1> SUFFICES ASSUME IInv, [Next]_vars PROVE IInv'
    OBVIOUS
  <1>1. CASE Next
    BY <1>1, StepExact, StepTyped, StepConsistent DEF IInv, Next
  <1>2. CASE UNCHANGED vars
    BY <1>2 DEF vars, IInv, TypeOK, PermitsAreExact, Consistency, Served, Running
  <1> QED
    BY <1>1, <1>2

(* so that it holds in every reachable state.                              *)
LEMMA Inductive == Spec => []IInv
  BY InitIInv, NextIInv, PTL DEF Spec

---------------------------------------------------------------------------
(* Permits, states and requests stay in their ranges.                      *)
THEOREM TypeCorrect == Spec => []TypeOK
  <1>1. IInv => TypeOK
    BY DEF IInv
  <1> QED
    BY <1>1, Inductive, PTL

(* No permit is lost and none is returned twice, with any number of        *)
(* connections and permits.                                                *)
THEOREM PermitTheorem == Spec => []PermitsAreExact
  <1>1. IInv => PermitsAreExact
    BY DEF IInv
  <1> QED
    BY <1>1, Inductive, PTL

(* A successful answer is only given of an operation that was committed    *)
(* and is in the audit log.                                                *)
THEOREM AnswerTheorem == Spec => []AnswersAreTrue
  <1>1. IInv => AnswersAreTrue
    BY DEF IInv, Consistency, Consistent, AnswersAreTrue
  <1> QED
    BY <1>1, Inductive, PTL
=============================================================================
