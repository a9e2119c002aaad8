------------------------------- MODULE Server -------------------------------
(***************************************************************************)
(* The HTTP server of api/server.py: one thread per admitted connection,   *)
(* a semaphore for connections and one for runs, both taken without        *)
(* waiting, the audit event of a successful request, and every way a       *)
(* request can end.                                                        *)
(***************************************************************************)
EXTENDS Integers, FiniteSets

CONSTANTS
    Clients,        \* connections that may be open at the same time
    HttpCapacity,   \* permits for connections: 16 in the code
    RunCapacity     \* permits for runs: 2 in the code

ASSUME CapacityAssumption ==
    /\ IsFiniteSet(Clients)
    /\ HttpCapacity \in Nat \ {0}
    /\ RunCapacity \in Nat \ {0}

VARIABLES
    capacity,      \* permits left
    runCapacity,   \* run permits left
    conn,          \* conn[c]: the state of connection c
    request        \* request[c]: what it asks for, and what has come of it

vars == <<capacity, runCapacity, conn, request>>

(* Of a connection with a thread; and after it, with what the client got.  *)
Serving  == {"reading", "working", "running", "auditing", "replying", "refusing"}
Outcomes == {"none", "ok", "error", "unavailable", "lost"}

(* The static pages and healthz, which are neither authenticated nor      *)
(* audited; the other GETs; a proof archive; the POSTs, and among them a   *)
(* run.  "done" is what was committed of the operation, "logged" whether   *)
(* the event api:GET, api:POST or proof_download is in the audit log.      *)
Kinds   == {"unread", "page", "view", "download", "write", "run"}
Request == [kind : Kinds, done : {"none", "part", "all"}, logged : BOOLEAN]
Asked(kind) == [kind |-> kind, done |-> "none", logged |-> FALSE]
Unread  == Asked("unread")

Init ==
    /\ capacity = HttpCapacity
    /\ runCapacity = RunCapacity
    /\ conn = [c \in Clients |-> "none"]
    /\ request = [c \in Clients |-> Unread]

Goto(c, state)     == conn' = [conn EXCEPT ![c] = state]
Becomes(c, result) == request' = [request EXCEPT ![c] = result]
Commits(c, done)   == request' = [request EXCEPT ![c].done = done]

---------------------------------------------------------------------------
(* process_request, in the accepting thread.                               *)

Refuse(c) ==
    /\ conn[c] \in Outcomes
    /\ capacity = 0
    /\ Goto(c, "unavailable")
    /\ Becomes(c, Unread)
    /\ UNCHANGED <<capacity, runCapacity>>

Admit(c) ==
    /\ conn[c] \in Outcomes
    /\ capacity > 0
    /\ capacity' = capacity - 1
    /\ Goto(c, "reading")
    /\ Becomes(c, Unread)
    /\ UNCHANGED runCapacity

(* The permit is taken and the thread cannot be started: it is returned.   *)
StartFails(c) ==
    /\ conn[c] \in Outcomes
    /\ capacity > 0
    /\ Goto(c, "lost")
    /\ Becomes(c, Unread)
    /\ UNCHANGED <<capacity, runCapacity>>

---------------------------------------------------------------------------
(* dispatch, in the thread of the connection.                              *)

(* Host, origin, identity, role, length and body are in order, or the      *)
(* answer is an error; the socket waits 15 seconds for each receipt.       *)
Read(c) ==
    /\ conn[c] = "reading"
    /\ \/ Goto(c, "refusing") /\ UNCHANGED request
       \/ Goto(c, "replying") /\ Becomes(c, Asked("page"))
       \/ /\ Goto(c, "working")
          /\ \E k \in Kinds \ {"unread", "page"} : Becomes(c, Asked(k))
    /\ UNCHANGED <<capacity, runCapacity>>

(* Any operation but a run: it returns, or raises.  What commits object by *)
(* object, an import or a release, may raise in the middle.                *)
Work(c) ==
    /\ conn[c] = "working"
    /\ request[c].kind # "run"
    /\ \/ /\ Goto(c, "auditing")
          /\ IF request[c].kind = "download" THEN UNCHANGED request ELSE Commits(c, "all")
       \/ Goto(c, "refusing") /\ UNCHANGED request
       \/ request[c].kind = "write" /\ Goto(c, "refusing") /\ Commits(c, "part")
    /\ UNCHANGED <<capacity, runCapacity>>

(* POST /v1/runs: without a permit a conflict. *)
StartRun(c) ==
    /\ conn[c] = "working"
    /\ request[c].kind = "run"
    /\ IF runCapacity = 0
       THEN Goto(c, "refusing") /\ UNCHANGED runCapacity
       ELSE Goto(c, "running") /\ runCapacity' = runCapacity - 1
    /\ UNCHANGED <<capacity, request>>

(* A plausible fault: the permit is returned only by a run that succeeds.  *)
EndRunIfGood(c) ==
    /\ conn[c] = "running"
    /\ \/ Goto(c, "auditing") /\ Commits(c, "all") /\ runCapacity' = runCapacity + 1
       \/ Goto(c, "refusing") /\ UNCHANGED <<request, runCapacity>>
    /\ UNCHANGED capacity

(* A plausible fault: the isolated interpreter has no time limit. *)
EndRunHanging(c) ==
    /\ conn[c] = "running"
    /\ UNCHANGED vars

(* The run is recorded, or raises, before or after the event run_started;  *)
(* its permit is returned in any case.                                     *)
EndRun(c) ==
    /\ conn[c] = "running"
    /\ \/ Goto(c, "auditing") /\ Commits(c, "all")
       \/ Goto(c, "refusing") /\ UNCHANGED request
       \/ Goto(c, "refusing") /\ Commits(c, "part")
    /\ runCapacity' = runCapacity + 1
    /\ UNCHANGED capacity

(* A plausible fault: an event that cannot be written is passed over.      *)
AuditIfPossible(c) ==
    /\ conn[c] = "auditing"
    /\ Goto(c, "replying")
    /\ \E written \in BOOLEAN :
         Becomes(c, [request[c] EXCEPT !.done = "all", !.logged = written])
    /\ UNCHANGED <<capacity, runCapacity>>

(* The event is written after the operation committed, and may fail.  The  *)
(* archive of a download is read after its event, and may be missing.      *)
Audit(c) ==
    /\ conn[c] = "auditing"
    /\ \/ Goto(c, "refusing") /\ UNCHANGED request
       \/ Goto(c, "replying") /\ Becomes(c, [request[c] EXCEPT !.done = "all", !.logged = TRUE])
       \/ /\ request[c].kind = "download"
          /\ Goto(c, "refusing")
          /\ Becomes(c, [request[c] EXCEPT !.logged = TRUE])
    /\ UNCHANGED <<capacity, runCapacity>>

(* The answer is sent, or the client is gone; the permit is returned.      *)
Reply(c) ==
    /\ conn[c] \in {"replying", "refusing"}
    /\ Goto(c, "lost") \/ Goto(c, IF conn[c] = "replying" THEN "ok" ELSE "error")
    /\ capacity' = capacity + 1
    /\ UNCHANGED <<runCapacity, request>>

(* The answer is slow or cannot be encoded: another one is tried.          *)
ReplyFails(c) ==
    /\ conn[c] = "replying"
    /\ Goto(c, "refusing")
    /\ UNCHANGED <<capacity, runCapacity, request>>

Handle(c) ==
    Read(c) \/ Work(c) \/ StartRun(c) \/ EndRun(c) \/ Audit(c) \/ Reply(c) \/ ReplyFails(c)

Next == \E c \in Clients : Refuse(c) \/ Admit(c) \/ StartFails(c) \/ Handle(c)

(* A thread proceeds: every wait for the client is bounded by 15 seconds   *)
(* and what is read or written by its length, a run by its budgets and the *)
(* 45 seconds of the isolated interpreter.                                 *)
Fairness == \A c \in Clients : WF_vars(Handle(c))

Spec     == Init /\ [][Next]_vars
FairSpec == Spec /\ Fairness

---------------------------------------------------------------------------
(* Properties.                                                             *)

(* Permits are within their capacities.                                    *)
TypeOK ==
    /\ capacity \in 0..HttpCapacity
    /\ runCapacity \in 0..RunCapacity
    /\ conn \in [Clients -> Serving \cup Outcomes]
    /\ request \in [Clients -> Request]

Served  == {c \in Clients : conn[c] \in Serving}
Running == {c \in Clients : conn[c] = "running"}

(* A permit is taken by exactly the connections that have a thread, and a  *)
(* run permit by exactly those that run: whatever request fails or client  *)
(* leaves at whatever moment, no permit is lost and none returned twice,   *)
(* which a BoundedSemaphore answers with ValueError.                       *)
PermitsAreExact ==
    /\ capacity + Cardinality(Served) = HttpCapacity
    /\ runCapacity + Cardinality(Running) = RunCapacity

(* "HTTP 200 means the operation returned successfully": a client that has *)
(* the answer of an operation finds it committed and in the audit log, one *)
(* that was turned away for lack of capacity changed nothing, and the log  *)
(* has no api event of an operation that did not complete (proof_download  *)
(* only says that the archive was asked for).  After an error or a lost    *)
(* answer the operation may have been committed, in part or with its event. *)
AnswersAreTrue ==
    \A c \in Clients :
      LET r == request[c]
      IN  /\ conn[c] = "ok" /\ r.kind # "page" => r.done = "all" /\ r.logged
          /\ conn[c] = "unavailable" => r = Unread
          /\ r.logged /\ r.kind # "download" => r.done = "all"

(* An admitted connection ends.                                            *)
ConnectionsEnd == \A c \in Clients : conn[c] \in Serving ~> conn[c] \in Outcomes
=============================================================================
