----------------------------- MODULE Lifecycle -----------------------------
(***************************************************************************)
(* The life of one protocol: evidence links of its claim are registered,   *)
(* the protocol is frozen, run, its runs are reviewed, and a run is        *)
(* released (service.freeze and run, review.py, proof/packet.py).  Each is *)
(* a request of its own thread; a request that writes does so in one       *)
(* transaction, but release, run and freeze decide on what they read in    *)
(* several transactions before.                                            *)
(*                                                                         *)
(* The database is its log: the records and the run_started events in the  *)
(* order of their registration, which is the order db.list and the audit   *)
(* chain keep.  What the gates find is module GateRun's: here a run passed, *)
(* which stands for what release requires of the stored record, or not.    *)
(***************************************************************************)
EXTENDS Integers, Sequences, FiniteSets

CONSTANTS
    Threads,             \* requests served at the same time
    People,              \* identities: analysts, reviewers and release owners
    Links,               \* evidence links of the claim that may be registered
    RequiredReviewers,   \* required_reviewers of the protocol
    HighImpact,          \* high_impact of the claim
    MaxRuns, MaxReviews, MaxPackets,   \* bounds: records of each kind
    MaxCode                             \* bound: versions of the installed code

ASSUME LifecycleAssumption ==
    /\ RequiredReviewers \in 1..20
    /\ HighImpact \in BOOLEAN
    /\ MaxCode \in Nat \ {0}

(* At least one reviewer, two for a high-impact claim. *)
Required == IF HighImpact /\ RequiredReviewers < 2 THEN 2 ELSE RequiredReviewers

(* DOWNGRADE, REJECT and RERUN_REQUIRED have the same effect. *)
Dispositions == {"approve", "object"}

VARIABLES
    log,    \* what is registered, oldest first
    disk,   \* the version of the code software_manifest finds on disk
    job     \* job[t]: the request thread t serves

vars == <<log, disk, job>>

Results == {"passed", "failed", "error"}

(* Runs and releases are told by the position of the entry they began at.  *)
Entry ==
    [kind : {"link"}, link : Links]
      \cup [kind : {"freeze"}, links : SUBSET Links]
      \cup [kind : {"started"}, by : People]
      \cup [kind : {"run"}, start : Nat, code : Nat, result : Results]
      \cup [kind : {"review"}, run : Nat, reviewer : People, action : Dispositions, conflict : BOOLEAN]
      \cup [kind : {"packet"}, run : Nat, reviews : SUBSET Nat]
      \cup [kind : {"release"}, run : Nat, owner : People, since : Nat, approvals : SUBSET Nat]

Idle == [at |-> "idle"]

Request ==
    {Idle}
      \cup [at : {"freeze"}, links : SUBSET Links]
      \cup [at : {"gates"}, start : Nat, code : Nat]
      \cup [at : {"record"}, start : Nat, code : Nat, result : Results]
      \cup [at : {"verify", "inputs", "code", "reviews"}, run : Nat, owner : People, since : Nat]
      \cup [at : {"export", "release"}, run : Nat, owner : People, since : Nat, approvals : SUBSET Nat]

Init ==
    /\ log = <<>>
    /\ disk = 1
    /\ job = [t \in Threads |-> Idle]

---------------------------------------------------------------------------
(* What the log says after its first n entries.                            *)

Of(kind, n) == {i \in 1..n : log[i].kind = kind}

LinksAt(n) == {log[i].link : i \in Of("link", n)}

Frozen == Of("freeze", Len(log)) # {}

FrozenLinks == {l \in Links : \E i \in Of("freeze", Len(log)) : l \in log[i].links}

(* The run that the started event at r led to. *)
RunOf(r) == {i \in Of("run", Len(log)) : log[i].start = r}

Reviews(r, n) == {i \in Of("review", n) : log[i].run = r}

(* A later review of the same run by the same reviewer replaces an earlier. *)
Latest(r, n) ==
    {i \in Reviews(r, n) : \A j \in Reviews(r, n) : log[j].reviewer = log[i].reviewer => j <= i}

Objections(r, n) == {i \in Latest(r, n) : log[i].action # "approve"}

(* Approvals that count: no conflict of interest, neither the analyst's    *)
(* nor the release owner's.                                                *)
Approvals(r, n, owner) ==
    {i \in Latest(r, n) :
       /\ log[i].action = "approve"
       /\ ~ log[i].conflict
       /\ log[i].reviewer \notin {log[r].by, owner}}

---------------------------------------------------------------------------
Free(t) == job[t] = Idle

Finish(t) == job' = [job EXCEPT ![t] = Idle]

Continue(t, step) == job' = [job EXCEPT ![t].at = step]

(* Service.register of an EvidenceLink. *)
RegisterLink(t, l) ==
    /\ Free(t)
    /\ l \notin LinksAt(Len(log))
    /\ log' = Append(log, [kind |-> "link", link |-> l])
    /\ UNCHANGED <<disk, job>>

---------------------------------------------------------------------------
(* Service.freeze: a protocol that is frozen is left alone; otherwise what *)
(* it refers to is collected, and then written in a second transaction.    *)

FreezeCollect(t) ==
    /\ Free(t)
    /\ ~ Frozen
    /\ job' = [job EXCEPT ![t] = [at |-> "freeze", links |-> LinksAt(Len(log))]]
    /\ UNCHANGED <<log, disk>>

(* A plausible fault: a freeze does not look whether there is one. *)
FreezePutAgain(t) ==
    /\ job[t].at = "freeze"
    /\ log' = Append(log, [kind |-> "freeze", links |-> job[t].links])
    /\ Finish(t)
    /\ UNCHANGED disk

(* The id of a freeze depends on the protocol alone and its payload on the *)
(* time: of two freezes the second to be written is a conflict.            *)
FreezePut(t) ==
    /\ job[t].at = "freeze"
    /\ IF Frozen THEN UNCHANGED log
       ELSE log' = Append(log, [kind |-> "freeze", links |-> job[t].links])
    /\ Finish(t)
    /\ UNCHANGED disk

---------------------------------------------------------------------------
(* Service.run.                                                            *)

RunStart(t, p) ==
    /\ Free(t)
    /\ Frozen
    /\ Cardinality(Of("started", Len(log))) < MaxRuns
    /\ log' = Append(log, [kind |-> "started", by |-> p])
    /\ job' = [job EXCEPT ![t] = [at |-> "gates", start |-> Len(log) + 1, code |-> disk]]
    /\ UNCHANGED disk

(* A plausible fault: the gates take the frozen links for the live ones. *)
InputsUnchecked == TRUE

(* G0: the live links of the claim are the frozen ones. *)
InputsUnchanged == LinksAt(Len(log)) = FrozenLinks

(* The gates: G0 is the first, the others may take minutes; an exception   *)
(* makes the run an error.                                                 *)
RunGates(t) ==
    /\ job[t].at = "gates"
    /\ \E result \in {"passed", "failed", "error"} :
         /\ result = "passed" => InputsUnchanged
         /\ job' = [job EXCEPT ![t] = [at |-> "record", start |-> @.start, code |-> @.code,
                                       result |-> result]]
    /\ UNCHANGED <<log, disk>>

(* A run during which the code changed is an error. *)
RunRecord(t) ==
    /\ job[t].at = "record"
    /\ log' = Append(log, [kind |-> "run", start |-> job[t].start, code |-> job[t].code,
                           result |-> IF job[t].code = disk THEN job[t].result ELSE "error"])
    /\ Finish(t)
    /\ UNCHANGED disk

---------------------------------------------------------------------------
(* review: of a recorded run, with any disposition, as often as one likes. *)

Review(t, p, r, action, conflict) ==
    /\ Free(t)
    /\ RunOf(r) # {}
    /\ Cardinality(Of("review", Len(log))) < MaxReviews
    /\ log' = Append(log, [kind |-> "review", run |-> r, reviewer |-> p,
                           action |-> action, conflict |-> conflict])
    /\ UNCHANGED <<disk, job>>

---------------------------------------------------------------------------
(* release: seven steps, each of which may refuse.  since is a history     *)
(* variable: the length of the log when the request came.                  *)

ReleaseBegin(t, p, r) ==
    /\ Free(t)
    /\ \E i \in RunOf(r) : log[i].result = "passed"
    /\ job' = [job EXCEPT ![t] = [at |-> "verify", run |-> r, owner |-> p, since |-> Len(log)]]
    /\ UNCHANGED <<log, disk>>

(* Service.verify may raise, also when all is well (module EvidenceStore). *)
ReleaseVerify(t) ==
    /\ job[t].at = "verify"
    /\ Continue(t, "inputs") \/ Finish(t)
    /\ UNCHANGED <<log, disk>>

ReleaseInputs(t) ==
    /\ job[t].at = "inputs"
    /\ IF InputsUnchanged THEN Continue(t, "code") ELSE Finish(t)
    /\ UNCHANGED <<log, disk>>

CodeUnchanged(r) == \E i \in RunOf(r) : log[i].code = disk

ReleaseCode(t) ==
    /\ job[t].at = "code"
    /\ IF CodeUnchanged(job[t].run) THEN Continue(t, "reviews") ELSE Finish(t)
    /\ UNCHANGED <<log, disk>>

(* A plausible fault: approvals are counted without looking at objections. *)
ReviewsEnough(r, owner) == Cardinality(Approvals(r, Len(log), owner)) >= Required

ReviewsAllow(r, owner) ==
    /\ Objections(r, Len(log)) = {}
    /\ Cardinality(Approvals(r, Len(log), owner)) >= Required

ReleaseReviews(t) ==
    /\ job[t].at = "reviews"
    /\ IF ReviewsAllow(job[t].run, job[t].owner)
       THEN job' = [job EXCEPT ![t] = [at |-> "export", run |-> @.run, owner |-> @.owner, since |-> @.since,
                                       approvals |-> Approvals(@.run, Len(log), @.owner)]]
       ELSE Finish(t)
    /\ UNCHANGED <<log, disk>>

(* A plausible fault: the packet holds the reviews there were at the request. *)
ReleaseExportEarlier(t) ==
    /\ job[t].at = "export"
    /\ CodeUnchanged(job[t].run)
    /\ Cardinality(Of("packet", Len(log))) < MaxPackets
    /\ log' = Append(log, [kind |-> "packet", run |-> job[t].run,
                           reviews |-> Reviews(job[t].run, job[t].since)])
    /\ Continue(t, "release")
    /\ UNCHANGED disk

(* export_packet: the installed code is compared once more, the reviews of *)
(* the run are read again for the packet, the archive becomes a raw file.  *)
ReleaseExport(t) ==
    /\ job[t].at = "export"
    /\ \/ /\ CodeUnchanged(job[t].run)
          /\ Cardinality(Of("packet", Len(log))) < MaxPackets
          /\ log' = Append(log, [kind |-> "packet", run |-> job[t].run,
                                 reviews |-> Reviews(job[t].run, Len(log))])
          /\ Continue(t, "release")
       \/ Finish(t) /\ UNCHANGED log
    /\ UNCHANGED disk

ReleasePut(t) ==
    /\ job[t].at = "release"
    /\ log' = Append(log, [kind |-> "release", run |-> job[t].run, owner |-> job[t].owner,
                           since |-> job[t].since, approvals |-> job[t].approvals])
    /\ Finish(t)
    /\ UNCHANGED disk

---------------------------------------------------------------------------
(* New code is installed; the process ends and its requests with it.       *)

Upgrade ==
    /\ disk < MaxCode
    /\ disk' = disk + 1
    /\ UNCHANGED <<log, job>>

Crash ==
    /\ job' = [t \in Threads |-> Idle]
    /\ UNCHANGED <<log, disk>>

Step(t) ==
    \/ FreezePut(t)
    \/ RunGates(t) \/ RunRecord(t)
    \/ ReleaseVerify(t) \/ ReleaseInputs(t) \/ ReleaseCode(t)
    \/ ReleaseReviews(t) \/ ReleaseExport(t) \/ ReleasePut(t)

Arrive(t) ==
    \/ \E l \in Links : RegisterLink(t, l)
    \/ FreezeCollect(t)
    \/ \E p \in People : RunStart(t, p)
    \/ \E p \in People, r \in Of("started", Len(log)) :
         \/ ReleaseBegin(t, p, r)
         \/ \E action \in Dispositions, conflict \in BOOLEAN : Review(t, p, r, action, conflict)

Next == (\E t \in Threads : Arrive(t) \/ Step(t)) \/ Upgrade \/ Crash

Spec == Init /\ [][Next]_vars

---------------------------------------------------------------------------
(* Properties.                                                             *)

(* The log holds well-formed entries, and every thread a well-formed request. *)
TypeOK ==
    /\ log \in Seq(Entry)
    /\ disk \in 1..MaxCode
    /\ job \in [Threads -> Request]

(* "A run cannot silently freeze a mutable plan": a protocol is frozen at  *)
(* most once, by nothing that came later than its freeze, before its first *)
(* run starts; a run leaves at most one record, after its start.           *)
RecordsAreOrdered ==
    LET all == Len(log)
    IN  /\ \A i, j \in Of("freeze", all) : i = j
        /\ \A i \in Of("freeze", all) : log[i].links \subseteq LinksAt(i)
        /\ \A s \in Of("started", all) : \E i \in Of("freeze", all) : i < s
        /\ \A i, j \in Of("run", all) :
             log[i].start \in Of("started", i) /\ (log[i].start = log[j].start => i = j)

(* Evidence the freeze does not know, registered before a run starts or a  *)
(* release is requested, stops it, whether it came after the freeze or     *)
(* while the freeze collected: no adverse evidence is omitted.             *)
LateEvidenceBlocks ==
    /\ \A i \in Of("run", Len(log)) : log[i].result = "passed" => LinksAt(log[i].start) \subseteq FrozenLinks
    /\ \A i \in Of("release", Len(log)) : LinksAt(log[i].since) \subseteq FrozenLinks

(* When the log h had n entries, nobody's last word on the run was an      *)
(* objection, and the approvals were the last word of enough people.       *)
ReviewedAt(h, n, r, owner, approvals) ==
    LET said    == {i \in 1..n : h[i].kind = "review" /\ h[i].run = r}
        Last(i) == \A j \in said : h[j].reviewer = h[i].reviewer => j <= i
    IN  /\ \A i \in said : Last(i) => h[i].action = "approve"
        /\ \A i \in approvals :
             /\ i \in said /\ Last(i) /\ ~ h[i].conflict
             /\ h[i].reviewer \notin {h[r].by, owner}
        /\ Cardinality(approvals) >= RequiredReviewers
        /\ HighImpact => Cardinality(approvals) >= 2

(* At some moment between the request and the release no reviewer's last   *)
(* word on the run was an objection, and the approvals the release names   *)
(* were the last word of enough different people, none with a conflict of  *)
(* interest and none the analyst or the release owner.                     *)
ReleaseIsReviewed ==
    \A k \in Of("release", Len(log)) :
      \E n \in log[k].since..(k - 1) :
        ReviewedAt(log, n, log[k].run, log[k].owner, log[k].approvals)

(* The packet of a release is of the same run, which passed, was written   *)
(* before, and contains every review the release relies on.                *)
PacketCoversRelease ==
    \A k \in Of("release", Len(log)) :
      /\ \E i \in RunOf(log[k].run) : i < k /\ log[i].result = "passed"
      /\ \E j \in Of("packet", k - 1) :
           log[j].run = log[k].run /\ log[k].approvals \subseteq log[j].reviews

(* "A current DOWNGRADE, REJECT or RERUN_REQUIRED review blocks release."  *)
ObjectionBlocksRelease ==
    \A k \in Of("release", Len(log)) : Objections(log[k].run, k - 1) = {}
=============================================================================
