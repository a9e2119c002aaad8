-------------------------- MODULE LifecycleProofs --------------------------
(***************************************************************************)
(* That a release is reviewed, for every number of threads and people and  *)
(* every bound: what a release found in the reviews stays true of the      *)
(* prefix of the log it was found in, because the log only grows.          *)
(***************************************************************************)
EXTENDS Lifecycle, TLAPS, FiniteSetTheorems

(* What an insertion leaves as it was. *)
LEMMA Appended ==
    ASSUME log \in Seq(Entry), NEW e \in Entry, log' = Append(log, e)
    PROVE  /\ log' \in Seq(Entry)
           /\ Len(log') = Len(log) + 1
           /\ log'[Len(log) + 1] = e
           /\ \A i \in 1..Len(log) : log'[i] = log[i]
OBVIOUS

(* The log and every request keep their types. *)
THEOREM TypeCorrect == Spec => []TypeOK
<1>1. Init => TypeOK
  BY LifecycleAssumption DEF Init, TypeOK, Request, Idle
<1>2. TypeOK /\ [Next]_vars => TypeOK'
  <2> SUFFICES ASSUME TypeOK, [Next]_vars PROVE TypeOK'
    OBVIOUS
  <2> USE LifecycleAssumption
  <2>0. Len(log) \in Nat
    BY DEF TypeOK
  <2>1. ASSUME NEW t \in Threads, NEW l \in Links, RegisterLink(t, l) PROVE TypeOK'
    <3>1. [kind |-> "link", link |-> l] \in Entry
      BY DEF Entry
    <3> QED BY <2>1, <3>1 DEF RegisterLink, TypeOK
  <2>2. ASSUME NEW t \in Threads, FreezeCollect(t) PROVE TypeOK'
    <3>1. LinksAt(Len(log)) \in SUBSET Links
      <4> SUFFICES ASSUME NEW i \in Of("link", Len(log)) PROVE log[i].link \in Links
        BY DEF LinksAt
      <4>1. log[i] \in Entry /\ log[i].kind = "link"
        BY DEF Of, TypeOK
      <4> QED BY <4>1 DEF Entry
    <3>2. [at |-> "freeze", links |-> LinksAt(Len(log))] \in Request
      BY <3>1 DEF Request
    <3> QED BY <2>2, <3>2 DEF FreezeCollect, TypeOK
  <2>3. ASSUME NEW t \in Threads, FreezePut(t) PROVE TypeOK'
    <3>1. job[t].links \in SUBSET Links
      BY <2>3 DEF FreezePut, TypeOK, Request, Idle
    <3>2. [kind |-> "freeze", links |-> job[t].links] \in Entry
      BY <3>1 DEF Entry
    <3>3. Idle \in Request
      BY DEF Request
    <3> QED BY <2>3, <3>2, <3>3 DEF FreezePut, Finish, TypeOK
  <2>4. ASSUME NEW t \in Threads, NEW p \in People, RunStart(t, p) PROVE TypeOK'
    <3>1. [kind |-> "started", by |-> p] \in Entry
      BY DEF Entry
    <3>2. [at |-> "gates", start |-> Len(log) + 1, code |-> disk] \in Request
      BY <2>0 DEF Request, TypeOK
    <3> QED BY <2>4, <3>1, <3>2 DEF RunStart, TypeOK
  <2>5. ASSUME NEW t \in Threads, RunGates(t) PROVE TypeOK'
    <3>1. job[t].start \in Nat /\ job[t].code \in Nat
      BY <2>5 DEF RunGates, TypeOK, Request, Idle
    <3>2. \A result \in Results :
            [at |-> "record", start |-> job[t].start, code |-> job[t].code, result |-> result] \in Request
      BY <3>1 DEF Request
    <3> QED BY <2>5, <3>2 DEF RunGates, TypeOK, Results
  <2>6. ASSUME NEW t \in Threads, RunRecord(t) PROVE TypeOK'
    <3>1. job[t].start \in Nat /\ job[t].code \in Nat /\ job[t].result \in Results
      BY <2>6 DEF RunRecord, TypeOK, Request, Idle
    <3>2. \A result \in Results :
            [kind |-> "run", start |-> job[t].start, code |-> job[t].code, result |-> result] \in Entry
      BY <3>1 DEF Entry
    <3>3. (IF job[t].code = disk THEN job[t].result ELSE "error") \in Results
      BY <3>1 DEF Results
    <3>4. Idle \in Request
      BY DEF Request
    <3> QED BY <2>6, <3>2, <3>3, <3>4 DEF RunRecord, Finish, TypeOK
  <2>7. ASSUME NEW t \in Threads, NEW p \in People, NEW r \in Of("started", Len(log)),
               NEW action \in Dispositions, NEW conflict \in BOOLEAN,
               Review(t, p, r, action, conflict)
        PROVE  TypeOK'
    <3>1. r \in Nat
      BY <2>0 DEF Of
    <3>2. [kind |-> "review", run |-> r, reviewer |-> p, action |-> action, conflict |-> conflict] \in Entry
      BY <3>1 DEF Entry
    <3> QED BY <2>7, <3>2 DEF Review, TypeOK
  <2>8. ASSUME NEW t \in Threads, NEW p \in People, NEW r \in Of("started", Len(log)),
               ReleaseBegin(t, p, r)
        PROVE  TypeOK'
    <3>1. r \in Nat
      BY <2>0 DEF Of
    <3>2. [at |-> "verify", run |-> r, owner |-> p, since |-> Len(log)] \in Request
      BY <2>0, <3>1 DEF Request
    <3> QED BY <2>8, <3>2 DEF ReleaseBegin, TypeOK
  <2>9. ASSUME NEW t \in Threads, ReleaseVerify(t) \/ ReleaseInputs(t) \/ ReleaseCode(t) PROVE TypeOK'
    <3>1. job[t] \in [at : {"verify", "inputs", "code", "reviews"}, run : Nat, owner : People, since : Nat]
      BY <2>9 DEF ReleaseVerify, ReleaseInputs, ReleaseCode, TypeOK, Request, Idle
    <3>2. \A step \in {"inputs", "code", "reviews"} : [job[t] EXCEPT !.at = step] \in Request
      BY <3>1 DEF Request
    <3>3. Idle \in Request
      BY DEF Request
    <3>4. \/ \E step \in {"inputs", "code", "reviews"} : Continue(t, step)
          \/ Finish(t)
      BY <2>9 DEF ReleaseVerify, ReleaseInputs, ReleaseCode
    <3>5. log' = log /\ disk' = disk
      BY <2>9 DEF ReleaseVerify, ReleaseInputs, ReleaseCode
    <3> QED BY <3>2, <3>3, <3>4, <3>5 DEF Continue, Finish, TypeOK
  <2>10. ASSUME NEW t \in Threads, ReleaseReviews(t) PROVE TypeOK'
    <3>1. job[t].run \in Nat /\ job[t].owner \in People /\ job[t].since \in Nat
      BY <2>10 DEF ReleaseReviews, TypeOK, Request, Idle
    <3>2. Approvals(job[t].run, Len(log), job[t].owner) \in SUBSET Nat
      BY <2>0 DEF Approvals, Latest, Reviews, Of
    <3>3. [at |-> "export", run |-> job[t].run, owner |-> job[t].owner, since |-> job[t].since,
           approvals |-> Approvals(job[t].run, Len(log), job[t].owner)] \in Request
      BY <3>1, <3>2 DEF Request
    <3>4. Idle \in Request
      BY DEF Request
    <3> QED BY <2>10, <3>3, <3>4 DEF ReleaseReviews, Finish, TypeOK
  <2>11. ASSUME NEW t \in Threads, ReleaseExport(t) PROVE TypeOK'
    <3>1. job[t] \in [at : {"export", "release"}, run : Nat, owner : People, since : Nat,
                      approvals : SUBSET Nat]
      BY <2>11 DEF ReleaseExport, TypeOK, Request, Idle
    <3>2. [job[t] EXCEPT !.at = "release"] \in Request /\ Idle \in Request
      BY <3>1 DEF Request
    <3>3. Reviews(job[t].run, Len(log)) \in SUBSET Nat
      BY <2>0 DEF Reviews, Of
    <3>4. [kind |-> "packet", run |-> job[t].run, reviews |-> Reviews(job[t].run, Len(log))] \in Entry
      BY <3>1, <3>3 DEF Entry
    <3>5. disk' = disk
      BY <2>11 DEF ReleaseExport
    <3>6. CASE Finish(t) /\ log' = log
      BY <3>2, <3>5, <3>6 DEF Finish, TypeOK
    <3>7. CASE /\ log' = Append(log, [kind |-> "packet", run |-> job[t].run,
                                      reviews |-> Reviews(job[t].run, Len(log))])
               /\ Continue(t, "release")
      <4>1. job' \in [Threads -> Request]
        BY <3>2, <3>7 DEF Continue, TypeOK
      <4>2. log' \in Seq(Entry)
        BY <3>4, <3>7 DEF TypeOK
      <4> QED BY <3>5, <4>1, <4>2 DEF TypeOK
    <3> QED BY <2>11, <3>6, <3>7 DEF ReleaseExport
  <2>12. ASSUME NEW t \in Threads, ReleasePut(t) PROVE TypeOK'
    <3>1. job[t] \in [at : {"export", "release"}, run : Nat, owner : People, since : Nat,
                      approvals : SUBSET Nat]
      BY <2>12 DEF ReleasePut, TypeOK, Request, Idle
    <3>2. [kind |-> "release", run |-> job[t].run, owner |-> job[t].owner,
           since |-> job[t].since, approvals |-> job[t].approvals] \in Entry
      BY <3>1 DEF Entry
    <3>3. Idle \in Request
      BY DEF Request
    <3> QED BY <2>12, <3>2, <3>3 DEF ReleasePut, Finish, TypeOK
  <2>13. CASE Upgrade
    BY <2>13 DEF Upgrade, TypeOK
  <2>14. CASE Crash
    <3>1. Idle \in Request
      BY DEF Request
    <3> QED BY <2>14, <3>1 DEF Crash, TypeOK
  <2>15. CASE UNCHANGED vars
    BY <2>15 DEF vars, TypeOK
  <2> QED BY <2>1, <2>2, <2>3, <2>4, <2>5, <2>6, <2>7, <2>8, <2>9, <2>10, <2>11, <2>12,
             <2>13, <2>14, <2>15 DEF Next, Arrive, Step
<1> QED BY <1>1, <1>2, PTL DEF Spec

---------------------------------------------------------------------------
(* Nothing registered is changed or removed.                               *)
LogGrows ==
    /\ Len(log') \in Nat
    /\ Len(log) <= Len(log')
    /\ \A i \in 1..Len(log) : log'[i] = log[i]

(* Every step leaves the entries of the log as they were, and adds behind them. *)
LEMMA StepGrowsLog == TypeOK /\ TypeOK' /\ [Next]_vars => LogGrows
<1> SUFFICES ASSUME TypeOK, TypeOK', [Next]_vars PROVE LogGrows
  OBVIOUS
<1>1. Len(log) \in Nat /\ Len(log') \in Nat
  BY DEF TypeOK
<1>2. log' = log \/ \E e : log' = Append(log, e)
  BY DEF Next, Arrive, Step, RegisterLink, FreezeCollect, FreezePut, RunStart, RunGates, RunRecord,
         Review, ReleaseBegin, ReleaseVerify, ReleaseInputs, ReleaseCode, ReleaseReviews,
         ReleaseExport, ReleasePut, Upgrade, Crash, vars
<1>3. CASE log' = log
  BY <1>1, <1>3 DEF LogGrows
<1>4. ASSUME NEW e, log' = Append(log, e) PROVE LogGrows
  BY <1>1, <1>4 DEF LogGrows, TypeOK
<1> QED BY <1>2, <1>3, <1>4

(* What was true of the first n entries stays true of them.                *)
LEMMA ReviewedStays ==
    ASSUME TypeOK, LogGrows, NEW n \in 0..Len(log), NEW r \in 1..n, NEW owner, NEW approvals,
           ReviewedAt(log, n, r, owner, approvals)
    PROVE  ReviewedAt(log', n, r, owner, approvals)
<1>1. Len(log) \in Nat
  BY DEF TypeOK
<1>2. \A i \in 1..n : log'[i] = log[i]
  BY <1>1 DEF LogGrows
<1>3. log'[r] = log[r]
  BY <1>2
<1>4. {i \in 1..n : log'[i].kind = "review" /\ log'[i].run = r}
        = {i \in 1..n : log[i].kind = "review" /\ log[i].run = r}
  BY <1>2
<1> QED BY <1>2, <1>3, <1>4 DEF ReviewedAt

(* The check of release is what ReviewedAt asks of the whole log.          *)
LEMMA AllowedIsReviewed ==
    ASSUME TypeOK, NEW r, NEW owner, ReviewsAllow(r, owner)
    PROVE  ReviewedAt(log, Len(log), r, owner, Approvals(r, Len(log), owner))
<1> DEFINE n == Len(log)
           approvals == Approvals(r, n, owner)
<1>1. n \in Nat
  BY DEF TypeOK
<1>2. Cardinality(approvals) \in Nat
  <2>1. approvals \subseteq 1..n
    BY DEF Approvals, Latest, Reviews, Of
  <2>2. IsFiniteSet(1..n)
    BY <1>1, FS_Interval
  <2> QED BY <2>1, <2>2, FS_Subset, FS_CardinalityType
<1>3. Cardinality(approvals) >= Required
  BY DEF ReviewsAllow
<1>4. /\ Cardinality(approvals) >= RequiredReviewers
      /\ HighImpact => Cardinality(approvals) >= 2
  BY <1>2, <1>3, LifecycleAssumption DEF Required
<1>5. Reviews(r, n) = {i \in 1..n : log[i].kind = "review" /\ log[i].run = r}
  BY DEF Reviews, Of
<1>6. \A i \in Latest(r, n) : log[i].action = "approve"
  BY DEF ReviewsAllow, Objections
<1>7. \A i \in approvals :
        i \in Latest(r, n) /\ ~ log[i].conflict /\ log[i].reviewer \notin {log[r].by, owner}
  BY DEF Approvals
<1> QED BY <1>4, <1>5, <1>6, <1>7 DEF ReviewedAt, Latest

(* What a release knows while it is under way: since when it runs, and once *)
(* it looked at the reviews, a moment since then at which they sufficed.   *)
Underway(t) ==
    /\ job[t].at \in {"verify", "inputs", "code", "reviews", "export", "release"} =>
         job[t].since <= Len(log) /\ job[t].run \in 1..job[t].since
    /\ job[t].at \in {"export", "release"} =>
         \E n \in job[t].since..Len(log) : ReviewedAt(log, n, job[t].run, job[t].owner, job[t].approvals)

Released ==
    \A k \in Of("release", Len(log)) : log[k].run \in 1..log[k].since

ReviewInv ==
    /\ \A t \in Threads : Underway(t)
    /\ Released
    /\ ReleaseIsReviewed

(* A request that is not touched keeps what it knows.                      *)
LEMMA UnderwayStays ==
    ASSUME TypeOK, LogGrows, NEW t \in Threads, Underway(t),
           job'[t].at \in {"verify", "inputs", "code", "reviews", "export", "release"} =>
             /\ job'[t].since = job[t].since
             /\ job'[t].run = job[t].run
             /\ job'[t].owner = job[t].owner
             /\ job[t].at \in {"verify", "inputs", "code", "reviews", "export", "release"}
             /\ job'[t].at \in {"export", "release"} =>
                  job[t].at \in {"export", "release"} /\ job'[t].approvals = job[t].approvals
    PROVE  Underway(t)'
<1>1. Len(log) \in Nat /\ Len(log') \in Nat /\ Len(log) <= Len(log')
  BY DEF TypeOK, LogGrows
<1>2. CASE job'[t].at \notin {"verify", "inputs", "code", "reviews", "export", "release"}
  BY <1>2 DEF Underway
<1>3. CASE job'[t].at \in {"verify", "inputs", "code", "reviews", "export", "release"}
  <2>1. job[t].since \in Nat
    BY <1>3 DEF TypeOK, Request, Idle
  <2>2. job'[t].since <= Len(log') /\ job'[t].run \in 1..job'[t].since
    BY <1>1, <1>3, <2>1 DEF Underway
  <2>3. ASSUME job'[t].at \in {"export", "release"}
        PROVE  \E n \in job'[t].since..Len(log') :
                 ReviewedAt(log', n, job'[t].run, job'[t].owner, job'[t].approvals)
    <3>1. PICK n \in job[t].since..Len(log) :
                 ReviewedAt(log, n, job[t].run, job[t].owner, job[t].approvals)
      BY <1>3, <2>3 DEF Underway
    <3>2. n \in 0..Len(log) /\ job[t].run \in 1..n /\ n \in job[t].since..Len(log')
      BY <1>1, <1>3, <2>1, <3>1 DEF Underway
    <3>3. ReviewedAt(log', n, job[t].run, job[t].owner, job[t].approvals)
      BY <3>1, <3>2, ReviewedStays
    <3> QED BY <1>3, <2>3, <3>2, <3>3
  <2> QED BY <1>3, <2>2, <2>3 DEF Underway
<1> QED BY <1>2, <1>3

(* Releases already issued stay reviewed, and so does a new one.           *)
LEMMA ReleasesStay ==
    ASSUME TypeOK, TypeOK', LogGrows, Released, ReleaseIsReviewed,
           NEW k \in Of("release", Len(log))
    PROVE  /\ log'[k].run \in 1..log'[k].since
           /\ \E n \in log'[k].since..(k - 1) :
                ReviewedAt(log', n, log'[k].run, log'[k].owner, log'[k].approvals)
<1>1. Len(log) \in Nat /\ k \in 1..Len(log) /\ log[k].kind = "release" /\ log[k] \in Entry
  BY DEF TypeOK, Of
<1>2. log'[k] = log[k]
  BY <1>1 DEF LogGrows
<1>3. log[k].since \in Nat
  BY <1>1 DEF Entry
<1>4. log[k].run \in 1..log[k].since
  BY DEF Released
<1>5. PICK n \in log[k].since..(k - 1) :
             ReviewedAt(log, n, log[k].run, log[k].owner, log[k].approvals)
  BY DEF ReleaseIsReviewed
<1>6. n \in 0..Len(log) /\ log[k].run \in 1..n
  BY <1>1, <1>3, <1>4, <1>5
<1>7. ReviewedAt(log', n, log[k].run, log[k].owner, log[k].approvals)
  BY <1>5, <1>6, ReviewedStays
<1> QED BY <1>2, <1>4, <1>5, <1>7

(* A step that registers no release and does not advance one.              *)
LEMMA OtherSteps ==
    ASSUME TypeOK, TypeOK', LogGrows, ReviewInv,
           Of("release", Len(log))' \subseteq Of("release", Len(log)),
           NEW t \in Threads, Underway(t)',
           \A u \in Threads \ {t} : job'[u] = job[u]
    PROVE  ReviewInv'
<1>1. \A u \in Threads : Underway(u)'
  BY UnderwayStays DEF ReviewInv
<1>2. Released' /\ ReleaseIsReviewed'
  BY ReleasesStay DEF ReviewInv, Released, ReleaseIsReviewed
<1> QED BY <1>1, <1>2 DEF ReviewInv

(* An entry that is not a release leaves the releases as they are.         *)
LEMMA NoNewRelease ==
    ASSUME TypeOK, log' = log \/ \E e \in Entry : log' = Append(log, e) /\ e.kind # "release"
    PROVE  Of("release", Len(log))' \subseteq Of("release", Len(log))
<1>1. Len(log) \in Nat
  BY DEF TypeOK
<1>2. CASE log' = log
  BY <1>2 DEF Of
<1>3. ASSUME NEW e \in Entry, log' = Append(log, e), e.kind # "release"
      PROVE  Of("release", Len(log))' \subseteq Of("release", Len(log))
  BY <1>1, <1>3, Appended DEF Of, TypeOK
<1> QED BY <1>2, <1>3

(* A release is reviewed: the invariant above is kept by every step.       *)
LEMMA ReviewInductive == TypeOK /\ TypeOK' /\ ReviewInv /\ [Next]_vars => ReviewInv'
<1> SUFFICES ASSUME TypeOK, TypeOK', ReviewInv, [Next]_vars PROVE ReviewInv'
  OBVIOUS
<1> USE StepGrowsLog
<1>0. LogGrows /\ Len(log) \in Nat
  BY DEF TypeOK
<1>1. ASSUME NEW t \in Threads, NEW l \in Links, RegisterLink(t, l) PROVE ReviewInv'
  <2>1. [kind |-> "link", link |-> l] \in Entry
    BY DEF Entry
  <2>2. Of("release", Len(log))' \subseteq Of("release", Len(log))
    BY <1>1, <2>1, NoNewRelease DEF RegisterLink
  <2>3. job' = job
    BY <1>1 DEF RegisterLink
  <2>4. Underway(t)'
    BY <1>0, <2>3, UnderwayStays DEF ReviewInv
  <2> QED BY <1>0, <2>2, <2>3, <2>4, OtherSteps
<1>2. ASSUME NEW t \in Threads, Arrive(t) \/ Step(t), job'[t].at \notin
               {"verify", "inputs", "code", "reviews", "export", "release"},
             log' = log \/ \E e \in Entry : log' = Append(log, e) /\ e.kind # "release",
             \A u \in Threads \ {t} : job'[u] = job[u]
      PROVE  ReviewInv'
  <2>1. Underway(t)'
    BY <1>2 DEF Underway
  <2> QED BY <1>0, <1>2, <2>1, NoNewRelease, OtherSteps
<1>3. ASSUME NEW t \in Threads, FreezeCollect(t) \/ RunGates(t) PROVE ReviewInv'
  <2>1. /\ log' = log
        /\ job'[t].at \in {"freeze", "record"}
        /\ \A u \in Threads \ {t} : job'[u] = job[u]
    BY <1>3 DEF FreezeCollect, RunGates, TypeOK
  <2> QED BY <1>2, <1>3, <2>1 DEF Arrive, Step
<1>4. ASSUME NEW t \in Threads, FreezePut(t) \/ RunRecord(t) PROVE ReviewInv'
  <2>1. /\ job'[t].at = "idle"
        /\ \A u \in Threads \ {t} : job'[u] = job[u]
    BY <1>4 DEF FreezePut, RunRecord, Finish, TypeOK, Idle
  <2>2. log' = log \/ \E e : log' = Append(log, e) /\ e.kind # "release"
    BY <1>4 DEF FreezePut, RunRecord
  <2>3. ASSUME NEW e, log' = Append(log, e) PROVE e \in Entry
    <3>1. log' \in Seq(Entry) /\ Len(log') = Len(log) + 1 /\ log'[Len(log) + 1] = e
      BY <1>0, <2>3 DEF TypeOK
    <3> QED BY <1>0, <3>1
  <2> QED BY <1>2, <1>4, <2>1, <2>2, <2>3 DEF Step
<1>5. ASSUME NEW t \in Threads, NEW p \in People, RunStart(t, p) PROVE ReviewInv'
  <2>1. [kind |-> "started", by |-> p] \in Entry
    BY DEF Entry
  <2>2. /\ log' = Append(log, [kind |-> "started", by |-> p])
        /\ job'[t].at = "gates"
        /\ \A u \in Threads \ {t} : job'[u] = job[u]
    BY <1>5 DEF RunStart, TypeOK
  <2> QED BY <1>2, <1>5, <2>1, <2>2 DEF Arrive
<1>6. ASSUME NEW t \in Threads, NEW p \in People, NEW r \in Of("started", Len(log)),
             NEW action \in Dispositions, NEW conflict \in BOOLEAN,
             Review(t, p, r, action, conflict)
      PROVE  ReviewInv'
  <2>1. r \in Nat
    BY <1>0 DEF Of
  <2>2. [kind |-> "review", run |-> r, reviewer |-> p, action |-> action, conflict |-> conflict] \in Entry
    BY <2>1 DEF Entry
  <2>3. Of("release", Len(log))' \subseteq Of("release", Len(log))
    BY <1>6, <2>2, NoNewRelease DEF Review
  <2>4. job' = job
    BY <1>6 DEF Review
  <2>5. Underway(t)'
    BY <1>0, <2>4, UnderwayStays DEF ReviewInv
  <2> QED BY <1>0, <2>3, <2>4, <2>5, OtherSteps
<1>7. ASSUME NEW t \in Threads, NEW p \in People, NEW r \in Of("started", Len(log)),
             ReleaseBegin(t, p, r)
      PROVE  ReviewInv'
  <2>1. r \in 1..Len(log)
    BY DEF Of
  <2>2. /\ log' = log
        /\ job'[t] = [at |-> "verify", run |-> r, owner |-> p, since |-> Len(log)]
        /\ \A u \in Threads \ {t} : job'[u] = job[u]
    BY <1>7 DEF ReleaseBegin, TypeOK
  <2>3. Underway(t)'
    BY <1>0, <2>1, <2>2 DEF Underway
  <2> QED BY <1>0, <2>2, <2>3, NoNewRelease, OtherSteps
<1>8. ASSUME NEW t \in Threads, ReleaseVerify(t) \/ ReleaseInputs(t) \/ ReleaseCode(t) PROVE ReviewInv'
  <2>1. log' = log
    BY <1>8 DEF ReleaseVerify, ReleaseInputs, ReleaseCode
  <2>2. \A u \in Threads \ {t} : job'[u] = job[u]
    BY <1>8 DEF ReleaseVerify, ReleaseInputs, ReleaseCode, Continue, Finish, TypeOK
  <2>3. Finish(t) \/ \E step \in {"inputs", "code", "reviews"} : Continue(t, step)
    BY <1>8 DEF ReleaseVerify, ReleaseInputs, ReleaseCode
  <2>4. job[t] \in [at : {"verify", "inputs", "code", "reviews"}, run : Nat, owner : People, since : Nat]
    BY <1>8 DEF ReleaseVerify, ReleaseInputs, ReleaseCode, TypeOK, Request, Idle
  <2>5. ASSUME Finish(t) PROVE Underway(t)'
    BY <2>5 DEF Finish, TypeOK, Idle, Underway
  <2>6. ASSUME NEW step \in {"inputs", "code", "reviews"}, Continue(t, step) PROVE Underway(t)'
    <3>1. job'[t] = [job[t] EXCEPT !.at = step]
      BY <2>6 DEF Continue, TypeOK
    <3>2. /\ job'[t].at = step /\ job'[t].since = job[t].since
          /\ job'[t].run = job[t].run /\ job'[t].owner = job[t].owner
      BY <2>4, <3>1
    <3> QED BY <1>0, <2>4, <3>2, UnderwayStays DEF ReviewInv
  <2>7. Underway(t)'
    BY <2>3, <2>5, <2>6
  <2> QED BY <1>0, <2>1, <2>2, <2>7, NoNewRelease, OtherSteps
<1>9. ASSUME NEW t \in Threads, ReleaseReviews(t) PROVE ReviewInv'
  <2>1. /\ log' = log
        /\ \A u \in Threads \ {t} : job'[u] = job[u]
    BY <1>9 DEF ReleaseReviews, Finish, TypeOK
  <2>2. job[t] \in [at : {"verify", "inputs", "code", "reviews"}, run : Nat, owner : People, since : Nat]
    BY <1>9 DEF ReleaseReviews, TypeOK, Request, Idle
  <2>3. ASSUME Finish(t) PROVE Underway(t)'
    BY <2>3 DEF Finish, TypeOK, Idle, Underway
  <2>4. ASSUME ReviewsAllow(job[t].run, job[t].owner),
               job' = [job EXCEPT ![t] = [at |-> "export", run |-> @.run, owner |-> @.owner, since |-> @.since,
                                          approvals |-> Approvals(@.run, Len(log), @.owner)]]
        PROVE  Underway(t)'
    <3>1. ReviewedAt(log, Len(log), job[t].run, job[t].owner, Approvals(job[t].run, Len(log), job[t].owner))
      BY <2>4, AllowedIsReviewed
    <3>2. job[t].since <= Len(log) /\ job[t].run \in 1..job[t].since
      BY <1>9 DEF ReviewInv, Underway, ReleaseReviews
    <3>3. job'[t] = [at |-> "export", run |-> job[t].run, owner |-> job[t].owner, since |-> job[t].since,
                     approvals |-> Approvals(job[t].run, Len(log), job[t].owner)]
      BY <2>4 DEF TypeOK
    <3>4. Len(log) \in job[t].since..Len(log)
      BY <1>0, <2>2, <3>2
    <3> QED BY <2>1, <3>1, <3>2, <3>3, <3>4 DEF Underway
  <2>5. Underway(t)'
    BY <1>9, <2>3, <2>4 DEF ReleaseReviews
  <2> QED BY <1>0, <2>1, <2>5, NoNewRelease, OtherSteps
<1>10. ASSUME NEW t \in Threads, ReleaseExport(t) PROVE ReviewInv'
  <2>1. job[t] \in [at : {"export", "release"}, run : Nat, owner : People, since : Nat,
                    approvals : SUBSET Nat]
    BY <1>10 DEF ReleaseExport, TypeOK, Request, Idle
  <2>2. CASE Finish(t) /\ log' = log
    <3>1. Underway(t)' /\ \A u \in Threads \ {t} : job'[u] = job[u]
      BY <2>2 DEF Finish, TypeOK, Idle, Underway
    <3> QED BY <1>0, <2>2, <3>1, NoNewRelease, OtherSteps
  <2>3. CASE /\ log' = Append(log, [kind |-> "packet", run |-> job[t].run,
                                    reviews |-> Reviews(job[t].run, Len(log))])
             /\ Continue(t, "release")
    <3>1. Reviews(job[t].run, Len(log)) \in SUBSET Nat
      BY <1>0 DEF Reviews, Of
    <3>2. [kind |-> "packet", run |-> job[t].run, reviews |-> Reviews(job[t].run, Len(log))] \in Entry
      BY <2>1, <3>1 DEF Entry
    <3>3. job'[t] = [job[t] EXCEPT !.at = "release"] /\ \A u \in Threads \ {t} : job'[u] = job[u]
      BY <2>3 DEF Continue, TypeOK
    <3>4. /\ job'[t].since = job[t].since /\ job'[t].run = job[t].run
          /\ job'[t].owner = job[t].owner /\ job'[t].approvals = job[t].approvals
      BY <2>1, <3>3
    <3>5. Underway(t)'
      BY <1>0, <2>1, <3>4, UnderwayStays DEF ReviewInv
    <3>6. Of("release", Len(log))' \subseteq Of("release", Len(log))
      BY <2>3, <3>2, NoNewRelease
    <3> QED BY <1>0, <3>3, <3>5, <3>6, OtherSteps
  <2> QED BY <1>10, <2>2, <2>3 DEF ReleaseExport
<1>11. ASSUME NEW t \in Threads, ReleasePut(t) PROVE ReviewInv'
  <2> DEFINE e == [kind |-> "release", run |-> job[t].run, owner |-> job[t].owner,
                   since |-> job[t].since, approvals |-> job[t].approvals]
  <2>1. job[t] \in [at : {"export", "release"}, run : Nat, owner : People, since : Nat,
                    approvals : SUBSET Nat]
    BY <1>11 DEF ReleasePut, TypeOK, Request, Idle
  <2>2. e \in Entry
    BY <2>1 DEF Entry
  <2>3. /\ Len(log') = Len(log) + 1
        /\ log'[Len(log) + 1] = e
        /\ \A i \in 1..Len(log) : log'[i] = log[i]
    BY <1>11, <2>2, Appended DEF ReleasePut, TypeOK
  <2>4. \A u \in Threads : Underway(u)'
    <3>1. job'[t] = Idle /\ \A u \in Threads \ {t} : job'[u] = job[u]
      BY <1>11 DEF ReleasePut, Finish, TypeOK
    <3>2. Underway(t)'
      BY <3>1 DEF Underway, Idle
    <3>3. \A u \in Threads \ {t} : Underway(u)'
      BY <1>0, <3>1, UnderwayStays DEF ReviewInv
    <3> QED BY <3>2, <3>3
  <2>5. job[t].run \in 1..job[t].since /\ job[t].since <= Len(log)
    BY <1>11 DEF ReviewInv, Underway, ReleasePut
  <2>6. PICK n \in job[t].since..Len(log) :
               ReviewedAt(log, n, job[t].run, job[t].owner, job[t].approvals)
    BY <1>11 DEF ReviewInv, Underway, ReleasePut
  <2>7. n \in 0..Len(log) /\ job[t].run \in 1..n
    BY <1>0, <2>1, <2>5, <2>6
  <2>8. ReviewedAt(log', n, job[t].run, job[t].owner, job[t].approvals)
    BY <1>0, <2>6, <2>7, ReviewedStays
  <2>9. ASSUME NEW k \in Of("release", Len(log))'
        PROVE  /\ log'[k].run \in 1..log'[k].since
               /\ \E m \in log'[k].since..(k - 1) :
                    ReviewedAt(log', m, log'[k].run, log'[k].owner, log'[k].approvals)
    <3>1. CASE k = Len(log) + 1
      <4>1. n \in log'[k].since..(k - 1)
        BY <1>0, <2>1, <2>3, <2>6, <3>1
      <4> QED BY <2>3, <2>5, <2>8, <3>1, <4>1
    <3>2. CASE k # Len(log) + 1
      <4>1. k \in Of("release", Len(log))
        BY <1>0, <2>3, <3>2 DEF Of
      <4> QED BY <1>0, <4>1, ReleasesStay DEF ReviewInv
    <3> QED BY <3>1, <3>2
  <2>10. Released' /\ ReleaseIsReviewed'
    BY <2>9 DEF Released, ReleaseIsReviewed
  <2> QED BY <2>4, <2>10 DEF ReviewInv
<1>12. CASE Upgrade \/ UNCHANGED vars
  <2>1. log' = log /\ job' = job
    BY <1>12 DEF Upgrade, vars
  <2>2. \A t \in Threads : Underway(t)'
    BY <1>0, <2>1, UnderwayStays DEF ReviewInv
  <2>3. Released' /\ ReleaseIsReviewed'
    BY <1>0, <2>1, NoNewRelease, ReleasesStay DEF ReviewInv, Released, ReleaseIsReviewed
  <2> QED BY <2>2, <2>3 DEF ReviewInv
<1>13. CASE Crash
  <2>1. log' = log /\ \A t \in Threads : job'[t] = Idle
    BY <1>13 DEF Crash
  <2>2. \A t \in Threads : Underway(t)'
    BY <2>1 DEF Underway, Idle
  <2>3. Released' /\ ReleaseIsReviewed'
    BY <1>0, <2>1, NoNewRelease, ReleasesStay DEF ReviewInv, Released, ReleaseIsReviewed
  <2> QED BY <2>2, <2>3 DEF ReviewInv
<1> QED BY <1>1, <1>3, <1>4, <1>5, <1>6, <1>7, <1>8, <1>9, <1>10, <1>11, <1>12, <1>13
        DEF Next, Arrive, Step

(* Whatever the interleaving of reviews, releases, upgrades and crashes,   *)
(* for any number of reviewers required: a release names approvals that    *)
(* sufficed, with nobody's objection open, at a moment after its request.  *)
THEOREM ReviewTheorem == Spec => []ReleaseIsReviewed
<1>1. Init => ReviewInv
  BY DEF Init, ReviewInv, Underway, Idle, Released, ReleaseIsReviewed, Of
<1>2. ReviewInv => ReleaseIsReviewed
  BY DEF ReviewInv
<1> QED BY <1>1, <1>2, TypeCorrect, ReviewInductive, PTL DEF Spec

---------------------------------------------------------------------------
(* What every entry found before it when it was registered, and what every *)
(* request has seen to so far.  Both speak of a prefix of the log, so that *)
(* they stay true as it grows.                                             *)

Justified(i) ==
    /\ log[i].kind = "freeze" => Of("freeze", i - 1) = {} /\ log[i].links \subseteq LinksAt(i)
    /\ log[i].kind = "started" => Of("freeze", i - 1) # {}
    /\ log[i].kind = "run" =>
         /\ log[i].start \in Of("started", i)
         /\ \A k \in Of("run", i - 1) : log[k].start # log[i].start
         /\ log[i].result = "passed" => LinksAt(log[i].start) \subseteq FrozenLinks
    /\ log[i].kind = "release" =>
         /\ log[i].since \in 0..(i - 1)
         /\ LinksAt(log[i].since) \subseteq FrozenLinks
         /\ \E k \in RunOf(log[i].run) : k < i /\ log[k].result = "passed"
         /\ \E k \in Of("packet", i - 1) :
              log[k].run = log[i].run /\ log[i].approvals \subseteq log[k].reviews

Releasing == {"verify", "inputs", "code", "reviews", "export", "release"}

Known(j) ==
    /\ j.at = "freeze" => j.links \subseteq LinksAt(Len(log))
    /\ j.at \in {"gates", "record"} => j.start \in Of("started", Len(log))
    /\ j.at = "record" /\ j.result = "passed" => LinksAt(j.start) \subseteq FrozenLinks
    /\ j.at \in Releasing => j.since \in 0..Len(log) /\ \E i \in RunOf(j.run) : log[i].result = "passed"
    /\ j.at \in {"code", "reviews", "export", "release"} => LinksAt(j.since) \subseteq FrozenLinks
    /\ j.at \in {"export", "release"} => j.approvals \subseteq Reviews(j.run, Len(log))
    /\ j.at = "release" =>
         \E i \in Of("packet", Len(log)) : log[i].run = j.run /\ j.approvals \subseteq log[i].reviews

(* A run under way belongs to one request and has left no record yet.      *)
Running(t) == job[t].at \in {"gates", "record"}

Unrecorded ==
    /\ \A t \in Threads : Running(t) => RunOf(job[t].start) = {}
    /\ \A t, u \in Threads : Running(t) /\ Running(u) /\ job[t].start = job[u].start => t = u

RecordInv ==
    /\ \A i \in 1..Len(log) : Justified(i)
    /\ \A t \in Threads : Known(job[t])
    /\ Unrecorded

(* What the log said of a prefix it says of it for ever.                   *)
LEMMA PrefixStays ==
    ASSUME TypeOK, LogGrows
    PROVE  /\ \A n \in 0..Len(log) :
                /\ \A kind : Of(kind, n)' = Of(kind, n)
                /\ LinksAt(n)' = LinksAt(n)
                /\ \A r : Reviews(r, n)' = Reviews(r, n)
           /\ \A kind : Of(kind, Len(log)) \subseteq Of(kind, Len(log))'
           /\ LinksAt(Len(log)) \subseteq LinksAt(Len(log))'
           /\ FrozenLinks \subseteq FrozenLinks'
           /\ \A r : RunOf(r) \subseteq RunOf(r)' /\ Reviews(r, Len(log)) \subseteq Reviews(r, Len(log))'
<1>1. Len(log) \in Nat /\ Len(log') \in Nat /\ Len(log) <= Len(log')
  BY DEF TypeOK, LogGrows
<1>2. \A i \in 1..Len(log) : log'[i] = log[i]
  BY DEF LogGrows
<1>3. ASSUME NEW n \in 0..Len(log), NEW kind PROVE Of(kind, n)' = Of(kind, n)
  BY <1>1, <1>2 DEF Of
<1>4. ASSUME NEW n \in 0..Len(log), NEW kind PROVE \A i \in Of(kind, n) : log'[i] = log[i]
  BY <1>1, <1>2 DEF Of
<1>5. ASSUME NEW n \in 0..Len(log) PROVE LinksAt(n)' = LinksAt(n)
  BY <1>3, <1>4 DEF LinksAt
<1>6. ASSUME NEW n \in 0..Len(log), NEW r PROVE Reviews(r, n)' = Reviews(r, n)
  BY <1>3, <1>4 DEF Reviews
<1>7. ASSUME NEW kind PROVE Of(kind, Len(log)) \subseteq Of(kind, Len(log))'
  BY <1>1, <1>2 DEF Of
<1>8. LinksAt(Len(log)) \subseteq LinksAt(Len(log))'
  BY <1>1, <1>4, <1>7 DEF LinksAt
<1>9. FrozenLinks \subseteq FrozenLinks'
  BY <1>1, <1>4, <1>7 DEF FrozenLinks
<1>10. ASSUME NEW r PROVE RunOf(r) \subseteq RunOf(r)' /\ Reviews(r, Len(log)) \subseteq Reviews(r, Len(log))'
  BY <1>1, <1>4, <1>7 DEF RunOf, Reviews
<1> QED
  BY <1>3, <1>5, <1>6, <1>7, <1>8, <1>9, <1>10

(* Of, Reviews and RunOf name entries of the log.                          *)
LEMMA EntriesAre ==
    ASSUME TypeOK, NEW n \in Nat, n <= Len(log)
    PROVE  /\ \A kind : Of(kind, n) \subseteq 1..n
           /\ \A r : Reviews(r, n) \subseteq 1..n /\ RunOf(r) \subseteq 1..Len(log)
           /\ LinksAt(n) \subseteq LinksAt(Len(log))
  BY DEF Of, Reviews, RunOf, LinksAt, TypeOK

LEMMA JustifiedStays ==
    ASSUME TypeOK, LogGrows, NEW i \in 1..Len(log), Justified(i)
    PROVE  Justified(i)'
<1>1. Len(log) \in Nat /\ i \in 0..Len(log) /\ i - 1 \in 0..Len(log) /\ i - 1 \in Nat /\ i \in Nat
  BY DEF TypeOK
<1>2. log'[i] = log[i] /\ log[i] \in Entry
  BY DEF LogGrows, TypeOK
<1>3. /\ \A kind : Of(kind, i - 1)' = Of(kind, i - 1) /\ Of(kind, i)' = Of(kind, i)
      /\ \A kind : Of(kind, i - 1) \subseteq 1..(i - 1) /\ Of(kind, i) \subseteq 1..i
  BY <1>1, PrefixStays, EntriesAre
<1>4. \A kind : \A k \in Of(kind, i - 1) : log'[k] = log[k]
  BY <1>1, <1>3 DEF LogGrows
<1>5. CASE log[i].kind = "freeze"
  BY <1>1, <1>2, <1>3, <1>5, PrefixStays DEF Justified
<1>6. CASE log[i].kind = "started"
  BY <1>2, <1>3, <1>6 DEF Justified
<1>7. CASE log[i].kind = "run"
  <2>1. log[i].start \in 0..Len(log)
    BY <1>1, <1>3, <1>7 DEF Justified
  <2>2. LinksAt(log[i].start)' = LinksAt(log[i].start)
    <3>1. PICK start : start = log[i].start
      OBVIOUS
    <3> QED
      BY <1>2, <2>1, <3>1, PrefixStays
  <2> QED
    BY <1>2, <1>3, <1>4, <1>7, <2>2, PrefixStays DEF Justified
<1>8. CASE log[i].kind = "release"
  <2>1. PICK since, r : since = log[i].since /\ r = log[i].run
    OBVIOUS
  <2>2. since \in 0..(i - 1) /\ since \in 0..Len(log)
    BY <1>1, <1>8, <2>1 DEF Justified
  <2>3. LinksAt(since)' \subseteq FrozenLinks'
    BY <1>8, <2>1, <2>2, PrefixStays DEF Justified
  <2>4. \E k \in RunOf(r)' : k < i /\ log'[k].result = "passed"
    <3>1. PICK k \in RunOf(r) : k < i /\ log[k].result = "passed"
      BY <1>8, <2>1 DEF Justified
    <3>2. k \in 1..Len(log)
      BY <1>1, EntriesAre
    <3> QED
      BY <3>1, <3>2, PrefixStays DEF LogGrows
  <2>5. \E k \in Of("packet", i - 1)' : log'[k].run = r /\ log[i].approvals \subseteq log'[k].reviews
    BY <1>3, <1>4, <1>8, <2>1 DEF Justified
  <2> QED
    BY <1>2, <1>8, <2>1, <2>2, <2>3, <2>4, <2>5 DEF Justified
<1> QED
  BY <1>2, <1>5, <1>6, <1>7, <1>8 DEF Justified

LEMMA KnownStays ==
    ASSUME TypeOK, LogGrows, NEW j \in Request, Known(j)
    PROVE  Known(j)'
<1>1. Len(log) \in Nat /\ Len(log') \in Nat /\ Len(log) <= Len(log')
  BY DEF TypeOK, LogGrows
<1>2. j.at \in {"gates", "record"} => j.start \in 0..Len(log) /\ LinksAt(j.start)' = LinksAt(j.start)
  BY <1>1, PrefixStays, EntriesAre DEF Known
<1>3. j.at \in Releasing => j.since \in 0..Len(log) /\ LinksAt(j.since)' = LinksAt(j.since)
  BY PrefixStays DEF Known
<1>4. \A k \in 1..Len(log) : log'[k] = log[k]
  BY DEF LogGrows
<1>5. \A kind, r : Of(kind, Len(log)) \subseteq 1..Len(log) /\ RunOf(r) \subseteq 1..Len(log)
  BY <1>1, EntriesAre
<1>6. j.at = "freeze" => j.links \subseteq LinksAt(Len(log))'
  BY PrefixStays DEF Known
<1>7. /\ j.at \in {"gates", "record"} => j.start \in Of("started", Len(log))'
      /\ j.at = "record" /\ j.result = "passed" => LinksAt(j.start)' \subseteq FrozenLinks'
  BY <1>2, PrefixStays DEF Known
<1>8. j.at \in Releasing => j.since \in 0..Len(log') /\ \E i \in RunOf(j.run)' : log'[i].result = "passed"
  BY <1>1, <1>4, <1>5, PrefixStays DEF Known
<1>9. j.at \in {"code", "reviews", "export", "release"} => LinksAt(j.since)' \subseteq FrozenLinks'
  BY <1>3, PrefixStays DEF Known, Releasing
<1>10. j.at \in {"export", "release"} => j.approvals \subseteq Reviews(j.run, Len(log))'
  BY PrefixStays DEF Known
<1>11. j.at = "release" =>
         \E i \in Of("packet", Len(log))' : log'[i].run = j.run /\ j.approvals \subseteq log'[i].reviews
  BY <1>4, <1>5, PrefixStays DEF Known
<1> QED
  BY <1>6, <1>7, <1>8, <1>9, <1>10, <1>11 DEF Known

(* One request moves, and at most one entry is registered.                 *)
LEMMA RecordsKept ==
    ASSUME TypeOK, TypeOK', LogGrows, RecordInv, NEW t \in Threads, NEW j, job'[t] = j, Known(j)',
           \A u \in Threads \ {t} : job'[u] = job[u],
           NEW n, n = Len(log), log' = log \/ (Len(log') = n + 1 /\ Justified(n + 1)'),
           Unrecorded'
    PROVE  RecordInv'
<1>0. n \in Nat
  BY DEF TypeOK
<1>1. ASSUME NEW u \in Threads \ {t} PROVE Known(job[u])'
  <2>1. PICK k : k = job[u]
    OBVIOUS
  <2>2. k \in Request /\ Known(k) /\ job'[u] = k
    BY <2>1 DEF TypeOK, RecordInv
  <2>3. Known(k)'
    BY <2>2, KnownStays
  <2> QED
    BY <2>2, <2>3
<1>2. \A u \in Threads : Known(job[u])'
  <2>1. Known(job[t])'
    OBVIOUS
  <2> QED
    BY <1>1, <2>1
<1>3. \A i \in 1..Len(log) : Justified(i)'
  BY JustifiedStays DEF RecordInv
<1>4. \A i \in 1..Len(log') : Justified(i)'
  <2>1. CASE log' = log
    BY <1>3, <2>1
  <2>2. CASE Len(log') = n + 1 /\ Justified(n + 1)'
    <3>2. \A i \in 1..n : Justified(i)'
      BY <1>3
    <3>3. ASSUME NEW i \in 1..(n + 1) PROVE Justified(i)'
      <4>1. CASE i = n + 1
        BY <2>2, <4>1
      <4>2. CASE i # n + 1
        BY <1>0, <3>2, <4>2
      <4> QED
        BY <4>1, <4>2
    <3> QED
      BY <2>2, <3>3
  <2> QED
    BY <2>1, <2>2
<1> QED
  BY <1>2, <1>4 DEF RecordInv

(* A step that neither starts nor records a run.                           *)
LEMMA UnrecordedStays ==
    ASSUME TypeOK, TypeOK', LogGrows, Unrecorded, NEW t \in Threads,
           log' = log \/ (Len(log') = Len(log) + 1 /\ log'[Len(log) + 1].kind # "run"),
           \A u \in Threads \ {t} : job'[u] = job[u],
           job'[t].at \in {"gates", "record"} => Running(t) /\ job'[t].start = job[t].start
    PROVE  Unrecorded'
<1>1. PICK n \in Nat : n = Len(log)
  BY DEF TypeOK
<1>2. Of("run", Len(log))' = Of("run", Len(log))
  <2>1. CASE log' = log
    BY <2>1 DEF Of
  <2>2. CASE Len(log') = n + 1 /\ log'[n + 1].kind # "run"
    BY <1>1, <2>2 DEF Of, LogGrows
  <2> QED
    BY <1>1, <2>1, <2>2
<1>3. \A r : RunOf(r)' = RunOf(r)
  BY <1>2 DEF RunOf, Of, LogGrows
<1>4. \A u \in Threads : Running(u)' => Running(u) /\ job'[u].start = job[u].start
  BY DEF Running
<1> QED
  BY <1>3, <1>4 DEF Unrecorded

(* The log is what it was.                                                 *)
LEMMA QuietStep ==
    ASSUME TypeOK, TypeOK', LogGrows, RecordInv, NEW t \in Threads, NEW j, job'[t] = j, Known(j),
           \A u \in Threads \ {t} : job'[u] = job[u], log' = log,
           j.at \in {"gates", "record"} => Running(t) /\ j.start = job[t].start
    PROVE  RecordInv'
<1>1. j \in Request
  BY DEF TypeOK
<1>2. Known(j)'
  BY <1>1, KnownStays
<1>3. Unrecorded'
  <2>1. Unrecorded /\ (job'[t].at \in {"gates", "record"} => Running(t) /\ job'[t].start = job[t].start)
    BY DEF RecordInv
  <2> QED
    BY <2>1, UnrecordedStays
<1>4. PICK n : n = Len(log)
  OBVIOUS
<1> QED
  BY <1>2, <1>3, <1>4, RecordsKept

(* An entry that concerns no request.                                      *)
LEMMA EntryStep ==
    ASSUME TypeOK, TypeOK', LogGrows, RecordInv, NEW t \in Threads, job' = job,
           NEW e \in Entry, log' = Append(log, e), e.kind \in {"link", "review"}
    PROVE  RecordInv'
<1>1. PICK n : n = Len(log)
  OBVIOUS
<1>2. Len(log') = n + 1 /\ log'[n + 1] = e
  BY <1>1, Appended DEF TypeOK
<1>3. Justified(n + 1)'
  BY <1>2 DEF Justified
<1>4. Unrecorded'
  BY <1>1, <1>2, UnrecordedStays DEF RecordInv, Running
<1>5. PICK j : j = job[t]
  OBVIOUS
<1>6. Known(j)'
  <2>1. j \in Request /\ Known(j)
    BY <1>5 DEF TypeOK, RecordInv
  <2> QED
    BY <2>1, KnownStays
<1>7. job'[t] = j /\ \A u \in Threads \ {t} : job'[u] = job[u]
  BY <1>5
<1> QED
  BY <1>1, <1>2, <1>3, <1>4, <1>6, <1>7, RecordsKept

LEMMA FreezeStep ==
    ASSUME TypeOK, TypeOK', LogGrows, RecordInv, NEW t \in Threads, FreezeCollect(t) \/ FreezePut(t)
    PROVE  RecordInv'
<1>1. Known(Idle) /\ Known(Idle)' /\ Idle.at = "idle"
  BY DEF Known, Idle, Releasing
<1>2. CASE FreezeCollect(t)
  <2>1. PICK j : j = [at |-> "freeze", links |-> LinksAt(Len(log))]
    OBVIOUS
  <2>2. job'[t] = j /\ log' = log /\ \A u \in Threads \ {t} : job'[u] = job[u]
    BY <1>2, <2>1 DEF FreezeCollect, TypeOK
  <2>3. Known(j)
    BY <2>1 DEF Known, Releasing
  <2> QED
    BY <2>1, <2>2, <2>3, QuietStep
<1>3. CASE FreezePut(t)
  <2>1. job'[t] = Idle /\ \A u \in Threads \ {t} : job'[u] = job[u]
    BY <1>3 DEF FreezePut, Finish, TypeOK
  <2>2. CASE log' = log
    BY <1>1, <2>1, <2>2, QuietStep
  <2>3. CASE ~ Frozen /\ log' = Append(log, [kind |-> "freeze", links |-> job[t].links])
    <3>1. PICK n : n = Len(log)
      OBVIOUS
    <3>2. PICK e : e = [kind |-> "freeze", links |-> job[t].links]
      OBVIOUS
    <3>3. job[t].links \in SUBSET Links /\ Known(job[t]) /\ job[t].at = "freeze"
      BY <1>3 DEF FreezePut, TypeOK, Request, Idle, RecordInv
    <3>4. e \in Entry
      BY <3>2, <3>3 DEF Entry
    <3>5. Len(log') = n + 1 /\ log'[n + 1] = e /\ n \in Nat /\ Len(log') \in Nat
      BY <2>3, <3>1, <3>2, <3>4, Appended DEF TypeOK
    <3>6. Of("freeze", n)' = {} /\ LinksAt(n)' = LinksAt(n)
      BY <2>3, <3>1, <3>5, PrefixStays DEF Frozen
    <3>7. LinksAt(n)' \subseteq LinksAt(n + 1)'
      BY <3>5 DEF LinksAt, Of
    <3>8. Justified(n + 1)'
      BY <3>1, <3>2, <3>3, <3>5, <3>6, <3>7 DEF Justified, Known
    <3>9. Unrecorded'
      BY <1>1, <2>1, <3>1, <3>2, <3>5, UnrecordedStays DEF RecordInv
    <3> QED
      BY <1>1, <2>1, <3>1, <3>5, <3>8, <3>9, RecordsKept
  <2> QED
    BY <1>3, <2>2, <2>3 DEF FreezePut
<1> QED
  BY <1>2, <1>3

LEMMA StartStep ==
    ASSUME TypeOK, TypeOK', LogGrows, RecordInv, NEW t \in Threads, NEW p \in People, RunStart(t, p)
    PROVE  RecordInv'
<1>1. PICK n : n = Len(log)
  OBVIOUS
<1>2. PICK e, j : e = [kind |-> "started", by |-> p] /\ j = [at |-> "gates", start |-> n + 1, code |-> disk]
  OBVIOUS
<1>3. e \in Entry
  BY <1>2 DEF Entry
<1>4. Len(log') = n + 1 /\ log'[n + 1] = e /\ n \in Nat
  BY <1>1, <1>2, <1>3, Appended DEF RunStart, TypeOK
<1>5. job'[t] = j /\ \A u \in Threads \ {t} : job'[u] = job[u]
  BY <1>1, <1>2 DEF RunStart, TypeOK
<1>6. Justified(n + 1)'
  <2>1. Of("freeze", n)' # {}
    BY <1>1, <1>4, PrefixStays DEF RunStart, Frozen
  <2> QED
    BY <1>2, <1>4, <2>1 DEF Justified
<1>7. Known(j)'
  BY <1>2, <1>4 DEF Known, Of, Releasing
<1>8. \A r : RunOf(r)' = RunOf(r)
  <2>1. Of("run", Len(log))' = Of("run", Len(log))
    BY <1>1, <1>2, <1>4 DEF Of, LogGrows
  <2> QED
    BY <2>1 DEF RunOf, Of, LogGrows
<1>9. RunOf(n + 1) = {}
  <2> SUFFICES ASSUME NEW i \in RunOf(n + 1) PROVE FALSE
    OBVIOUS
  <2>1. i \in 1..n /\ log[i].kind = "run" /\ log[i].start = n + 1
    BY <1>1 DEF RunOf, Of
  <2>2. n + 1 \in Of("started", i)
    BY <1>1, <2>1 DEF RecordInv, Justified
  <2> QED
    BY <1>4, <2>1, <2>2 DEF Of
<1>10. \A u \in Threads \ {t} : Running(u) => job[u].start # n + 1
  BY <1>1, <1>4 DEF RecordInv, Known, Running, Of
<1>11. Unrecorded'
  <2>1. \A u \in Threads : job'[u].at \in {"gates", "record"} => RunOf(job'[u].start) = {}
    BY <1>2, <1>5, <1>9 DEF RecordInv, Unrecorded, Running
  <2>2. ASSUME NEW u \in Threads, NEW v \in Threads, job'[u].at \in {"gates", "record"},
               job'[v].at \in {"gates", "record"}, job'[u].start = job'[v].start
        PROVE  u = v
    BY <1>2, <1>5, <1>10, <2>2 DEF RecordInv, Unrecorded, Running
  <2> QED
    BY <1>8, <2>1, <2>2 DEF Unrecorded, Running
<1> QED
  BY <1>1, <1>4, <1>5, <1>6, <1>7, <1>11, RecordsKept

LEMMA GatesStep ==
    ASSUME TypeOK, TypeOK', LogGrows, RecordInv, NEW t \in Threads, RunGates(t)
    PROVE  RecordInv'
<1>1. PICK result : /\ result = "passed" => InputsUnchanged
                    /\ job' = [job EXCEPT ![t] = [at |-> "record", start |-> @.start, code |-> @.code,
                                                  result |-> result]]
  BY DEF RunGates
<1>2. PICK j : j = [at |-> "record", start |-> job[t].start, code |-> job[t].code, result |-> result]
  OBVIOUS
<1>3. job'[t] = j /\ log' = log /\ \A u \in Threads \ {t} : job'[u] = job[u]
  BY <1>1, <1>2 DEF RunGates, TypeOK
<1>4. job[t].at = "gates" /\ job[t].start \in Of("started", Len(log))
  BY DEF RunGates, RecordInv, Known
<1>5. result = "passed" => LinksAt(job[t].start) \subseteq FrozenLinks
  <2>1. LinksAt(job[t].start) \subseteq LinksAt(Len(log))
    <3>1. job[t].start \in Nat /\ job[t].start <= Len(log)
      BY <1>4 DEF Of, TypeOK
    <3> QED
      BY <3>1, EntriesAre
  <2> QED
    BY <1>1, <2>1 DEF InputsUnchanged
<1>6. Known(j)
  BY <1>2, <1>4, <1>5 DEF Known, Releasing
<1>7. Running(t)
  BY <1>4 DEF Running
<1> QED
  BY <1>2, <1>3, <1>6, <1>7, QuietStep

LEMMA RecordStep ==
    ASSUME TypeOK, TypeOK', LogGrows, RecordInv, NEW t \in Threads, RunRecord(t)
    PROVE  RecordInv'
<1>1. PICK n, start : n = Len(log) /\ start = job[t].start
  OBVIOUS
<1>2. PICK result \in Results : /\ result = "passed" => job[t].result = "passed"
                                /\ result = IF job[t].code = disk THEN job[t].result ELSE "error"
  <2>1. job[t] \in Request /\ job[t].at = "record"
    BY DEF RunRecord, TypeOK
  <2>2. job[t].result \in Results
    BY <2>1 DEF Request, Idle
  <2> QED
    BY <2>2 DEF Results
<1>3. PICK e : e = [kind |-> "run", start |-> start, code |-> job[t].code, result |-> result]
  OBVIOUS
<1>4. job[t].at = "record" /\ start \in Nat /\ job[t].code \in Nat /\ Known(job[t])
  <2>1. job[t] \in Request /\ job[t].at = "record"
    BY DEF RunRecord, TypeOK
  <2>2. start \in Nat /\ job[t].code \in Nat
    BY <1>1, <2>1 DEF Request, Idle
  <2>3. Known(job[t])
    BY DEF RecordInv
  <2> QED
    BY <2>1, <2>2, <2>3
<1>5. e \in Entry /\ log' = Append(log, e)
  BY <1>1, <1>2, <1>3, <1>4 DEF Entry, RunRecord
<1>6. Len(log') = n + 1 /\ log'[n + 1] = e /\ n \in Nat /\ \A i \in 1..n : log'[i] = log[i]
  BY <1>1, <1>5, Appended DEF TypeOK
<1>7. job'[t] = Idle /\ \A u \in Threads \ {t} : job'[u] = job[u]
  BY DEF RunRecord, Finish, TypeOK
<1>8. start \in Of("started", n) /\ RunOf(start) = {} /\ start \in 0..n
  <2>1. start \in Of("started", n)
    BY <1>1, <1>4 DEF Known
  <2>2. RunOf(start) = {}
    BY <1>1, <1>4 DEF RecordInv, Unrecorded, Running
  <2> QED
    BY <1>6, <2>1, <2>2 DEF Of
<1>9. Justified(n + 1)'
  <2>1. start \in Of("started", n + 1)'
    BY <1>6, <1>8 DEF Of
  <2>2. \A k \in Of("run", n)' : log'[k].start # start
    BY <1>1, <1>6, <1>8 DEF RunOf, Of
  <2>3. result = "passed" => LinksAt(start)' \subseteq FrozenLinks'
    BY <1>1, <1>2, <1>4, <1>8, PrefixStays DEF Known
  <2> QED
    BY <1>3, <1>6, <2>1, <2>2, <2>3 DEF Justified
<1>10. Known(Idle)'
  BY DEF Known, Idle, Releasing
<1>11. Unrecorded'
  <2>1. \A r : r # start => RunOf(r)' = RunOf(r)
    BY <1>1, <1>3, <1>6 DEF RunOf, Of
  <2>2. \A u \in Threads : job'[u].at \in {"gates", "record"} =>
          Running(u) /\ u # t /\ job'[u] = job[u] /\ job[u].start # start
    BY <1>1, <1>4, <1>7 DEF Running, Idle, RecordInv, Unrecorded
  <2> QED
    BY <2>1, <2>2 DEF RecordInv, Unrecorded, Running
<1> QED
  BY <1>1, <1>6, <1>7, <1>9, <1>10, <1>11, RecordsKept

(* A release that goes on with a step, or is refused.                      *)
LEMMA CheckStep ==
    ASSUME TypeOK, TypeOK', LogGrows, RecordInv, NEW t \in Threads,
           ReleaseVerify(t) \/ ReleaseInputs(t) \/ ReleaseCode(t)
    PROVE  RecordInv'
<1>1. log' = log /\ \A u \in Threads \ {t} : job'[u] = job[u]
  BY DEF ReleaseVerify, ReleaseInputs, ReleaseCode, Continue, Finish, TypeOK
<1>2. CASE Finish(t)
  <2>1. job'[t] = Idle
    BY <1>2 DEF Finish, TypeOK
  <2>2. Known(Idle) /\ Idle.at = "idle"
    BY DEF Known, Idle, Releasing
  <2> QED
    BY <1>1, <2>1, <2>2, QuietStep
<1>3. CASE ~ Finish(t)
  <2>1. PICK step \in {"inputs", "code", "reviews"} :
          /\ Continue(t, step)
          /\ step = "code" => InputsUnchanged
          /\ step = "reviews" => job[t].at = "code"
    BY <1>3 DEF ReleaseVerify, ReleaseInputs, ReleaseCode
  <2>2. PICK j : j = [job[t] EXCEPT !.at = step]
    OBVIOUS
  <2>3. job[t] \in [at : {"verify", "inputs", "code", "reviews"}, run : Nat, owner : People, since : Nat]
    BY DEF ReleaseVerify, ReleaseInputs, ReleaseCode, TypeOK, Request, Idle
  <2>4. /\ j.at = step /\ j.run = job[t].run /\ j.since = job[t].since
        /\ job'[t] = j
    BY <2>1, <2>2, <2>3 DEF Continue, TypeOK
  <2>5. job[t].since \in 0..Len(log) /\ \E i \in RunOf(job[t].run) : log[i].result = "passed"
    BY <2>3 DEF RecordInv, Known, Releasing
  <2>6. step \in {"code", "reviews"} => LinksAt(job[t].since) \subseteq FrozenLinks
    <3>1. LinksAt(job[t].since) \subseteq LinksAt(Len(log))
      <4>1. job[t].since \in Nat /\ job[t].since <= Len(log)
        BY <2>5 DEF TypeOK
      <4> QED
        BY <4>1, EntriesAre
    <3> QED
      BY <2>1, <3>1 DEF InputsUnchanged, RecordInv, Known
  <2>7. Known(j)
    BY <2>4, <2>5, <2>6 DEF Known, Releasing
  <2> QED
    BY <1>1, <2>4, <2>7, QuietStep
<1> QED
  BY <1>2, <1>3

LEMMA ReviewsStep ==
    ASSUME TypeOK, TypeOK', LogGrows, RecordInv, NEW t \in Threads, ReleaseReviews(t)
    PROVE  RecordInv'
<1>1. log' = log /\ \A u \in Threads \ {t} : job'[u] = job[u]
  BY DEF ReleaseReviews, Finish, TypeOK
<1>2. CASE Finish(t)
  <2>1. job'[t] = Idle
    BY <1>2 DEF Finish, TypeOK
  <2>2. Known(Idle) /\ Idle.at = "idle"
    BY DEF Known, Idle, Releasing
  <2> QED
    BY <1>1, <2>1, <2>2, QuietStep
<1>3. CASE ~ Finish(t)
  <2>1. PICK j : j = [at |-> "export", run |-> job[t].run, owner |-> job[t].owner, since |-> job[t].since,
                      approvals |-> Approvals(job[t].run, Len(log), job[t].owner)]
    OBVIOUS
  <2>2. job'[t] = j /\ job[t].at = "reviews" /\ Known(job[t])
    BY <1>3, <2>1 DEF ReleaseReviews, TypeOK, RecordInv
  <2>3. Approvals(job[t].run, Len(log), job[t].owner) \subseteq Reviews(job[t].run, Len(log))
    BY DEF Approvals, Latest
  <2>4. Known(j)
    BY <2>1, <2>2, <2>3 DEF Known, Releasing
  <2> QED
    BY <1>1, <2>1, <2>2, <2>4, QuietStep
<1> QED
  BY <1>2, <1>3

LEMMA ExportStep ==
    ASSUME TypeOK, TypeOK', LogGrows, RecordInv, NEW t \in Threads, ReleaseExport(t)
    PROVE  RecordInv'
<1>1. job[t] \in [at : {"export", "release"}, run : Nat, owner : People, since : Nat, approvals : SUBSET Nat]
  BY DEF ReleaseExport, TypeOK, Request, Idle
<1>2. \A u \in Threads \ {t} : job'[u] = job[u]
  BY DEF ReleaseExport, Continue, Finish, TypeOK
<1>3. CASE Finish(t) /\ log' = log
  <2>1. job'[t] = Idle
    BY <1>3 DEF Finish, TypeOK
  <2>2. Known(Idle) /\ Idle.at = "idle"
    BY DEF Known, Idle, Releasing
  <2> QED
    BY <1>2, <1>3, <2>1, <2>2, QuietStep
<1>4. CASE /\ log' = Append(log, [kind |-> "packet", run |-> job[t].run,
                                  reviews |-> Reviews(job[t].run, Len(log))])
           /\ Continue(t, "release")
  <2>1. PICK n, k : n = Len(log) /\ k = job[t]
    OBVIOUS
  <2>2. PICK e : e = [kind |-> "packet", run |-> k.run, reviews |-> Reviews(k.run, n)]
    OBVIOUS
  <2>3. PICK j : j = [k EXCEPT !.at = "release"]
    OBVIOUS
  <2>4. e \in Entry
    <3>1. Reviews(k.run, n) \in SUBSET Nat
      BY <2>1 DEF Reviews, Of
    <3> QED
      BY <1>1, <2>1, <2>2, <3>1 DEF Entry
  <2>5. Len(log') = n + 1 /\ log'[n + 1] = e /\ n \in Nat
    BY <1>4, <2>1, <2>2, <2>4, Appended DEF TypeOK
  <2>6. /\ job'[t] = j /\ j.at = "release" /\ j.run = k.run /\ j.since = k.since
        /\ j.approvals = k.approvals
    BY <1>1, <1>4, <2>1, <2>3 DEF Continue, TypeOK
  <2>7. k \in Request /\ Known(k) /\ k.at = "export"
    BY <2>1 DEF TypeOK, RecordInv, ReleaseExport
  <2>8. Known(j)'
    <3>1. Known(k)'
      BY <2>7, KnownStays
    <3>2. k.approvals \subseteq e.reviews
      BY <2>1, <2>2, <2>7 DEF Known
    <3>3. n + 1 \in Of("packet", Len(log))' /\ log'[n + 1].run = k.run
      BY <2>2, <2>5 DEF Of
    <3> QED
      BY <2>5, <2>6, <2>7, <3>1, <3>2, <3>3 DEF Known, Releasing
  <2>9. Justified(n + 1)'
    BY <2>2, <2>5 DEF Justified
  <2>10. Unrecorded'
    BY <1>2, <2>1, <2>2, <2>5, <2>6, UnrecordedStays DEF RecordInv
  <2> QED
    BY <1>2, <2>1, <2>5, <2>6, <2>8, <2>9, <2>10, RecordsKept
<1> QED
  BY <1>3, <1>4 DEF ReleaseExport

LEMMA PutStep ==
    ASSUME TypeOK, TypeOK', LogGrows, RecordInv, NEW t \in Threads, ReleasePut(t)
    PROVE  RecordInv'
<1>1. PICK n, k : n = Len(log) /\ k = job[t]
  OBVIOUS
<1>2. PICK e : e = [kind |-> "release", run |-> k.run, owner |-> k.owner, since |-> k.since,
                    approvals |-> k.approvals]
  OBVIOUS
<1>3. /\ k \in [at : {"export", "release"}, run : Nat, owner : People, since : Nat, approvals : SUBSET Nat]
      /\ k \in Request /\ Known(k) /\ k.at = "release"
  BY <1>1 DEF ReleasePut, TypeOK, Request, Idle, RecordInv
<1>4. e \in Entry /\ log' = Append(log, e)
  BY <1>1, <1>2, <1>3 DEF Entry, ReleasePut
<1>5. Len(log') = n + 1 /\ log'[n + 1] = e /\ n \in Nat /\ \A i \in 1..n : log'[i] = log[i]
  BY <1>1, <1>4, Appended DEF TypeOK
<1>6. job'[t] = Idle /\ \A u \in Threads \ {t} : job'[u] = job[u]
  BY DEF ReleasePut, Finish, TypeOK
<1>7. Known(Idle)' /\ Idle.at = "idle"
  BY DEF Known, Idle, Releasing
<1>8. Justified(n + 1)'
  <2>1. k.since \in 0..n /\ LinksAt(k.since)' \subseteq FrozenLinks'
    BY <1>1, <1>3, PrefixStays DEF Known, Releasing
  <2>2. \E i \in RunOf(k.run)' : i < n + 1 /\ log'[i].result = "passed"
    <3>1. PICK i \in RunOf(k.run) : log[i].result = "passed"
      BY <1>3 DEF Known, Releasing
    <3>2. i \in 1..n
      BY <1>1, <3>1 DEF RunOf, Of
    <3> QED
      BY <1>5, <3>1, <3>2, PrefixStays
  <2>3. \E i \in Of("packet", n)' : log'[i].run = k.run /\ k.approvals \subseteq log'[i].reviews
    <3>1. PICK i \in Of("packet", n) : log[i].run = k.run /\ k.approvals \subseteq log[i].reviews
      BY <1>1, <1>3 DEF Known
    <3> QED
      BY <1>5, <3>1 DEF Of
  <2> QED
    BY <1>2, <1>5, <2>1, <2>2, <2>3 DEF Justified
<1>9. Unrecorded'
  BY <1>1, <1>2, <1>5, <1>6, <1>7, UnrecordedStays DEF RecordInv
<1> QED
  BY <1>1, <1>5, <1>6, <1>7, <1>8, <1>9, RecordsKept

LEMMA RecordInductive == TypeOK /\ TypeOK' /\ RecordInv /\ [Next]_vars => RecordInv'
<1> SUFFICES ASSUME TypeOK, TypeOK', RecordInv, [Next]_vars PROVE RecordInv'
  OBVIOUS
<1>0. LogGrows
  BY StepGrowsLog
<1>1. ASSUME NEW t \in Threads, NEW l \in Links, RegisterLink(t, l) PROVE RecordInv'
  <2>1. PICK e : e = [kind |-> "link", link |-> l]
    OBVIOUS
  <2>2. e \in Entry /\ e.kind = "link"
    BY <2>1 DEF Entry
  <2> QED
    BY <1>0, <1>1, <2>1, <2>2, EntryStep DEF RegisterLink
<1>2. ASSUME NEW t \in Threads, NEW p \in People, NEW r \in Of("started", Len(log)),
             NEW action \in Dispositions, NEW conflict \in BOOLEAN, Review(t, p, r, action, conflict)
      PROVE  RecordInv'
  <2>1. PICK e : e = [kind |-> "review", run |-> r, reviewer |-> p, action |-> action, conflict |-> conflict]
    OBVIOUS
  <2>2. r \in Nat
    BY DEF Of
  <2>3. e \in Entry /\ e.kind = "review"
    BY <2>1, <2>2 DEF Entry
  <2> QED
    BY <1>0, <1>2, <2>1, <2>3, EntryStep DEF Review
<1>3. ASSUME NEW t \in Threads, NEW p \in People, NEW r \in Of("started", Len(log)), ReleaseBegin(t, p, r)
      PROVE  RecordInv'
  <2>1. PICK j : j = [at |-> "verify", run |-> r, owner |-> p, since |-> Len(log)]
    OBVIOUS
  <2>2. job'[t] = j /\ log' = log /\ \A u \in Threads \ {t} : job'[u] = job[u]
    BY <1>3, <2>1 DEF ReleaseBegin, TypeOK
  <2>3. Len(log) \in 0..Len(log)
    BY DEF TypeOK
  <2>4. Known(j)
    BY <1>3, <2>1, <2>3 DEF Known, Releasing, ReleaseBegin
  <2> QED
    BY <1>0, <2>1, <2>2, <2>4, QuietStep
<1>4. CASE Upgrade \/ UNCHANGED vars
  <2>1. log' = log /\ job' = job
    BY <1>4 DEF Upgrade, vars
  <2>2. ASSUME NEW t \in Threads PROVE Known(job[t])'
    <3>1. PICK j : j = job[t]
      OBVIOUS
    <3>2. j \in Request /\ Known(j) /\ job'[t] = j
      BY <2>1, <3>1 DEF TypeOK, RecordInv
    <3>3. Known(j)'
      BY <1>0, <3>2, KnownStays
    <3> QED
      BY <3>2, <3>3
  <2>3. \A i \in 1..Len(log) : Justified(i)'
    BY <1>0, JustifiedStays DEF RecordInv
  <2>4. Unrecorded'
    BY <2>1 DEF RecordInv, Unrecorded, Running, RunOf, Of
  <2> QED
    BY <2>1, <2>2, <2>3, <2>4 DEF RecordInv
<1>5. CASE Crash
  <2>1. log' = log /\ \A t \in Threads : job'[t] = Idle
    BY <1>5 DEF Crash
  <2>2. Known(Idle)' /\ Idle.at = "idle"
    BY DEF Known, Idle, Releasing
  <2>3. \A t \in Threads : Known(job[t])'
    BY <2>1, <2>2
  <2>4. Unrecorded'
    BY <2>1, <2>2 DEF Unrecorded, Running
  <2>5. \A i \in 1..Len(log) : Justified(i)'
    BY <1>0, JustifiedStays DEF RecordInv
  <2> QED
    BY <2>1, <2>3, <2>4, <2>5 DEF RecordInv
<1> QED
  BY <1>0, <1>1, <1>2, <1>3, <1>4, <1>5, FreezeStep, StartStep, GatesStep, RecordStep, CheckStep, ReviewsStep,
     ExportStep, PutStep DEF Next, Arrive, Step

LEMMA RecordInvariant == Spec => []RecordInv
<1>1. Init => RecordInv
  BY DEF Init, RecordInv, Known, Unrecorded, Running, Idle, Releasing
<1> QED
  BY <1>1, TypeCorrect, RecordInductive, PTL DEF Spec

---------------------------------------------------------------------------
(* One freeze, before every run, of links registered by then; one record a *)
(* run: service.freeze and service.run, however many threads race.         *)
THEOREM OrderTheorem == Spec => []RecordsAreOrdered
<1>1. TypeOK /\ RecordInv => RecordsAreOrdered
  <2> SUFFICES ASSUME TypeOK, RecordInv PROVE RecordsAreOrdered
    OBVIOUS
  <2>0. PICK all \in Nat : all = Len(log)
    BY DEF TypeOK
  <2>1. \A i \in 1..all : Justified(i)
    BY <2>0 DEF RecordInv
  <2>2. \A kind : \A n \in 0..all : Of(kind, n) \subseteq 1..n
    BY DEF Of
  <2>3. ASSUME NEW i \in Of("freeze", all), NEW k \in Of("freeze", all) PROVE i = k
    <3>1. i \in 1..all /\ k \in 1..all /\ log[i].kind = "freeze" /\ log[k].kind = "freeze"
      BY DEF Of
    <3>2. Of("freeze", i - 1) = {} /\ Of("freeze", k - 1) = {}
      BY <2>1, <3>1 DEF Justified
    <3>3. ~ (i < k) /\ ~ (k < i)
      BY <3>1, <3>2 DEF Of
    <3> QED
      BY <3>1, <3>3
  <2>4. \A i \in Of("freeze", all) : log[i].links \subseteq LinksAt(i)
    BY <2>1 DEF Justified, Of
  <2>5. ASSUME NEW s \in Of("started", all) PROVE \E i \in Of("freeze", all) : i < s
    <3>1. s \in 1..all /\ Of("freeze", s - 1) # {}
      BY <2>1 DEF Justified, Of
    <3> QED
      BY <3>1 DEF Of
  <2>6. ASSUME NEW i \in Of("run", all), NEW k \in Of("run", all)
        PROVE  log[i].start \in Of("started", i) /\ (log[i].start = log[k].start => i = k)
    <3>1. i \in 1..all /\ k \in 1..all /\ log[i].kind = "run" /\ log[k].kind = "run"
      BY DEF Of
    <3>2. /\ log[i].start \in Of("started", i)
          /\ \A m \in Of("run", i - 1) : log[m].start # log[i].start
          /\ \A m \in Of("run", k - 1) : log[m].start # log[k].start
      BY <2>1, <3>1 DEF Justified
    <3>3. i < k => i \in Of("run", k - 1)
      BY <3>1 DEF Of
    <3>4. k < i => k \in Of("run", i - 1)
      BY <3>1 DEF Of
    <3> QED
      BY <3>1, <3>2, <3>3, <3>4
  <2> QED
    BY <2>0, <2>3, <2>4, <2>5, <2>6 DEF RecordsAreOrdered
<1> QED
  BY <1>1, TypeCorrect, RecordInvariant, PTL

(* No run passes and nothing is released past evidence that was there when *)
(* it was asked for and that the freeze does not know: gate G0 and the     *)
(* check of inputs in packet.release.                                      *)
THEOREM EvidenceTheorem == Spec => []LateEvidenceBlocks
<1>1. RecordInv => LateEvidenceBlocks
  BY DEF RecordInv, LateEvidenceBlocks, Justified, Of
<1> QED
  BY <1>1, RecordInvariant, PTL

(* A release has its packet before it, of the same run, with every review  *)
(* it relies on: packet.release exports before it registers.               *)
THEOREM PacketTheorem == Spec => []PacketCoversRelease
<1>1. RecordInv => PacketCoversRelease
  <2> SUFFICES ASSUME RecordInv, NEW k \in Of("release", Len(log))
               PROVE  /\ \E i \in RunOf(log[k].run) : i < k /\ log[i].result = "passed"
                      /\ \E i \in Of("packet", k - 1) :
                           log[i].run = log[k].run /\ log[k].approvals \subseteq log[i].reviews
    BY DEF PacketCoversRelease
  <2>1. k \in 1..Len(log) /\ log[k].kind = "release" /\ Justified(k)
    BY DEF RecordInv, Of
  <2> QED
    BY <2>1 DEF Justified
<1> QED
  BY <1>1, RecordInvariant, PTL
=============================================================================
