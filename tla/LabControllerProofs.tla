------------------------- MODULE LabControllerProofs -------------------------
(***************************************************************************)
(* Proofs about module LabController, for any sets of keys, specifications *)
(* and workers, any lease length, lock wait, clock resolution and budget:  *)
(* the order of its timestamps, the invariant of its tables, and on top of *)
(* it the action properties, the refinement of JobLedger and the log.      *)
(***************************************************************************)
EXTENDS LabController, FiniteSetTheorems, TLAPS

------------------------------------------------------------------------------
(***************************************************************************)
(* What the order of the controller's timestamp texts (module IsoTime)     *)
(* guarantees, for every resolution of the clock, and how far it is from   *)
(* the order of time.                                                      *)
(***************************************************************************)
LEMMA RankRange ==
  ASSUME NEW t \in Stamp
  PROVE  FractionRank(t) \in 1 .. Micros /\ t.sec \in Nat /\ t.us \in Nat
BY MicrosAssumption DEF Stamp, FractionRank

\* Two texts are equal only if they are the text of one instant.
LEMMA SameRankSameInstant ==
  ASSUME NEW a \in Stamp, NEW b \in Stamp, a.sec = b.sec,
         FractionRank(a) = FractionRank(b)
  PROVE  a = b
BY MicrosAssumption DEF Stamp, FractionRank

\* The texts are totally ordered: ORDER BY and the lease tests always decide,
\* and they never decide both ways.
THEOREM TextOrderIsTotal ==
  \A a, b, c \in Stamp :
    /\ ~TextLess(a, a)
    /\ TextLess(a, b) /\ TextLess(b, c) => TextLess(a, c)
    /\ TextLess(a, b) \/ TextLess(b, a) \/ a = b
<1> TAKE a, b, c \in Stamp
<1>1. /\ FractionRank(a) \in 1 .. Micros /\ a.sec \in Nat
      /\ FractionRank(b) \in 1 .. Micros /\ b.sec \in Nat
      /\ FractionRank(c) \in 1 .. Micros /\ c.sec \in Nat
  BY RankRange
<1>2. ~TextLess(a, a)
  BY <1>1 DEF TextLess
<1>3. TextLess(a, b) /\ TextLess(b, c) => TextLess(a, c)
  BY <1>1, MicrosAssumption DEF TextLess
<1>4. TextLess(a, b) \/ TextLess(b, a) \/ a = b
  <2>1. CASE a.sec = b.sec /\ FractionRank(a) = FractionRank(b)
    BY <2>1, SameRankSameInstant
  <2>2. CASE ~(a.sec = b.sec /\ FractionRank(a) = FractionRank(b))
    BY <2>2, <1>1, MicrosAssumption DEF TextLess
  <2>3. QED
    BY <2>1, <2>2
<1>5. QED
  BY <1>2, <1>3, <1>4

\* The texts of two different seconds are in the order of time.
THEOREM TextOrderAcrossSeconds ==
  \A a, b \in Stamp : a.sec # b.sec => (TextLess(a, b) <=> Earlier(a, b))
BY DEF TextLess, Earlier, Stamp

\* The one disagreement: within a second, the whole second comes last.
THEOREM TextOrderWithinASecond ==
  \A a, b \in Stamp :
    a.sec = b.sec =>
      (TextLess(a, b) <=> (a.us # 0 /\ b.us = 0) \/ (a.us # 0 /\ a.us < b.us))
<1> SUFFICES ASSUME NEW a \in Stamp, NEW b \in Stamp, a.sec = b.sec
             PROVE  TextLess(a, b) <=>
                      (a.us # 0 /\ b.us = 0) \/ (a.us # 0 /\ a.us < b.us)
  OBVIOUS
<1>1. a.us \in 0 .. (Micros - 1) /\ b.us \in 0 .. (Micros - 1) /\ a.sec \in Nat
  BY DEF Stamp
<1>2. TextLess(a, b) <=> FractionRank(a) < FractionRank(b)
  BY <1>1 DEF TextLess
<1>3. QED
  BY <1>1, <1>2, MicrosAssumption DEF FractionRank

\* A text that sorts before another stands for an instant that is less than a
\* second after it: no comparison of two timestamps is wrong by a second.
THEOREM TextOrderErrsByLessThanASecond ==
  \A a, b \in Stamp : TextLess(a, b) => Earlier(a, After(b, 1))
BY DEF TextLess, Earlier, After, Stamp

\* An instant a full second before another sorts before it.
THEOREM ASecondEarlierSortsBefore ==
  \A a, b \in Stamp : NotAfter(After(a, 1), b) => TextLess(a, b)
BY DEF TextLess, NotAfter, Earlier, After, Stamp

------------------------------------------------------------------------------
(***************************************************************************)
(* The rows of the controller's tables: the inductive invariant.           *)
(***************************************************************************)

\* A job's row alone: what its state says of its specification and its count.
JobRows ==
  \A k \in Keys :
    /\ jobs[k].state = "absent" => jobs[k].attempt_count = 0
    /\ jobs[k].state # "absent" =>
         jobs[k].spec \in Specs /\ jobs[k].attempt_count <= Budget(k)
    /\ jobs[k].state \notin {"absent", "queued"} => jobs[k].attempt_count >= 1
    /\ jobs[k].state = "queued" => jobs[k].attempt_count < Budget(k)
    /\ jobs[k].state = "expired" => jobs[k].attempt_count = Budget(k)

\* The state of the latest attempt of a job in this state.
LatestState(state) ==
  IF state \in ActiveState THEN state
  ELSE IF state = "succeeded" THEN "finished"
  ELSE IF state = "failed" THEN "failed"
  ELSE "lost"

\* The attempts of a job against its row: rows exist up to attempt_count, carry
\* their own number as fence token, all but the latest are lost, and the latest
\* is in the state the job's state calls for.
AttemptMatches(k, n) ==
  /\ n > jobs[k].attempt_count =>
       attempts[<<k, n>>].state = "absent" /\ attempts[<<k, n>>].fence_token = 0
  /\ n <= jobs[k].attempt_count =>
       attempts[<<k, n>>].worker \in Workers /\ attempts[<<k, n>>].fence_token = n
  /\ n < jobs[k].attempt_count => attempts[<<k, n>>].state = "lost"
  /\ n = jobs[k].attempt_count =>
       attempts[<<k, n>>].state = LatestState(jobs[k].state)

AttemptRows == \A k \in Keys : \A n \in 1 .. AttemptLimit : AttemptMatches(k, n)

\* Busy workers and active attempts, one to one.
WorkerRows ==
  /\ \A a \in AttemptIds : Active(a) => workers[attempts[a].worker] = "busy"
  /\ \A a, b \in AttemptIds :
       Active(a) /\ Active(b) /\ attempts[a].worker = attempts[b].worker => a = b
  /\ \A w \in Workers : workers[w] = "busy" =>
       \E a \in AttemptIds : Active(a) /\ attempts[a].worker = w

IInv == TypeOK /\ JobRows /\ AttemptRows /\ WorkerRows

------------------------------------------------------------------------------
(***************************************************************************)
(* Instants.                                                               *)
(***************************************************************************)

LEMMA EpochIsStamp == Epoch \in Stamp
BY MicrosAssumption DEF Epoch, Stamp

LEMMA ReadingsAreStamps ==
  ASSUME clock \in Stamp, NEW since, NEW now \in Readings(since)
  PROVE  now \in Stamp
BY MicrosAssumption DEF Readings, Stamp

LEMMA AfterIsStamp ==
  ASSUME NEW t \in Stamp, NEW s \in Nat
  PROVE  After(t, s) \in Stamp
BY DEF After, Stamp

LEMMA FollowingIsStamp ==
  ASSUME NEW t \in Stamp
  PROVE  Following(t) \in Stamp
BY MicrosAssumption DEF Following, Stamp

\* A lease granted on any reading is a timestamp.
LEMMA LeaseIsStamp ==
  ASSUME NEW t \in Stamp
  PROVE  After(t, LeaseSeconds) \in Stamp
BY AfterIsStamp, ControllerAssumption

LEMMA AttemptIdParts ==
  ASSUME NEW a \in AttemptIds
  PROVE  /\ a[1] \in Keys /\ a[2] \in 1 .. AttemptLimit
         /\ a = <<a[1], a[2]>>
BY DEF AttemptIds

LEMMA LogGrows ==
  ASSUME TypeOK, NEW k \in Keys, NEW type \in EventType, NEW n \in Nat
  PROVE  Logged(k, type, n) \in Seq(Event)
<1>1. [type |-> type, attempt |-> n] \in Event
  BY DEF Event
<1>2. events[k] \in Seq(Event)
  BY DEF TypeOK
<1>3. QED
  BY <1>1, <1>2 DEF Logged

\* What the invariant says of an active attempt and of its job.
LEMMA ActiveAttemptFacts ==
  ASSUME IInv, NEW a \in AttemptIds, Active(a)
  PROVE  /\ a[1] \in Keys /\ a[2] \in 1 .. AttemptLimit /\ a = <<a[1], a[2]>>
         /\ a[2] = jobs[a[1]].attempt_count
         /\ jobs[a[1]].state \in ActiveState
         /\ jobs[a[1]].state = attempts[a].state
         /\ attempts[a].worker \in Workers
         /\ attempts[a].fence_token = a[2]
         /\ workers[attempts[a].worker] = "busy"
<1> DEFINE k == a[1]
           n == a[2]
<1>1. k \in Keys /\ n \in 1 .. AttemptLimit /\ a = <<k, n>>
  BY AttemptIdParts
<1>2. attempts[<<k, n>>].state \in ActiveState
  BY <1>1 DEF Active
<1>3. jobs[k].attempt_count \in Nat /\ n \in Nat
  BY <1>1, ControllerAssumption DEF IInv, TypeOK, JobRow
<1>4. ~(n > jobs[k].attempt_count) /\ ~(n < jobs[k].attempt_count)
  BY <1>1, <1>2 DEF IInv, AttemptRows, AttemptMatches, ActiveState
<1>5. n = jobs[k].attempt_count
  BY <1>3, <1>4
<1>6. /\ attempts[<<k, n>>].worker \in Workers
      /\ attempts[<<k, n>>].fence_token = n
      /\ attempts[<<k, n>>].state = LatestState(jobs[k].state)
  BY <1>1, <1>3, <1>5 DEF IInv, AttemptRows, AttemptMatches
<1>7. jobs[k].state \in ActiveState /\ jobs[k].state = attempts[<<k, n>>].state
  <2>1. CASE jobs[k].state \in ActiveState
    BY <2>1, <1>6 DEF LatestState
  <2>2. CASE jobs[k].state \notin ActiveState
    <3>1. LatestState(jobs[k].state) \in {"finished", "failed", "lost"}
      BY <2>2 DEF LatestState
    <3>2. QED
      BY <3>1, <1>2, <1>6 DEF ActiveState
  <2>3. QED
    BY <2>1, <2>2
<1>8. workers[attempts[a].worker] = "busy"
  BY DEF IInv, WorkerRows
<1>9. QED
  BY <1>1, <1>5, <1>6, <1>7, <1>8

\* A held job has its active attempt.
LEMMA HeldJobFacts ==
  ASSUME IInv, NEW k \in Keys, jobs[k].state \in ActiveState
  PROVE  /\ jobs[k].attempt_count \in 1 .. AttemptLimit
         /\ <<k, jobs[k].attempt_count>> \in AttemptIds
         /\ Active(<<k, jobs[k].attempt_count>>)
<1> DEFINE n == jobs[k].attempt_count
<1>1. n \in Nat /\ n >= 1 /\ n <= Budget(k) /\ jobs[k].spec \in Specs
  BY DEF IInv, TypeOK, JobRow, JobRows, ActiveState
<1>2. Budget(k) \in 1 .. AttemptLimit /\ AttemptLimit \in Nat
  BY <1>1, ControllerAssumption DEF Budget
<1>3. n \in 1 .. AttemptLimit
  BY <1>1, <1>2
<1>4. attempts[<<k, n>>].state = jobs[k].state
  BY <1>3 DEF IInv, AttemptRows, AttemptMatches, LatestState
<1>5. QED
  BY <1>3, <1>4 DEF AttemptIds, Active

------------------------------------------------------------------------------
(***************************************************************************)
(* The initial state and the steps that leave the tables alone.            *)
(***************************************************************************)

LEMMA InitInv == Init => IInv
<1> SUFFICES ASSUME Init PROVE IInv
  OBVIOUS
<1>1. TypeOK
  <2>1. NoJob \in JobRow
    BY EpochIsStamp DEF NoJob, JobRow, JobState
  <2>2. NoAttempt \in AttemptRow
    BY EpochIsStamp DEF NoAttempt, AttemptRow, AttemptState
  <2>3. QED
    BY <2>1, <2>2, EpochIsStamp DEF Init, TypeOK, WorkerState
<1>2. JobRows
  BY DEF Init, JobRows, NoJob
<1>3. AttemptRows
  BY DEF Init, AttemptRows, AttemptMatches, NoJob, NoAttempt, AttemptIds
<1>4. WorkerRows
  BY DEF Init, WorkerRows, Active, ActiveState, NoAttempt
<1>5. QED
  BY <1>1, <1>2, <1>3, <1>4 DEF IInv

\* A step that changes only the clock and the requests in progress.
LEMMA TablesUnchangedInv ==
  ASSUME IInv, UNCHANGED tables, TypeOK'
  PROVE  IInv'
BY DEF IInv, tables, JobRows, AttemptRows, AttemptMatches, WorkerRows, Budget, Active

LEMMA TickInv ==
  ASSUME IInv, Tick PROVE IInv'
<1>1. TypeOK'
  BY FollowingIsStamp DEF IInv, TypeOK, Tick, tables
<1>2. QED
  BY <1>1, TablesUnchangedInv DEF Tick

LEMMA ClaimNothingInv ==
  ASSUME IInv, NEW c \in claims, ClaimNothing(c) PROVE IInv'
<1>1. TypeOK'
  BY DEF IInv, TypeOK, ClaimNothing, tables
<1>2. QED
  BY <1>1, TablesUnchangedInv DEF ClaimNothing

LEMMA RestartInv ==
  ASSUME IInv, Restart PROVE IInv'
<1>1. TypeOK'
  BY DEF IInv, TypeOK, Restart, tables
<1>2. QED
  BY <1>1, TablesUnchangedInv DEF Restart

------------------------------------------------------------------------------
(***************************************************************************)
(* create_job and register_worker.                                         *)
(***************************************************************************)

LEMMA SubmitJobInv ==
  ASSUME IInv, NEW k \in Keys, NEW s \in Specs, NEW now \in Stamp,
         SubmitJob(k, s, now)
  PROVE  IInv'
<1> DEFINE row == [NoJob EXCEPT !.state = "queued", !.spec = s,
                                !.next_run_at = now, !.created_at = now]
<1>1. /\ row.state = "queued" /\ row.spec = s /\ row.attempt_count = 0
      /\ row \in JobRow
  BY EpochIsStamp DEF NoJob, JobRow, JobState
<1>2. /\ jobs' = [jobs EXCEPT ![k] = row]
      /\ jobs[k].state = "absent"
      /\ UNCHANGED <<clock, attempts, workers, claims, known_at>>
      /\ events' = [events EXCEPT ![k] = Logged(k, "job_submitted", 0)]
  BY DEF SubmitJob
<1>3. jobs'[k] = row /\ \A j \in Keys : j # k => jobs'[j] = jobs[j]
  BY <1>2 DEF IInv, TypeOK
<1> HIDE DEF row
<1>4. TypeOK'
  <2>1. jobs' \in [Keys -> JobRow]
    BY <1>1, <1>2 DEF IInv, TypeOK
  <2>2. Logged(k, "job_submitted", 0) \in Seq(Event)
    BY LogGrows DEF IInv, EventType
  <2>3. events' \in [Keys -> Seq(Event)]
    BY <1>2, <2>2 DEF IInv, TypeOK
  <2>4. QED
    BY <1>2, <2>1, <2>3 DEF IInv, TypeOK
<1>5. JobRows'
  BY <1>1, <1>3, ControllerAssumption DEF IInv, JobRows, Budget
<1>6. AttemptRows'
  <2>1. jobs[k].attempt_count = 0 /\ jobs'[k].attempt_count = 0
    BY <1>1, <1>2, <1>3 DEF IInv, JobRows
  <2>2. \A n \in 1 .. AttemptLimit : n # 0 /\ ~(n < 0) /\ ~(n <= 0) /\ n > 0
    OBVIOUS
  <2>3. \A n \in 1 .. AttemptLimit :
          attempts[<<k, n>>].state = "absent" /\ attempts[<<k, n>>].fence_token = 0
    BY <2>1, <2>2 DEF IInv, AttemptRows, AttemptMatches
  <2>4. \A n \in 1 .. AttemptLimit : AttemptMatches(k, n)'
    BY <1>2, <2>1, <2>2, <2>3 DEF AttemptMatches
  <2>5. ASSUME NEW j \in Keys, j # k, NEW n \in 1 .. AttemptLimit
        PROVE  AttemptMatches(j, n)'
    BY <1>2, <1>3, <2>5 DEF IInv, AttemptRows, AttemptMatches
  <2>6. QED
    BY <2>4, <2>5 DEF AttemptRows
<1>7. WorkerRows'
  BY <1>2 DEF IInv, WorkerRows, Active
<1>8. QED
  BY <1>4, <1>5, <1>6, <1>7 DEF IInv

LEMMA RegisterWorkerInv ==
  ASSUME IInv, NEW w \in Workers, RegisterWorker(w)
  PROVE  IInv'
<1>1. /\ UNCHANGED <<clock, jobs, attempts, events, claims, known_at>>
      /\ workers'[w] = Registered(workers[w])
      /\ \A v \in Workers : v # w => workers'[v] = workers[v]
      /\ workers' \in [Workers -> WorkerState]
  BY DEF RegisterWorker, Registered, IInv, TypeOK, WorkerState
<1>2. \A v \in Workers : workers'[v] = "busy" <=> workers[v] = "busy"
  BY <1>1 DEF Registered
<1>3. TypeOK'
  BY <1>1 DEF IInv, TypeOK
<1>4. JobRows' /\ AttemptRows'
  BY <1>1 DEF IInv, JobRows, AttemptRows, AttemptMatches, Budget
<1>5. WorkerRows'
  <2>1. \A a \in AttemptIds : Active(a) => attempts[a].worker \in Workers
    BY ActiveAttemptFacts
  <2>2. QED
    BY <1>1, <1>2, <2>1 DEF IInv, WorkerRows, Active
<1>6. QED
  BY <1>3, <1>4, <1>5 DEF IInv

------------------------------------------------------------------------------
(***************************************************************************)
(* reap_expired_leases, on its own and as the first half of a claim.       *)
(***************************************************************************)

\* A stale attempt is the latest of a held job.
LEMMA StaleFacts ==
  ASSUME IInv, NEW now, NEW a \in Stale(now)
  PROVE  /\ a \in AttemptIds /\ Active(a)
         /\ a[1] \in Keys /\ a = <<a[1], jobs[a[1]].attempt_count>>
         /\ jobs[a[1]].state \in ActiveState
<1>1. a \in AttemptIds /\ Active(a)
  BY DEF Stale
<1>2. QED
  BY <1>1, ActiveAttemptFacts

\* The event of a loss names the attempt that was lost.
LEMMA LostNumberFacts ==
  ASSUME IInv, NEW now, NEW k \in Keys, \E a \in Stale(now) : a[1] = k
  PROVE  /\ LostNumber(k, Stale(now)) = jobs[k].attempt_count
         /\ <<k, jobs[k].attempt_count>> \in Stale(now)
<1>1. PICK a \in Stale(now) : a[1] = k
  OBVIOUS
<1>2. \A b \in Stale(now) : b[1] = k => b = <<k, jobs[k].attempt_count>>
  BY StaleFacts
<1>3. QED
  BY <1>1, <1>2 DEF LostNumber

LEMMA ReapTypes ==
  ASSUME IInv, NEW now \in Stamp, ReapExpiredLeases(now)
  PROVE  /\ jobs' \in [Keys -> JobRow]
         /\ attempts' \in [AttemptIds -> AttemptRow]
         /\ workers' \in [Workers -> WorkerState]
         /\ events' \in [Keys -> Seq(Event)]
<1> DEFINE stale == Stale(now)
<1>1. ASSUME NEW k \in Keys
      PROVE  [jobs[k] EXCEPT !.state = NextState(k), !.next_run_at = now] \in JobRow
  BY DEF IInv, TypeOK, JobRow, JobState, NextState
<1>2. ASSUME NEW a \in AttemptIds
      PROVE  [attempts[a] EXCEPT !.state = "lost"] \in AttemptRow
  BY DEF IInv, TypeOK, AttemptRow, AttemptState
<1>3. ASSUME NEW k \in Keys, \E a \in stale : a[1] = k
      PROVE  Logged(k, "attempt_lost", LostNumber(k, stale)) \in Seq(Event)
  <2>1. LostNumber(k, stale) = jobs[k].attempt_count
    BY <1>3, LostNumberFacts
  <2>2. LostNumber(k, stale) \in Nat
    BY <2>1 DEF IInv, TypeOK, JobRow
  <2>3. QED
    BY <2>2, LogGrows DEF IInv, EventType
<1>4. jobs' \in [Keys -> JobRow]
  BY <1>1 DEF ReapExpiredLeases, IInv, TypeOK
<1>5. attempts' \in [AttemptIds -> AttemptRow]
  BY <1>2 DEF ReapExpiredLeases, IInv, TypeOK
<1>6. workers' \in [Workers -> WorkerState]
  BY DEF ReapExpiredLeases, IInv, TypeOK, WorkerState
<1>7. events' \in [Keys -> Seq(Event)]
  BY <1>3 DEF ReapExpiredLeases, IInv, TypeOK
<1>8. QED
  BY <1>4, <1>5, <1>6, <1>7

\* What the reaper does to each row.
LEMMA ReapRows ==
  ASSUME IInv, NEW now \in Stamp, ReapExpiredLeases(now)
  PROVE  /\ \A a \in Stale(now) :
              /\ attempts'[a].state = "lost"
              /\ attempts'[a].worker = attempts[a].worker
              /\ attempts'[a].fence_token = attempts[a].fence_token
         /\ \A a \in AttemptIds : a \notin Stale(now) => attempts'[a] = attempts[a]
         /\ \A a \in Stale(now) :
              /\ jobs'[a[1]].state = NextState(a[1])
              /\ jobs'[a[1]].attempt_count = jobs[a[1]].attempt_count
              /\ jobs'[a[1]].spec = jobs[a[1]].spec
              /\ jobs'[a[1]].created_at = jobs[a[1]].created_at
         /\ \A k \in Keys : (\A a \in Stale(now) : a[1] # k) => jobs'[k] = jobs[k]
         /\ \A w \in Workers :
              workers'[w] = IF \E a \in Stale(now) : attempts[a].worker = w
                              THEN "ready" ELSE workers[w]
<1> DEFINE stale == Stale(now)
<1>1. \A a \in stale : a \in AttemptIds /\ a[1] \in Keys
  BY StaleFacts
<1>2. \A a \in AttemptIds : attempts[a] \in AttemptRow
  BY DEF IInv, TypeOK
<1>3. \A k \in Keys : jobs[k] \in JobRow
  BY DEF IInv, TypeOK
<1>4. \A a \in AttemptIds :
        attempts'[a] = IF a \in stale THEN [attempts[a] EXCEPT !.state = "lost"]
                                      ELSE attempts[a]
  BY DEF ReapExpiredLeases
<1>5. \A k \in Keys :
        jobs'[k] = IF \E a \in stale : a[1] = k
                     THEN [jobs[k] EXCEPT !.state = NextState(k), !.next_run_at = now]
                     ELSE jobs[k]
  BY DEF ReapExpiredLeases
<1>6. \A a \in stale :
        /\ attempts'[a].state = "lost"
        /\ attempts'[a].worker = attempts[a].worker
        /\ attempts'[a].fence_token = attempts[a].fence_token
  BY <1>1, <1>2, <1>4 DEF AttemptRow
<1>7. \A a \in stale :
        /\ jobs'[a[1]].state = NextState(a[1])
        /\ jobs'[a[1]].attempt_count = jobs[a[1]].attempt_count
        /\ jobs'[a[1]].spec = jobs[a[1]].spec
        /\ jobs'[a[1]].created_at = jobs[a[1]].created_at
  <2> SUFFICES ASSUME NEW a \in stale, NEW k \in Keys, k = a[1]
               PROVE  /\ jobs'[k].state = NextState(k)
                      /\ jobs'[k].attempt_count = jobs[k].attempt_count
                      /\ jobs'[k].spec = jobs[k].spec
                      /\ jobs'[k].created_at = jobs[k].created_at
    BY <1>1
  <2>1. jobs'[k] = [jobs[k] EXCEPT !.state = NextState(k), !.next_run_at = now]
    BY <1>5
  <2>2. QED
    BY <1>3, <2>1 DEF JobRow
<1>8. \A w \in Workers :
        workers'[w] = IF \E a \in stale : attempts[a].worker = w
                        THEN "ready" ELSE workers[w]
  BY DEF ReapExpiredLeases
<1>9. QED
  BY <1>4, <1>5, <1>6, <1>7, <1>8

LEMMA ReapInv ==
  ASSUME IInv, NEW now \in Stamp, ReapExpiredLeases(now),
         UNCHANGED <<clock, known_at>>,
         claims' \subseteq [worker : Workers, since : Stamp]
  PROVE  IInv'
<1> DEFINE stale == Stale(now)
           JobLost(k) == \E a \in stale : a[1] = k
<1>1. TypeOK'
  BY ReapTypes DEF IInv, TypeOK
<1>2. ASSUME NEW k \in Keys, JobLost(k)
      PROVE  /\ <<k, jobs[k].attempt_count>> \in stale
             /\ jobs[k].state \in ActiveState
             /\ jobs'[k].state = NextState(k)
             /\ jobs'[k].attempt_count = jobs[k].attempt_count
             /\ jobs'[k].spec = jobs[k].spec
             /\ Budget(k)' = Budget(k)
  <2>1. PICK a \in stale : a[1] = k
    BY <1>2
  <2>2. QED
    BY <2>1, StaleFacts, ReapRows DEF Budget
<1>3. JobRows'
  <2>1. ASSUME NEW k \in Keys, JobLost(k)
        PROVE  /\ jobs[k].spec \in Specs /\ jobs[k].attempt_count <= Budget(k)
               /\ jobs[k].attempt_count >= 1
               /\ jobs[k].attempt_count \in Nat /\ Budget(k) \in Nat
    <3>1. jobs[k].state \in ActiveState
      BY <1>2, <2>1
    <3>2. /\ jobs[k].spec \in Specs /\ jobs[k].attempt_count <= Budget(k)
          /\ jobs[k].attempt_count >= 1
      BY <3>1 DEF IInv, JobRows, ActiveState
    <3>3. jobs[k].attempt_count \in Nat /\ Budget(k) \in Nat
      BY <3>2, ControllerAssumption DEF IInv, TypeOK, JobRow, Budget
    <3>4. QED
      BY <3>2, <3>3
  <2>2. ASSUME NEW k \in Keys, JobLost(k)
        PROVE  \/ NextState(k) = "queued" /\ jobs[k].attempt_count < Budget(k)
               \/ NextState(k) = "expired" /\ jobs[k].attempt_count = Budget(k)
    BY <2>1, <2>2 DEF NextState
  <2>3. \A k \in Keys : ~JobLost(k) => jobs'[k] = jobs[k]
    BY ReapRows
  <2>4. QED
    BY <1>2, <2>1, <2>2, <2>3 DEF IInv, JobRows, Budget
<1>4. AttemptRows'
  <2> SUFFICES ASSUME NEW k \in Keys, NEW n \in 1 .. AttemptLimit
               PROVE  AttemptMatches(k, n)'
    BY DEF AttemptRows
  <2>1. AttemptMatches(k, n) /\ <<k, n>> \in AttemptIds
    BY DEF IInv, AttemptRows, AttemptIds
  <2>2. CASE ~JobLost(k)
    <3>1. jobs'[k] = jobs[k]
      BY <2>2, ReapRows
    <3>2. <<k, n>> \notin stale
      BY <2>2
    <3>3. attempts'[<<k, n>>] = attempts[<<k, n>>]
      BY <2>1, <3>2, ReapRows
    <3>4. QED
      BY <2>1, <3>1, <3>3 DEF AttemptMatches
  <2>3. CASE JobLost(k)
    <3>1. jobs'[k].attempt_count = jobs[k].attempt_count
      BY <1>2, <2>3
    <3>2. LatestState(jobs'[k].state) = "lost"
      BY <1>2, <2>3 DEF LatestState, NextState, ActiveState
    <3>3. jobs[k].attempt_count \in Nat /\ n \in Nat
      BY ControllerAssumption DEF IInv, TypeOK, JobRow
    <3>4. CASE <<k, n>> \in stale
      <4>1. n = jobs[k].attempt_count
        BY <3>4, StaleFacts
      <4>2. /\ attempts'[<<k, n>>].state = "lost"
            /\ attempts'[<<k, n>>].worker = attempts[<<k, n>>].worker
            /\ attempts'[<<k, n>>].fence_token = attempts[<<k, n>>].fence_token
        BY <3>4, ReapRows
      <4>3. QED
        BY <2>1, <3>1, <3>2, <3>3, <4>1, <4>2 DEF AttemptMatches
    <3>5. CASE <<k, n>> \notin stale
      <4>1. n # jobs[k].attempt_count
        BY <1>2, <2>3, <3>5
      <4>2. attempts'[<<k, n>>] = attempts[<<k, n>>]
        BY <2>1, <3>5, ReapRows
      <4>3. QED
        BY <2>1, <3>1, <4>1, <4>2 DEF AttemptMatches
    <3>6. QED
      BY <3>4, <3>5
  <2>4. QED
    BY <2>2, <2>3
<1>5. WorkerRows'
  <2>1. \A a \in AttemptIds : Active(a)' => Active(a) /\ a \notin stale
    BY ReapRows DEF Active, ActiveState
  <2>2. \A a \in AttemptIds : attempts'[a].worker = attempts[a].worker
    BY ReapRows
  <2>3. \A a \in AttemptIds : Active(a) /\ a \notin stale => Active(a)'
    BY ReapRows DEF Active
  <2>4. ASSUME NEW a \in AttemptIds, Active(a)'
        PROVE  workers'[attempts'[a].worker] = "busy"
    <3>1. \A b \in stale : attempts[b].worker # attempts[a].worker
      BY <2>1, <2>4, StaleFacts DEF IInv, WorkerRows
    <3>2. attempts[a].worker \in Workers /\ workers[attempts[a].worker] = "busy"
      BY <2>1, <2>4, ActiveAttemptFacts
    <3>3. QED
      BY <2>2, <3>1, <3>2, ReapRows
  <2>5. ASSUME NEW w \in Workers, workers'[w] = "busy"
        PROVE  \E a \in AttemptIds : Active(a)' /\ attempts'[a].worker = w
    <3>1. workers[w] = "busy" /\ \A b \in stale : attempts[b].worker # w
      BY <2>5, ReapRows
    <3>2. PICK a \in AttemptIds : Active(a) /\ attempts[a].worker = w
      BY <3>1 DEF IInv, WorkerRows
    <3>3. QED
      BY <2>2, <2>3, <3>1, <3>2
  <2>6. QED
    BY <2>1, <2>2, <2>4, <2>5 DEF IInv, WorkerRows
<1>6. QED
  BY <1>1, <1>3, <1>4, <1>5 DEF IInv

LEMMA ReaperTurnInv ==
  ASSUME IInv, NEW now \in Stamp, ReaperTurn(now) PROVE IInv'
BY ReapInv DEF ReaperTurn, IInv, TypeOK

LEMMA BeginClaimInv ==
  ASSUME IInv, NEW w \in Workers, NEW now \in Stamp, BeginClaim(w, now)
  PROVE  IInv'
<1>1. claims' \subseteq [worker : Workers, since : Stamp]
  BY DEF BeginClaim, IInv, TypeOK
<1>2. QED
  BY <1>1, ReapInv DEF BeginClaim

------------------------------------------------------------------------------
(***************************************************************************)
(* claim_next_job's second transaction.                                    *)
(***************************************************************************)

\* A queued job has room for one more attempt, and COALESCE(MAX(...)) + 1 is
\* the number of that attempt.
LEMMA NextFenceFacts ==
  ASSUME IInv, NEW k \in Keys, jobs[k].state = "queued"
  PROVE  /\ jobs[k].attempt_count \in Nat
         /\ jobs[k].attempt_count + 1 \in 1 .. AttemptLimit
         /\ jobs[k].attempt_count + 1 <= Budget(k)
         /\ NextFence(k) = jobs[k].attempt_count + 1
<1> DEFINE c == jobs[k].attempt_count
           fences == {attempts[<<k, n>>].fence_token : n \in 1 .. AttemptLimit}
<1>1. c \in Nat /\ c < Budget(k) /\ jobs[k].spec \in Specs
  BY DEF IInv, TypeOK, JobRow, JobRows
<1>2. Budget(k) \in 1 .. AttemptLimit /\ AttemptLimit \in Nat
  BY <1>1, ControllerAssumption DEF Budget
<1>3. c + 1 \in 1 .. AttemptLimit /\ c + 1 <= Budget(k)
  BY <1>1, <1>2
<1>4. \A n \in 1 .. AttemptLimit :
        attempts[<<k, n>>].fence_token = IF n <= c THEN n ELSE 0
  BY <1>1 DEF IInv, AttemptRows, AttemptMatches
<1>5. c \in fences
  <2>1. CASE c = 0
    BY <1>3, <1>4, <2>1
  <2>2. CASE c # 0
    <3>1. c \in 1 .. AttemptLimit
      BY <1>1, <1>2, <1>3, <2>2
    <3>2. QED
      BY <1>4, <3>1
  <2>3. QED
    BY <2>1, <2>2
<1>6. \A f \in fences : f \in Nat /\ f <= c
  <2> SUFFICES ASSUME NEW n \in 1 .. AttemptLimit
               PROVE  /\ attempts[<<k, n>>].fence_token \in Nat
                      /\ attempts[<<k, n>>].fence_token <= c
    OBVIOUS
  <2>1. CASE n <= c
    BY <1>1, <1>2, <1>4, <2>1
  <2>2. CASE ~(n <= c)
    BY <1>1, <1>4, <2>2
  <2>3. QED
    BY <2>1, <2>2
<1>7. Max(fences) = c
  <2>1. c \in fences /\ \A y \in fences : c >= y
    BY <1>1, <1>5, <1>6
  <2>2. ASSUME NEW x \in fences, \A y \in fences : x >= y
        PROVE  x = c
    <3>1. x \in Nat /\ x <= c /\ x >= c
      BY <1>5, <1>6, <2>2
    <3>2. QED
      BY <1>1, <3>1
  <2>3. QED
    BY <2>1, <2>2 DEF Max
<1>8. QED
  BY <1>1, <1>3, <1>7 DEF NextFence

\* What a claim does to each row.
LEMMA LeaseRows ==
  ASSUME IInv, NEW k \in Keys, NEW w \in Workers, NEW now \in Stamp,
         NEW issued \in Stamp, jobs[k].state = "queued", LeaseTo(w, k, now, issued),
         NEW n \in Nat, n = jobs[k].attempt_count + 1
  PROVE  /\ n \in 1 .. AttemptLimit /\ <<k, n>> \in AttemptIds
         /\ n <= Budget(k)
         /\ attempts'[<<k, n>>] =
              [state |-> "leased", worker |-> w, fence_token |-> n,
               lease_expires_at |-> After(issued, LeaseSeconds)]
         /\ \A a \in AttemptIds : a # <<k, n>> => attempts'[a] = attempts[a]
         /\ jobs'[k].state = "leased" /\ jobs'[k].attempt_count = n
         /\ jobs'[k].spec = jobs[k].spec /\ jobs'[k].created_at = jobs[k].created_at
         /\ jobs'[k] \in JobRow
         /\ \A j \in Keys : j # k => jobs'[j] = jobs[j]
         /\ workers' = [workers EXCEPT ![w] = "busy"]
<1>1. n \in 1 .. AttemptLimit /\ NextFence(k) = n /\ n <= Budget(k)
  BY NextFenceFacts
<1>2. <<k, n>> \in AttemptIds
  BY <1>1 DEF AttemptIds
<1>3. /\ attempts' = [attempts EXCEPT ![<<k, n>>] =
             [state |-> "leased", worker |-> w, fence_token |-> n,
              lease_expires_at |-> After(issued, LeaseSeconds)]]
      /\ jobs' = [jobs EXCEPT ![k].state = "leased", ![k].attempt_count = n]
      /\ workers' = [workers EXCEPT ![w] = "busy"]
  BY <1>1 DEF LeaseTo
<1>4. jobs[k] \in JobRow /\ jobs \in [Keys -> JobRow]
  BY DEF IInv, TypeOK
<1>5. jobs' = [jobs EXCEPT ![k] =
                 [jobs[k] EXCEPT !.state = "leased", !.attempt_count = n]]
  BY <1>3, <1>4
<1>6. jobs'[k] = [jobs[k] EXCEPT !.state = "leased", !.attempt_count = n]
  BY <1>4, <1>5
<1>7. /\ jobs'[k].state = "leased" /\ jobs'[k].attempt_count = n
      /\ jobs'[k].spec = jobs[k].spec /\ jobs'[k].created_at = jobs[k].created_at
      /\ jobs'[k] \in JobRow
  BY <1>1, <1>4, <1>6 DEF JobRow, JobState, ActiveState
<1>8. \A j \in Keys : j # k => jobs'[j] = jobs[j]
  BY <1>4, <1>5
<1>9. attempts \in [AttemptIds -> AttemptRow]
  BY DEF IInv, TypeOK
<1>10. QED
  BY <1>1, <1>2, <1>3, <1>7, <1>8, <1>9

LEMMA ClaimJobInv ==
  ASSUME IInv, NEW c \in claims, NEW now \in Stamp, NEW issued \in Stamp,
         ClaimJob(c, now, issued)
  PROVE  IInv'
<1> DEFINE w == c.worker
<1>1. w \in Workers /\ workers[w] = "ready"
  BY DEF ClaimJob, IInv, TypeOK
<1>2. PICK k \in Keys : jobs[k].state = "queued" /\ LeaseTo(w, k, now, issued)
  BY DEF ClaimJob, Selectable, Due
<1>a. jobs[k].attempt_count \in Nat
  BY <1>2, NextFenceFacts
<1>b. PICK n \in Nat : n = jobs[k].attempt_count + 1
  BY <1>a
<1> DEFINE new == <<k, n>>
<1>3. n \in 1 .. AttemptLimit /\ new \in AttemptIds /\ n <= Budget(k)
  BY <1>1, <1>2, <1>b, LeaseRows
<1>4. /\ attempts'[new].state = "leased" /\ attempts'[new].worker = w
      /\ attempts'[new].fence_token = n /\ attempts'[new] \in AttemptRow
      /\ \A a \in AttemptIds : a # new => attempts'[a] = attempts[a]
  <2>1. attempts'[new] = [state |-> "leased", worker |-> w, fence_token |-> n,
                          lease_expires_at |-> After(issued, LeaseSeconds)]
    BY <1>1, <1>2, <1>b, LeaseRows
  <2>2. attempts'[new] \in AttemptRow
    BY <1>1, <1>3, <2>1, LeaseIsStamp DEF AttemptRow, AttemptState, ActiveState
  <2>3. QED
    BY <1>1, <1>2, <1>b, <2>1, <2>2, LeaseRows
<1>5. /\ jobs'[k].state = "leased" /\ jobs'[k].attempt_count = n
      /\ jobs'[k].spec = jobs[k].spec /\ jobs'[k] \in JobRow
      /\ \A j \in Keys : j # k => jobs'[j] = jobs[j]
  BY <1>1, <1>2, <1>b, LeaseRows
<1>6. /\ workers'[w] = "busy" /\ \A v \in Workers : v # w => workers'[v] = workers[v]
      /\ workers' \in [Workers -> WorkerState]
  <2>1. workers' = [workers EXCEPT ![w] = "busy"]
    BY <1>2 DEF LeaseTo
  <2>2. QED
    BY <1>1, <2>1 DEF IInv, TypeOK, WorkerState
<1>7. TypeOK'
  <2>1. jobs' \in [Keys -> JobRow]
    BY <1>2, <1>5 DEF LeaseTo, IInv, TypeOK
  <2>2. attempts' \in [AttemptIds -> AttemptRow]
    BY <1>2, <1>3, <1>4 DEF LeaseTo, IInv, TypeOK
  <2>3. Logged(k, "attempt_leased", n) \in Seq(Event)
    BY <1>3, LogGrows DEF IInv, EventType
  <2>4. events' \in [Keys -> Seq(Event)]
    <3>1. events' = [events EXCEPT ![k] = Logged(k, "attempt_leased", n)]
      BY <1>2, <1>b DEF LeaseTo
    <3>2. QED
      BY <2>3, <3>1 DEF IInv, TypeOK
  <2>5. known_at' \in [AttemptIds -> Stamp]
    BY <1>2 DEF LeaseTo, IInv, TypeOK
  <2>6. clock' \in Stamp /\ claims' \subseteq [worker : Workers, since : Stamp]
    BY DEF ClaimJob, IInv, TypeOK
  <2>7. QED
    BY <1>6, <2>1, <2>2, <2>4, <2>5, <2>6 DEF TypeOK
<1>8. JobRows'
  <2>1. jobs[k].spec \in Specs /\ n >= 1
    BY <1>2, <1>3 DEF IInv, JobRows
  <2>2. Budget(k)' = Budget(k) /\ \A j \in Keys : j # k => Budget(j)' = Budget(j)
    BY <1>5 DEF Budget
  <2>3. QED
    BY <1>3, <1>5, <2>1, <2>2 DEF IInv, JobRows
<1>9. AttemptRows'
  <2> SUFFICES ASSUME NEW j \in Keys, NEW m \in 1 .. AttemptLimit
               PROVE  AttemptMatches(j, m)'
    BY DEF AttemptRows
  <2>1. AttemptMatches(j, m) /\ <<j, m>> \in AttemptIds /\ m \in Nat
    BY ControllerAssumption DEF IInv, AttemptRows, AttemptIds
  <2>2. CASE j # k
    <3>1. jobs'[j] = jobs[j] /\ attempts'[<<j, m>>] = attempts[<<j, m>>]
      BY <1>4, <1>5, <2>1, <2>2
    <3>2. QED
      BY <2>1, <3>1 DEF AttemptMatches
  <2>3. CASE j = k /\ m = n
    BY <1>1, <1>3, <1>4, <1>5, <2>3 DEF AttemptMatches, LatestState, ActiveState
  <2>4. CASE j = k /\ m # n
    <3>1. attempts'[<<j, m>>] = attempts[<<j, m>>]
      BY <1>4, <2>1, <2>4
    <3>2. LatestState(jobs[k].state) = "lost"
      BY <1>2 DEF LatestState, ActiveState
    <3>3. QED
      BY <1>a, <1>b, <1>3, <1>5, <2>1, <2>4, <3>1, <3>2 DEF AttemptMatches
  <2>5. QED
    BY <2>2, <2>3, <2>4
<1>10. WorkerRows'
  <2>1. \A a \in AttemptIds : Active(a) => attempts[a].worker # w /\ a # new
    <3>1. \A a \in AttemptIds : Active(a) => attempts[a].worker # w
      BY <1>1 DEF IInv, WorkerRows
    <3>2. ~Active(new)
      BY <1>2, <1>3, ActiveAttemptFacts DEF ActiveState
    <3>3. QED
      BY <3>1, <3>2
  <2>2. \A a \in AttemptIds : a # new =>
          (Active(a)' <=> Active(a)) /\ attempts'[a].worker = attempts[a].worker
    BY <1>4 DEF Active
  <2>3. Active(new)'
    BY <1>4 DEF Active, ActiveState
  <2>4. ASSUME NEW a \in AttemptIds, Active(a)'
        PROVE  workers'[attempts'[a].worker] = "busy"
    <3>1. CASE a = new
      BY <1>4, <1>6, <3>1
    <3>2. CASE a # new
      <4>1. Active(a) /\ attempts'[a].worker = attempts[a].worker
        BY <2>2, <2>4, <3>2
      <4>2. attempts[a].worker \in Workers /\ workers[attempts[a].worker] = "busy"
        BY <4>1, ActiveAttemptFacts
      <4>3. QED
        BY <1>6, <2>1, <4>1, <4>2
    <3>3. QED
      BY <3>1, <3>2
  <2>5. ASSUME NEW a \in AttemptIds, NEW b \in AttemptIds, Active(a)', Active(b)',
               attempts'[a].worker = attempts'[b].worker
        PROVE  a = b
    BY <1>4, <2>1, <2>2, <2>5 DEF IInv, WorkerRows
  <2>6. ASSUME NEW v \in Workers, workers'[v] = "busy"
        PROVE  \E a \in AttemptIds : Active(a)' /\ attempts'[a].worker = v
    <3>1. CASE v = w
      BY <1>3, <1>4, <2>3, <3>1
    <3>2. CASE v # w
      <4>1. PICK a \in AttemptIds : Active(a) /\ attempts[a].worker = v
        BY <1>6, <2>6, <3>2 DEF IInv, WorkerRows
      <4>2. QED
        BY <2>1, <2>2, <4>1
    <3>3. QED
      BY <3>1, <3>2
  <2>7. QED
    BY <2>4, <2>5, <2>6 DEF WorkerRows
<1>11. QED
  BY <1>7, <1>8, <1>9, <1>10 DEF IInv

------------------------------------------------------------------------------
(***************************************************************************)
(* heartbeat_attempt and complete_attempt: both move the active attempt    *)
(* `a' and its job on together, and keep or free the attempt's worker.     *)
(***************************************************************************)

LEMMA HeldStepInv ==
  ASSUME IInv, NEW a \in AttemptIds, Active(a),
         NEW js \in {"running", "succeeded", "failed"},
         NEW row \in AttemptRow, row.state = LatestState(js),
         row.worker = attempts[a].worker,
         row.fence_token = attempts[a].fence_token,
         NEW log \in Seq(Event),
         attempts' = [attempts EXCEPT ![a] = row],
         jobs' = [jobs EXCEPT ![a[1]].state = js],
         workers' = [workers EXCEPT ![attempts[a].worker] =
                       IF js = "running" THEN "busy" ELSE "ready"],
         events' = [events EXCEPT ![a[1]] = log],
         UNCHANGED <<clock, claims, known_at>>
  PROVE  IInv'
<1>1. PICK k \in Keys, n \in 1 .. AttemptLimit : a = <<k, n>>
  BY AttemptIdParts
<1>2. PICK w \in Workers : w = attempts[a].worker
  BY ActiveAttemptFacts
<1>3. /\ n = jobs[k].attempt_count /\ jobs[k].state \in ActiveState
      /\ attempts[a].fence_token = n /\ workers[w] = "busy" /\ n \in Nat
  BY <1>1, <1>2, ActiveAttemptFacts, ControllerAssumption
<1>4. jobs \in [Keys -> JobRow] /\ attempts \in [AttemptIds -> AttemptRow]
  BY DEF IInv, TypeOK
<1>5. /\ jobs'[k] = [jobs[k] EXCEPT !.state = js]
      /\ \A j \in Keys : j # k => jobs'[j] = jobs[j]
      /\ jobs' = [jobs EXCEPT ![k] = [jobs[k] EXCEPT !.state = js]]
  BY <1>1, <1>4
<1>6. /\ jobs'[k].state = js /\ jobs'[k].attempt_count = n
      /\ jobs'[k].spec = jobs[k].spec /\ jobs'[k] \in JobRow
  BY <1>3, <1>4, <1>5 DEF JobRow, JobState, ActiveState
<1>7. /\ attempts'[a] = row
      /\ \A b \in AttemptIds : b # a => attempts'[b] = attempts[b]
  BY <1>4
<1>8. /\ workers'[w] = IF js = "running" THEN "busy" ELSE "ready"
      /\ \A v \in Workers : v # w => workers'[v] = workers[v]
      /\ workers' \in [Workers -> WorkerState]
  BY <1>2 DEF IInv, TypeOK, WorkerState
<1>9. TypeOK'
  <2>1. jobs' \in [Keys -> JobRow]
    BY <1>4, <1>5, <1>6
  <2>2. attempts' \in [AttemptIds -> AttemptRow]
    BY <1>4
  <2>3. events' \in [Keys -> Seq(Event)]
    BY <1>1 DEF IInv, TypeOK
  <2>4. QED
    BY <1>8, <2>1, <2>2, <2>3 DEF IInv, TypeOK
<1>10. JobRows'
  <2>1. Budget(k)' = Budget(k) /\ \A j \in Keys : j # k => Budget(j)' = Budget(j)
    BY <1>5, <1>6 DEF Budget
  <2>2. /\ jobs[k].spec \in Specs /\ n <= Budget(k) /\ n >= 1
    BY <1>3 DEF IInv, JobRows, ActiveState
  <2>3. /\ js # "absent" /\ js # "queued" /\ js # "expired"
    OBVIOUS
  <2>4. ASSUME NEW j \in Keys
        PROVE  /\ jobs'[j].state = "absent" => jobs'[j].attempt_count = 0
               /\ jobs'[j].state # "absent" =>
                    jobs'[j].spec \in Specs /\ jobs'[j].attempt_count <= Budget(j)'
               /\ jobs'[j].state \notin {"absent", "queued"} =>
                    jobs'[j].attempt_count >= 1
               /\ jobs'[j].state = "queued" => jobs'[j].attempt_count < Budget(j)'
               /\ jobs'[j].state = "expired" => jobs'[j].attempt_count = Budget(j)'
    <3>1. CASE j = k
      BY <1>6, <2>1, <2>2, <2>3, <3>1
    <3>2. CASE j # k
      BY <1>5, <2>1, <3>2 DEF IInv, JobRows
    <3>3. QED
      BY <3>1, <3>2
  <2>5. QED
    BY <2>4 DEF JobRows
<1>11. AttemptRows'
  <2> SUFFICES ASSUME NEW j \in Keys, NEW m \in 1 .. AttemptLimit
               PROVE  AttemptMatches(j, m)'
    BY DEF AttemptRows
  <2>1. AttemptMatches(j, m) /\ <<j, m>> \in AttemptIds /\ m \in Nat
    BY ControllerAssumption DEF IInv, AttemptRows, AttemptIds
  <2>2. CASE j # k
    <3>1. jobs'[j] = jobs[j] /\ attempts'[<<j, m>>] = attempts[<<j, m>>]
      BY <1>1, <1>5, <1>7, <2>1, <2>2
    <3>2. QED
      BY <2>1, <3>1 DEF AttemptMatches
  <2>3. CASE j = k /\ m = n
    BY <1>1, <1>2, <1>3, <1>6, <1>7, <2>3 DEF AttemptMatches
  <2>4. CASE j = k /\ m # n
    <3>1. attempts'[<<j, m>>] = attempts[<<j, m>>]
      BY <1>1, <1>7, <2>1, <2>4
    <3>2. QED
      BY <1>3, <1>6, <2>1, <2>4, <3>1 DEF AttemptMatches
  <2>5. QED
    BY <2>2, <2>3, <2>4
<1>12. WorkerRows'
  <2>1. \A b \in AttemptIds : Active(b) /\ b # a => attempts[b].worker # w
    BY <1>2 DEF IInv, WorkerRows
  <2>2. \A b \in AttemptIds :
          /\ attempts'[b].worker = attempts[b].worker
          /\ b # a => (Active(b)' <=> Active(b))
    BY <1>7 DEF Active
  <2>3. Active(a)' <=> js = "running"
    BY <1>7 DEF Active, LatestState, ActiveState
  <2>4. ASSUME NEW b \in AttemptIds, Active(b)'
        PROVE  workers'[attempts'[b].worker] = "busy"
    <3>1. CASE b = a
      BY <1>2, <1>8, <2>2, <2>3, <2>4, <3>1
    <3>2. CASE b # a
      <4>1. Active(b) /\ attempts'[b].worker = attempts[b].worker
        BY <2>2, <2>4, <3>2
      <4>2. attempts[b].worker \in Workers /\ workers[attempts[b].worker] = "busy"
        BY <4>1, ActiveAttemptFacts
      <4>3. QED
        BY <1>8, <2>1, <3>2, <4>1, <4>2
    <3>3. QED
      BY <3>1, <3>2
  <2>5. ASSUME NEW b \in AttemptIds, NEW c \in AttemptIds, Active(b)', Active(c)',
               attempts'[b].worker = attempts'[c].worker
        PROVE  b = c
    <3>1. Active(b) /\ Active(c)
      BY <2>2, <2>5
    <3>2. QED
      BY <2>2, <2>5, <3>1 DEF IInv, WorkerRows
  <2>6. ASSUME NEW v \in Workers, workers'[v] = "busy"
        PROVE  \E b \in AttemptIds : Active(b)' /\ attempts'[b].worker = v
    <3>1. CASE v = w
      BY <1>2, <1>8, <2>2, <2>3, <2>6, <3>1
    <3>2. CASE v # w
      <4>1. PICK b \in AttemptIds : Active(b) /\ attempts[b].worker = v
        BY <1>8, <2>6, <3>2 DEF IInv, WorkerRows
      <4>2. QED
        BY <1>2, <2>2, <3>2, <4>1
    <3>3. QED
      BY <3>1, <3>2
  <2>7. QED
    BY <2>4, <2>5, <2>6 DEF WorkerRows
<1>13. QED
  BY <1>9, <1>10, <1>11, <1>12 DEF IInv

LEMMA HeartbeatInv ==
  ASSUME IInv, NEW a \in AttemptIds, NEW w \in Workers, NEW fence,
         NEW now \in Stamp, NEW issued \in Stamp, Heartbeat(a, w, fence, now, issued)
  PROVE  IInv'
<1> DEFINE row == [attempts[a] EXCEPT
                     !.state = "running",
                     !.lease_expires_at = After(issued, LeaseSeconds)]
<1>1. Active(a) /\ w = attempts[a].worker
  BY DEF Heartbeat, ActiveAttempt
<1>2. attempts \in [AttemptIds -> AttemptRow] /\ attempts[a] \in AttemptRow
  BY DEF IInv, TypeOK
<1>3. After(issued, LeaseSeconds) \in Stamp
  BY LeaseIsStamp
<1>4. /\ row \in AttemptRow /\ row.state = "running"
      /\ row.worker = attempts[a].worker
      /\ row.fence_token = attempts[a].fence_token
  BY <1>2, <1>3 DEF AttemptRow, AttemptState, ActiveState
<1>5. attempts' = [attempts EXCEPT ![a] = row]
  BY <1>2 DEF Heartbeat
<1>6. StartedEvent(a) \in Seq(Event)
  <2>1. a[1] \in Keys /\ a[2] \in Nat
    BY AttemptIdParts, ControllerAssumption
  <2>2. Logged(a[1], "attempt_started", a[2]) \in Seq(Event)
    BY <2>1, LogGrows DEF IInv, EventType
  <2>3. QED
    BY <2>1, <2>2 DEF StartedEvent, IInv, TypeOK
<1>7. row.state = LatestState("running")
  BY <1>4 DEF LatestState, ActiveState
<1> HIDE DEF row
<1>8. /\ jobs' = [jobs EXCEPT ![a[1]].state = "running"]
      /\ workers' = [workers EXCEPT ![attempts[a].worker] = "busy"]
      /\ events' = [events EXCEPT ![a[1]] = StartedEvent(a)]
      /\ UNCHANGED <<clock, claims, known_at>>
  BY <1>1 DEF Heartbeat
<1>9. QED
  BY <1>1, <1>4, <1>5, <1>6, <1>7, <1>8, HeldStepInv

LEMMA CompleteInv ==
  ASSUME IInv, NEW a \in AttemptIds, NEW w \in Workers, NEW fence,
         NEW ok \in BOOLEAN, NEW now \in Stamp, Complete(a, w, fence, ok, now)
  PROVE  IInv'
<1> DEFINE js == IF ok THEN "succeeded" ELSE "failed"
           type == IF ok THEN "attempt_succeeded" ELSE "attempt_failed"
           row == [attempts[a] EXCEPT !.state = IF ok THEN "finished" ELSE "failed"]
<1>1. Active(a) /\ w = attempts[a].worker
  BY DEF Complete, ActiveAttempt
<1>2. attempts \in [AttemptIds -> AttemptRow] /\ attempts[a] \in AttemptRow
  BY DEF IInv, TypeOK
<1>3. /\ row \in AttemptRow /\ row.worker = attempts[a].worker
      /\ row.fence_token = attempts[a].fence_token
      /\ row.state = IF ok THEN "finished" ELSE "failed"
  BY <1>2 DEF AttemptRow, AttemptState
<1>4. attempts' = [attempts EXCEPT ![a] = row]
  BY <1>2 DEF Complete
<1>5. Logged(a[1], type, a[2]) \in Seq(Event)
  <2>1. a[1] \in Keys /\ a[2] \in Nat
    BY AttemptIdParts, ControllerAssumption
  <2>2. type \in EventType
    BY DEF EventType
  <2>3. QED
    BY <2>1, <2>2, LogGrows DEF IInv
<1>6. js \in {"running", "succeeded", "failed"} /\ js # "running"
      /\ row.state = LatestState(js)
  BY <1>3 DEF LatestState, ActiveState
<1>7. /\ jobs' = [jobs EXCEPT ![a[1]].state = js]
      /\ workers' = [workers EXCEPT ![attempts[a].worker] = "ready"]
      /\ events' = [events EXCEPT ![a[1]] = Logged(a[1], type, a[2])]
      /\ UNCHANGED <<clock, claims, known_at>>
  BY <1>1 DEF Complete
<1> HIDE DEF row, js, type
<1>8. QED
  BY <1>1, <1>3, <1>4, <1>5, <1>6, <1>7, HeldStepInv

------------------------------------------------------------------------------
(***************************************************************************)
(* The theorems.                                                           *)
(***************************************************************************)

\* IInv is inductive: every transaction, tick and restart preserves it.
LEMMA NextInv ==
  ASSUME IInv, [Next]_vars
  PROVE  IInv'
<1>1. CASE Tick
  BY <1>1, TickInv
<1>2. CASE Restart
  BY <1>2, RestartInv
<1>3. ASSUME NEW k \in Keys, NEW s \in Specs, NEW now \in Readings(Epoch),
             SubmitJob(k, s, now)
      PROVE  IInv'
  BY <1>3, ReadingsAreStamps, SubmitJobInv DEF IInv, TypeOK
<1>4. ASSUME NEW w \in Workers, RegisterWorker(w)
      PROVE  IInv'
  BY <1>4, RegisterWorkerInv
<1>5. ASSUME NEW now \in Readings(Epoch), ReaperTurn(now)
      PROVE  IInv'
  BY <1>5, ReadingsAreStamps, ReaperTurnInv DEF IInv, TypeOK
<1>6. ASSUME NEW w \in Workers, NEW now \in Readings(Epoch), BeginClaim(w, now)
      PROVE  IInv'
  BY <1>6, ReadingsAreStamps, BeginClaimInv DEF IInv, TypeOK
<1>7. ASSUME NEW c \in claims, NEW now \in Readings(c.since),
             NEW issued \in Readings(now), ClaimJob(c, now, issued)
      PROVE  IInv'
  BY <1>7, ReadingsAreStamps, ClaimJobInv DEF IInv, TypeOK
<1>8. ASSUME NEW c \in claims, ClaimNothing(c)
      PROVE  IInv'
  BY <1>8, ClaimNothingInv
<1>9. ASSUME NEW a \in AttemptIds, NEW now \in Readings(known_at[a]),
             NEW issued \in Readings(now), NEW w \in Workers,
             NEW f \in 1 .. AttemptLimit, Heartbeat(a, w, f, now, issued)
      PROVE  IInv'
  BY <1>9, ReadingsAreStamps, HeartbeatInv DEF IInv, TypeOK
<1>10. ASSUME NEW a \in AttemptIds, NEW now \in Readings(known_at[a]),
              NEW w \in Workers, NEW f \in 1 .. AttemptLimit,
              NEW ok \in BOOLEAN, Complete(a, w, f, ok, now)
       PROVE  IInv'
  BY <1>10, ReadingsAreStamps, CompleteInv DEF IInv, TypeOK
<1>11. CASE UNCHANGED vars
  <2>1. clock' = clock /\ claims' = claims /\ known_at' = known_at
        /\ UNCHANGED tables
    BY <1>11 DEF vars, tables
  <2>2. QED
    BY <2>1, TablesUnchangedInv DEF IInv, TypeOK, tables
<1>12. QED
  BY <1>1, <1>2, <1>3, <1>4, <1>5, <1>6, <1>7, <1>8, <1>9, <1>10, <1>11 DEF Next

THEOREM InductiveInvariant == Spec => []IInv
<1>1. Init => IInv
  BY InitInv
<1>2. IInv /\ [Next]_vars => IInv'
  BY NextInv
<1>3. QED
  BY <1>1, <1>2, PTL DEF Spec

\* Every variable keeps its type, whatever the instance.
THEOREM TypeCorrect == Spec => []TypeOK
BY InductiveInvariant, PTL DEF IInv

\* The tables agree (OneActiveAttempt): no job has two active attempts and no
\* worker holds two, for any number of jobs, workers, late and lost requests.
THEOREM OneActiveAttemptHolds == Spec => []OneActiveAttempt
<1>1. IInv => OneActiveAttempt
  <2> SUFFICES ASSUME IInv PROVE OneActiveAttempt
    OBVIOUS
  <2>1. ASSUME NEW a \in AttemptIds, Active(a)
        PROVE  /\ a[2] = jobs[a[1]].attempt_count
               /\ attempts[a].state = jobs[a[1]].state
               /\ workers[attempts[a].worker] = "busy"
               /\ \A b \in AttemptIds :
                    Active(b) /\ attempts[b].worker = attempts[a].worker => a = b
    BY <2>1, ActiveAttemptFacts DEF IInv, WorkerRows
  <2>2. ASSUME NEW k \in Keys, jobs[k].state \in ActiveState
        PROVE  Active(<<k, jobs[k].attempt_count>>)
    BY <2>2, HeldJobFacts
  <2>3. \A w \in Workers : workers[w] = "busy" =>
          \E a \in AttemptIds : Active(a) /\ attempts[a].worker = w
    BY DEF IInv, WorkerRows
  <2>4. QED
    BY <2>1, <2>2, <2>3 DEF OneActiveAttempt
<1>2. QED
  BY <1>1, InductiveInvariant, PTL

\* No job is queued without budget, none exceeds it, and an expired job lost
\* every attempt it was allowed: claim_next_job needs no max_attempts test.
THEOREM RetryBudgetHolds == Spec => []RetryBudget
<1>1. IInv => RetryBudget
  <2> SUFFICES ASSUME IInv, NEW k \in Keys
               PROVE  /\ jobs[k].state = "queued" => jobs[k].attempt_count < Budget(k)
                      /\ jobs[k].state # "absent" => jobs[k].attempt_count <= Budget(k)
                      /\ jobs[k].state = "expired" =>
                           /\ jobs[k].attempt_count = Budget(k)
                           /\ \A n \in 1 .. Budget(k) : attempts[<<k, n>>].state = "lost"
    BY DEF RetryBudget
  <2>1. /\ jobs[k].state = "queued" => jobs[k].attempt_count < Budget(k)
        /\ jobs[k].state # "absent" => jobs[k].attempt_count <= Budget(k)
        /\ jobs[k].state = "expired" => jobs[k].attempt_count = Budget(k)
    BY DEF IInv, JobRows
  <2>2. ASSUME jobs[k].state = "expired", NEW n \in 1 .. Budget(k)
        PROVE  attempts[<<k, n>>].state = "lost"
    <3>1. jobs[k].spec \in Specs
      BY <2>2 DEF IInv, JobRows
    <3>2. Budget(k) \in 1 .. AttemptLimit /\ AttemptLimit \in Nat
      BY <3>1, ControllerAssumption DEF Budget
    <3>3. n \in 1 .. AttemptLimit /\ n \in Nat
      BY <3>2
    <3>4. AttemptMatches(k, n)
      BY <3>3 DEF IInv, AttemptRows
    <3>5. LatestState(jobs[k].state) = "lost"
      BY <2>2 DEF LatestState, ActiveState
    <3>6. QED
      BY <2>1, <2>2, <3>2, <3>3, <3>4, <3>5 DEF AttemptMatches
  <2>3. QED
    BY <2>1, <2>2
<1>2. QED
  BY <1>1, InductiveInvariant, PTL

------------------------------------------------------------------------------
(***************************************************************************)
(* What the lab controller's steps never do and what its history shows, on *)
(* top of the invariant above: the action properties of LabController, its *)
(* refinement of JobLedger, and the story its event log tells (Story).     *)
(***************************************************************************)

\* What a heartbeat or a completion does to each row.
LEMMA HeldRows ==
  ASSUME IInv, NEW a \in AttemptIds, NEW w \in Workers, NEW fence \in 1 .. AttemptLimit,
         NEW now \in Stamp, NEW issued \in Stamp,
         NEW ok \in BOOLEAN, Heartbeat(a, w, fence, now, issued) \/ Complete(a, w, fence, ok, now)
  PROVE  /\ Active(a) /\ attempts[a].worker = w /\ LeaseLive(a, now)
         /\ attempts'[a].state \in {"running", "finished", "failed"}
         /\ attempts'[a].worker = w
         /\ \A b \in AttemptIds : b # a => attempts'[b] = attempts[b]
         /\ \A k \in Keys : k # a[1] => jobs'[k] = jobs[k]
         /\ jobs'[a[1]].attempt_count = jobs[a[1]].attempt_count
         /\ jobs'[a[1]].spec = jobs[a[1]].spec
         /\ jobs'[a[1]].created_at = jobs[a[1]].created_at
         /\ \/ jobs'[a[1]].state = "running"
            \/ jobs'[a[1]].state \in {"succeeded", "failed"} /\ ~Active(a)'
         /\ UNCHANGED clock
<1>1. Active(a) /\ attempts[a].worker = w /\ LeaseLive(a, now) /\ UNCHANGED clock
  BY DEF Heartbeat, Complete, ActiveAttempt
<1>2. /\ attempts[a] \in AttemptRow /\ attempts \in [AttemptIds -> AttemptRow]
      /\ jobs[a[1]] \in JobRow /\ jobs \in [Keys -> JobRow] /\ a[1] \in Keys
  BY AttemptIdParts DEF IInv, TypeOK
<1>3. CASE Heartbeat(a, w, fence, now, issued)
  <2>1. /\ attempts' = [attempts EXCEPT ![a].state = "running",
                                        ![a].lease_expires_at = After(issued, LeaseSeconds)]
        /\ jobs' = [jobs EXCEPT ![a[1]].state = "running"]
    BY <1>3 DEF Heartbeat
  <2>2. jobs'[a[1]] = [jobs[a[1]] EXCEPT !.state = "running"]
    BY <1>2, <2>1
  <2> QED
    BY <1>1, <1>2, <1>3, <2>1, <2>2 DEF AttemptRow, JobRow
<1>4. CASE ~Heartbeat(a, w, fence, now, issued)
  <2>1. Complete(a, w, fence, ok, now)
    BY <1>4
  <2>2. /\ attempts' = [attempts EXCEPT ![a].state = IF ok THEN "finished" ELSE "failed"]
        /\ jobs' = [jobs EXCEPT ![a[1]].state = IF ok THEN "succeeded" ELSE "failed"]
    BY <2>1 DEF Complete
  <2>3. jobs'[a[1]] = [jobs[a[1]] EXCEPT !.state = IF ok THEN "succeeded" ELSE "failed"]
    BY <1>2, <2>2
  <2> QED
    BY <1>1, <1>2, <1>4, <2>2, <2>3 DEF AttemptRow, JobRow, Active, ActiveState
<1> QED
  BY <1>3, <1>4

\* A clock reading a transaction may be working with.
Recent(t) == NotAfter(t, clock) /\ NotAfter(clock, After(t, MaxWait))

\* What a step may do to jobs and attempts.
StepKinds ==
  \/ UNCHANGED <<jobs, attempts, events>>
  \/ \E k \in Keys, s \in Specs, now \in Stamp : SubmitJob(k, s, now)
  \/ \E now \in Stamp : Recent(now) /\ ReapExpiredLeases(now)
  \/ \E w \in Workers, k \in Keys, now, issued \in Stamp :
       /\ workers[w] = "ready" /\ Recent(now) /\ k \in Selectable(now)
       /\ LeaseTo(w, k, now, issued)
  \/ \E a \in AttemptIds, w \in Workers, now, issued \in Stamp :
       \E fence \in 1 .. AttemptLimit, ok \in BOOLEAN :
         /\ Recent(now)
         /\ Heartbeat(a, w, fence, now, issued) \/ Complete(a, w, fence, ok, now)

LEMMA EveryStepHasAKind ==
  ASSUME IInv, [Next]_vars
  PROVE  StepKinds
<1>1. ASSUME NEW since, NEW now \in Readings(since)
      PROVE  now \in Stamp /\ Recent(now)
  BY <1>1, ReadingsAreStamps DEF Readings, Recent, IInv, TypeOK
<1>2. ASSUME Tick \/ Restart \/ (\E w \in Workers : RegisterWorker(w))
               \/ (\E c \in claims : ClaimNothing(c)) \/ UNCHANGED vars
      PROVE  UNCHANGED <<jobs, attempts, events>>
  BY <1>2 DEF Tick, Restart, RegisterWorker, ClaimNothing, tables, vars
<1>3. ASSUME NEW now \in Readings(Epoch), NEW w \in Workers, ReaperTurn(now) \/ BeginClaim(w, now)
      PROVE  StepKinds
  BY <1>1, <1>3 DEF ReaperTurn, BeginClaim, StepKinds
<1>4. ASSUME NEW c \in claims, NEW now \in Readings(c.since), NEW issued \in Readings(now),
             ClaimJob(c, now, issued)
      PROVE  StepKinds
  <2>1. c.worker \in Workers /\ now \in Stamp /\ Recent(now) /\ issued \in Stamp
    BY <1>1 DEF IInv, TypeOK
  <2>2. PICK k \in Keys : k \in Selectable(now) /\ LeaseTo(c.worker, k, now, issued)
    BY <1>4 DEF ClaimJob, Selectable
  <2> QED
    BY <1>4, <2>1, <2>2 DEF ClaimJob, StepKinds
<1>5. ASSUME NEW a \in AttemptIds, NEW w \in Workers, NEW fence \in 1 .. AttemptLimit, NEW ok \in BOOLEAN,
             NEW now \in Readings(known_at[a]), NEW issued \in Readings(now),
             Heartbeat(a, w, fence, now, issued)
      PROVE  StepKinds
  BY <1>1, <1>5 DEF StepKinds
<1>6. ASSUME NEW a \in AttemptIds, NEW w \in Workers, NEW fence \in 1 .. AttemptLimit, NEW ok \in BOOLEAN,
             NEW now \in Readings(known_at[a]), Complete(a, w, fence, ok, now)
      PROVE  StepKinds
  BY <1>1, <1>6 DEF StepKinds
<1>7. ASSUME NEW k \in Keys, NEW s \in Specs, NEW now \in Readings(Epoch), SubmitJob(k, s, now)
      PROVE  StepKinds
  BY <1>1, <1>7 DEF StepKinds
<1>8. CASE \E now \in Readings(Epoch) : ReaperTurn(now)
  <2>1. PICK now \in Readings(Epoch) : ReaperTurn(now)
    BY <1>8
  <2> QED
    BY <1>1, <2>1 DEF ReaperTurn, StepKinds
<1> QED
  BY <1>2, <1>3, <1>4, <1>5, <1>6, <1>7, <1>8 DEF Next, StepKinds

------------------------------------------------------------------------------
(***************************************************************************)
(* Late workers change nothing.                                            *)
(***************************************************************************)

\* docs/lab-controller-v0.1.md:421: no request, reaping or repeated submission changes
\* what has ended, takes a job's number back or gives out a fence token twice.
THEOREM LateWorkersChangeNothingHolds == Spec => LateWorkersChangeNothing
<1> DEFINE Over(a) == attempts[a].state \in {"finished", "failed", "lost"}
           Rows == \A a \in AttemptIds : Over(a) => attempts'[a] = attempts[a]
           Jobs == \A k \in Keys :
             /\ jobs[k].state \in {"succeeded", "failed", "expired"} => jobs'[k] = jobs[k]
             /\ jobs[k].state # "absent" =>
                  /\ jobs'[k].spec = jobs[k].spec
                  /\ jobs'[k].created_at = jobs[k].created_at
                  /\ jobs'[k].attempt_count >= jobs[k].attempt_count
           Fences == \A a, b \in AttemptIds :
             /\ a[1] = b[1]
             /\ attempts[a].state = "absent" /\ attempts'[a].state # "absent"
             /\ attempts[b].state # "absent"
             => attempts'[a].fence_token > attempts[b].fence_token
<1>1. ASSUME IInv, [Next]_vars PROVE Rows /\ Jobs /\ Fences
  <2>1. /\ \A a \in AttemptIds : Over(a) => ~Active(a) /\ attempts[a].state # "absent"
        /\ \A k \in Keys : jobs[k].attempt_count \in Nat
    BY <1>1 DEF Active, ActiveState, IInv, TypeOK, JobRow
  <2>2. CASE UNCHANGED <<jobs, attempts>>
    BY <2>1, <2>2
  <2>3. ASSUME NEW k \in Keys, NEW s \in Specs, NEW now \in Stamp, SubmitJob(k, s, now)
        PROVE  Rows /\ Jobs /\ Fences
    <3>1. attempts' = attempts /\ jobs[k].state = "absent"
          /\ \A j \in Keys : j # k => jobs'[j] = jobs[j]
      BY <1>1, <2>3 DEF SubmitJob, IInv, TypeOK
    <3> QED
      BY <2>1, <3>1
  <2>4. ASSUME NEW now \in Stamp, ReapExpiredLeases(now)
        PROVE  Rows /\ Jobs /\ Fences
    <3>1. Rows
      BY <1>1, <2>1, <2>4, ReapRows, StaleFacts
    <3>2. Jobs
      <4>1. \A a \in Stale(now) : jobs[a[1]].state \notin {"succeeded", "failed", "expired"}
        BY <1>1, StaleFacts DEF ActiveState
      <4> QED
        BY <1>1, <2>1, <2>4, <4>1, ReapRows, StaleFacts
    <3>3. Fences
      BY <1>1, <2>4, ReapRows, StaleFacts DEF Active, ActiveState
    <3> QED
      BY <3>1, <3>2, <3>3
  <2>5. ASSUME NEW w \in Workers, NEW k \in Keys, NEW now \in Stamp, NEW issued \in Stamp,
               jobs[k].state = "queued", LeaseTo(w, k, now, issued)
        PROVE  Rows /\ Jobs /\ Fences
    <3>1. PICK n \in Nat : n = jobs[k].attempt_count + 1
      BY <2>1
    <3>2. /\ <<k, n>> \in AttemptIds /\ attempts'[<<k, n>>].fence_token = n
          /\ \A a \in AttemptIds : a # <<k, n>> => attempts'[a] = attempts[a]
          /\ jobs'[k].attempt_count = n
          /\ jobs'[k].spec = jobs[k].spec /\ jobs'[k].created_at = jobs[k].created_at
          /\ \A j \in Keys : j # k => jobs'[j] = jobs[j]
          /\ n \in 1 .. AttemptLimit
      <4>1. jobs[k].attempt_count \in Nat
        BY <2>1
      <4>2. attempts'[<<k, n>>] = [state |-> "leased", worker |-> w, fence_token |-> n,
                                   lease_expires_at |-> After(issued, LeaseSeconds)]
        BY <1>1, <2>5, <3>1, <4>1, LeaseRows
      <4> QED
        BY <1>1, <2>5, <3>1, <4>1, <4>2, LeaseRows
    <3>3. attempts[<<k, n>>].state = "absent"
      BY <1>1, <2>1, <3>1, <3>2 DEF IInv, AttemptRows, AttemptMatches
    <3>4. ASSUME NEW b \in AttemptIds, b[1] = k, attempts[b].state # "absent"
          PROVE  n > attempts[b].fence_token
      <4>1. b = <<k, b[2]>> /\ b[2] \in 1 .. AttemptLimit /\ b[2] \in Nat
        BY <3>4, AttemptIdParts, ControllerAssumption
      <4>2. ~(b[2] > jobs[k].attempt_count) /\ AttemptMatches(k, b[2])
        BY <1>1, <3>4, <4>1 DEF IInv, AttemptRows, AttemptMatches
      <4>3. attempts[b].fence_token = b[2]
        BY <2>1, <4>1, <4>2 DEF AttemptMatches
      <4> QED
        BY <2>1, <3>1, <4>1, <4>2, <4>3
    <3>5. Rows
      BY <2>1, <3>2, <3>3
    <3>6. Jobs
      BY <2>1, <2>5, <3>1, <3>2
    <3>7. Fences
      <4> SUFFICES ASSUME NEW a \in AttemptIds, NEW b \in AttemptIds, a[1] = b[1],
                          attempts[a].state = "absent", attempts'[a].state # "absent",
                          attempts[b].state # "absent"
                   PROVE  attempts'[a].fence_token > attempts[b].fence_token
        OBVIOUS
      <4>1. a = <<k, n>>
        BY <3>2
      <4> QED
        BY <3>2, <3>4, <4>1
    <3> QED
      BY <3>5, <3>6, <3>7
  <2>6. ASSUME NEW a \in AttemptIds, NEW w \in Workers, NEW now \in Stamp, NEW issued \in Stamp,
               NEW fence \in 1 .. AttemptLimit, NEW ok \in BOOLEAN,
               Heartbeat(a, w, fence, now, issued) \/ Complete(a, w, fence, ok, now)
        PROVE  Rows /\ Jobs /\ Fences
    <3>1. /\ Active(a) /\ \A b \in AttemptIds : b # a => attempts'[b] = attempts[b]
          /\ \A k \in Keys : k # a[1] => jobs'[k] = jobs[k]
          /\ jobs'[a[1]].attempt_count = jobs[a[1]].attempt_count
          /\ jobs'[a[1]].spec = jobs[a[1]].spec
          /\ jobs'[a[1]].created_at = jobs[a[1]].created_at
      BY <1>1, <2>6, HeldRows
    <3>2. a[1] \in Keys /\ jobs[a[1]].state \in ActiveState
      BY <1>1, <3>1, ActiveAttemptFacts
    <3>4. Rows
      BY <2>1, <3>1
    <3>5. Jobs
      BY <2>1, <3>1, <3>2 DEF ActiveState
    <3>6. Fences
      BY <3>1 DEF Active, ActiveState
    <3> QED
      BY <3>4, <3>5, <3>6
  <2> QED
    BY <1>1, <2>2, <2>3, <2>4, <2>5, <2>6, EveryStepHasAKind DEF StepKinds, Selectable, Due
<1>2. IInv /\ [Next]_vars => [Rows /\ Jobs /\ Fences]_vars
  BY <1>1
<1> QED
  BY <1>2, InductiveInvariant, PTL DEF Spec, LateWorkersChangeNothing

------------------------------------------------------------------------------
(***************************************************************************)
(* Leases and readings of the clock.                                       *)
(***************************************************************************)

\* Less than a second before a recent reading is less than a second before now.
LEMMA EarlierThanRecent ==
  ASSUME clock \in Stamp, NEW t \in Stamp, NEW now \in Stamp, Recent(now), TextLess(t, now)
  PROVE  Earlier(t, After(clock, 1))
<1>1. Earlier(t, After(now, 1))
  BY TextOrderErrsByLessThanASecond
<1> QED
  BY <1>1 DEF Recent, NotAfter, Earlier, After, Stamp

\* A recent reading that sorts before t is less than a second and the wait after t.
LEMMA RecentBeforeEnd ==
  ASSUME clock \in Stamp, NEW t \in Stamp, NEW now \in Stamp, Recent(now), ~TextLeq(t, now)
  PROVE  Earlier(clock, After(t, 1 + MaxWait))
<1>1. TextLess(now, t)
  BY TextOrderIsTotal DEF TextLeq
<1>2. Earlier(now, After(t, 1))
  BY <1>1, TextOrderErrsByLessThanASecond
<1> QED
  BY <1>2, ControllerAssumption DEF Recent, NotAfter, Earlier, After, Stamp

\* What was a second and the wait ago sorts before every recent reading.
LEMMA LongAgoSortsBefore ==
  ASSUME clock \in Stamp, NEW t \in Stamp, NEW now \in Stamp, Recent(now),
         NotAfter(After(t, 1 + MaxWait), clock)
  PROVE  TextLess(t, now)
<1>1. NotAfter(After(t, 1), now)
  BY ControllerAssumption DEF Recent, NotAfter, Earlier, After, Stamp
<1> QED
  BY <1>1, ASecondEarlierSortsBefore

\* reap_expired_leases and the lease tests of heartbeat_attempt and complete_attempt
\* compare texts with a reading taken before the transaction: an attempt is lost less
\* than a second early, and kept alive less than a second and the wait too long.
THEOREM LeaseErrorIsBoundedHolds == Spec => LeaseErrorIsBounded
<1> DEFINE Bounded == \A a \in AttemptIds :
             /\ Lost(a) => Earlier(attempts[a].lease_expires_at, After(clock, 1))
             /\ Renewed(a) => Earlier(clock, After(attempts[a].lease_expires_at, 1 + MaxWait))
<1>1. ASSUME IInv, [Next]_vars, NEW a \in AttemptIds, Active(a)
      PROVE  /\ Lost(a) => Earlier(attempts[a].lease_expires_at, After(clock, 1))
             /\ Renewed(a) => Earlier(clock, After(attempts[a].lease_expires_at, 1 + MaxWait))
  <2>1. clock \in Stamp /\ attempts[a].lease_expires_at \in Stamp
    BY <1>1 DEF IInv, TypeOK, AttemptRow
  <2>2. CASE attempts'[a] = attempts[a]
    BY <1>1, <2>2 DEF Lost, Renewed, Active, ActiveState
  <2>3. ASSUME NEW now \in Stamp, Recent(now), ReapExpiredLeases(now)
        PROVE  /\ Lost(a) => Earlier(attempts[a].lease_expires_at, After(clock, 1))
               /\ Renewed(a) => Earlier(clock, After(attempts[a].lease_expires_at, 1 + MaxWait))
    <3>1. CASE a \notin Stale(now)
      BY <1>1, <2>2, <2>3, <3>1, ReapRows
    <3>2. CASE a \in Stale(now)
      <4>1. attempts'[a].state = "lost" /\ TextLess(attempts[a].lease_expires_at, now)
        BY <1>1, <2>3, <3>2, ReapRows DEF Stale
      <4> QED
        BY <2>1, <2>3, <4>1, EarlierThanRecent DEF Renewed
    <3> QED
      BY <3>1, <3>2
  <2>4. ASSUME NEW w \in Workers, NEW k \in Keys, NEW now \in Stamp, NEW issued \in Stamp,
               jobs[k].state = "queued", LeaseTo(w, k, now, issued)
        PROVE  attempts'[a] = attempts[a]
    <3>1. PICK n \in Nat : n = jobs[k].attempt_count + 1
      BY <1>1 DEF IInv, TypeOK, JobRow
    <3>2. /\ <<k, n>> \in AttemptIds /\ n \in 1 .. AttemptLimit
          /\ \A b \in AttemptIds : b # <<k, n>> => attempts'[b] = attempts[b]
      BY <1>1, <2>4, <3>1, LeaseRows
    <3>3. attempts[<<k, n>>].state = "absent"
      <4>1. n > jobs[k].attempt_count
        BY <1>1, <3>1 DEF IInv, TypeOK, JobRow
      <4> QED
        BY <1>1, <3>2, <4>1 DEF IInv, AttemptRows, AttemptMatches
    <3> QED
      BY <1>1, <3>2, <3>3 DEF Active, ActiveState
  <2>5. ASSUME NEW b \in AttemptIds, NEW w \in Workers, NEW now \in Stamp, NEW issued \in Stamp,
               NEW fence \in 1 .. AttemptLimit, NEW ok \in BOOLEAN, Recent(now),
               Heartbeat(b, w, fence, now, issued) \/ Complete(b, w, fence, ok, now)
        PROVE  /\ Lost(a) => Earlier(attempts[a].lease_expires_at, After(clock, 1))
               /\ Renewed(a) => Earlier(clock, After(attempts[a].lease_expires_at, 1 + MaxWait))
    <3>1. /\ LeaseLive(b, now) /\ attempts'[b].state # "lost"
          /\ a # b => attempts'[a] = attempts[a]
      BY <1>1, <2>5, HeldRows
    <3>2. CASE a = b
      BY <2>1, <2>5, <3>1, <3>2, RecentBeforeEnd DEF LeaseLive, Lost
    <3> QED
      BY <2>2, <3>1, <3>2
  <2>6. ASSUME NEW k \in Keys, NEW s \in Specs, NEW now \in Stamp, SubmitJob(k, s, now)
        PROVE  attempts'[a] = attempts[a]
    BY <2>6 DEF SubmitJob
  <2>7. CASE UNCHANGED <<jobs, attempts>>
    BY <2>2, <2>7
  <2> QED
    BY <1>1, <2>2, <2>3, <2>4, <2>5, <2>6, <2>7, EveryStepHasAKind DEF StepKinds, Selectable, Due
<1>2. IInv /\ [Next]_vars => [Bounded]_vars
  BY <1>1 DEF Lost, Renewed
<1> QED
  BY <1>2, InductiveInvariant, PTL DEF Spec, LeaseErrorIsBounded

\* claim_next_job, ORDER BY priority DESC, created_at ASC: a job that has been due for a
\* second and the wait is not passed over for one of less priority, or for one of the same
\* priority submitted a second later.
THEOREM ClaimsInOrderHolds == Spec => ClaimsInOrder
<1> DEFINE Waits(j) == /\ jobs[j].state = "queued" /\ jobs[j].spec \in AdapterSpecs
                       /\ NotAfter(After(jobs[j].next_run_at, 1 + MaxWait), clock)
           Taken(k) == jobs[k].state = "queued" /\ jobs'[k].state = "leased"
           Precedes(k, j) ==
             /\ Priority[jobs[j].spec] <= Priority[jobs[k].spec]
             /\ Priority[jobs[j].spec] = Priority[jobs[k].spec] =>
                  ~NotAfter(After(jobs[j].created_at, 1), jobs[k].created_at)
<1>1. ASSUME IInv, [Next]_vars, NEW j \in Keys, NEW k \in Keys, Taken(k), Waits(j)
      PROVE  Precedes(k, j)
  <2>1. /\ clock \in Stamp /\ jobs[j].next_run_at \in Stamp
        /\ jobs[j].created_at \in Stamp /\ jobs[k].created_at \in Stamp
        /\ jobs[j].spec \in Specs /\ jobs[k].spec \in Specs
    BY <1>1 DEF IInv, TypeOK, JobRow, JobRows
  <2>2. ~UNCHANGED <<jobs, attempts>>
    BY <1>1
  <2>3. ASSUME NEW l \in Keys, NEW s \in Specs, NEW now \in Stamp, SubmitJob(l, s, now)
        PROVE  FALSE
    BY <1>1, <2>3 DEF SubmitJob, IInv, TypeOK
  <2>4. ASSUME NEW now \in Stamp, ReapExpiredLeases(now)
        PROVE  FALSE
    <3>1. \A a \in Stale(now) : a[1] # k
      BY <1>1, StaleFacts DEF ActiveState
    <3> QED
      BY <1>1, <2>4, <3>1, ReapRows
  <2>5. ASSUME NEW a \in AttemptIds, NEW w \in Workers, NEW now \in Stamp, NEW issued \in Stamp,
               NEW fence \in 1 .. AttemptLimit, NEW ok \in BOOLEAN,
               Heartbeat(a, w, fence, now, issued) \/ Complete(a, w, fence, ok, now)
        PROVE  FALSE
    <3>1. /\ Active(a) /\ jobs'[a[1]].state # "leased"
          /\ \A l \in Keys : l # a[1] => jobs'[l] = jobs[l]
      BY <1>1, <2>5, HeldRows
    <3> QED
      BY <1>1, <3>1
  <2>6. PICK w \in Workers, l \in Keys, now \in Stamp, issued \in Stamp :
          Recent(now) /\ l \in Selectable(now) /\ LeaseTo(w, l, now, issued)
    BY <1>1, <2>2, <2>3, <2>4, <2>5, EveryStepHasAKind DEF StepKinds
  <2>7. l = k
    BY <1>1, <2>6 DEF LeaseTo, IInv, TypeOK
  <2>8. Due(j, now)
    BY <1>1, <2>1, <2>6, LongAgoSortsBefore DEF Due, TextLeq
  <2>9. ~SortsBefore(j, k)
    BY <2>6, <2>7, <2>8 DEF Selectable
  <2>10. Priority[jobs[j].spec] \in Nat /\ Priority[jobs[k].spec] \in Nat
    BY <2>1, ControllerAssumption
  <2> QED
    BY <2>1, <2>9, <2>10, ASecondEarlierSortsBefore DEF SortsBefore
<1>2. ASSUME IInv, [Next]_vars
      PROVE  [\A j, k \in Keys :
                ( /\ jobs[k].state = "queued" /\ jobs'[k].state = "leased"
                  /\ jobs[j].state = "queued" /\ jobs[j].spec \in AdapterSpecs
                  /\ j # k
                  /\ NotAfter(After(jobs[j].next_run_at, 1 + MaxWait), clock) )
                => /\ Priority[jobs[j].spec] <= Priority[jobs[k].spec]
                   /\ Priority[jobs[j].spec] = Priority[jobs[k].spec] =>
                        ~NotAfter(After(jobs[j].created_at, 1), jobs[k].created_at)]_vars
  BY <1>1, <1>2
<1> QED
  BY <1>2, InductiveInvariant, PTL DEF Spec, ClaimsInOrder

------------------------------------------------------------------------------
(***************************************************************************)
(* The refinement of module JobLedger.                                     *)
(***************************************************************************)

\* The holder of a job depends on its own rows only.
LEMMA SameHolder ==
  ASSUME IInv, NEW k \in Keys, jobs'[k].state = jobs[k].state,
         jobs'[k].attempt_count = jobs[k].attempt_count,
         jobs[k].state \in ActiveState =>
           attempts'[<<k, jobs[k].attempt_count>>].worker = attempts[<<k, jobs[k].attempt_count>>].worker
  PROVE  Holder(k)' = Holder(k)
BY DEF Holder

\* A worker that is not busy holds nothing.
LEMMA ReadyHoldsNothing ==
  ASSUME IInv, NEW w \in Workers, workers[w] # "busy"
  PROVE  \A k \in Keys : Holder(k) # w
<1> SUFFICES ASSUME NEW k \in Keys, Holder(k) = w PROVE FALSE
  OBVIOUS
<1>1. jobs[k].state \in ActiveState /\ attempts[<<k, jobs[k].attempt_count>>].worker = w
  BY ControllerAssumption DEF Holder
<1>2. <<k, jobs[k].attempt_count>> \in AttemptIds /\ Active(<<k, jobs[k].attempt_count>>)
  BY <1>1, HeldJobFacts
<1> QED
  BY <1>1, <1>2 DEF IInv, WorkerRows

LEMMA InitRefinesLedger == Init => Ledger!LedgerInit
BY DEF Init, Ledger!LedgerInit, NoJob, Holder, ActiveState

LEMMA SubmitRefines ==
  ASSUME IInv, NEW k \in Keys, NEW s \in Specs, NEW now \in Stamp, SubmitJob(k, s, now)
  PROVE  Ledger!Submit(k, s)
<1>1. /\ jobs[k].state = "absent" /\ attempts' = attempts
      /\ jobs' = [jobs EXCEPT ![k] = [NoJob EXCEPT !.state = "queued", !.spec = s,
                                        !.next_run_at = now, !.created_at = now]]
  BY DEF SubmitJob
<1>2. /\ jobs'[k].state = "queued" /\ jobs'[k].spec = s
      /\ jobs'[k].attempt_count = 0 /\ jobs[k].attempt_count = 0
      /\ \A j \in Keys : j # k => jobs'[j] = jobs[j]
  BY <1>1 DEF IInv, TypeOK, JobRows, NoJob
<1>3. \A j \in Keys : Holder(j)' = Holder(j)
  <2>1. Holder(k)' = None /\ Holder(k) = None
    BY <1>1, <1>2 DEF Holder, ActiveState
  <2> QED
    BY <1>1, <1>2, <2>1, SameHolder
<1>4. /\ [j \in Keys |-> jobs'[j].state] = [[j \in Keys |-> jobs[j].state] EXCEPT ![k] = "queued"]
      /\ [j \in Keys |-> jobs'[j].spec] = [[j \in Keys |-> jobs[j].spec] EXCEPT ![k] = s]
      /\ [j \in Keys |-> jobs'[j].attempt_count] = [j \in Keys |-> jobs[j].attempt_count]
      /\ [j \in Keys |-> Holder(j)'] = [j \in Keys |-> Holder(j)]
  BY <1>2, <1>3
<1> QED
  BY <1>1, <1>4 DEF Ledger!Submit

LEMMA ReapRefines ==
  ASSUME IInv, NEW now \in Stamp, ReapExpiredLeases(now)
  PROVE  \E lost \in SUBSET Keys : Ledger!Lose(lost)
<1>0. PICK lost \in SUBSET Keys : lost = {k \in Keys : \E a \in Stale(now) : a[1] = k}
  OBVIOUS
<1>1. ASSUME NEW k \in lost
      PROVE  /\ jobs[k].state \in ActiveState
             /\ jobs'[k].state = NextState(k)
             /\ jobs'[k].attempt_count = jobs[k].attempt_count
             /\ jobs'[k].spec = jobs[k].spec
             /\ Holder(k)' = None
  <2>1. PICK a \in Stale(now) : a[1] = k
    BY <1>0
  <2>2. jobs[k].state \in ActiveState /\ jobs'[k].state = NextState(k)
        /\ jobs'[k].attempt_count = jobs[k].attempt_count /\ jobs'[k].spec = jobs[k].spec
    BY <2>1, StaleFacts, ReapRows
  <2> QED
    BY <2>2 DEF NextState, Holder, ActiveState
<1>2. ASSUME NEW k \in Keys, k \notin lost
      PROVE  jobs'[k] = jobs[k] /\ Holder(k)' = Holder(k)
  <2>1. jobs'[k] = jobs[k]
    BY <1>0, <1>2, ReapRows
  <2>2. jobs[k].state \in ActiveState =>
          attempts'[<<k, jobs[k].attempt_count>>] = attempts[<<k, jobs[k].attempt_count>>]
    BY <1>0, <1>2, HeldJobFacts, ReapRows
  <2> QED
    BY <2>1, <2>2, SameHolder
<1>3. \A k \in Keys : jobs'[k].attempt_count = jobs[k].attempt_count /\ jobs'[k].spec = jobs[k].spec
  BY <1>1, <1>2
<1>4. /\ [k \in Keys |-> jobs'[k].state] =
           [k \in Keys |-> IF k \in lost THEN NextState(k) ELSE jobs[k].state]
      /\ [k \in Keys |-> Holder(k)'] = [k \in Keys |-> IF k \in lost THEN None ELSE Holder(k)]
      /\ [j \in Keys |-> jobs'[j].spec] = [j \in Keys |-> jobs[j].spec]
      /\ [j \in Keys |-> jobs'[j].attempt_count] = [j \in Keys |-> jobs[j].attempt_count]
  BY <1>1, <1>2, <1>3
<1>5. \A k \in lost : k \in Keys /\ jobs[k].state \in ActiveState
  BY <1>1
<1>6. Ledger!Lose(lost)
  BY <1>4, <1>5 DEF Ledger!Lose, Ledger!Held, Ledger!AfterLoss, NextState, Budget, ActiveState
<1> QED
  BY <1>6

LEMMA ClaimRefines ==
  ASSUME IInv, NEW w \in Workers, NEW k \in Keys, NEW now \in Stamp, NEW issued \in Stamp,
         workers[w] = "ready", k \in Selectable(now), LeaseTo(w, k, now, issued)
  PROVE  Ledger!Claim(w, k)
<1>1. jobs[k].state = "queued" /\ jobs[k].spec \in AdapterSpecs
  BY DEF Selectable, Due
<1>2. PICK n \in Nat : n = jobs[k].attempt_count + 1
  BY DEF IInv, TypeOK, JobRow
<1>3. /\ <<k, n>> \in AttemptIds
      /\ attempts'[<<k, n>>] = [state |-> "leased", worker |-> w, fence_token |-> n,
                                lease_expires_at |-> After(issued, LeaseSeconds)]
      /\ \A a \in AttemptIds : a # <<k, n>> => attempts'[a] = attempts[a]
      /\ jobs'[k].state = "leased" /\ jobs'[k].attempt_count = n
      /\ jobs'[k].spec = jobs[k].spec
      /\ \A j \in Keys : j # k => jobs'[j] = jobs[j]
  BY <1>1, <1>2, LeaseRows
<1>4. Holder(k)' = w
  BY <1>3 DEF Holder, ActiveState
<1>5. ASSUME NEW j \in Keys, j # k PROVE Holder(j)' = Holder(j)
  BY <1>3, <1>5, HeldJobFacts, SameHolder
<1>6. \A j \in Keys : Holder(j) # w
  BY ReadyHoldsNothing
<1> QED
  BY <1>1, <1>2, <1>3, <1>4, <1>5, <1>6 DEF Ledger!Claim, Ledger!HoldsNothing

LEMMA HeldRefines ==
  ASSUME IInv, NEW a \in AttemptIds, NEW w \in Workers, NEW fence \in 1 .. AttemptLimit,
         NEW now \in Stamp, NEW issued \in Stamp, NEW ok \in BOOLEAN,
         Heartbeat(a, w, fence, now, issued) \/ Complete(a, w, fence, ok, now)
  PROVE  Ledger!LedgerNext
<1>1. PICK k \in Keys : k = a[1]
  BY AttemptIdParts
<1>2. /\ Active(a) /\ attempts[a].worker = w /\ attempts'[a].worker = w
      /\ \A b \in AttemptIds : b # a => attempts'[b] = attempts[b]
      /\ \A j \in Keys : j # k => jobs'[j] = jobs[j]
      /\ jobs'[k].attempt_count = jobs[k].attempt_count
      /\ jobs'[k].spec = jobs[k].spec
      /\ jobs'[k].state \in {"running", "succeeded", "failed"}
  BY <1>1, HeldRows
<1>3. a = <<k, jobs[k].attempt_count>> /\ jobs[k].state \in ActiveState
  BY <1>1, <1>2, ActiveAttemptFacts
<1>4. Holder(k) = w
  BY <1>2, <1>3 DEF Holder
<1>5. ASSUME NEW j \in Keys, j # k PROVE Holder(j)' = Holder(j)
  <2>1. <<j, jobs[j].attempt_count>> # a
    BY <1>3, <1>5
  <2> QED
    BY <1>2, <1>5, <2>1, HeldJobFacts, SameHolder
<1>6. CASE jobs'[k].state = "running"
  <2>1. Holder(k)' = w
    BY <1>2, <1>3, <1>6 DEF Holder, ActiveState
  <2>2. /\ [j \in Keys |-> jobs'[j].state] = [[j \in Keys |-> jobs[j].state] EXCEPT ![k] = "running"]
        /\ [j \in Keys |-> jobs'[j].spec] = [j \in Keys |-> jobs[j].spec]
        /\ [j \in Keys |-> jobs'[j].attempt_count] = [j \in Keys |-> jobs[j].attempt_count]
        /\ [j \in Keys |-> Holder(j)'] = [j \in Keys |-> Holder(j)]
    BY <1>2, <1>4, <1>5, <1>6, <2>1
  <2>3. /\ [j \in Keys |-> jobs[j].state][k] \in Ledger!Held
        /\ [j \in Keys |-> Holder(j)][k] = w
    BY <1>3, <1>4 DEF Ledger!Held, ActiveState
  <2> QED
    BY <1>1, <2>2, <2>3 DEF Ledger!LedgerNext, Ledger!Start, Ledger!IsHolder
<1>7. CASE jobs'[k].state \in {"succeeded", "failed"}
  <2>1. Holder(k)' = None
    BY <1>7 DEF Holder, ActiveState
  <2>2. PICK o \in {"succeeded", "failed"} : o = jobs'[k].state
    BY <1>7
  <2>3. /\ [j \in Keys |-> jobs'[j].state] = [[j \in Keys |-> jobs[j].state] EXCEPT ![k] = o]
        /\ [j \in Keys |-> jobs'[j].spec] = [j \in Keys |-> jobs[j].spec]
        /\ [j \in Keys |-> jobs'[j].attempt_count] = [j \in Keys |-> jobs[j].attempt_count]
        /\ [j \in Keys |-> Holder(j)'] = [[j \in Keys |-> Holder(j)] EXCEPT ![k] = None]
    BY <1>2, <1>5, <2>1, <2>2
  <2>4. Ledger!Finish(w, k, [j \in Keys |-> jobs[j].attempt_count][k], o)
    BY <1>3, <1>4, <2>3 DEF Ledger!Finish, Ledger!IsHolder, Ledger!Held, ActiveState
  <2> QED
    BY <2>4 DEF Ledger!LedgerNext
<1> QED
  BY <1>2, <1>6, <1>7

LEMMA StepRefinesLedger ==
  ASSUME IInv, [Next]_vars
  PROVE  [Ledger!LedgerNext]_(Ledger!ledgerVars)
<1>1. CASE UNCHANGED <<jobs, attempts>>
  BY <1>1 DEF Ledger!ledgerVars, Holder
<1>2. ASSUME NEW k \in Keys, NEW s \in Specs, NEW now \in Stamp, SubmitJob(k, s, now)
      PROVE  Ledger!LedgerNext
  BY <1>2, SubmitRefines DEF Ledger!LedgerNext
<1>3. ASSUME NEW now \in Stamp, ReapExpiredLeases(now)
      PROVE  Ledger!LedgerNext
  BY <1>3, ReapRefines DEF Ledger!LedgerNext
<1>4. ASSUME NEW w \in Workers, NEW k \in Keys, NEW now \in Stamp, NEW issued \in Stamp,
             workers[w] = "ready", k \in Selectable(now), LeaseTo(w, k, now, issued)
      PROVE  Ledger!LedgerNext
  BY <1>4, ClaimRefines DEF Ledger!LedgerNext
<1>5. ASSUME NEW a \in AttemptIds, NEW w \in Workers, NEW fence \in 1 .. AttemptLimit,
             NEW now \in Stamp, NEW issued \in Stamp, NEW ok \in BOOLEAN,
             Heartbeat(a, w, fence, now, issued) \/ Complete(a, w, fence, ok, now)
      PROVE  Ledger!LedgerNext
  BY <1>5, HeldRefines
<1> QED
  BY <1>1, <1>2, <1>3, <1>4, <1>5, EveryStepHasAKind DEF StepKinds

\* The controller's four tables implement the ledger its workers rely on: any number of
\* requests, late, repeated or cut off, and any reaping show as its steps, or not at all.
THEOREM ImplementsLedgerHolds == Spec => ImplementsLedger
<1>1. Init => Ledger!LedgerInit
  BY InitRefinesLedger
<1>2. IInv /\ [Next]_vars => [Ledger!LedgerNext]_(Ledger!ledgerVars)
  BY StepRefinesLedger
<1> QED
  BY <1>1, <1>2, InductiveInvariant, PTL DEF Spec, ImplementsLedger, Ledger!LedgerSpec

------------------------------------------------------------------------------
(***************************************************************************)
(* The event log.                                                          *)
(***************************************************************************)

EndTypes == {"attempt_succeeded", "attempt_failed", "attempt_lost"}

\* What the log holds of the attempt numbered n.
AttemptStory(k, n) ==
  LET Leases == Places(k, {"attempt_leased"}, n)
      Starts == Places(k, {"attempt_started"}, n)
      Stops == Places(k, EndTypes, n)
  IN
  /\ \E l \in 1 .. Len(events[k]) : Leases = {l}
  /\ Starts = {} \/ \E s \in 1 .. Len(events[k]) : Starts = {s}
  /\ Active(<<k, n>>) => Stops = {}
  /\ ~Active(<<k, n>>) => \E e \in 1 .. Len(events[k]) : Stops = {e}
  /\ attempts[<<k, n>>].state = "running" => Starts # {}
  /\ attempts[<<k, n>>].state = "leased" => Starts = {}
  /\ \A l \in Leases, s \in Starts : l < s
  /\ \A i \in Leases \union Starts, e \in Stops : i < e

\* How many events the current attempt may still be owed.
Owed(state) == IF state = "leased" THEN 2 ELSE IF state = "running" THEN 1 ELSE 0

JobStory(k) ==
  /\ jobs[k].state = "absent" => events[k] = <<>>
  /\ jobs[k].state # "absent" =>
       /\ Places(k, {"job_submitted"}, 0) = {1}
       /\ \A i \in 1 .. Len(events[k]) : events[k][i].attempt <= jobs[k].attempt_count
       /\ \A i, j \in 1 .. Len(events[k]) : i < j => events[k][i].attempt <= events[k][j].attempt
       /\ \A n \in 1 .. jobs[k].attempt_count : AttemptStory(k, n)
       /\ Len(events[k]) + Owed(jobs[k].state) <= 1 + 3 * jobs[k].attempt_count

Story == \A k \in Keys : JobStory(k)

LEMMA Appended ==
  ASSUME IInv, NEW k \in Keys, NEW e \in Event, events'[k] = Append(events[k], e)
  PROVE  /\ Len(events[k]) \in Nat
         /\ Len(events'[k]) = Len(events[k]) + 1
         /\ \A i \in 1 .. Len(events[k]) : events'[k][i] = events[k][i]
         /\ events'[k][Len(events[k]) + 1] = e
         /\ \A i \in 1 .. Len(events[k]) : events[k][i] \in Event
<1>1. events[k] \in Seq(Event)
  BY DEF IInv, TypeOK
<1> QED
  BY <1>1

LEMMA PlacesAppended ==
  ASSUME IInv, NEW k \in Keys, NEW e \in Event, events'[k] = Append(events[k], e),
         NEW types, NEW n \in Nat
  PROVE  /\ e.type \in types /\ e.attempt = n =>
              Places(k, types, n)' = Places(k, types, n) \union {Len(events[k]) + 1}
         /\ ~(e.type \in types /\ e.attempt = n) => Places(k, types, n)' = Places(k, types, n)
         /\ Places(k, types, n) \subseteq 1 .. Len(events[k])
<1> DEFINE len == Len(events[k])
<1>1. /\ len \in Nat /\ Len(events'[k]) = len + 1
      /\ \A i \in 1 .. len : events'[k][i] = events[k][i]
      /\ events'[k][len + 1] = e
  BY Appended
<1>2. 1 .. (len + 1) = (1 .. len) \union {len + 1} /\ len + 1 \notin 1 .. len
  BY <1>1
<1> HIDE DEF len
<1>3. Places(k, types, n) = {i \in 1 .. len : events[k][i].type \in types /\ events[k][i].attempt = n}
  BY DEF Places, len
<1>4. Places(k, types, n)' =
        {i \in 1 .. (len + 1) : events'[k][i].type \in types /\ events'[k][i].attempt = n}
  BY <1>1 DEF Places
<1> QED
  BY <1>1, <1>2, <1>3, <1>4 DEF len

\* A job whose row, log and attempts keep their states keeps its story.
LEMMA SameStory ==
  ASSUME IInv, NEW k \in Keys, JobStory(k),
         jobs'[k].state = jobs[k].state, jobs'[k].attempt_count = jobs[k].attempt_count,
         \A n \in 1 .. jobs[k].attempt_count :
           attempts'[<<k, n>>].state = attempts[<<k, n>>].state,
         events'[k] = events[k]
  PROVE  JobStory(k)'
<1>1. \A types : \A n : Places(k, types, n)' = Places(k, types, n)
  BY DEF Places
<1>2. \A n \in 1 .. jobs[k].attempt_count : AttemptStory(k, n) => AttemptStory(k, n)'
  BY <1>1 DEF AttemptStory, Active
<1> QED
  BY <1>1, <1>2 DEF JobStory

\* An event of the current attempt leaves all but that attempt's story to prove.
LEMMA LongerStory ==
  ASSUME IInv, NEW k \in Keys, JobStory(k), jobs[k].state # "absent", jobs'[k].state # "absent",
         NEW n \in Nat, jobs'[k].attempt_count = n, n >= 1,
         n = jobs[k].attempt_count \/ n = jobs[k].attempt_count + 1,
         \A m \in 1 .. (n - 1) : attempts'[<<k, m>>].state = attempts[<<k, m>>].state,
         NEW type \in EventType \ {"job_submitted"},
         events'[k] = Append(events[k], [type |-> type, attempt |-> n]),
         AttemptStory(k, n)',
         Owed(jobs'[k].state) + 3 * jobs[k].attempt_count < Owed(jobs[k].state) + 3 * n
  PROVE  JobStory(k)'
<1> DEFINE e == [type |-> type, attempt |-> n]
<1>1. e \in Event /\ e.type = type /\ e.attempt = n
  BY DEF Event
<1> HIDE DEF e
<1>2. /\ Len(events[k]) \in Nat
      /\ Len(events'[k]) = Len(events[k]) + 1
      /\ \A i \in 1 .. Len(events[k]) : events'[k][i] = events[k][i]
      /\ events'[k][Len(events[k]) + 1] = e
      /\ \A i \in 1 .. Len(events[k]) : events[k][i] \in Event
  BY <1>1, Appended DEF e
<1>3. jobs[k].attempt_count \in Nat /\ \A i \in 1 .. Len(events[k]) : events[k][i].attempt \in Nat
  BY <1>2 DEF Event, IInv, TypeOK, JobRow
<1>4. Places(k, {"job_submitted"}, 0)' = {1}
  BY <1>1, PlacesAppended DEF JobStory, e
<1>5. ASSUME NEW i \in 1 .. Len(events'[k]) PROVE events'[k][i].attempt <= n
  <2>1. i \in 1 .. Len(events[k]) \/ i = Len(events[k]) + 1
    BY <1>2
  <2>2. \A m \in Nat : m <= jobs[k].attempt_count => m <= n
    BY <1>3
  <2>3. CASE i \in 1 .. Len(events[k])
    <3>1. events[k][i].attempt <= jobs[k].attempt_count
      BY <2>3 DEF JobStory
    <3> QED
      BY <1>2, <1>3, <2>2, <2>3, <3>1
  <2>4. CASE i = Len(events[k]) + 1
    BY <1>1, <1>2, <2>4
  <2> QED
    BY <2>1, <2>3, <2>4
<1>6. \A i, j \in 1 .. Len(events'[k]) : i < j => events'[k][i].attempt <= events'[k][j].attempt
  <2> SUFFICES ASSUME NEW i \in 1 .. Len(events'[k]), NEW j \in 1 .. Len(events'[k]), i < j
               PROVE  events'[k][i].attempt <= events'[k][j].attempt
    OBVIOUS
  <2>1. i \in 1 .. Len(events[k]) /\ (j \in 1 .. Len(events[k]) \/ j = Len(events[k]) + 1)
    BY <1>2
  <2>2. CASE j \in 1 .. Len(events[k])
    BY <1>2, <2>1, <2>2 DEF JobStory
  <2>3. CASE j = Len(events[k]) + 1
    BY <1>1, <1>2, <1>5, <2>3
  <2> QED
    BY <2>1, <2>2, <2>3
<1>7. ASSUME NEW m \in 1 .. (n - 1)
      PROVE  AttemptStory(k, m)'
  <2>1. AttemptStory(k, m) /\ m \in Nat /\ m # n
    BY <1>3 DEF JobStory
  <2>2. \A types : Places(k, types, m)' = Places(k, types, m)
    BY <1>1, <2>1, PlacesAppended DEF e
  <2>3. \A i \in 1 .. Len(events[k]) : i \in 1 .. Len(events'[k])
    BY <1>2
  <2> QED
    BY <2>1, <2>2, <2>3 DEF AttemptStory, Active
<1>8. \A m \in 1 .. n : AttemptStory(k, m)'
  BY <1>7
<1>9. Len(events'[k]) + Owed(jobs'[k].state) <= 1 + 3 * n
  <2>1. Len(events[k]) + Owed(jobs[k].state) <= 1 + 3 * jobs[k].attempt_count
    BY DEF JobStory
  <2>2. Owed(jobs[k].state) \in Nat /\ Owed(jobs'[k].state) \in Nat
    BY DEF Owed
  <2>3. ASSUME NEW len \in Nat, NEW c \in Nat, NEW before \in Nat, NEW after \in Nat,
               len + before <= 1 + 3 * c, after + 3 * c < before + 3 * n
        PROVE  len + 1 + after <= 1 + 3 * n
    BY <2>3
  <2> QED
    BY <1>2, <1>3, <2>1, <2>2, <2>3
<1> QED
  BY <1>4, <1>5, <1>6, <1>8, <1>9 DEF JobStory

\* The log of a job that is submitted begins.
LEMMA FirstStory ==
  ASSUME IInv, NEW k \in Keys, JobStory(k), jobs[k].state = "absent",
         jobs'[k].state = "queued", jobs'[k].attempt_count = 0,
         events'[k] = Append(events[k], [type |-> "job_submitted", attempt |-> 0])
  PROVE  JobStory(k)'
<1> DEFINE e == [type |-> "job_submitted", attempt |-> 0]
<1>1. e \in Event /\ e.type = "job_submitted" /\ e.attempt = 0
  BY DEF Event, EventType
<1> HIDE DEF e
<1>2. events[k] = <<>> /\ Len(events[k]) = 0
  BY DEF JobStory
<1>3. Len(events'[k]) = 1 /\ events'[k][1] = e
  BY <1>1, <1>2, Appended DEF e
<1>4. Places(k, {"job_submitted"}, 0)' = {1}
  <2>1. Places(k, {"job_submitted"}, 0) = {}
    BY <1>2 DEF Places
  <2>2. Places(k, {"job_submitted"}, 0)' = Places(k, {"job_submitted"}, 0) \union {Len(events[k]) + 1}
    BY <1>1, PlacesAppended DEF e
  <2> QED
    BY <1>2, <2>1, <2>2
<1>5. /\ \A i \in 1 .. Len(events'[k]) : i = 1 /\ events'[k][i].attempt = 0
      /\ \A n \in 1 .. 0 : FALSE
  BY <1>1, <1>3
<1> QED
  BY <1>3, <1>4, <1>5 DEF JobStory, Owed

\* A lease is the first event of its attempt.
LEMMA LeasedStory ==
  ASSUME IInv, NEW k \in Keys, JobStory(k), jobs[k].state = "queued", jobs'[k].state = "leased",
         NEW n \in Nat, n = jobs[k].attempt_count + 1, jobs'[k].attempt_count = n,
         \A m \in 1 .. (n - 1) : attempts'[<<k, m>>].state = attempts[<<k, m>>].state,
         attempts'[<<k, n>>].state = "leased",
         events'[k] = Append(events[k], [type |-> "attempt_leased", attempt |-> n])
  PROVE  JobStory(k)'
<1> DEFINE e == [type |-> "attempt_leased", attempt |-> n]
<1>1. e \in Event /\ e.type = "attempt_leased" /\ e.attempt = n
  BY DEF Event, EventType
<1> HIDE DEF e
<1>2. jobs[k].attempt_count \in Nat /\ n >= 1
  BY DEF IInv, TypeOK, JobRow
<1>3. /\ Len(events[k]) \in Nat /\ Len(events'[k]) = Len(events[k]) + 1
      /\ \A i \in 1 .. Len(events[k]) : events[k][i].attempt \in Nat
  BY <1>1, Appended DEF e, Event
<1>4. ASSUME NEW types PROVE Places(k, types, n) = {}
  BY <1>2, <1>3 DEF JobStory, Places
<1>5. /\ Places(k, {"attempt_leased"}, n)' = {Len(events[k]) + 1}
      /\ Places(k, {"attempt_started"}, n)' = {}
      /\ Places(k, EndTypes, n)' = {}
  BY <1>1, <1>4, PlacesAppended DEF e, EndTypes
<1>6. AttemptStory(k, n)'
  BY <1>3, <1>5 DEF AttemptStory, Active, ActiveState
<1>7. Owed("leased") + 3 * jobs[k].attempt_count < Owed("queued") + 3 * n
  BY <1>2 DEF Owed
<1> QED
  BY <1>2, <1>6, <1>7, LongerStory DEF EventType

\* What the log holds of the current attempt of a held job.
LEMMA CurrentStory ==
  ASSUME IInv, NEW k \in Keys, JobStory(k), NEW n \in Nat, n = jobs[k].attempt_count,
         jobs[k].state \in ActiveState
  PROVE  /\ n >= 1 /\ AttemptStory(k, n) /\ Active(<<k, n>>)
         /\ attempts[<<k, n>>].state = jobs[k].state
<1>1. n \in 1 .. AttemptLimit /\ Active(<<k, n>>) /\ <<k, n>> \in AttemptIds
  BY HeldJobFacts
<1>2. attempts[<<k, n>>].state = jobs[k].state
  BY <1>1, ActiveAttemptFacts
<1>3. n >= 1 /\ n \in 1 .. n
  BY <1>1
<1> QED
  BY <1>1, <1>2, <1>3 DEF JobStory, ActiveState

\* The first heartbeat of a lease starts its attempt.
LEMMA StartedStory ==
  ASSUME IInv, NEW k \in Keys, JobStory(k), jobs[k].state = "leased", jobs'[k].state = "running",
         NEW n \in Nat, n = jobs[k].attempt_count, jobs'[k].attempt_count = n,
         \A m \in 1 .. (n - 1) : attempts'[<<k, m>>].state = attempts[<<k, m>>].state,
         attempts'[<<k, n>>].state = "running",
         events'[k] = Append(events[k], [type |-> "attempt_started", attempt |-> n])
  PROVE  JobStory(k)'
<1> DEFINE e == [type |-> "attempt_started", attempt |-> n]
<1>1. e \in Event /\ e.type = "attempt_started" /\ e.attempt = n
  BY DEF Event, EventType
<1> HIDE DEF e
<1>2. Len(events[k]) \in Nat /\ Len(events'[k]) = Len(events[k]) + 1
  BY <1>1, Appended DEF e
<1>3. n >= 1 /\ AttemptStory(k, n) /\ Active(<<k, n>>) /\ attempts[<<k, n>>].state = "leased"
  BY CurrentStory DEF ActiveState
<1>4. /\ \E l \in 1 .. Len(events[k]) : Places(k, {"attempt_leased"}, n) = {l}
      /\ Places(k, {"attempt_started"}, n) = {} /\ Places(k, EndTypes, n) = {}
  BY <1>3 DEF AttemptStory
<1>5. /\ Places(k, {"attempt_leased"}, n)' = Places(k, {"attempt_leased"}, n)
      /\ Places(k, {"attempt_started"}, n)' = {Len(events[k]) + 1}
      /\ Places(k, EndTypes, n)' = {}
  <2>1. e.type \in {"attempt_started"} /\ e.type \notin {"attempt_leased"} /\ e.type \notin EndTypes
    BY <1>1 DEF EndTypes
  <2> QED
    BY <1>1, <1>4, <2>1, PlacesAppended DEF e
<1>6. AttemptStory(k, n)'
  <2>1. PICK l \in 1 .. Len(events[k]) : Places(k, {"attempt_leased"}, n)' = {l}
    BY <1>4, <1>5
  <2>2. l \in 1 .. Len(events'[k]) /\ l < Len(events[k]) + 1
        /\ Len(events[k]) + 1 \in 1 .. Len(events'[k])
    BY <1>2
  <2> QED
    BY <1>5, <2>1, <2>2 DEF AttemptStory, Active, ActiveState
<1>7. Owed("running") + 3 * jobs[k].attempt_count < Owed("leased") + 3 * n
  BY DEF Owed
<1> QED
  BY <1>3, <1>6, <1>7, LongerStory DEF EventType

\* A completion or a loss ends the attempt, once.
LEMMA EndedStory ==
  ASSUME IInv, NEW k \in Keys, JobStory(k), jobs[k].state \in ActiveState,
         jobs'[k].state \in {"queued", "expired", "succeeded", "failed"},
         NEW n \in Nat, n = jobs[k].attempt_count, jobs'[k].attempt_count = n,
         \A m \in 1 .. (n - 1) : attempts'[<<k, m>>].state = attempts[<<k, m>>].state,
         attempts'[<<k, n>>].state \in {"finished", "failed", "lost"}, NEW type \in EndTypes,
         events'[k] = Append(events[k], [type |-> type, attempt |-> n])
  PROVE  JobStory(k)'
<1> DEFINE e == [type |-> type, attempt |-> n]
<1>1. /\ e \in Event /\ e.type = type /\ e.attempt = n
      /\ type \in EventType \ {"job_submitted", "attempt_leased", "attempt_started"}
  BY DEF Event, EventType, EndTypes
<1> HIDE DEF e
<1>2. Len(events[k]) \in Nat /\ Len(events'[k]) = Len(events[k]) + 1
  BY <1>1, Appended DEF e
<1>3. n >= 1 /\ AttemptStory(k, n) /\ Active(<<k, n>>)
  BY CurrentStory
<1>4. /\ \E l \in 1 .. Len(events[k]) : Places(k, {"attempt_leased"}, n) = {l}
      /\ \/ Places(k, {"attempt_started"}, n) = {}
         \/ \E s \in 1 .. Len(events[k]) : Places(k, {"attempt_started"}, n) = {s}
      /\ Places(k, EndTypes, n) = {}
      /\ \A l \in Places(k, {"attempt_leased"}, n), s \in Places(k, {"attempt_started"}, n) : l < s
      /\ \A i \in Places(k, {"attempt_leased"}, n) \union Places(k, {"attempt_started"}, n) :
           i \in 1 .. Len(events[k])
  BY <1>3 DEF AttemptStory, Places
<1>5. /\ Places(k, {"attempt_leased"}, n)' = Places(k, {"attempt_leased"}, n)
      /\ Places(k, {"attempt_started"}, n)' = Places(k, {"attempt_started"}, n)
      /\ Places(k, EndTypes, n)' = {Len(events[k]) + 1}
  BY <1>1, <1>4, PlacesAppended DEF e
<1>6. AttemptStory(k, n)'
  <2>1. /\ \A i \in 1 .. Len(events[k]) : i \in 1 .. Len(events'[k]) /\ i < Len(events[k]) + 1
        /\ Len(events[k]) + 1 \in 1 .. Len(events'[k])
    BY <1>2
  <2> QED
    BY <1>4, <1>5, <2>1 DEF AttemptStory, Active, ActiveState
<1>7. jobs[k].state # "absent" /\ jobs'[k].state # "absent"
  BY DEF ActiveState
<1>8. Owed(jobs'[k].state) = 0 /\ Owed(jobs[k].state) \in {1, 2}
  BY DEF Owed, ActiveState
<1>9. Owed(jobs'[k].state) + 3 * jobs[k].attempt_count < Owed(jobs[k].state) + 3 * n
  BY <1>8
<1> QED
  BY <1>1, <1>3, <1>6, <1>7, <1>9, LongerStory

LEMMA StoryKept ==
  ASSUME IInv, Story, [Next]_vars
  PROVE  Story'
<1> SUFFICES ASSUME NEW k \in Keys PROVE JobStory(k)'
  BY DEF Story
<1>1. JobStory(k)
  BY DEF Story
<1>2. PICK n \in Nat : n = jobs[k].attempt_count
  BY DEF IInv, TypeOK, JobRow
<1>3. \A m \in 1 .. n : <<k, m>> \in AttemptIds
  <2>1. n <= AttemptLimit /\ AttemptLimit \in Nat
    BY <1>2, ControllerAssumption DEF IInv, JobRows, Budget
  <2> QED
    BY <2>1 DEF AttemptIds
<1>4. events \in [Keys -> Seq(Event)]
  BY DEF IInv, TypeOK
<1>5. CASE UNCHANGED <<jobs, attempts, events>>
  BY <1>1, <1>5, SameStory
<1>6. ASSUME NEW j \in Keys, NEW s \in Specs, NEW now \in Stamp, SubmitJob(j, s, now)
      PROVE  JobStory(k)'
  <2>1. CASE j = k
    <3>1. /\ jobs[k].state = "absent" /\ jobs'[k].state = "queued" /\ jobs'[k].attempt_count = 0
          /\ events'[k] = Append(events[k], [type |-> "job_submitted", attempt |-> 0])
      BY <1>4, <1>6, <2>1 DEF SubmitJob, NoJob, Logged, IInv, TypeOK
    <3> QED
      BY <1>1, <3>1, FirstStory
  <2>2. CASE j # k
    <3>1. jobs'[k] = jobs[k] /\ events'[k] = events[k] /\ attempts' = attempts
      BY <1>4, <1>6, <2>2 DEF SubmitJob, IInv, TypeOK
    <3> QED
      BY <1>1, <3>1, SameStory
  <2> QED
    BY <2>1, <2>2
<1>7. ASSUME NEW now \in Stamp, ReapExpiredLeases(now)
      PROVE  JobStory(k)'
  <2>1. CASE \E a \in Stale(now) : a[1] = k
    <3>1. /\ LostNumber(k, Stale(now)) = n /\ <<k, n>> \in Stale(now)
          /\ jobs[k].state \in ActiveState
      BY <1>2, <2>1, LostNumberFacts, StaleFacts
    <3>2. events'[k] = Append(events[k], [type |-> "attempt_lost", attempt |-> n])
      BY <1>7, <2>1, <3>1 DEF ReapExpiredLeases, Logged
    <3>3. jobs'[k].state \in {"queued", "expired"} /\ jobs'[k].attempt_count = n
      BY <1>2, <1>7, <2>1, ReapRows DEF NextState
    <3>4. attempts'[<<k, n>>].state = "lost"
      BY <1>7, <3>1, ReapRows
    <3>5. ASSUME NEW m \in 1 .. (n - 1)
          PROVE  attempts'[<<k, m>>].state = attempts[<<k, m>>].state
      <4>1. <<k, m>> \in AttemptIds /\ m # n
        BY <1>3
      <4>2. <<k, m>> \notin Stale(now)
        BY <1>2, <4>1, StaleFacts
      <4> QED
        BY <1>7, <4>1, <4>2, ReapRows
    <3> QED
      BY <1>1, <1>2, <3>1, <3>2, <3>3, <3>4, <3>5, EndedStory DEF EndTypes
  <2>2. CASE \A a \in Stale(now) : a[1] # k
    <3>1. jobs'[k] = jobs[k] /\ events'[k] = events[k]
      BY <1>7, <2>2, ReapRows DEF ReapExpiredLeases
    <3>2. \A m \in 1 .. n : attempts'[<<k, m>>] = attempts[<<k, m>>]
      BY <1>3, <1>7, <2>2, ReapRows
    <3> QED
      BY <1>1, <1>2, <3>1, <3>2, SameStory
  <2> QED
    BY <2>1, <2>2
<1>8. ASSUME NEW w \in Workers, NEW j \in Keys, NEW now \in Stamp, NEW issued \in Stamp,
             jobs[j].state = "queued", LeaseTo(w, j, now, issued)
      PROVE  JobStory(k)'
  <2>1. PICK next \in Nat : next = jobs[j].attempt_count + 1
    BY DEF IInv, TypeOK, JobRow
  <2>2. attempts'[<<j, next>>] = [state |-> "leased", worker |-> w, fence_token |-> next,
                                  lease_expires_at |-> After(issued, LeaseSeconds)]
    BY <1>8, <2>1, LeaseRows
  <2>3. /\ <<j, next>> \in AttemptIds /\ attempts'[<<j, next>>].state = "leased"
        /\ \A a \in AttemptIds : a # <<j, next>> => attempts'[a] = attempts[a]
        /\ jobs'[j].state = "leased" /\ jobs'[j].attempt_count = next
        /\ \A i \in Keys : i # j => jobs'[i] = jobs[i]
    BY <1>8, <2>1, <2>2, LeaseRows
  <2>4. /\ events'[j] = Append(events[j], [type |-> "attempt_leased", attempt |-> next])
        /\ \A i \in Keys : i # j => events'[i] = events[i]
    BY <1>4, <1>8, <2>1 DEF LeaseTo, Logged
  <2>5. CASE j = k
    <3>1. next = n + 1 /\ \A m \in 1 .. (next - 1) : m \in 1 .. n /\ m # next
      BY <1>2, <2>1, <2>5
    <3>2. \A m \in 1 .. (next - 1) : attempts'[<<k, m>>].state = attempts[<<k, m>>].state
      BY <1>3, <2>3, <3>1
    <3> QED
      BY <1>1, <1>2, <1>8, <2>3, <2>4, <2>5, <3>1, <3>2, LeasedStory
  <2>6. CASE j # k
    BY <1>1, <1>2, <1>3, <2>3, <2>4, <2>6, SameStory
  <2> QED
    BY <2>5, <2>6
<1>9. ASSUME NEW a \in AttemptIds, NEW w \in Workers, NEW now \in Stamp, NEW issued \in Stamp,
             NEW fence \in 1 .. AttemptLimit, NEW ok \in BOOLEAN,
             Heartbeat(a, w, fence, now, issued) \/ Complete(a, w, fence, ok, now)
      PROVE  JobStory(k)'
  <2>1. PICK j \in Keys, m \in 1 .. AttemptLimit : a = <<j, m>>
    BY AttemptIdParts
  <2>2. /\ Active(a) /\ a[1] = j /\ a[2] = m
        /\ \A b \in AttemptIds : b # a => attempts'[b] = attempts[b]
        /\ \A i \in Keys : i # j => jobs'[i] = jobs[i]
        /\ jobs'[j].attempt_count = jobs[j].attempt_count
    BY <1>9, <2>1, HeldRows
  <2>3. m = jobs[j].attempt_count /\ jobs[j].state \in ActiveState
        /\ jobs[j].state = attempts[a].state
    BY <2>2, ActiveAttemptFacts
  <2>4. jobs[j] \in JobRow /\ attempts[a] \in AttemptRow
        /\ jobs \in [Keys -> JobRow] /\ attempts \in [AttemptIds -> AttemptRow]
    BY DEF IInv, TypeOK
  <2>5. CASE j # k
    <3>1. events'[k] = events[k]
      BY <1>4, <1>9, <2>2, <2>5 DEF Heartbeat, Complete
    <3> QED
      BY <1>1, <1>2, <1>3, <2>1, <2>2, <2>5, <3>1, SameStory
  <2>6. CASE j = k /\ Heartbeat(a, w, fence, now, issued)
    <3>1. jobs'[k].state = "running" /\ attempts'[a].state = "running"
          /\ events'[k] = StartedEvent(a)
      BY <1>4, <2>2, <2>4, <2>6 DEF Heartbeat, JobRow, AttemptRow
    <3>2. /\ a = <<k, n>>
          /\ \A i \in 1 .. n : i # n => attempts'[<<k, i>>] = attempts[<<k, i>>]
          /\ \A i \in 1 .. (n - 1) : attempts'[<<k, i>>].state = attempts[<<k, i>>].state
      BY <1>2, <1>3, <2>1, <2>2, <2>3, <2>6
    <3>3. CASE jobs[k].state = "leased"
      <4>1. events'[k] = Append(events[k], [type |-> "attempt_started", attempt |-> n])
        BY <1>2, <2>2, <2>3, <2>6, <3>1, <3>3 DEF StartedEvent, Logged
      <4> QED
        BY <1>1, <1>2, <2>2, <2>6, <3>1, <3>2, <3>3, <4>1, StartedStory
    <3>4. CASE jobs[k].state = "running"
      <4>1. events'[k] = events[k]
        BY <2>2, <2>3, <2>6, <3>1, <3>4 DEF StartedEvent
      <4> QED
        BY <1>1, <1>2, <2>1, <2>2, <2>3, <2>6, <3>1, <3>2, <3>4, <4>1, SameStory
    <3> QED
      BY <2>3, <2>6, <3>3, <3>4 DEF ActiveState
  <2>7. CASE j = k /\ Complete(a, w, fence, ok, now)
    <3>1. /\ jobs'[k].state \in {"succeeded", "failed"}
          /\ attempts'[a].state \in {"finished", "failed"}
      BY <2>2, <2>4, <2>7 DEF Complete, JobRow, AttemptRow
    <3>2. PICK type \in EndTypes : events'[k] = Append(events[k], [type |-> type, attempt |-> n])
      BY <1>2, <1>4, <2>2, <2>3, <2>7 DEF Complete, Logged, EndTypes
    <3>3. \A i \in 1 .. (n - 1) : attempts'[<<k, i>>].state = attempts[<<k, i>>].state
      BY <1>2, <1>3, <2>1, <2>2, <2>3, <2>7
    <3> QED
      BY <1>1, <1>2, <2>1, <2>2, <2>3, <2>7, <3>1, <3>2, <3>3, EndedStory
  <2> QED
    BY <1>9, <2>5, <2>6, <2>7
<1> QED
  BY <1>5, <1>6, <1>7, <1>8, <1>9, EveryStepHasAKind DEF StepKinds, Selectable, Due

LEMMA InitStory == Init => Story
<1> SUFFICES ASSUME Init, NEW k \in Keys PROVE JobStory(k)
  BY DEF Story
<1>1. jobs[k].state = "absent" /\ events[k] = <<>>
  BY DEF Init, NoJob
<1> QED
  BY <1>1 DEF JobStory

LEMMA StoryIsTold ==
  ASSUME IInv, Story
  PROVE  EventLogTellsTheStory
<1> SUFFICES ASSUME NEW k \in Keys, jobs[k].state # "absent"
             PROVE  /\ Places(k, {"job_submitted"}, 0) = {1}
                    /\ \A i, j \in 1 .. Len(events[k]) :
                         i < j => events[k][i].attempt <= events[k][j].attempt
                    /\ \A n \in 1 .. jobs[k].attempt_count :
                         /\ Cardinality(Places(k, {"attempt_leased"}, n)) = 1
                         /\ Cardinality(Places(k, {"attempt_started"}, n)) <= 1
                         /\ Cardinality(Places(k, EndTypes, n)) =
                              IF Active(<<k, n>>) THEN 0 ELSE 1
                         /\ attempts[<<k, n>>].state = "running" =>
                              Places(k, {"attempt_started"}, n) # {}
                         /\ attempts[<<k, n>>].state = "leased" =>
                              Places(k, {"attempt_started"}, n) = {}
                         /\ \A l \in Places(k, {"attempt_leased"}, n),
                               s \in Places(k, {"attempt_started"}, n) : l < s
                         /\ \A i \in Places(k, {"attempt_leased"}, n)
                                       \union Places(k, {"attempt_started"}, n),
                               e \in Places(k, EndTypes, n) : i < e
                    /\ Len(events[k]) <= 1 + 3 * jobs[k].attempt_count
  BY DEF EventLogTellsTheStory, EndTypes
<1>1. JobStory(k)
  BY DEF Story
<1>2. Cardinality({}) = 0 /\ \A x : Cardinality({x}) = 1
  BY FS_EmptySet, FS_Singleton
<1>3. ASSUME NEW n \in 1 .. jobs[k].attempt_count
      PROVE  /\ Cardinality(Places(k, {"attempt_leased"}, n)) = 1
             /\ Cardinality(Places(k, {"attempt_started"}, n)) <= 1
             /\ Cardinality(Places(k, EndTypes, n)) = IF Active(<<k, n>>) THEN 0 ELSE 1
  <2>1. AttemptStory(k, n)
    BY <1>1 DEF JobStory
  <2>2. Cardinality(Places(k, {"attempt_started"}, n)) \in {0, 1}
    BY <1>2, <2>1 DEF AttemptStory
  <2>3. Cardinality(Places(k, {"attempt_leased"}, n)) = 1
    BY <1>2, <2>1 DEF AttemptStory
  <2>4. Cardinality(Places(k, EndTypes, n)) = IF Active(<<k, n>>) THEN 0 ELSE 1
    BY <1>2, <2>1 DEF AttemptStory
  <2> QED
    BY <2>2, <2>3, <2>4
<1>4. Len(events[k]) <= 1 + 3 * jobs[k].attempt_count
  <2>1. Len(events[k]) \in Nat /\ jobs[k].attempt_count \in Nat
    BY DEF IInv, TypeOK, JobRow
  <2>2. Owed(jobs[k].state) \in Nat
    BY DEF Owed
  <2> QED
    BY <1>1, <2>1, <2>2 DEF JobStory
<1> QED
  BY <1>1, <1>3, <1>4 DEF JobStory, AttemptStory

\* The events create_job, claim_next_job, heartbeat_attempt, complete_attempt and
\* reap_expired_leases append are the history of each job: every attempt leased once,
\* started at most once, ended once, in order, however the requests interleave.
THEOREM EventLogTellsTheStoryHolds == Spec => []EventLogTellsTheStory
<1>1. Init => Story
  BY InitStory
<1>2. IInv /\ Story /\ [Next]_vars => Story'
  BY StoryKept
<1>3. IInv /\ Story => EventLogTellsTheStory
  BY StoryIsTold
<1> QED
  BY <1>1, <1>2, <1>3, InductiveInvariant, PTL DEF Spec
==============================================================================
