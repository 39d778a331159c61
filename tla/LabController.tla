---------------------------- MODULE LabController ----------------------------
(***************************************************************************)
(* The lab controller's durable job registry: lab_controller/database.py,  *)
(* ControllerDatabase, driven by the endpoints and the reaper loop of      *)
(* lab_controller/main.py.                                                 *)
(*                                                                         *)
(* Every database method opens a connection of its own, reads the wall     *)
(* clock, and then runs one BEGIN IMMEDIATE transaction.  The transactions *)
(* are atomic and one at a time; the clock is read before the transaction  *)
(* gets its turn, so a transaction works with a reading `now' that may lie *)
(* up to MaxWait seconds (SQLite's busy timeout) in the past.  Reading the *)
(* clock changes nothing, so an action below is a transaction, with any    *)
(* reading the method can have started from.  A transaction that fails or  *)
(* gives up on the lock rolls back: the action does not happen.            *)
(***************************************************************************)
EXTENDS IsoTime, Sequences, FiniteSetsExt

CONSTANTS
  Keys,           \* idempotency keys; the UNIQUE column identifies the job
  Specs,          \* canonical job specifications (spec_json)
  Workers,        \* worker identifiers
  AdapterSpecs,   \* kind candidate_build and _is_repo_ops_workspace_job
  MaxAttempts,    \* MaxAttempts[s]: the max_attempts column
  Priority,       \* Priority[s]: the priority column
  AttemptLimit,   \* no job may have more attempts (the column's CHECK: 3)
  LeaseSeconds,   \* controller_lease_seconds
  MaxWait,        \* seconds a method may wait between its clock and its turn
  MaxClaims,      \* bound: claim requests between their two transactions
  Horizon,        \* bound: the last second the clock shows
  None            \* no worker, no specification

ASSUME ControllerAssumption ==
  /\ AdapterSpecs \subseteq Specs
  /\ AttemptLimit \in Nat \ {0}
  /\ MaxAttempts \in [Specs -> 1 .. AttemptLimit]
  /\ Priority \in [Specs -> Nat]
  /\ LeaseSeconds \in Nat \ {0}
  /\ MaxWait \in Nat /\ MaxClaims \in Nat /\ Horizon \in Nat
  /\ None \notin Workers /\ None \notin Specs

VARIABLES
  clock,          \* the wall clock
  jobs,           \* table jobs, by idempotency key
  attempts,       \* table job_attempts, by job and attempt_number (UNIQUE)
  workers,        \* column state of table workers, by worker
  events,         \* table events: what was appended for each job
  claims,         \* claim requests that have reaped and not yet claimed
  known_at        \* auxiliary: when the attempt's claim was answered, at best

tables == <<jobs, attempts, workers, events>>
vars == <<clock, jobs, attempts, workers, events, claims, known_at>>

AttemptIds == Keys \X (1 .. AttemptLimit)

ActiveState == {"leased", "running"}
JobState ==
  {"absent", "queued", "succeeded", "failed", "expired"} \union ActiveState
AttemptState == {"absent", "finished", "failed", "lost"} \union ActiveState
WorkerState == {"absent", "ready", "busy", "offline"}
EventType == {"job_submitted", "attempt_leased", "attempt_started",
              "attempt_succeeded", "attempt_failed", "attempt_lost"}

JobRow == [state : JobState, spec : Specs \union {None}, attempt_count : Nat,
           next_run_at : Stamp, created_at : Stamp]
AttemptRow == [state : AttemptState, worker : Workers \union {None},
               fence_token : Nat, lease_expires_at : Stamp]
Event == [type : EventType, attempt : Nat]

TypeOK ==
  /\ clock \in Stamp
  /\ jobs \in [Keys -> JobRow]
  /\ attempts \in [AttemptIds -> AttemptRow]
  /\ workers \in [Workers -> WorkerState]
  /\ events \in [Keys -> Seq(Event)]
  /\ claims \subseteq [worker : Workers, since : Stamp]
  /\ known_at \in [AttemptIds -> Stamp]

Epoch == [sec |-> 0, us |-> 0]
NoJob == [state |-> "absent", spec |-> None, attempt_count |-> 0,
          next_run_at |-> Epoch, created_at |-> Epoch]
NoAttempt == [state |-> "absent", worker |-> None, fence_token |-> 0,
              lease_expires_at |-> Epoch]

Init ==
  /\ clock = Epoch
  /\ jobs = [k \in Keys |-> NoJob]
  /\ attempts = [a \in AttemptIds |-> NoAttempt]
  /\ workers = [w \in Workers |-> "absent"]
  /\ events = [k \in Keys |-> <<>>]
  /\ claims = {}
  /\ known_at = [a \in AttemptIds |-> Epoch]

------------------------------------------------------------------------------
(***************************************************************************)
(* Rows and readings.                                                      *)
(***************************************************************************)

\* The clock readings, not before `since', a transaction may be working with.
Readings(since) ==
  {t \in [sec : 0 .. clock.sec, us : 0 .. (Micros - 1)] :
     /\ NotAfter(since, t) /\ NotAfter(t, clock)
     /\ NotAfter(clock, After(t, MaxWait))}

Active(a) == attempts[a].state \in ActiveState
Budget(k) == MaxAttempts[jobs[k].spec]

Logged(k, type, n) == Append(events[k], [type |-> type, attempt |-> n])

\* The clock shows its next instant.
Tick ==
  /\ Following(clock).sec <= Horizon
  /\ clock' = Following(clock)
  /\ UNCHANGED <<tables, claims, known_at>>

(***************************************************************************)
(* create_job.  A second submission under a key changes nothing: it is     *)
(* answered with the job that is there, or refused if it differs.          *)
(***************************************************************************)
SubmitJob(k, s, now) ==
  /\ jobs[k].state = "absent"
  /\ jobs' = [jobs EXCEPT ![k] =
       [NoJob EXCEPT !.state = "queued", !.spec = s,
                     !.next_run_at = now, !.created_at = now]]
  /\ events' = [events EXCEPT ![k] = Logged(k, "job_submitted", 0)]
  /\ UNCHANGED <<clock, attempts, workers, claims, known_at>>

(***************************************************************************)
(* register_worker: "without reviving an active lease".                    *)
(***************************************************************************)
Registered_AlwaysReady(state) == "ready"

Registered(state) == IF state \in {"absent", "offline"} THEN "ready" ELSE state

RegisterWorker(w) ==
  /\ workers' = [workers EXCEPT ![w] = Registered(@)]
  /\ UNCHANGED <<clock, jobs, attempts, events, claims, known_at>>

(***************************************************************************)
(* reap_expired_leases: one transaction for every stale attempt.           *)
(***************************************************************************)
Stale(now) ==
  {a \in AttemptIds :
     Active(a) /\ TextLess(attempts[a].lease_expires_at, now)}

NextState_OneTooMany(k) ==
  IF jobs[k].attempt_count <= Budget(k) THEN "queued" ELSE "expired"

NextState(k) ==
  IF jobs[k].attempt_count < Budget(k) THEN "queued" ELSE "expired"

\* The number of the stale attempt of job k: there is one at most.
LostNumber(k, stale) == (CHOOSE a \in stale : a[1] = k)[2]

ReapExpiredLeases_WorkerLeftBusy(now) ==
  LET stale == Stale(now)
      JobLost(k) == \E a \in stale : a[1] = k
  IN
  /\ attempts' = [a \in AttemptIds |->
       IF a \in stale THEN [attempts[a] EXCEPT !.state = "lost"]
                      ELSE attempts[a]]
  /\ jobs' = [k \in Keys |->
       IF JobLost(k) THEN [jobs[k] EXCEPT !.state = NextState(k),
                                          !.next_run_at = now]
                     ELSE jobs[k]]
  /\ events' = [k \in Keys |->
       IF JobLost(k) THEN Logged(k, "attempt_lost", LostNumber(k, stale))
                     ELSE events[k]]
  /\ UNCHANGED workers

ReapExpiredLeases(now) ==
  LET stale == Stale(now)
      JobLost(k) == \E a \in stale : a[1] = k
      WorkerFreed(w) == \E a \in stale : attempts[a].worker = w
  IN
  /\ attempts' = [a \in AttemptIds |->
       IF a \in stale THEN [attempts[a] EXCEPT !.state = "lost"]
                      ELSE attempts[a]]
  /\ jobs' = [k \in Keys |->
       IF JobLost(k) THEN [jobs[k] EXCEPT !.state = NextState(k),
                                          !.next_run_at = now]
                     ELSE jobs[k]]
  /\ workers' = [w \in Workers |-> IF WorkerFreed(w) THEN "ready" ELSE workers[w]]
  /\ events' = [k \in Keys |->
       IF JobLost(k) THEN Logged(k, "attempt_lost", LostNumber(k, stale))
                     ELSE events[k]]

\* A turn of the reaper loop, which also runs as the controller starts.
ReaperTurn(now) ==
  /\ ReapExpiredLeases(now)
  /\ UNCHANGED <<clock, claims, known_at>>

(***************************************************************************)
(* claim_next_job: a reaping transaction, then a clock reading, then the   *)
(* transaction that leases a job.                                          *)
(***************************************************************************)
BeginClaim(w, now) ==
  /\ Cardinality(claims) < MaxClaims
  /\ ReapExpiredLeases(now)
  /\ claims' = claims \union {[worker |-> w, since |-> clock]}
  /\ UNCHANGED <<clock, known_at>>

Due(k, now) ==
  /\ jobs[k].state = "queued"
  /\ jobs[k].spec \in AdapterSpecs
  /\ TextLeq(jobs[k].next_run_at, now)

\* ORDER BY priority DESC, created_at ASC
SortsBefore_LowestFirst(j, k) ==
  \/ Priority[jobs[j].spec] < Priority[jobs[k].spec]
  \/ /\ Priority[jobs[j].spec] = Priority[jobs[k].spec]
     /\ TextLess(jobs[j].created_at, jobs[k].created_at)

SortsBefore(j, k) ==
  \/ Priority[jobs[j].spec] > Priority[jobs[k].spec]
  \/ /\ Priority[jobs[j].spec] = Priority[jobs[k].spec]
     /\ TextLess(jobs[j].created_at, jobs[k].created_at)

\* The jobs the query may return first.
Selectable(now) ==
  {k \in Keys : Due(k, now) /\ ~\E j \in Keys : Due(j, now) /\ SortsBefore(j, k)}

\* COALESCE(MAX(fence_token), 0) + 1 over the job's attempts.
NextFence(k) ==
  1 + Max({attempts[<<k, n>>].fence_token : n \in 1 .. AttemptLimit})

LeaseTo(w, k, now, issued) ==
  LET n == jobs[k].attempt_count + 1
      lease == [state |-> "leased", worker |-> w,
                fence_token |-> NextFence(k),
                lease_expires_at |-> After(issued, LeaseSeconds)]
  IN
  /\ attempts' = [attempts EXCEPT ![<<k, n>>] = lease]
  /\ known_at' = [known_at EXCEPT ![<<k, n>>] = clock]
  /\ jobs' = [jobs EXCEPT ![k].state = "leased", ![k].attempt_count = n]
  /\ workers' = [workers EXCEPT ![w] = "busy"]
  /\ events' = [events EXCEPT ![k] = Logged(k, "attempt_leased", n)]

ClaimJob(c, now, issued) ==
  /\ workers[c.worker] = "ready"
  /\ \E k \in Selectable(now) : LeaseTo(c.worker, k, now, issued)
  /\ claims' = claims \ {c}
  /\ UNCHANGED clock

\* The claim ends without a lease: the worker is not registered or not ready,
\* no job is due, or the transaction gives up on the database lock.
ClaimNothing(c) ==
  /\ claims' = claims \ {c}
  /\ UNCHANGED <<clock, tables, known_at>>

(***************************************************************************)
(* heartbeat_attempt and complete_attempt.                                 *)
(***************************************************************************)

\* _active_attempt: the attempt is the worker's, under this token, and active.
ActiveAttempt_AnyState(a, w, fence) ==
  attempts[a].worker = w /\ attempts[a].fence_token = fence

ActiveAttempt(a, w, fence) ==
  /\ attempts[a].worker = w
  /\ attempts[a].fence_token = fence
  /\ Active(a)

LeaseLive_Unchecked(a, now) == TRUE

LeaseLive(a, now) == ~TextLeq(attempts[a].lease_expires_at, now)

StartedEvent_EachTime(a) == Logged(a[1], "attempt_started", a[2])

StartedEvent(a) ==
  IF attempts[a].state = "leased" THEN Logged(a[1], "attempt_started", a[2])
                                  ELSE events[a[1]]

Heartbeat(a, w, fence, now, issued) ==
  /\ ActiveAttempt(a, w, fence)
  /\ LeaseLive(a, now)
  /\ attempts' = [attempts EXCEPT
       ![a].state = "running",
       ![a].lease_expires_at = After(issued, LeaseSeconds)]
  /\ jobs' = [jobs EXCEPT ![a[1]].state = "running"]
  /\ workers' = [workers EXCEPT ![w] = "busy"]
  /\ events' = [events EXCEPT ![a[1]] = StartedEvent(a)]
  /\ UNCHANGED <<clock, claims, known_at>>

Complete_OutcomeAsState(a, w, fence, succeeded, now) ==
  /\ ActiveAttempt(a, w, fence)
  /\ LeaseLive(a, now)
  /\ attempts' = [attempts EXCEPT
       ![a].state = IF succeeded THEN "succeeded" ELSE "failed"]
  /\ jobs' = [jobs EXCEPT
       ![a[1]].state = IF succeeded THEN "succeeded" ELSE "failed"]
  /\ workers' = [workers EXCEPT ![w] = "ready"]
  /\ events' = [events EXCEPT ![a[1]] =
       Logged(a[1], IF succeeded THEN "attempt_succeeded" ELSE "attempt_failed",
              a[2])]
  /\ UNCHANGED <<clock, claims, known_at>>

Complete(a, w, fence, succeeded, now) ==
  /\ ActiveAttempt(a, w, fence)
  /\ LeaseLive(a, now)
  /\ attempts' = [attempts EXCEPT
       ![a].state = IF succeeded THEN "finished" ELSE "failed"]
  /\ jobs' = [jobs EXCEPT
       ![a[1]].state = IF succeeded THEN "succeeded" ELSE "failed"]
  /\ workers' = [workers EXCEPT ![w] = "ready"]
  /\ events' = [events EXCEPT ![a[1]] =
       Logged(a[1], IF succeeded THEN "attempt_succeeded" ELSE "attempt_failed",
              a[2])]
  /\ UNCHANGED <<clock, claims, known_at>>

\* The controller process ends and comes back: what it was doing is forgotten,
\* what it committed is there (startup migrates and starts the reaper loop).
Restart ==
  /\ claims' = {}
  /\ UNCHANGED <<clock, tables, known_at>>

Next ==
  \/ Tick
  \/ Restart
  \/ \E k \in Keys, s \in Specs, now \in Readings(Epoch) : SubmitJob(k, s, now)
  \/ \E w \in Workers : RegisterWorker(w)
  \/ \E now \in Readings(Epoch) : ReaperTurn(now)
  \/ \E w \in Workers, now \in Readings(Epoch) : BeginClaim(w, now)
  \/ \E c \in claims : \E now \in Readings(c.since) :
        \E issued \in Readings(now) : ClaimJob(c, now, issued)
  \/ \E c \in claims : ClaimNothing(c)
  \/ \E a \in AttemptIds : \E now \in Readings(known_at[a]) :
        \E issued \in Readings(now), w \in Workers, f \in 1 .. AttemptLimit :
           Heartbeat(a, w, f, now, issued)
  \/ \E a \in AttemptIds : \E now \in Readings(known_at[a]) :
        \E w \in Workers, f \in 1 .. AttemptLimit, ok \in BOOLEAN :
           Complete(a, w, f, ok, now)

Spec == Init /\ [][Next]_vars

------------------------------------------------------------------------------
(***************************************************************************)
(* Properties.                                                             *)
(***************************************************************************)

\* The three tables agree after every transaction, whatever was late, lost or
\* repeated: an active attempt is the latest of its job, job and attempt are in
\* the same state, its worker is busy, no two active attempts share a job or a
\* worker, and neither a held job nor a busy worker lacks its active attempt
\* (claim, heartbeat, completion and reaper each write all three tables).
OneActiveAttempt ==
  /\ \A a \in AttemptIds : Active(a) =>
       /\ a[2] = jobs[a[1]].attempt_count
       /\ attempts[a].state = jobs[a[1]].state
       /\ workers[attempts[a].worker] = "busy"
       /\ \A b \in AttemptIds :
            Active(b) /\ attempts[b].worker = attempts[a].worker => a = b
  /\ \A k \in Keys : jobs[k].state \in ActiveState =>
       Active(<<k, jobs[k].attempt_count>>)
  /\ \A w \in Workers : workers[w] = "busy" =>
       \E a \in AttemptIds : Active(a) /\ attempts[a].worker = w

\* claim_next_job does not look at max_attempts: it relies on the reaper never
\* leaving a job queued once its budget is used.  A job waits only with budget
\* left, expires only with none left, and then every attempt of it was lost.
RetryBudget ==
  \A k \in Keys :
    /\ jobs[k].state = "queued" => jobs[k].attempt_count < Budget(k)
    /\ jobs[k].state # "absent" => jobs[k].attempt_count <= Budget(k)
    /\ jobs[k].state = "expired" =>
         /\ jobs[k].attempt_count = Budget(k)
         /\ \A n \in 1 .. Budget(k) : attempts[<<k, n>>].state = "lost"

\* "late workers cannot overwrite it" (docs/lab-controller-v0.1.md:421): what
\* has ended stays as it ended, a lost attempt included, no later attempt
\* undoes an earlier one's record, and a new attempt's fence token is above
\* every token the job has given out.
LateWorkersChangeNothing ==
  [][/\ \A a \in AttemptIds :
          attempts[a].state \in {"finished", "failed", "lost"} =>
            attempts'[a] = attempts[a]
     /\ \A k \in Keys :
          /\ jobs[k].state \in {"succeeded", "failed", "expired"} => jobs'[k] = jobs[k]
          /\ jobs[k].state # "absent" =>
               /\ jobs'[k].spec = jobs[k].spec
               /\ jobs'[k].created_at = jobs[k].created_at
               /\ jobs'[k].attempt_count >= jobs[k].attempt_count
     /\ \A a, b \in AttemptIds :
          /\ a[1] = b[1]
          /\ attempts[a].state = "absent" /\ attempts'[a].state # "absent"
          /\ attempts[b].state # "absent"
          => attempts'[a].fence_token > attempts[b].fence_token]_vars

\* The places in job k's log that hold an event of these types for attempt n.
Places(k, types, n) ==
  {i \in 1 .. Len(events[k]) : events[k][i].type \in types /\ events[k][i].attempt = n}

\* The append-only events tell the story of the job: one submission first, then
\* for every attempt one lease, at most one start and at most one end, in this
\* order and after the end of the attempt before; an attempt is running exactly
\* if its start is logged without an end.  Heartbeats are renewals and leave
\* the log alone (the "attempt_started" branch of heartbeat_attempt).
EventLogTellsTheStory ==
  \A k \in Keys : jobs[k].state # "absent" =>
    LET log == events[k]
        Leases(n) == Places(k, {"attempt_leased"}, n)
        Starts(n) == Places(k, {"attempt_started"}, n)
        Stops(n) ==
          Places(k, {"attempt_succeeded", "attempt_failed", "attempt_lost"}, n)
    IN
    /\ Places(k, {"job_submitted"}, 0) = {1}
    /\ \A i, j \in 1 .. Len(log) : i < j => log[i].attempt <= log[j].attempt
    /\ \A n \in 1 .. jobs[k].attempt_count :
         /\ Cardinality(Leases(n)) = 1
         /\ Cardinality(Starts(n)) <= 1
         /\ Cardinality(Stops(n)) = IF Active(<<k, n>>) THEN 0 ELSE 1
         /\ attempts[<<k, n>>].state = "running" => Starts(n) # {}
         /\ attempts[<<k, n>>].state = "leased" => Starts(n) = {}
         /\ \A l \in Leases(n), s \in Starts(n) : l < s
         /\ \A i \in Leases(n) \union Starts(n), e \in Stops(n) : i < e
    /\ Len(log) <= 1 + 3 * jobs[k].attempt_count

\* A job waiting its turn is not passed over: no claim leases a job while
\* another, due for a second more than a transaction can wait, has a higher
\* priority, or the same priority and was submitted a second before it.
ClaimsInOrder ==
  [][\A j, k \in Keys :
       ( /\ jobs[k].state = "queued" /\ jobs'[k].state = "leased"
         /\ jobs[j].state = "queued" /\ jobs[j].spec \in AdapterSpecs
         /\ j # k
         /\ NotAfter(After(jobs[j].next_run_at, 1 + MaxWait), clock) )
       => /\ Priority[jobs[j].spec] <= Priority[jobs[k].spec]
          /\ Priority[jobs[j].spec] = Priority[jobs[k].spec] =>
               ~NotAfter(After(jobs[j].created_at, 1), jobs[k].created_at)]_vars

Lost(a) == Active(a) /\ attempts'[a].state = "lost"
Renewed(a) ==
  Active(a) /\ attempts'[a].state \in (AttemptState \ {"lost", "absent"})
            /\ attempts'[a] # attempts[a]

\* How far the lease tests can err: an attempt is lost less than a second
\* before its lease ends, and is renewed or completed less than a second plus
\* the lock wait after it.
LeaseErrorIsBounded ==
  [][\A a \in AttemptIds :
       /\ Lost(a) => Earlier(attempts[a].lease_expires_at, After(clock, 1))
       /\ Renewed(a) =>
            Earlier(clock, After(attempts[a].lease_expires_at, 1 + MaxWait))]_vars

(***************************************************************************)
(* The controller implements the ledger of module JobLedger.               *)
(***************************************************************************)
Holder(k) ==
  IF jobs[k].state \in ActiveState
    THEN attempts[<<k, jobs[k].attempt_count>>].worker
    ELSE None

Ledger == INSTANCE JobLedger WITH
  state  <- [k \in Keys |-> jobs[k].state],
  spec   <- [k \in Keys |-> jobs[k].spec],
  tries  <- [k \in Keys |-> jobs[k].attempt_count],
  holder <- [k \in Keys |-> Holder(k)]

\* Every step of the tables is a step of the ledger: the holder of a job is
\* never ousted but by a loss, and nobody but the holder moves the job on.
ImplementsLedger == Ledger!LedgerSpec
==============================================================================
