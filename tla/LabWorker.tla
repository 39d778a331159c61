------------------------------ MODULE LabWorker ------------------------------
(***************************************************************************)
(* The repo-ops lab worker (lab_controller/repo_ops_worker.py) talking to  *)
(* the lab controller, which is the ledger of module JobLedger here: that  *)
(* LabController implements the ledger is checked there.                   *)
(*                                                                         *)
(* A worker is one process with a main thread (run_forever, run_once) and, *)
(* while it prepares a workspace, a heartbeat thread.  Each thread has one *)
(* HTTP request open at a time.  A request that is served in time is one   *)
(* step, the controller's transaction with its answer.  One that is not -- *)
(* refused, lost, timed out, its worker crashed -- fails at the worker,    *)
(* and the controller may still serve it later: then it is in `late'.      *)
(*                                                                         *)
(* Time is left out: a lease may run out at any moment (Lose), be refused  *)
(* from then on, and be held for ever by a thread that keeps renewing it.  *)
(***************************************************************************)
EXTENDS JobLedger, FiniteSets

CONSTANTS
  MaxLate,        \* bound: requests their clients gave up on, not yet served
  MaxCrashes      \* bound: crashes of worker processes

ASSUME WorkerAssumption == MaxLate \in Nat /\ MaxCrashes \in Nat

VARIABLES
  pc,             \* pc[w]: where the main thread of worker w is
  claim,          \* claim[w]: the attempt <<job, fence token>> it works on
  result,         \* result[w]: the outcome _prepare_workspace left
  monitor,        \* monitor[w]: the heartbeat thread
  late,           \* requests their clients gave up on, yet to be served
  ready,          \* attempts whose workspace is complete
  leftover,       \* attempts that left a directory behind and no workspace
  crashes         \* crashes so far

workerVars == <<pc, claim, result, monitor, late, ready, leftover, crashes>>
vars == <<ledgerVars, workerVars>>

NoClaim == <<>>
Asking == {"claiming", "starting", "reporting"}

Init ==
  /\ LedgerInit
  /\ pc = [w \in Workers |-> "polling"]
  /\ claim = [w \in Workers |-> NoClaim]
  /\ result = [w \in Workers |-> "none"]
  /\ monitor = [w \in Workers |-> "off"]
  /\ late = {} /\ ready = {} /\ leftover = {} /\ crashes = 0

------------------------------------------------------------------------------
(***************************************************************************)
(* Requests.                                                               *)
(***************************************************************************)

\* What the threads of worker w have open.
Beat(w) == [op |-> "heartbeat", worker |-> w, attempt |-> claim[w], result |-> "none"]

MainRequests(w) ==
  CASE pc[w] = "claiming" ->
         {[op |-> "claim", worker |-> w, attempt |-> NoClaim, result |-> "none"]}
    [] pc[w] = "starting" -> {Beat(w)}
    [] pc[w] = "reporting" ->
         {[op |-> "complete", worker |-> w, attempt |-> claim[w], result |-> result[w]]}
    [] OTHER -> {}

MonitorRequests(w) == IF monitor[w] = "asking" THEN {Beat(w)} ELSE {}

\* Of the requests that failed at their client, some may still be served.
Strand(requests) ==
  /\ late' \in {late \union kept : kept \in SUBSET requests}
  /\ Cardinality(late') <= MaxLate

\* The main thread is done with its claim, for better or worse.
BackToPolling(w) ==
  /\ pc' = [pc EXCEPT ![w] = "polling"]
  /\ claim' = [claim EXCEPT ![w] = NoClaim]
  /\ result' = [result EXCEPT ![w] = "none"]
  /\ monitor' = [monitor EXCEPT ![w] = "off"]

(***************************************************************************)
(* run_forever and the start of run_once.                                  *)
(***************************************************************************)
SubmitJob(k, s) == Submit(k, s) /\ UNCHANGED workerVars

\* register, which leaves a held job held, and the claim request.
Poll(w) ==
  /\ pc[w] = "polling"
  /\ pc' = [pc EXCEPT ![w] = "claiming"]
  /\ UNCHANGED <<ledgerVars, claim, result, monitor, late, ready, leftover, crashes>>

Granted(w, k) ==
  /\ pc[w] = "claiming"
  /\ Claim(w, k)
  /\ pc' = [pc EXCEPT ![w] = "starting"]
  /\ claim' = [claim EXCEPT ![w] = <<k, tries'[k]>>]
  /\ UNCHANGED <<result, monitor, late, ready, leftover, crashes>>

Started(w) ==
  /\ pc[w] = "starting"
  /\ Start(w, claim[w][1], claim[w][2])
  /\ pc' = [pc EXCEPT ![w] = "preparing"]
  /\ monitor' = [monitor EXCEPT ![w] = "waiting"]
  /\ UNCHANGED <<claim, result, late, ready, leftover, crashes>>

\* No job, a refusal, no answer: claim, first heartbeat and completion alike
\* are given up without a retry, and the worker polls again.
GiveUp(w) ==
  /\ pc[w] \in Asking
  /\ Strand(MainRequests(w))
  /\ BackToPolling(w)
  /\ UNCHANGED <<ledgerVars, ready, leftover, crashes>>

(***************************************************************************)
(* The heartbeat thread.                                                   *)
(***************************************************************************)
SetMonitor(w, value) ==
  /\ monitor' = [monitor EXCEPT ![w] = value]
  /\ UNCHANGED <<pc, claim, result, ready, leftover, crashes>>

MonitorAsks(w) ==
  /\ monitor[w] = "waiting" /\ pc[w] = "preparing"
  /\ SetMonitor(w, "asking")
  /\ UNCHANGED <<ledgerVars, late>>

MonitorServed(w) ==
  /\ monitor[w] = "asking"
  /\ Start(w, claim[w][1], claim[w][2])
  /\ SetMonitor(w, "waiting")
  /\ UNCHANGED late

MonitorFails(w) ==
  /\ monitor[w] = "asking"
  /\ Strand(MonitorRequests(w))
  /\ SetMonitor(w, "failed")
  /\ UNCHANGED ledgerVars

(***************************************************************************)
(* _prepare_workspace, monitor.stop and the completion.                    *)
(***************************************************************************)
PrepareSucceeds(w) ==
  /\ pc[w] = "preparing"
  /\ claim[w] \notin ready \union leftover
  /\ ready' = ready \union {claim[w]}
  /\ result' = [result EXCEPT ![w] = "succeeded"]
  /\ pc' = [pc EXCEPT ![w] = "stopping"]
  /\ UNCHANGED <<ledgerVars, claim, monitor, late, leftover, crashes>>

PrepareFails_ReportedAsDone(w) ==
  /\ pc[w] = "preparing"
  /\ leftover' \in {leftover, leftover \union {claim[w]}}
  /\ result' = [result EXCEPT ![w] = "succeeded"]
  /\ pc' = [pc EXCEPT ![w] = "stopping"]
  /\ UNCHANGED <<ledgerVars, claim, monitor, late, ready, crashes>>

\* _WorkerPolicyError, RepoOpsError or another exception; some of them leave
\* the directory of the clone where it is.
PrepareFails(w) ==
  /\ pc[w] = "preparing"
  /\ leftover' \in {leftover, leftover \union {claim[w]}}
  /\ result' = [result EXCEPT ![w] = "failed"]
  /\ pc' = [pc EXCEPT ![w] = "stopping"]
  /\ UNCHANGED <<ledgerVars, claim, monitor, late, ready, crashes>>

\* The join returns as the thread ends, or times out on a heartbeat that is
\* still open.  A failure seen by then means: no completion.
Stopped_AlwaysReport(w) ==
  /\ pc[w] = "stopping"
  /\ pc' = [pc EXCEPT ![w] = "reporting"]
  /\ Strand(MonitorRequests(w))
  /\ monitor' = [monitor EXCEPT ![w] = IF @ = "failed" THEN @ ELSE "off"]
  /\ UNCHANGED <<ledgerVars, claim, result, ready, leftover, crashes>>

Stopped(w) ==
  /\ pc[w] = "stopping"
  /\ \/ /\ monitor[w] = "failed"
        /\ BackToPolling(w)
        /\ UNCHANGED late
     \/ /\ monitor[w] # "failed"
        /\ pc' = [pc EXCEPT ![w] = "reporting"]
        /\ Strand(MonitorRequests(w))
        /\ monitor' = [monitor EXCEPT ![w] = "off"]
        /\ UNCHANGED <<claim, result>>
  /\ UNCHANGED <<ledgerVars, ready, leftover, crashes>>

Reported(w) ==
  /\ pc[w] = "reporting"
  /\ Finish(w, claim[w][1], claim[w][2], result[w])
  /\ BackToPolling(w)
  /\ UNCHANGED <<late, ready, leftover, crashes>>

(***************************************************************************)
(* Crashes, late requests and the reaper.                                  *)
(***************************************************************************)
Crash(w) ==
  /\ pc[w] # "down" /\ crashes < MaxCrashes
  /\ crashes' = crashes + 1
  /\ Strand(MainRequests(w) \union MonitorRequests(w))
  /\ leftover' \in IF pc[w] = "preparing" THEN {leftover, leftover \union {claim[w]}}
                                          ELSE {leftover}
  /\ pc' = [pc EXCEPT ![w] = "down"]
  /\ claim' = [claim EXCEPT ![w] = NoClaim]
  /\ result' = [result EXCEPT ![w] = "none"]
  /\ monitor' = [monitor EXCEPT ![w] = "off"]
  /\ UNCHANGED <<ledgerVars, ready>>

Restart(w) ==
  /\ pc[w] = "down"
  /\ pc' = [pc EXCEPT ![w] = "polling"]
  /\ UNCHANGED <<ledgerVars, claim, result, monitor, late, ready, leftover, crashes>>

\* A request nobody waits for is served, or finds nothing it may do.
Serve(r) ==
  \/ r.op = "claim" /\ \E k \in Keys : Claim(r.worker, k)
  \/ r.op = "heartbeat" /\ Start(r.worker, r.attempt[1], r.attempt[2])
  \/ r.op = "complete" /\ Finish(r.worker, r.attempt[1], r.attempt[2], r.result)
  \/ UNCHANGED ledgerVars

LateRequest(r) ==
  /\ Serve(r)
  /\ late' = late \ {r}
  /\ UNCHANGED <<pc, claim, result, monitor, ready, leftover, crashes>>

LeasesEnd(lost) == lost # {} /\ Lose(lost) /\ UNCHANGED workerVars

Next ==
  \/ \E k \in Keys, s \in Specs : SubmitJob(k, s)
  \/ \E w \in Workers :
       \/ Poll(w)
       \/ \E k \in Keys : Granted(w, k)
       \/ Started(w)
       \/ GiveUp(w)
       \/ MonitorAsks(w)
       \/ MonitorServed(w)
       \/ MonitorFails(w)
       \/ PrepareSucceeds(w)
       \/ PrepareFails(w)
       \/ Stopped(w)
       \/ Reported(w)
       \/ Crash(w)
       \/ Restart(w)
  \/ \E r \in late : LateRequest(r)
  \/ \E lost \in SUBSET Keys : LeasesEnd(lost)

(***************************************************************************)
(* Fairness: a live process takes its steps (HTTP and git calls return or  *)
(* time out), a crashed one is restarted (compose's restart policy), a     *)
(* worker that keeps asking for a job there is gets it at last, and the    *)
(* reaper loop finds the lease of a job nobody works on.                   *)
(***************************************************************************)
Abandoned(k) ==
  state[k] \in Held /\ \A w \in Workers : claim[w] # <<k, tries[k]>>

Fairness ==
  /\ \A w \in Workers :
       /\ WF_vars(Poll(w) \/ Restart(w))
       /\ SF_vars(\E k \in Keys : Granted(w, k))
       /\ WF_vars(Started(w) \/ GiveUp(w) \/ Reported(w))
       /\ WF_vars(PrepareSucceeds(w) \/ PrepareFails(w))
       /\ WF_vars(Stopped(w))
  /\ \A k \in Keys : WF_vars(Abandoned(k) /\ LeasesEnd({k}))

Spec == Init /\ [][Next]_vars
FairSpec == Spec /\ Fairness

------------------------------------------------------------------------------
(***************************************************************************)
(* Properties.                                                             *)
(***************************************************************************)

\* What the controller records is what was done, whichever requests were late
\* or served twice: a job that succeeded has the complete workspace of its last
\* attempt, a failed one has not, and no directory is made for an attempt
\* before the controller knows it as running ("the adapter immediately
\* heartbeats").  No two workers work under the same number, a worker under the
\* current one is the holder, and the directories of a job, those of its lost
\* attempts included, stay within its retry budget.
LedgerIsTrue ==
  /\ \A k \in Keys : LET a == <<k, tries[k]>> IN
       /\ state[k] = "succeeded" => a \in ready
       /\ state[k] = "failed" => a \notin ready
       /\ state[k] = "leased" => a \notin ready \union leftover
       /\ \A w \in Workers : claim[w] = a /\ state[k] \in Held => holder[k] = w
       /\ state[k] # "absent" =>
            Cardinality({m \in ready \union leftover : m[1] = k}) <= MaxAttempts[spec[k]]
  /\ \A v, w \in Workers : claim[v] = claim[w] => v = w \/ claim[v] = NoClaim

\* Jobs change state along the arrows of the controller's diagram, though the
\* controller itself would let a holder finish a job it never started; and once
\* a heartbeat of an attempt has failed while its workspace was made, its worker
\* does not complete it: the attempt is left to the reaper.
LifecycleAsDrawn ==
  [][\A k \in Keys : state'[k] # state[k] =>
       /\ <<state[k], state'[k]>> \in Drawn
       /\ state'[k] \in Ended \ {"expired"} =>
            \A w \in Workers : ~(claim[w] = <<k, tries[k]>> /\ monitor[w] = "failed")]_vars

\* Every job the adapter can be given ends: crashes, lost answers and burnt
\* claims cost attempts, and attempts are bounded.  Nor is a worker shut out for
\* ever by a claim it does not know of: again and again it holds no job.
EveryJobEnds ==
  /\ \A k \in Keys : (state[k] # "absent" /\ spec[k] \in AdapterSpecs) ~> state[k] \in Ended
  /\ \A w \in Workers : []<>HoldsNothing(w)
==============================================================================
