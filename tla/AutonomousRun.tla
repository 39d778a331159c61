----------------------------- MODULE AutonomousRun -----------------------------
(***************************************************************************)
(* One autonomous run of repo-ops (repo_ops/core.py, autonomy.py) and the  *)
(* worker that runs its checks and previews (repo_ops/preview_worker.py).  *)
(*                                                                         *)
(* The service does one call at a time: its tools never await, so an       *)
(* evaluation keeps all other calls out for as long as its checks take.    *)
(* Service and worker share the file queues, and either may be killed      *)
(* between any two steps.  Only the service writes the run record.         *)
(***************************************************************************)
EXTENDS Naturals, Sequences, FiniteSetsExt

CONSTANTS
  Checks,            \* the checks of the evaluation, in order
  MaxRuntime,        \* so many ticks are more than max_runtime_seconds
  MaxNonImproving,   \* max_non_improving_evaluations
  JobIds,            \* bound: jobs and results in the directories at once
  Horizon,           \* bound: the last tick
  MaxEdits,          \* bound: edits of a workspace
  MaxEvaluations,    \* bound: evaluations recorded
  MaxPreviews,       \* bound: previews asked for
  MaxFaults          \* bound: crashes and failed commands

ASSUME RunAssumption ==
  /\ Len(Checks) \in Nat \ {0} /\ DOMAIN Checks = 1 .. Len(Checks)
  /\ JobIds \subseteq Nat \ {0}
  /\ {MaxRuntime, MaxNonImproving} \subseteq Nat \ {0}
  /\ {Horizon, MaxEdits, MaxEvaluations, MaxPreviews, MaxFaults} \subseteq Nat

VARIABLES
  clock,       \* the wall clock, in ticks
  workspace,   \* lifecycle state, edits so far, more than the storage budget?
  run,         \* the run record
  call,        \* the call the service is in
  queue,       \* verification-jobs
  results,     \* verification-results
  previewJob,  \* preview-jobs: the request in it
  preview,     \* preview-results: the request it answers
  asked,       \* auxiliary: previews queued
  overtaken,   \* auxiliary: requests made while an earlier one was not done with
  worker,      \* what the worker is at
  faults       \* crashes and failures so far

vars == <<clock, workspace, run, call, queue, results, previewJob, preview,
          asked, overtaken, worker, faults>>

Terminal == {"review_ready", "stopped"}
NoRun == [state |-> "absent", started |-> 0, scores |-> <<>>, stagnant |-> 0]
Idle == [at |-> "idle", payload |-> NoRun, evidence |-> <<>>, job |-> 0]
NoResult == [written |-> "none", outcome |-> "failed", version |-> 0]
NoPreview == [written |-> "none", request |-> 0]
Waiting == [at |-> "listing", todo |-> {}, round |-> "checks", job |-> 0, version |-> 0]

Outcomes == {"passed", "failed", "invalid"}
Init ==
  /\ clock = 0 /\ faults = 0 /\ asked = 0 /\ overtaken = {}
  /\ workspace = [state |-> "live", version |-> 0, bulky |-> FALSE]
  /\ run = NoRun
  /\ call = Idle
  /\ queue = {} /\ results = [j \in JobIds |-> NoResult]
  /\ previewJob = NoPreview /\ preview = NoPreview
  /\ worker = Waiting

queues == <<queue, results, previewJob, preview, asked, overtaken>>

------------------------------------------------------------------------------
(***************************************************************************)
(* The budgets and the short calls.                                        *)
(***************************************************************************)
Overdue(r) == clock >= r.started + MaxRuntime

\* _apply_autonomy_budget, at the end of every call and in every report.
Status(r) ==
  IF r.state \notin Terminal \union {"absent"} /\ (Overdue(r) \/ workspace.bulky)
    THEN [r EXCEPT !.state = "paused"] ELSE r

\* A call that saves the record new and then asks for the status.  A crash may
\* come in between, or in the middle of the file.
SaveAndReport(new) ==
  /\ call.at = "idle"
  /\ \/ run' = Status(new) /\ UNCHANGED faults
     \/ /\ faults < MaxFaults /\ faults' = faults + 1
        /\ run' \in {new, [NoRun EXCEPT !.state = "unreadable"]}
  /\ UNCHANGED <<clock, workspace, call, queues, worker>>

StartAutonomousRun ==
  /\ run.state = "absent" /\ workspace.state = "live"
  /\ SaveAndReport([NoRun EXCEPT !.state = "running", !.started = clock])

\* The record is first saved as queued.
StartInterrupted ==
  /\ run.state = "absent" /\ workspace.state = "live" /\ call.at = "idle"
  /\ faults < MaxFaults /\ faults' = faults + 1
  /\ run' = [NoRun EXCEPT !.state = "queued", !.started = clock]
  /\ UNCHANGED <<clock, workspace, call, queues, worker>>

Open == {"queued", "running", "evaluating", "paused"}

AutonomousStatus == run.state \in Open /\ SaveAndReport(run)

PauseAutonomousRun ==
  run.state \in Open /\ SaveAndReport([run EXCEPT !.state = "paused"])

ResumeAutonomousRun ==
  run.state = "paused" /\ SaveAndReport([run EXCEPT !.state = "running"])

StopAutonomousRun ==
  run.state \in Open /\ SaveAndReport([run EXCEPT !.state = "stopped"])

\* A note more in the record, which is no part of this model.
RecordAutonomousProgress == run.state = "running" /\ SaveAndReport(run)

\* An edit changes the work, and the room it takes.
Edit ==
  /\ call.at = "idle"
  /\ workspace.state = "live" /\ workspace.version < MaxEdits
  /\ \E bulky \in BOOLEAN :
       workspace' = [workspace EXCEPT !.version = @ + 1, !.bulky = bulky]
  /\ UNCHANGED <<clock, run, call, queues, worker, faults>>

\* archive_workspace and mark_review_ready, asked for by a client: the report in
\* the archive applies the budgets to the run, which else stays as it is.
Archived(outcome) ==
  /\ workspace.state = "live"
  /\ workspace' = [workspace EXCEPT !.state = outcome, !.bulky = FALSE]
  /\ run' = Status(run)

ArchiveWorkspace ==
  /\ call.at = "idle" /\ run.state # "unreadable"
  /\ \/ Archived("archived")
     \/ workspace.version > 0 /\ Archived("review_ready")
  /\ UNCHANGED <<clock, call, queues, worker, faults>>

\* The identifier may be used again; its run record is still there.
CreateWorkspace ==
  /\ call.at = "idle" /\ workspace.state # "live"
  /\ workspace' = [state |-> "live", version |-> 0, bulky |-> FALSE]
  /\ UNCHANGED <<clock, run, call, queues, worker, faults>>

------------------------------------------------------------------------------
(***************************************************************************)
(* evaluate_workspace, with a run_check for every check.                   *)
(***************************************************************************)
Raise == call' = Idle

EvaluateWorkspace ==
  /\ call.at = "idle"
  /\ run.state \in {"running", "evaluating"}
  /\ Len(run.scores) < MaxEvaluations
  /\ run' = [run EXCEPT !.state = "evaluating"]
  /\ call' = [Idle EXCEPT !.at = "asking", !.payload = run']
  /\ UNCHANGED <<clock, workspace, queues, worker, faults>>

Fresh_NamedAfterTheCheck == {Len(call.evidence) + 1}

\* Identifiers are random: one that no file and no one has.
Fresh == {j \in JobIds : j \notin queue /\ results[j].written = "none"
                         /\ ~(worker.round = "checks" /\ worker.job = j)}

QueueJob ==
  /\ call.at = "asking"
  /\ IF workspace.state = "live"
       THEN /\ Fresh # {}
            /\ queue' = queue \union {Min(Fresh)}
            /\ call' = [call EXCEPT !.at = "waiting", !.job = Min(Fresh)]
       ELSE Raise /\ UNCHANGED queue
  /\ UNCHANGED <<clock, workspace, run, results, previewJob, preview, asked,
                 overtaken, worker, faults>>

Scored(r, evidence) ==
  LET score == Cardinality({i \in DOMAIN evidence : evidence[i].passed})
      n == Len(r.scores)
      improved == n = 0 \/ score > r.scores[n]
  IN [r EXCEPT !.scores = Append(@, score), !.stagnant = IF improved THEN 0 ELSE @ + 1]

Verdict_OneMore(r) ==
  IF r.stagnant > MaxNonImproving THEN "stopped" ELSE "running"

Verdict(r) ==
  IF r.stagnant >= MaxNonImproving THEN "stopped" ELSE "running"

\* The result is there, if not always all of it, and is the one asked for.
CollectResult ==
  LET res == results[call.job]
      n == Len(call.evidence)
      checked == [check |-> Checks[n + 1], passed |-> res.outcome = "passed",
                  version |-> res.version]
  IN
  /\ call.at = "waiting" /\ res.written = "whole"
  /\ results' = [results EXCEPT ![call.job] = NoResult]
  /\ IF res.outcome = "invalid"
       THEN Raise
       ELSE call' = [call EXCEPT !.job = 0, !.evidence = Append(@, checked),
                       !.at = IF n + 1 < Len(Checks) THEN "asking" ELSE "concluding"]
  /\ UNCHANGED <<clock, workspace, run, queue, previewJob, preview, asked, overtaken,
                 worker, faults>>

\* A result read while it is being written, or none within 600 seconds.
CheckRaises ==
  /\ call.at = "waiting" /\ results[call.job].written # "whole"
  /\ Raise
  /\ UNCHANGED <<clock, workspace, run, queues, worker, faults>>

\* All checks are recorded: the score, and what follows from it.  The diff of
\* changed work may be empty, since `git diff` leaves new files out.
Conclude ==
  LET r == Scored(call.payload, call.evidence) IN
  /\ call.at = "concluding"
  /\ \/ /\ r.scores[Len(r.scores)] = Len(Checks) /\ workspace.version > 0
        /\ call' = [call EXCEPT !.at = "archiving", !.payload = r]
        /\ UNCHANGED run
     \/ /\ call' = Idle
        /\ run' = Status([r EXCEPT !.state = Verdict(r)])
  /\ UNCHANGED <<clock, workspace, queues, worker, faults>>

\* mark_review_ready, whose report applies the budgets to the saved record ...
ArchiveCandidate ==
  /\ call.at = "archiving"
  /\ Archived("review_ready")
  /\ call' = [call EXCEPT !.at = "archived"]
  /\ UNCHANGED <<clock, queues, worker, faults>>

\* ... over which the one in memory is saved.
SaveCandidate ==
  /\ call.at = "archived"
  /\ run' = [call.payload EXCEPT !.state = "review_ready"]
  /\ call' = Idle
  /\ UNCHANGED <<clock, workspace, queues, worker, faults>>

------------------------------------------------------------------------------
(***************************************************************************)
(* preview_workspace: the old result is unlinked, the job file opened,     *)
(* which empties it, and written.                                          *)
(***************************************************************************)
PreviewWorkspace ==
  /\ call.at = "idle" /\ workspace.state = "live" /\ asked < MaxPreviews
  /\ preview' = NoPreview
  /\ call' = [Idle EXCEPT !.at = "unlinked"]
  /\ overtaken' = overtaken \union (IF previewJob.written = "none" THEN {} ELSE {asked, asked + 1})
  /\ UNCHANGED <<clock, workspace, run, queue, results, previewJob, asked, worker, faults>>

OpenPreviewJob ==
  /\ call.at = "unlinked"
  /\ asked' = asked + 1
  /\ previewJob' = [written |-> "half", request |-> asked']
  /\ call' = [Idle EXCEPT !.at = "queueing"]
  /\ UNCHANGED <<clock, workspace, run, queue, results, preview, overtaken,
                 worker, faults>>

\* If the worker has removed the file meanwhile, the text goes nowhere.
WritePreviewJob ==
  /\ call.at = "queueing"
  /\ previewJob' = IF previewJob.written = "half"
                     THEN [previewJob EXCEPT !.written = "whole"] ELSE previewJob
  /\ call' = Idle
  /\ UNCHANGED <<clock, workspace, run, queue, results, preview, asked, overtaken,
                 worker, faults>>

------------------------------------------------------------------------------
(***************************************************************************)
(* The worker: all checks it finds, all previews it finds, and so on.      *)
(***************************************************************************)
WorkerLists ==
  /\ worker.at = "listing" /\ worker.todo = {}
  /\ worker' = IF worker.round = "checks"
       THEN [Waiting EXCEPT !.round = "previews",
                            !.todo = IF previewJob.written = "none" THEN {} ELSE {0}]
       ELSE [Waiting EXCEPT !.todo = queue]
  /\ UNCHANGED <<clock, workspace, run, call, queues, faults>>

WorkerTakes_RemovesTheJob ==
  /\ worker.at = "listing"
  /\ \E j \in worker.todo :
       worker' = [worker EXCEPT !.at = "running", !.todo = @ \ {j},
                    !.job = IF worker.round = "checks" THEN j ELSE previewJob.request,
                    !.version = workspace.version]
  /\ previewJob' = IF worker.round = "checks" THEN previewJob ELSE NoPreview
  /\ UNCHANGED <<clock, workspace, run, call, queue, results, preview, asked,
                 overtaken, faults>>

\* Jobs are sorted by their random names; the workspace is copied.
WorkerTakes ==
  /\ worker.at = "listing"
  /\ \E j \in worker.todo :
       worker' = [worker EXCEPT !.at = "running", !.todo = @ \ {j},
                    !.job = IF worker.round = "checks" THEN j ELSE previewJob.request,
                    !.version = workspace.version]
  /\ UNCHANGED <<clock, workspace, run, call, queues, faults>>

\* The result file is opened, which empties it, ...
WorkerOpens ==
  /\ worker.at = "running"
  /\ IF worker.round = "checks"
       THEN results' = [results EXCEPT ![worker.job] = [NoResult EXCEPT !.written = "half"]]
            /\ UNCHANGED preview
       ELSE preview' = [written |-> "half", request |-> worker.job] /\ UNCHANGED results
  /\ worker' = [worker EXCEPT !.at = "writing"]
  /\ UNCHANGED <<clock, workspace, run, call, queue, previewJob, asked, overtaken, faults>>

\* ... and written.
WorkerWrites ==
  /\ worker.at = "writing"
  /\ IF worker.round = "checks"
       THEN \E outcome \in Outcomes :
              results' = [results EXCEPT ![worker.job] =
                [written |-> "whole", outcome |-> outcome, version |-> worker.version]]
              /\ UNCHANGED preview
       ELSE /\ preview' = IF preview.written = "half"
                            THEN [preview EXCEPT !.written = "whole"] ELSE preview
            /\ UNCHANGED results
  /\ worker' = [worker EXCEPT !.at = "done"]
  /\ UNCHANGED <<clock, workspace, run, call, queue, previewJob, asked, overtaken, faults>>

\* The job is removed by its name, whoever has written it meanwhile.
WorkerUnlinks ==
  /\ worker.at = "done"
  /\ IF worker.round = "checks"
       THEN queue' = queue \ {worker.job} /\ UNCHANGED previewJob
       ELSE previewJob' = NoPreview /\ UNCHANGED queue
  /\ worker' = [worker EXCEPT !.at = "listing", !.job = 0, !.version = 0]
  /\ UNCHANGED <<clock, workspace, run, call, results, preview, asked, overtaken, faults>>

------------------------------------------------------------------------------
Tick ==
  /\ clock < Horizon
  /\ clock' = clock + 1
  /\ UNCHANGED <<workspace, run, call, queues, worker, faults>>

\* The service is killed, or a command of its fails; the record it is saving
\* may be cut short.
ServiceFails ==
  /\ call.at # "idle" /\ faults < MaxFaults
  /\ faults' = faults + 1
  /\ Raise
  /\ run' \in {run} \union
       (IF run.state # "absent" /\ call.at \in {"asking", "concluding", "archived", "queueing"}
          THEN {[NoRun EXCEPT !.state = "unreadable"]} ELSE {})
  /\ UNCHANGED <<clock, workspace, queues, worker>>

WorkerFails ==
  /\ worker.at # "listing" /\ faults < MaxFaults
  /\ faults' = faults + 1
  /\ worker' = Waiting
  /\ UNCHANGED <<clock, workspace, run, call, queues>>

ShortCalls ==
  \/ StartAutonomousRun
  \/ StartInterrupted
  \/ AutonomousStatus
  \/ PauseAutonomousRun
  \/ ResumeAutonomousRun
  \/ StopAutonomousRun
  \/ RecordAutonomousProgress
  \/ Edit
  \/ ArchiveWorkspace
  \/ CreateWorkspace

Evaluation ==
  \/ QueueJob
  \/ CollectResult
  \/ CheckRaises
  \/ Conclude
  \/ ArchiveCandidate
  \/ SaveCandidate

Preview ==
  \/ OpenPreviewJob
  \/ WritePreviewJob

Worker ==
  \/ WorkerLists
  \/ WorkerTakes
  \/ WorkerOpens
  \/ WorkerWrites
  \/ WorkerUnlinks

Next ==
  \/ ShortCalls
  \/ EvaluateWorkspace
  \/ Evaluation
  \/ PreviewWorkspace
  \/ Preview
  \/ Worker
  \/ Tick
  \/ ServiceFails
  \/ WorkerFails

Spec == Init /\ [][Next]_vars

\* Calls that have begun go on, and the worker's loop comes round; it is
\* restarted when it ends.
Fairness == WF_vars(Evaluation) /\ WF_vars(Preview) /\ WF_vars(Worker)

FairSpec == Spec /\ Fairness

------------------------------------------------------------------------------
(***************************************************************************)
(* Properties.                                                             *)
(***************************************************************************)

\* "A changed workspace with passing evaluation evidence can become
\* review-ready": when a run does, the workspace has just been archived as a
\* candidate, and every check of the evaluation has passed on the very version
\* in the archive, whatever results of timed-out or interrupted evaluations are
\* about.
CandidatesHavePassed ==
  [][run.state # "review_ready" /\ run'.state = "review_ready" =>
       /\ workspace'.state = "review_ready" /\ workspace'.version > 0
       /\ \A i \in DOMAIN Checks :
            call.evidence[i] = [check |-> Checks[i], passed |-> TRUE,
                                version |-> workspace'.version]]_vars

\* "three non-improving evaluation results": a run whose last evaluations were
\* so many without a better score than the one before goes on no more, through
\* pauses, failed evaluations and crashes.
PlateausEndTheRun ==
  LET n == Len(run.scores) IN
  (n > MaxNonImproving /\ \A i \in n - MaxNonImproving + 1 .. n :
                             run.scores[i] <= run.scores[i - 1])
  => run.state \in Terminal

\* A queued preview is served, or another one is queued, whatever checks are to be
\* run and whatever crashes, and the preview that is shown answers the last request;
\* unless the request was made while the job of an earlier one was still there.  (Then
\* the worker may write the old result after it was unlinked and remove the new job
\* with the old one, since both have the name of the task.)
PreviewsAreServed ==
  /\ \A k \in 1 .. MaxPreviews :
       previewJob = [written |-> "whole", request |-> k]
         ~> ( \/ preview = [written |-> "whole", request |-> k]
              \/ asked # k \/ k \in overtaken )
  /\ [](preview.written = "whole" => preview.request = asked \/ asked \in overtaken)
==============================================================================
