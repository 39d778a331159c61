-------------------------- MODULE AutonomousRunProofs --------------------------
(***************************************************************************)
(* For any checks, budgets, job identifiers and bounds: a run that has not *)
(* improved for long enough goes on no more, one becomes review-ready only *)
(* on evidence about the very version archived, and the preview shown is   *)
(* the last one asked for, unless requests overtook each other.            *)
(*                                                                         *)
(* Counted says what the counter of a run record stands for.  FreshResults *)
(* and Evidence follow a check from its queue to the verdict: whatever     *)
(* stale jobs and results lie about, what the call in progress waits for   *)
(* is about the workspace as it is.  PreviewsFit does the same for the two *)
(* files of a preview.                                                     *)
(***************************************************************************)
EXTENDS AutonomousRun, FiniteSetTheorems, SequenceTheorems, WellFoundedInduction, TLAPS

Written == {"none", "half", "whole"}

States == {"absent", "queued", "running", "evaluating", "paused", "stopped",
           "review_ready", "unreadable"}

RunType == [state : States, started : Nat, scores : Seq(Nat), stagnant : Nat]

EvidenceType ==
  [check : {Checks[i] : i \in DOMAIN Checks}, passed : BOOLEAN, version : Nat]

\* The types of what the proofs look into.
Types ==
  /\ clock \in Nat
  /\ workspace \in [state : {"live", "archived", "review_ready"}, version : Nat,
                    bulky : BOOLEAN]
  /\ run \in RunType
  /\ call \in [at : {"idle", "asking", "waiting", "concluding", "archiving", "archived",
                     "unlinked", "queueing"},
               payload : RunType, evidence : Seq(EvidenceType), job : JobIds \union {0}]
  /\ queue \subseteq JobIds
  /\ results \in [JobIds -> [written : Written, outcome : Outcomes, version : Nat]]
  /\ worker \in [at : {"listing", "running", "writing", "done"}, todo : SUBSET Nat,
                 round : {"checks", "previews"}, job : Nat, version : Nat]

PreviewTypes ==
  /\ asked \in Nat
  /\ previewJob \in [written : Written, request : Nat]
  /\ preview \in [written : Written, request : Nat]

\* The counter is that of the scores since the last better one.
Counted(r) ==
  LET n == Len(r.scores) IN
  /\ n > 0 => r.stagnant < n
  /\ n = 0 => r.stagnant = 0
  /\ n - r.stagnant > 1 => r.scores[n - r.stagnant] > r.scores[n - r.stagnant - 1]

\* A run that has not improved for long enough has ended.
CountersFit ==
  /\ Counted(run) /\ Counted(call.payload)
  /\ run.stagnant >= MaxNonImproving => run.state \in Terminal

\* The worker takes a job it has found in the queue, and removes it last.
WorkerFits ==
  worker.round = "checks" =>
    /\ worker.todo \subseteq queue
    /\ worker.at # "listing" => worker.job \in queue \ worker.todo
    /\ worker.at = "listing" => worker.job = 0

\* Whatever there is of the result the call waits for is about the workspace as it is.
FreshResults ==
  call.at = "waiting" =>
    /\ call.job \in JobIds
    /\ results[call.job].written = "whole" => results[call.job].version = workspace.version
    /\ worker.round = "checks" /\ worker.job = call.job => worker.version = workspace.version

\* What the checks of the call in progress have shown so far, in their order.
Evidence ==
  call.at \in {"asking", "waiting", "concluding", "archiving", "archived"} =>
    /\ \A i \in 1 .. Len(call.evidence) :
         /\ call.evidence[i].check = Checks[i]
         /\ call.evidence[i].version = workspace.version
    /\ IF call.at \in {"asking", "waiting"}
         THEN Len(call.evidence) < Len(Checks)
         ELSE Len(call.evidence) = Len(Checks)

\* A candidate has passed all checks, and the archive is of what they have checked.
CandidateFits ==
  /\ call.at \in {"archiving", "archived"} =>
       /\ workspace.version > 0
       /\ \A i \in 1 .. Len(Checks) : call.evidence[i].passed
  /\ call.at = "archived" => workspace.state = "review_ready"

\* The worker is at a preview only while there is a job, and answers its request;
\* between unlinking and queueing there is nothing of an earlier request, if it
\* was done with.
AtPreview ==
  worker.round = "previews" /\ (worker.at # "listing" \/ worker.todo # {})

Settled ==
  /\ previewJob.written # "none" => previewJob.request = asked
  /\ preview.written # "none" => preview.request = asked
  /\ worker.round = "previews" /\ worker.at # "listing" => worker.job = asked

PreviewsFit ==
  /\ AtPreview => previewJob.written # "none"
  /\ worker.round = "previews" =>
       worker.todo \subseteq {0} /\ (worker.at # "listing" => worker.todo = {})
  /\ asked \in overtaken \/ Settled
  /\ call.at = "unlinked" =>
       asked + 1 \in overtaken \/ (previewJob.written = "none" /\ preview.written = "none")

RunInv ==
  /\ Types /\ PreviewTypes
  /\ CountersFit /\ WorkerFits /\ FreshResults /\ Evidence /\ CandidateFits
  /\ PreviewsFit

------------------------------------------------------------------------------
(***************************************************************************)
(* Operators.                                                              *)
(***************************************************************************)

LEMMA LeastNatural ==
  ASSUME NEW T \in SUBSET Nat, T # {}
  PROVE  Min(T) \in T
<1>1. PICK x \in T : \A y \in T : ~(<<y, x>> \in OpToRel(<, Nat))
  BY NatLessThanWellFounded, WFMin
<1>2. \A y \in T : ~(y < x)
  BY <1>1 DEF OpToRel
<1>3. \A y \in T : x <= y
  BY <1>2
<1> QED
  BY <1>3 DEF Min

\* A fresh identifier is one that nothing refers to.
LEMMA FreshIsFresh ==
  ASSUME Fresh # {}
  PROVE  /\ Min(Fresh) \in JobIds /\ Min(Fresh) \notin queue
         /\ results[Min(Fresh)].written = "none"
         /\ ~(worker.round = "checks" /\ worker.job = Min(Fresh))
<1>1. Fresh \subseteq Nat
  BY RunAssumption DEF Fresh
<1>2. Min(Fresh) \in Fresh
  BY <1>1, LeastNatural
<1> QED
  BY <1>2 DEF Fresh

\* The budgets change nothing but the state of a run, and end none.
LEMMA StatusKeeps ==
  ASSUME NEW r \in RunType
  PROVE  /\ Status(r) \in RunType
         /\ Status(r).scores = r.scores /\ Status(r).stagnant = r.stagnant
         /\ r.state \in Terminal => Status(r) = r
         /\ Status(r).state \in {r.state, "paused"}
<1> DEFINE paused == [r EXCEPT !.state = "paused"]
<1>1. Status(r) = r \/ (Status(r) = paused /\ r.state \notin Terminal)
  BY DEF Status
<1>2. paused \in RunType /\ paused.scores = r.scores /\ paused.stagnant = r.stagnant
      /\ paused.state = "paused"
  BY DEF RunType, States
<1> QED
  BY <1>1, <1>2

LEMMA CountedByScores ==
  ASSUME NEW r, NEW s, Counted(r), s.scores = r.scores, s.stagnant = r.stagnant
  PROVE  Counted(s)
BY DEF Counted

LEMMA NoRunFits == NoRun \in RunType /\ Counted(NoRun)
  /\ [NoRun EXCEPT !.state = "unreadable"] \in RunType
  /\ Counted([NoRun EXCEPT !.state = "unreadable"])
<1> DEFINE cut == [NoRun EXCEPT !.state = "unreadable"]
<1>1. <<>> \in Seq(Nat) /\ Len(<<>>) = 0
  OBVIOUS
<1>2. /\ NoRun \in RunType /\ NoRun.scores = <<>> /\ NoRun.stagnant = 0
      /\ cut \in RunType /\ cut.scores = <<>> /\ cut.stagnant = 0
  BY <1>1 DEF NoRun, RunType, States
<1> HIDE DEF cut
<1>3. Counted(NoRun) /\ Counted(cut)
  BY <1>1, <1>2 DEF Counted
<1> QED
  BY <1>2, <1>3 DEF cut

LEMMA Back ==
  ASSUME NEW m \in Nat, NEW s \in Nat, s < m
  PROVE  /\ (m + 1) - (s + 1) = m - s /\ s + 1 < m + 1 /\ m + 1 > 0
         /\ m - s > 1 => m - s \in 1 .. m /\ m - s - 1 \in 1 .. m
OBVIOUS

\* What an evaluation adds to the scores keeps the counter right.
LEMMA ScoredFits ==
  ASSUME NEW r \in RunType, NEW evidence \in Seq(EvidenceType), Counted(r)
  PROVE  /\ Scored(r, evidence) \in RunType /\ Counted(Scored(r, evidence))
         /\ Scored(r, evidence).scores[Len(Scored(r, evidence).scores)]
              = Cardinality({i \in DOMAIN evidence : evidence[i].passed})
<1> DEFINE passes == {i \in DOMAIN evidence : evidence[i].passed}
           score == Cardinality(passes)
           n == Len(r.scores)
           improved == n = 0 \/ score > r.scores[n]
           new == Scored(r, evidence)
<1>1. score \in Nat
  <2>1. IsFiniteSet(1 .. Len(evidence))
    BY FS_Interval
  <2>2. IsFiniteSet(passes)
    BY <2>1, FS_Subset
  <2> QED
    BY <2>2, FS_CardinalityType
<1>2. new = [r EXCEPT !.scores = Append(@, score), !.stagnant = IF improved THEN 0 ELSE @ + 1]
  BY DEF Scored
<1>3. r.scores \in Seq(Nat) /\ n \in Nat /\ r.stagnant \in Nat
  BY DEF RunType
<1> HIDE DEF score, passes
<1>4. new \in RunType /\ new.scores = Append(r.scores, score)
      /\ new.stagnant = IF improved THEN 0 ELSE r.stagnant + 1
  <2> DEFINE stagnant == IF improved THEN 0 ELSE r.stagnant + 1
             scores == Append(r.scores, score)
  <2>1. stagnant \in Nat /\ scores \in Seq(Nat)
    BY <1>1, <1>3
  <2>2. new = [r EXCEPT !.scores = scores, !.stagnant = stagnant]
    BY <1>2
  <2> HIDE DEF stagnant, scores, new
  <2>3. new \in RunType /\ new.scores = scores /\ new.stagnant = stagnant
    BY <2>1, <2>2 DEF RunType
  <2> QED
    BY <2>3 DEF stagnant, scores
<1> HIDE DEF new
<1>5. Len(new.scores) = n + 1 /\ new.scores[n + 1] = score
      /\ \A i \in 1 .. n : new.scores[i] = r.scores[i]
  BY <1>1, <1>3, <1>4
<1>6. Counted(new)
  <2>1. CASE improved
    <3>1. new.stagnant = 0 /\ (n > 0 => new.scores[n + 1] > new.scores[n])
      BY <1>3, <1>4, <1>5, <2>1
    <3> QED
      BY <1>3, <1>5, <3>1 DEF Counted
  <2>2. CASE ~improved
    <3>1. n > 0 /\ r.stagnant < n
      BY <1>3, <2>2 DEF Counted
    <3>2. PICK m \in Nat, s \in Nat : m = n /\ s = r.stagnant
      BY <1>3
    <3>3. ASSUME m - s > 1
          PROVE  new.scores[m - s] > new.scores[m - s - 1]
      <4>1. r.scores[m - s] > r.scores[m - s - 1]
        BY <3>2, <3>3 DEF Counted
      <4>2. m - s \in 1 .. n /\ m - s - 1 \in 1 .. n
        BY <3>1, <3>2, <3>3, Back
      <4> QED
        BY <1>5, <4>1, <4>2
    <3>4. new.stagnant = s + 1 /\ Len(new.scores) = m + 1 /\ s < m
      BY <1>4, <1>5, <2>2, <3>1, <3>2
    <3>5. (m + 1) - (s + 1) = m - s /\ s + 1 < m + 1 /\ m + 1 > 0
      BY <3>4, Back
    <3> HIDE DEF n, improved
    <3> QED
      BY <3>3, <3>4, <3>5 DEF Counted
  <2> QED
    BY <2>1, <2>2
<1> QED
  BY <1>4, <1>5, <1>6 DEF score, passes, new

------------------------------------------------------------------------------
(***************************************************************************)
(* The invariant holds initially, and every action keeps it.               *)
(***************************************************************************)
RunFits(r) ==
  /\ r \in RunType /\ Counted(r)
  /\ r.stagnant >= MaxNonImproving => r.state \in Terminal

LEMMA EndedRunsFit ==
  /\ RunFits(NoRun) /\ RunFits([NoRun EXCEPT !.state = "unreadable"])
  /\ \A r \in RunType : RunFits(r) => RunFits(Status(r))
<1>1. RunFits(NoRun) /\ RunFits([NoRun EXCEPT !.state = "unreadable"])
  <2>1. MaxNonImproving \in Nat \ {0}
    BY RunAssumption
  <2>2. ~(0 >= MaxNonImproving)
    BY <2>1
  <2> QED
    BY <2>2, NoRunFits DEF RunFits, NoRun
<1>2. ASSUME NEW r \in RunType, RunFits(r)
      PROVE  RunFits(Status(r))
  BY <1>2, StatusKeeps, CountedByScores DEF RunFits
<1> QED
  BY <1>1, <1>2

LEMMA InitInv == Init => RunInv
<1> SUFFICES ASSUME Init PROVE RunInv
  OBVIOUS
<1> USE DEF Init
<1>1. <<>> \in Seq(EvidenceType) /\ Len(<<>>) = 0
  OBVIOUS
<1>2. RunFits(NoRun)
  BY EndedRunsFit
<1>3. Types
  <2>1. call \in [at : {"idle", "asking", "waiting", "concluding", "archiving", "archived",
                     "unlinked", "queueing"},
               payload : RunType, evidence : Seq(EvidenceType), job : JobIds \union {0}]
    BY <1>1, <1>2 DEF Idle, RunFits
  <2>2. results \in [JobIds -> [written : Written, outcome : Outcomes, version : Nat]]
    BY DEF NoResult, Written, Outcomes
  <2>3. worker \in [at : {"listing", "running", "writing", "done"}, todo : SUBSET Nat,
                 round : {"checks", "previews"}, job : Nat, version : Nat]
    BY DEF Waiting
  <2> QED
    BY <1>2, <2>1, <2>2, <2>3 DEF Types, RunFits
<1>4. PreviewTypes
  BY DEF PreviewTypes, NoPreview, Written
<1>5. CountersFit
  BY <1>2 DEF CountersFit, RunFits, Idle
<1>6. WorkerFits /\ FreshResults /\ Evidence /\ CandidateFits
  BY DEF WorkerFits, FreshResults, Evidence, CandidateFits, Idle, Waiting
<1>7. PreviewsFit
  BY DEF PreviewsFit, AtPreview, Settled, Idle, Waiting, NoPreview
<1> QED
  BY <1>3, <1>4, <1>5, <1>6, <1>7 DEF RunInv

\* A step of the run record alone.
LEMMA RunChanges ==
  ASSUME RunInv, RunFits(run'), UNCHANGED <<clock, workspace, call, queues, worker>>
  PROVE  RunInv'
<1> USE DEF RunInv, queues
<1>1. Types' /\ PreviewTypes'
  BY DEF Types, PreviewTypes, RunFits
<1>2. CountersFit'
  BY DEF CountersFit, RunFits
<1>3. WorkerFits' /\ FreshResults' /\ Evidence' /\ CandidateFits'
  BY DEF WorkerFits, FreshResults, Evidence, CandidateFits
<1>4. PreviewsFit'
  BY DEF PreviewsFit, AtPreview, Settled
<1> QED
  BY <1>1, <1>2, <1>3, <1>4

LEMMA SaveAndReportInv ==
  ASSUME RunInv, NEW new, RunFits(new), SaveAndReport(new)
  PROVE  RunInv'
<1>1. RunFits(run')
  BY EndedRunsFit DEF SaveAndReport, RunFits
<1> QED
  BY <1>1, RunChanges DEF SaveAndReport

\* A call returns or raises: the run as RunFits has it, and no one waits any longer.
LEMMA ReturnInv ==
  ASSUME RunInv, RunFits(run'), call' = Idle, UNCHANGED <<clock, workspace, worker>>,
         Types', PreviewTypes', WorkerFits', PreviewsFit'
  PROVE  RunInv'
<1>1. CountersFit'
  BY NoRunFits DEF CountersFit, RunFits, Idle
<1>2. FreshResults' /\ Evidence' /\ CandidateFits'
  BY DEF FreshResults, Evidence, CandidateFits, Idle
<1> QED
  BY <1>1, <1>2 DEF RunInv

LEMMA IdleFits ==
  Idle \in [at : {"idle", "asking", "waiting", "concluding", "archiving", "archived",
                  "unlinked", "queueing"},
            payload : RunType, evidence : Seq(EvidenceType), job : JobIds \union {0}]
<1>1. <<>> \in Seq(EvidenceType)
  OBVIOUS
<1> QED
  BY <1>1, NoRunFits DEF Idle

\* The call ends, and but for the run nothing else changes.
LEMMA EndInv ==
  ASSUME RunInv, RunFits(run'), call' = Idle, UNCHANGED <<clock, workspace, queues, worker>>
  PROVE  RunInv'
<1> USE DEF RunInv, queues
<1>1. Types' /\ PreviewTypes'
  BY IdleFits DEF Types, PreviewTypes, RunFits
<1>2. WorkerFits'
  BY DEF WorkerFits
<1>3. PreviewsFit'
  BY DEF PreviewsFit, AtPreview, Settled, Idle
<1> QED
  BY <1>1, <1>2, <1>3, ReturnInv

\* What happens to the workspace while the service has no call in progress.
LEMMA WorkspaceChanges ==
  ASSUME RunInv, RunFits(run'), call.at = "idle", UNCHANGED <<clock, call, queues, worker>>,
         workspace' \in [state : {"live", "archived", "review_ready"}, version : Nat,
                         bulky : BOOLEAN]
  PROVE  RunInv'
<1> USE DEF RunInv, queues
<1>1. Types' /\ PreviewTypes'
  BY DEF Types, PreviewTypes, RunFits
<1>2. CountersFit' /\ WorkerFits'
  BY DEF CountersFit, RunFits, WorkerFits
<1>3. FreshResults' /\ Evidence' /\ CandidateFits'
  BY DEF FreshResults, Evidence, CandidateFits
<1>4. PreviewsFit'
  BY DEF PreviewsFit, AtPreview, Settled
<1> QED
  BY <1>1, <1>2, <1>3, <1>4

LEMMA ShortCallsInv == ASSUME RunInv, ShortCalls PROVE RunInv'
<1> DEFINE Rewritten(s) == [run EXCEPT !.state = s]
<1>1. RunFits(run) /\ run \in RunType
  BY DEF RunInv, CountersFit, Types, RunFits
<1>2. ASSUME NEW s \in States, s \in Terminal \/ ~(run.stagnant >= MaxNonImproving)
      PROVE  RunFits(Rewritten(s))
  <2>1. Rewritten(s) \in RunType /\ Rewritten(s).scores = run.scores
        /\ Rewritten(s).stagnant = run.stagnant /\ Rewritten(s).state = s
    BY <1>1 DEF RunType
  <2> QED
    BY <1>1, <1>2, <2>1, CountedByScores DEF RunFits
<1>3. ASSUME NEW s \in States
      PROVE  RunFits([NoRun EXCEPT !.state = s, !.started = clock])
  <2> DEFINE new == [NoRun EXCEPT !.state = s, !.started = clock]
  <2>0. NoRun \in RunType /\ clock \in Nat
    BY NoRunFits DEF RunInv, Types
  <2>1. new \in RunType /\ new.scores = NoRun.scores /\ new.stagnant = NoRun.stagnant
    BY <2>0 DEF RunType
  <2>2. MaxNonImproving \in Nat \ {0} /\ NoRun.stagnant = 0
    BY RunAssumption DEF NoRun
  <2>3. ~(new.stagnant >= MaxNonImproving)
    BY <2>1, <2>2
  <2> QED
    BY <2>1, <2>3, NoRunFits, CountedByScores DEF RunFits
<1>4. run.state \in Open => ~(run.stagnant >= MaxNonImproving)
  BY <1>1 DEF RunFits, Open, Terminal
<1> HIDE DEF Rewritten
<1>5. CASE StartAutonomousRun
  BY <1>3, <1>5, SaveAndReportInv DEF StartAutonomousRun, States
<1>6. CASE StartInterrupted
  <2>1. RunFits(run')
    BY <1>3, <1>6 DEF StartInterrupted, States
  <2> QED
    BY <1>6, <2>1, RunChanges DEF StartInterrupted
<1>7. CASE AutonomousStatus
  BY <1>1, <1>7, SaveAndReportInv DEF AutonomousStatus
<1>8. CASE PauseAutonomousRun
  BY <1>2, <1>4, <1>8, SaveAndReportInv DEF PauseAutonomousRun, States, Rewritten
<1>9. CASE ResumeAutonomousRun
  BY <1>2, <1>4, <1>9, SaveAndReportInv DEF ResumeAutonomousRun, States, Open, Rewritten
<1>10. CASE StopAutonomousRun
  BY <1>2, <1>4, <1>10, SaveAndReportInv DEF StopAutonomousRun, States, Rewritten
<1>11. CASE RecordAutonomousProgress
  BY <1>1, <1>11, SaveAndReportInv DEF RecordAutonomousProgress
<1>12. CASE Edit
  <2>1. PICK bulky \in BOOLEAN :
          workspace' = [workspace EXCEPT !.version = @ + 1, !.bulky = bulky]
    BY <1>12 DEF Edit
  <2>2. workspace' \in [state : {"live", "archived", "review_ready"}, version : Nat,
                         bulky : BOOLEAN]
    <3> DEFINE version == workspace.version + 1
    <3>1. version \in Nat /\ workspace \in [state : {"live", "archived", "review_ready"},
                                            version : Nat, bulky : BOOLEAN]
      BY DEF RunInv, Types
    <3>2. workspace' = [workspace EXCEPT !.version = version, !.bulky = bulky]
      BY <2>1
    <3> HIDE DEF version
    <3> QED
      BY <3>1, <3>2
  <2> QED
    BY <1>1, <1>12, <2>2, WorkspaceChanges DEF Edit
<1>13. CASE ArchiveWorkspace
  <2>1. PICK outcome \in {"archived", "review_ready"} : Archived(outcome)
    BY <1>13 DEF ArchiveWorkspace
  <2>2. workspace' \in [state : {"live", "archived", "review_ready"}, version : Nat,
                         bulky : BOOLEAN]
    BY <2>1 DEF RunInv, Types, Archived
  <2>3. RunFits(run')
    BY <1>1, <2>1, EndedRunsFit DEF Archived
  <2> QED
    BY <1>13, <2>2, <2>3, WorkspaceChanges DEF ArchiveWorkspace
<1>14. CASE CreateWorkspace
  <2>1. workspace' \in [state : {"live", "archived", "review_ready"}, version : Nat,
                         bulky : BOOLEAN]
    BY <1>14 DEF CreateWorkspace
  <2> QED
    BY <1>1, <1>14, <2>1, WorkspaceChanges DEF CreateWorkspace
<1> QED
  BY <1>5, <1>6, <1>7, <1>8, <1>9, <1>10, <1>11, <1>12, <1>13, <1>14 DEF ShortCalls

\* A call that goes on, or another one: the run, and what the call has in hand.
LEMMA EvaluateInv == ASSUME RunInv, EvaluateWorkspace PROVE RunInv'
<1> USE DEF EvaluateWorkspace, queues
<1>1. RunFits(run) /\ run \in RunType
  BY DEF RunInv, CountersFit, Types, RunFits
<1>2. ~(run.stagnant >= MaxNonImproving)
  BY <1>1 DEF RunFits, Terminal
<1>3. RunFits(run')
  <2>1. run' \in RunType /\ run'.scores = run.scores /\ run'.stagnant = run.stagnant
    BY <1>1 DEF RunType, States
  <2> QED
    BY <1>1, <1>2, <2>1, CountedByScores DEF RunFits
<1>4. /\ call'.at = "asking" /\ call'.payload = run' /\ call'.evidence = <<>>
      /\ call'.job = 0
  BY DEF Idle
<1>5. Len(<<>>) = 0 /\ Len(Checks) > 0
  BY RunAssumption
<1>6. Types'
  <2>1. call' \in [at : {"idle", "asking", "waiting", "concluding", "archiving", "archived",
                     "unlinked", "queueing"},
               payload : RunType, evidence : Seq(EvidenceType), job : JobIds \union {0}]
    BY <1>3, IdleFits DEF RunFits
  <2> QED
    BY <1>3, <2>1 DEF RunInv, Types, RunFits
<1>7. PreviewTypes'
  BY DEF RunInv, PreviewTypes
<1>8. CountersFit'
  BY <1>3, <1>4 DEF CountersFit, RunFits
<1>9. WorkerFits' /\ FreshResults' /\ CandidateFits'
  BY <1>4 DEF RunInv, WorkerFits, FreshResults, CandidateFits
<1>10. Evidence'
  BY <1>4, <1>5 DEF Evidence
<1>11. PreviewsFit'
  BY <1>4 DEF RunInv, PreviewsFit, AtPreview, Settled
<1> QED
  BY <1>6, <1>7, <1>8, <1>9, <1>10, <1>11 DEF RunInv

LEMMA QueueJobInv == ASSUME RunInv, QueueJob PROVE RunInv'
<1> USE DEF QueueJob
<1>1. CASE workspace.state = "live"
  <2> DEFINE j == Min(Fresh)
  <2>1. /\ j \in JobIds /\ j \notin queue /\ results[j].written = "none"
        /\ ~(worker.round = "checks" /\ worker.job = j)
    BY <1>1, FreshIsFresh
  <2>2. call' = [call EXCEPT !.at = "waiting", !.job = j] /\ queue' = queue \union {j}
    BY <1>1
  <2> HIDE DEF j
  <2>3. /\ call'.at = "waiting" /\ call'.payload = call.payload
        /\ call'.evidence = call.evidence /\ call'.job = j
    BY <2>2 DEF RunInv, Types
  <2>4. Types'
    BY <2>1, <2>2 DEF RunInv, Types
  <2>5. PreviewTypes' /\ CountersFit'
    BY <2>3 DEF RunInv, PreviewTypes, CountersFit
  <2>6. WorkerFits'
    BY <2>2 DEF RunInv, WorkerFits
  <2>7. FreshResults'
    BY <2>1, <2>3 DEF FreshResults
  <2>8. Evidence' /\ CandidateFits'
    BY <2>3 DEF RunInv, Evidence, CandidateFits
  <2>9. PreviewsFit'
    BY <2>3 DEF RunInv, PreviewsFit, AtPreview, Settled
  <2> QED
    BY <2>4, <2>5, <2>6, <2>7, <2>8, <2>9 DEF RunInv
<1>2. CASE workspace.state # "live"
  <2>1. RunFits(run')
    BY DEF RunInv, CountersFit, Types, RunFits
  <2> QED
    BY <1>2, <2>1, EndInv DEF Raise, queues
<1> QED
  BY <1>1, <1>2

LEMMA CollectResultInv == ASSUME RunInv, CollectResult PROVE RunInv'
<1> DEFINE res == results[call.job]
           n == Len(call.evidence)
           checked == [check |-> Checks[n + 1], passed |-> res.outcome = "passed",
                       version |-> res.version]
<1>1. /\ call.at = "waiting" /\ res.written = "whole" /\ call.job \in JobIds
      /\ res.version = workspace.version
      /\ results' = [results EXCEPT ![call.job] = NoResult]
      /\ UNCHANGED <<clock, workspace, run, queue, previewJob, preview, asked, overtaken,
                     worker, faults>>
  BY DEF CollectResult, RunInv, FreshResults
<1>2. RunFits(run')
  BY <1>1 DEF RunInv, CountersFit, Types, RunFits
<1>3. results' \in [JobIds -> [written : Written, outcome : Outcomes, version : Nat]]
  BY <1>1 DEF RunInv, Types, NoResult, Written, Outcomes
<1>4. WorkerFits' /\ PreviewTypes'
  BY <1>1 DEF RunInv, WorkerFits, PreviewTypes
<1>5. CASE res.outcome = "invalid"
  <2>1. call' = Idle
    BY <1>5 DEF CollectResult, Raise
  <2>2. Types'
    BY <1>1, <1>2, <1>3, <2>1, IdleFits DEF RunInv, Types, RunFits
  <2>3. PreviewsFit'
    BY <1>1, <2>1 DEF RunInv, PreviewsFit, AtPreview, Settled, Idle
  <2> QED
    BY <1>1, <1>2, <1>4, <2>1, <2>2, <2>3, ReturnInv
<1>6. CASE res.outcome # "invalid"
  <2>1. call' = [call EXCEPT !.job = 0, !.evidence = Append(@, checked),
                             !.at = IF n + 1 < Len(Checks) THEN "asking" ELSE "concluding"]
    BY <1>6 DEF CollectResult
  <2>2. call.evidence \in Seq(EvidenceType) /\ n \in Nat /\ n < Len(Checks)
    BY <1>1 DEF RunInv, Types, Evidence
  <2>3. Len(Checks) \in Nat /\ DOMAIN Checks = 1 .. Len(Checks)
    BY RunAssumption
  <2>4. checked \in EvidenceType
    <3>1. res \in [written : Written, outcome : Outcomes, version : Nat]
      BY <1>1 DEF RunInv, Types
    <3>2. n + 1 \in DOMAIN Checks
      BY <2>2, <2>3
    <3> QED
      BY <3>1, <3>2 DEF EvidenceType
  <2>5. checked.check = Checks[n + 1] /\ checked.version = workspace.version
    BY <1>1
  <2> HIDE DEF n, res, checked
  <2> DEFINE more == Append(call.evidence, checked)
  <2>6. /\ more \in Seq(EvidenceType) /\ Len(more) = n + 1 /\ more[n + 1] = checked
        /\ \A i \in 1 .. n : more[i] = call.evidence[i]
    BY <2>2, <2>4 DEF n
  <2> DEFINE stage == IF n + 1 < Len(Checks) THEN "asking" ELSE "concluding"
  <2>7. call' = [call EXCEPT !.job = 0, !.evidence = more, !.at = stage]
    BY <2>1
  <2> HIDE DEF more
  <2>8. /\ call'.at = stage /\ call'.payload = call.payload
        /\ call'.evidence = more /\ call'.job = 0
    BY <2>7 DEF RunInv, Types
  <2>9. Types'
    <3>1. call' \in [at : {"idle", "asking", "waiting", "concluding", "archiving", "archived",
                     "unlinked", "queueing"},
               payload : RunType, evidence : Seq(EvidenceType), job : JobIds \union {0}]
      BY <2>6, <2>7 DEF RunInv, Types
    <3> QED
      BY <1>1, <1>2, <1>3, <3>1 DEF RunInv, Types, RunFits
  <2>10. CountersFit'
    BY <1>1, <2>8 DEF RunInv, CountersFit
  <2>11. FreshResults' /\ CandidateFits'
    BY <2>8 DEF FreshResults, CandidateFits
  <2>12. Evidence'
    <3>1. \A i \in 1 .. n : call.evidence[i].check = Checks[i]
                            /\ call.evidence[i].version = workspace.version
      BY <1>1 DEF RunInv, Evidence, n
    <3>2. \A i \in 1 .. (n + 1) : i \in 1 .. n \/ i = n + 1
      BY <2>2
    <3>3. \A i \in 1 .. Len(more) : more[i].check = Checks[i]
                                   /\ more[i].version = workspace.version
      BY <2>5, <2>6, <3>1, <3>2
    <3>4. IF stage = "asking" THEN Len(more) < Len(Checks) ELSE Len(more) = Len(Checks)
      BY <2>2, <2>3, <2>6
    <3> QED
      BY <1>1, <2>8, <3>3, <3>4 DEF Evidence
  <2>13. PreviewsFit'
    BY <1>1, <2>8 DEF RunInv, PreviewsFit, AtPreview, Settled
  <2> QED
    BY <1>4, <2>9, <2>10, <2>11, <2>12, <2>13 DEF RunInv
<1> QED
  BY <1>5, <1>6

LEMMA CheckRaisesInv == ASSUME RunInv, CheckRaises PROVE RunInv'
<1>1. RunFits(run')
  BY DEF CheckRaises, RunInv, CountersFit, Types, RunFits
<1> QED
  BY <1>1, EndInv DEF CheckRaises, Raise

LEMMA UpTo ==
  ASSUME NEW n \in Nat
  PROVE  IsFiniteSet(1 .. n) /\ Cardinality(1 .. n) = n
<1>1. 1 \in Int /\ n \in Int
  OBVIOUS
<1>2. IsFiniteSet(1 .. n) /\ Cardinality(1 .. n) = IF 1 > n THEN 0 ELSE n - 1 + 1
  BY <1>1, FS_Interval
<1> QED
  BY <1>2

\* A full score is that of checks that have all passed.
LEMMA FullScore ==
  ASSUME NEW evidence \in Seq(EvidenceType),
         Cardinality({i \in DOMAIN evidence : evidence[i].passed}) = Len(evidence)
  PROVE  \A i \in 1 .. Len(evidence) : evidence[i].passed
<1> DEFINE N == Len(evidence)
           passes == {i \in DOMAIN evidence : evidence[i].passed}
<1>1. N \in Nat /\ DOMAIN evidence = 1 .. N
  OBVIOUS
<1>2. IsFiniteSet(1 .. N) /\ Cardinality(1 .. N) = N
  <2> HIDE DEF N
  <2> QED
    BY <1>1, UpTo
<1>3. passes \in SUBSET (1 .. N)
  BY <1>1
<1>4. passes = 1 .. N
  <2> HIDE DEF passes
  <2>1. Cardinality(1 .. N) = Cardinality(passes)
    BY <1>2 DEF passes
  <2> QED
    BY <1>2, <1>3, <2>1, FS_Subset
<1> QED
  <2> TAKE i \in 1 .. N
  <2> HIDE DEF N
  <2>1. i \in passes
    BY <1>4
  <2> QED
    BY <2>1

LEMMA ConcludeInv == ASSUME RunInv, Conclude PROVE RunInv'
<1> DEFINE r == Scored(call.payload, call.evidence)
           score == Cardinality({i \in DOMAIN call.evidence : call.evidence[i].passed})
<1>1. call.payload \in RunType /\ call.evidence \in Seq(EvidenceType) /\ Counted(call.payload)
  BY DEF RunInv, Types, CountersFit
<1>2. r \in RunType /\ Counted(r) /\ r.scores[Len(r.scores)] = score
  BY <1>1, ScoredFits
<1>3. \/ /\ r.scores[Len(r.scores)] = Len(Checks) /\ workspace.version > 0
         /\ call' = [call EXCEPT !.at = "archiving", !.payload = r]
         /\ UNCHANGED run
      \/ call' = Idle /\ run' = Status([r EXCEPT !.state = Verdict(r)])
  BY DEF Conclude
<1>4. call.at = "concluding" /\ UNCHANGED <<clock, workspace, queues, worker, faults>>
  BY DEF Conclude
<1> HIDE DEF r
<1>5. CASE call' = Idle /\ run' = Status([r EXCEPT !.state = Verdict(r)])
  <2> DEFINE new == [r EXCEPT !.state = Verdict(r)]
  <2>1. Verdict(r) \in {"running", "stopped"}
        /\ (r.stagnant >= MaxNonImproving => Verdict(r) = "stopped")
    BY DEF Verdict
  <2>2. /\ new \in RunType /\ new.scores = r.scores /\ new.stagnant = r.stagnant
        /\ new.state = Verdict(r)
    BY <1>2, <2>1 DEF RunType, States
  <2>3. RunFits(new)
    BY <1>2, <2>1, <2>2, CountedByScores DEF RunFits, Terminal
  <2>4. RunFits(run')
    BY <1>5, <2>2, <2>3, EndedRunsFit
  <2> QED
    BY <1>4, <1>5, <2>4, EndInv
<1>6. CASE /\ r.scores[Len(r.scores)] = Len(Checks) /\ workspace.version > 0
           /\ call' = [call EXCEPT !.at = "archiving", !.payload = r]
           /\ UNCHANGED run
  <2>1. /\ call'.at = "archiving" /\ call'.payload = r
        /\ call'.evidence = call.evidence /\ call'.job = call.job
    BY <1>6 DEF RunInv, Types
  <2>2. Len(call.evidence) = Len(Checks)
    BY <1>4 DEF RunInv, Evidence
  <2>3. \A i \in 1 .. Len(Checks) : call.evidence[i].passed
    <3>1. score = Len(call.evidence)
      BY <1>2, <1>6, <2>2
    <3> QED
      BY <1>1, <2>2, <3>1, FullScore
  <2>4. Types' /\ PreviewTypes'
    BY <1>2, <1>4, <1>6 DEF RunInv, Types, PreviewTypes, queues
  <2>5. CountersFit'
    BY <1>2, <1>6, <2>1 DEF RunInv, CountersFit
  <2>6. WorkerFits' /\ FreshResults'
    BY <1>4, <2>1 DEF RunInv, WorkerFits, FreshResults, queues
  <2>7. Evidence'
    BY <1>4, <2>1, <2>2 DEF RunInv, Evidence
  <2>8. CandidateFits'
    BY <1>4, <1>6, <2>1, <2>3 DEF CandidateFits
  <2>9. PreviewsFit'
    BY <1>4, <2>1 DEF RunInv, PreviewsFit, AtPreview, Settled, queues
  <2> QED
    BY <2>4, <2>5, <2>6, <2>7, <2>8, <2>9 DEF RunInv
<1> QED
  BY <1>3, <1>5, <1>6

LEMMA ArchiveCandidateInv == ASSUME RunInv, ArchiveCandidate PROVE RunInv'
<1> USE DEF ArchiveCandidate
<1>1. RunFits(run) /\ run \in RunType
  BY DEF RunInv, CountersFit, Types, RunFits
<1>2. RunFits(run')
  BY <1>1, EndedRunsFit DEF Archived
<1>3. /\ call'.at = "archived" /\ call'.payload = call.payload
      /\ call'.evidence = call.evidence /\ call'.job = call.job
  BY DEF RunInv, Types
<1>4. workspace'.state = "review_ready" /\ workspace'.version = workspace.version
      /\ workspace' \in [state : {"live", "archived", "review_ready"}, version : Nat,
                         bulky : BOOLEAN]
  BY DEF RunInv, Types, Archived
<1>5. Types' /\ PreviewTypes'
  BY <1>2, <1>4 DEF RunInv, Types, PreviewTypes, RunFits, queues
<1>6. CountersFit'
  BY <1>2, <1>3 DEF RunInv, CountersFit, RunFits
<1>7. WorkerFits' /\ FreshResults'
  BY <1>3 DEF RunInv, WorkerFits, FreshResults, queues
<1>8. Evidence' /\ CandidateFits'
  BY <1>3, <1>4 DEF RunInv, Evidence, CandidateFits
<1>9. PreviewsFit'
  BY <1>3 DEF RunInv, PreviewsFit, AtPreview, Settled, queues
<1> QED
  BY <1>5, <1>6, <1>7, <1>8, <1>9 DEF RunInv

LEMMA SaveCandidateInv == ASSUME RunInv, SaveCandidate PROVE RunInv'
<1>1. RunFits(run')
  <2>1. call.payload \in RunType /\ Counted(call.payload)
    BY DEF RunInv, Types, CountersFit
  <2>2. /\ run' \in RunType /\ run'.scores = call.payload.scores
        /\ run'.stagnant = call.payload.stagnant /\ run'.state = "review_ready"
    BY <2>1 DEF SaveCandidate, RunType, States
  <2> QED
    BY <2>1, <2>2, CountedByScores DEF RunFits, Terminal
<1> QED
  BY <1>1, EndInv DEF SaveCandidate

LEMMA TickInv == ASSUME RunInv, Tick PROVE RunInv'
<1> USE DEF Tick, queues
<1>1. Types' /\ PreviewTypes'
  BY DEF RunInv, Types, PreviewTypes
<1>2. CountersFit' /\ WorkerFits' /\ FreshResults' /\ Evidence' /\ CandidateFits'
  BY DEF RunInv, CountersFit, WorkerFits, FreshResults, Evidence, CandidateFits
<1>3. PreviewsFit'
  BY DEF RunInv, PreviewsFit, AtPreview, Settled
<1> QED
  BY <1>1, <1>2, <1>3 DEF RunInv

LEMMA ServiceFailsInv == ASSUME RunInv, ServiceFails PROVE RunInv'
<1>1. RunFits(run)
  BY DEF RunInv, CountersFit, Types, RunFits
<1>2. RunFits(run')
  BY <1>1, EndedRunsFit DEF ServiceFails
<1> QED
  BY <1>2, EndInv DEF ServiceFails, Raise

------------------------------------------------------------------------------
\* The preview of the task, and the worker.
LEMMA PreviewWorkspaceInv == ASSUME RunInv, PreviewWorkspace PROVE RunInv'
<1> USE DEF PreviewWorkspace
<1>1. RunFits(run')
  BY DEF RunInv, CountersFit, Types, RunFits
<1>2. call'.at = "unlinked" /\ call'.payload = NoRun /\ call' \in
       [at : {"idle", "asking", "waiting", "concluding", "archiving", "archived",
              "unlinked", "queueing"},
        payload : RunType, evidence : Seq(EvidenceType), job : JobIds \union {0}]
  BY IdleFits DEF Idle
<1>3. Types' /\ PreviewTypes'
  BY <1>2 DEF RunInv, Types, PreviewTypes, NoPreview, Written
<1>4. CountersFit'
  BY <1>1, <1>2, NoRunFits DEF CountersFit, RunFits
<1>5. WorkerFits' /\ FreshResults' /\ Evidence' /\ CandidateFits'
  BY <1>2 DEF RunInv, WorkerFits, FreshResults, Evidence, CandidateFits
<1>6. PreviewsFit'
  <2>1. preview'.written = "none"
    BY DEF NoPreview
  <2>2. UNCHANGED <<previewJob, worker, asked>>
    OBVIOUS
  <2>3. CASE previewJob.written = "none"
    BY <1>2, <2>1, <2>2, <2>3 DEF RunInv, PreviewsFit, AtPreview, Settled
  <2>4. CASE previewJob.written # "none"
    BY <1>2, <2>1, <2>2, <2>4 DEF RunInv, PreviewsFit, AtPreview, Settled
  <2> QED
    BY <2>3, <2>4
<1> QED
  BY <1>3, <1>4, <1>5, <1>6 DEF RunInv

LEMMA OpenPreviewJobInv == ASSUME RunInv, OpenPreviewJob PROVE RunInv'
<1> USE DEF OpenPreviewJob
<1>1. RunFits(run')
  BY DEF RunInv, CountersFit, Types, RunFits
<1>2. call'.at = "queueing" /\ call'.payload = NoRun /\ call' \in
       [at : {"idle", "asking", "waiting", "concluding", "archiving", "archived",
              "unlinked", "queueing"},
        payload : RunType, evidence : Seq(EvidenceType), job : JobIds \union {0}]
  BY IdleFits DEF Idle
<1>3. Types' /\ PreviewTypes'
  BY <1>2 DEF RunInv, Types, PreviewTypes, Written
<1>4. CountersFit'
  BY <1>1, <1>2, NoRunFits DEF CountersFit, RunFits
<1>5. WorkerFits' /\ FreshResults' /\ Evidence' /\ CandidateFits'
  BY <1>2 DEF RunInv, WorkerFits, FreshResults, Evidence, CandidateFits
<1>6. PreviewsFit'
  BY <1>2 DEF RunInv, PreviewsFit, AtPreview, Settled
<1> QED
  BY <1>3, <1>4, <1>5, <1>6 DEF RunInv

LEMMA WritePreviewJobInv == ASSUME RunInv, WritePreviewJob PROVE RunInv'
<1> USE DEF WritePreviewJob
<1>1. RunFits(run')
  BY DEF RunInv, CountersFit, Types, RunFits
<1>2. /\ previewJob' \in [written : Written, request : Nat]
      /\ previewJob'.request = previewJob.request
      /\ previewJob.written = "none" <=> previewJob'.written = "none"
  BY DEF RunInv, PreviewTypes, Written
<1>3. Types' /\ PreviewTypes'
  BY <1>2, IdleFits DEF RunInv, Types, PreviewTypes
<1>4. WorkerFits'
  BY DEF RunInv, WorkerFits
<1>5. PreviewsFit'
  BY <1>2 DEF RunInv, PreviewsFit, AtPreview, Settled, Idle
<1> QED
  BY <1>1, <1>3, <1>4, <1>5, ReturnInv

\* What a step of the worker leaves alone.
LEMMA WorkerStep ==
  ASSUME RunInv, UNCHANGED <<clock, workspace, run, call>>
  PROVE  CountersFit' /\ Evidence' /\ CandidateFits'
BY DEF RunInv, CountersFit, Evidence, CandidateFits

LEMMA WorkerListsInv == ASSUME RunInv, WorkerLists PROVE RunInv'
<1> USE DEF WorkerLists, queues
<1>1. CASE worker.round = "checks"
  <2> DEFINE todo == IF previewJob.written = "none" THEN {} ELSE {0}
  <2>1. worker' = [Waiting EXCEPT !.round = "previews", !.todo = todo]
    BY <1>1
  <2>2. todo \subseteq {0} /\ todo \in SUBSET Nat /\ (previewJob.written = "none" => todo = {})
    OBVIOUS
  <2> HIDE DEF todo
  <2>3. /\ worker'.round = "previews" /\ worker'.at = "listing" /\ worker'.todo = todo
        /\ worker'.job = 0 /\ worker'.version = 0
        /\ worker' \in [at : {"listing", "running", "writing", "done"}, todo : SUBSET Nat,
                        round : {"checks", "previews"}, job : Nat, version : Nat]
    <3>1. worker' = [at |-> "listing", todo |-> todo, round |-> "previews", job |-> 0,
                     version |-> 0]
      BY <2>1 DEF Waiting
    <3>2. "listing" \in {"listing", "running", "writing", "done"}
          /\ "previews" \in {"checks", "previews"} /\ 0 \in Nat
      OBVIOUS
    <3> HIDE DEF WorkerLists
    <3> QED
      BY <2>2, <3>1, <3>2
  <2>4. Types' /\ PreviewTypes'
    BY <2>3 DEF RunInv, Types, PreviewTypes
  <2>5. WorkerFits' /\ FreshResults'
    BY <2>3 DEF RunInv, WorkerFits, FreshResults
  <2>6. PreviewsFit'
    BY <2>2, <2>3 DEF RunInv, PreviewsFit, AtPreview, Settled
  <2> QED
    BY <2>4, <2>5, <2>6, WorkerStep DEF RunInv
<1>2. CASE worker.round # "checks"
  <2>1. JobIds \subseteq Nat \ {0} /\ queue \subseteq JobIds
    BY RunAssumption DEF RunInv, Types
  <2>2. /\ worker'.round = "checks" /\ worker'.at = "listing" /\ worker'.todo = queue
        /\ worker'.job = 0
        /\ worker' \in [at : {"listing", "running", "writing", "done"}, todo : SUBSET Nat,
                        round : {"checks", "previews"}, job : Nat, version : Nat]
    BY <1>2, <2>1 DEF Waiting
  <2>3. Types' /\ PreviewTypes'
    BY <2>2 DEF RunInv, Types, PreviewTypes
  <2>4. WorkerFits' /\ FreshResults'
    BY <2>1, <2>2 DEF RunInv, WorkerFits, FreshResults
  <2>5. PreviewsFit'
    BY <2>2 DEF RunInv, PreviewsFit, AtPreview, Settled
  <2> QED
    BY <2>3, <2>4, <2>5, WorkerStep DEF RunInv
<1> QED
  BY <1>1, <1>2

LEMMA WorkerTakesInv == ASSUME RunInv, WorkerTakes PROVE RunInv'
<1> USE DEF queues
<1>1. PICK j \in worker.todo :
        worker' = [worker EXCEPT !.at = "running", !.todo = @ \ {j},
                     !.job = IF worker.round = "checks" THEN j ELSE previewJob.request,
                     !.version = workspace.version]
  BY DEF WorkerTakes
<1>2. worker.at = "listing" /\ UNCHANGED <<clock, workspace, run, call, queues, faults>>
  BY DEF WorkerTakes
<1>3. worker \in [at : {"listing", "running", "writing", "done"}, todo : SUBSET Nat,
                 round : {"checks", "previews"}, job : Nat, version : Nat]
      /\ workspace.version \in Nat /\ previewJob.request \in Nat
  BY DEF RunInv, Types, PreviewTypes
<1>4. /\ worker'.round = worker.round /\ worker'.at = "running"
      /\ worker'.todo = worker.todo \ {j} /\ worker'.version = workspace.version
      /\ worker'.job = IF worker.round = "checks" THEN j ELSE previewJob.request
      /\ worker' \in [at : {"listing", "running", "writing", "done"}, todo : SUBSET Nat,
                      round : {"checks", "previews"}, job : Nat, version : Nat]
  BY <1>1, <1>3
<1>5. Types' /\ PreviewTypes'
  BY <1>2, <1>4 DEF RunInv, Types, PreviewTypes
<1>6. WorkerFits' /\ FreshResults'
  BY <1>2, <1>4 DEF RunInv, WorkerFits, FreshResults
<1>7. PreviewsFit'
  <2>1. CASE worker.round = "checks"
    BY <1>2, <1>3, <1>4, <2>1 DEF RunInv, PreviewsFit, AtPreview, Settled
  <2>2. CASE worker.round = "previews"
    <3>1. j = 0 /\ worker.todo = {0} /\ previewJob.written # "none"
      BY <1>2, <2>2 DEF RunInv, PreviewsFit, AtPreview
    <3>2. worker'.todo = {}
      BY <1>4, <3>1
    <3> QED
      BY <1>2, <1>4, <2>2, <3>1, <3>2 DEF RunInv, PreviewsFit, AtPreview, Settled
  <2> QED
    BY <1>3, <2>1, <2>2
<1> QED
  BY <1>2, <1>5, <1>6, <1>7, WorkerStep DEF RunInv

LEMMA WorkerOpensInv == ASSUME RunInv, WorkerOpens PROVE RunInv'
<1> USE DEF queues
<1>1. /\ worker.at = "running" /\ worker' = [worker EXCEPT !.at = "writing"]
      /\ UNCHANGED <<clock, workspace, run, call, queue, previewJob, asked, overtaken, faults>>
  BY DEF WorkerOpens
<1>2. worker \in [at : {"listing", "running", "writing", "done"}, todo : SUBSET Nat,
                 round : {"checks", "previews"}, job : Nat, version : Nat]
  BY DEF RunInv, Types
<1>3. /\ worker'.round = worker.round /\ worker'.at = "writing" /\ worker'.job = worker.job
      /\ worker'.todo = worker.todo /\ worker'.version = worker.version
      /\ worker' \in [at : {"listing", "running", "writing", "done"}, todo : SUBSET Nat,
                      round : {"checks", "previews"}, job : Nat, version : Nat]
  BY <1>1, <1>2
<1>4. WorkerFits'
  BY <1>1, <1>3 DEF RunInv, WorkerFits
<1>5. CASE worker.round = "checks"
  <2>1. results' = [results EXCEPT ![worker.job] = [NoResult EXCEPT !.written = "half"]]
        /\ preview' = preview
    BY <1>5 DEF WorkerOpens
  <2>2. results' \in [JobIds -> [written : Written, outcome : Outcomes, version : Nat]]
    BY <2>1 DEF RunInv, Types, NoResult, Written, Outcomes
  <2>3. Types' /\ PreviewTypes'
    BY <1>1, <1>3, <2>1, <2>2 DEF RunInv, Types, PreviewTypes
  <2>4. FreshResults'
    <3>1. \A j \in JobIds : results'[j].written = "whole" => results'[j] = results[j]
      BY <2>1 DEF RunInv, Types, NoResult
    <3> QED
      BY <1>1, <1>3, <3>1 DEF RunInv, FreshResults
  <2>5. PreviewsFit'
    BY <1>1, <1>3, <1>5, <2>1 DEF RunInv, PreviewsFit, AtPreview, Settled
  <2> QED
    BY <1>1, <1>4, <2>3, <2>4, <2>5, WorkerStep DEF RunInv
<1>6. CASE worker.round = "previews"
  <2>1. preview' = [written |-> "half", request |-> worker.job] /\ results' = results
    BY <1>6 DEF WorkerOpens
  <2>2. Types' /\ PreviewTypes'
    BY <1>1, <1>2, <1>3, <2>1 DEF RunInv, Types, PreviewTypes, Written
  <2>3. FreshResults'
    BY <1>1, <1>3, <2>1 DEF RunInv, FreshResults
  <2>4. PreviewsFit'
    BY <1>1, <1>3, <1>6, <2>1 DEF RunInv, PreviewsFit, AtPreview, Settled
  <2> QED
    BY <1>1, <1>4, <2>2, <2>3, <2>4, WorkerStep DEF RunInv
<1> QED
  BY <1>2, <1>5, <1>6

LEMMA WorkerWritesInv == ASSUME RunInv, WorkerWrites PROVE RunInv'
<1> USE DEF queues
<1>1. /\ worker.at = "writing" /\ worker' = [worker EXCEPT !.at = "done"]
      /\ UNCHANGED <<clock, workspace, run, call, queue, previewJob, asked, overtaken, faults>>
  BY DEF WorkerWrites
<1>2. worker \in [at : {"listing", "running", "writing", "done"}, todo : SUBSET Nat,
                 round : {"checks", "previews"}, job : Nat, version : Nat]
  BY DEF RunInv, Types
<1>3. /\ worker'.round = worker.round /\ worker'.at = "done" /\ worker'.job = worker.job
      /\ worker'.todo = worker.todo /\ worker'.version = worker.version
      /\ worker' \in [at : {"listing", "running", "writing", "done"}, todo : SUBSET Nat,
                      round : {"checks", "previews"}, job : Nat, version : Nat]
  BY <1>1, <1>2
<1>4. WorkerFits'
  BY <1>1, <1>3 DEF RunInv, WorkerFits
<1>5. CASE worker.round = "checks"
  <2>1. PICK outcome \in Outcomes :
          /\ preview' = preview
          /\ results' = [results EXCEPT ![worker.job] =
               [written |-> "whole", outcome |-> outcome, version |-> worker.version]]
    BY <1>5 DEF WorkerWrites
  <2>2. results' \in [JobIds -> [written : Written, outcome : Outcomes, version : Nat]]
    BY <1>2, <2>1 DEF RunInv, Types, Written
  <2>3. Types' /\ PreviewTypes'
    BY <1>1, <1>3, <2>1, <2>2 DEF RunInv, Types, PreviewTypes
  <2>4. FreshResults'
    <3>1. \A j \in JobIds : IF j = worker.job THEN results'[j].version = worker.version
                                             ELSE results'[j] = results[j]
      BY <2>1 DEF RunInv, Types
    <3> QED
      BY <1>1, <1>3, <1>5, <3>1 DEF RunInv, FreshResults
  <2>5. PreviewsFit'
    BY <1>1, <1>3, <1>5, <2>1 DEF RunInv, PreviewsFit, AtPreview, Settled
  <2> QED
    BY <1>1, <1>4, <2>3, <2>4, <2>5, WorkerStep DEF RunInv
<1>6. CASE worker.round = "previews"
  <2>1. /\ preview'.request = preview.request /\ results' = results
        /\ preview' \in [written : Written, request : Nat]
        /\ preview'.written # "none" => preview.written # "none"
    BY <1>6 DEF WorkerWrites, RunInv, PreviewTypes, Written
  <2>2. Types' /\ PreviewTypes'
    BY <1>1, <1>2, <1>3, <2>1 DEF RunInv, Types, PreviewTypes
  <2>3. FreshResults'
    BY <1>1, <1>3, <2>1 DEF RunInv, FreshResults
  <2>4. PreviewsFit'
    BY <1>1, <1>3, <1>6, <2>1 DEF RunInv, PreviewsFit, AtPreview, Settled
  <2> QED
    BY <1>1, <1>4, <2>2, <2>3, <2>4, WorkerStep DEF RunInv
<1> QED
  BY <1>2, <1>5, <1>6

LEMMA WorkerUnlinksInv == ASSUME RunInv, WorkerUnlinks PROVE RunInv'
<1> USE DEF queues
<1>1. /\ worker.at = "done"
      /\ worker' = [worker EXCEPT !.at = "listing", !.job = 0, !.version = 0]
      /\ UNCHANGED <<clock, workspace, run, call, results, preview, asked, overtaken, faults>>
  BY DEF WorkerUnlinks
<1>2. worker \in [at : {"listing", "running", "writing", "done"}, todo : SUBSET Nat,
                 round : {"checks", "previews"}, job : Nat, version : Nat]
      /\ 0 \notin JobIds
  BY RunAssumption DEF RunInv, Types
<1>3. /\ worker'.round = worker.round /\ worker'.at = "listing" /\ worker'.job = 0
      /\ worker'.todo = worker.todo
      /\ worker' \in [at : {"listing", "running", "writing", "done"}, todo : SUBSET Nat,
                      round : {"checks", "previews"}, job : Nat, version : Nat]
  BY <1>1, <1>2
<1>4. FreshResults'
  BY <1>1, <1>2, <1>3 DEF RunInv, FreshResults
<1>5. CASE worker.round = "checks"
  <2>1. queue' = queue \ {worker.job} /\ previewJob' = previewJob
    BY <1>5 DEF WorkerUnlinks
  <2>2. Types' /\ PreviewTypes'
    BY <1>1, <1>3, <2>1 DEF RunInv, Types, PreviewTypes
  <2>3. WorkerFits'
    BY <1>1, <1>3, <1>5, <2>1 DEF RunInv, WorkerFits
  <2>4. PreviewsFit'
    BY <1>1, <1>3, <1>5, <2>1 DEF RunInv, PreviewsFit, AtPreview, Settled
  <2> QED
    BY <1>1, <1>4, <2>2, <2>3, <2>4, WorkerStep DEF RunInv
<1>6. CASE worker.round = "previews"
  <2>1. previewJob' = NoPreview /\ queue' = queue
    BY <1>6 DEF WorkerUnlinks
  <2>2. Types' /\ PreviewTypes'
    BY <1>1, <1>3, <2>1 DEF RunInv, Types, PreviewTypes, NoPreview, Written
  <2>3. WorkerFits'
    BY <1>3, <1>6 DEF WorkerFits
  <2>4. PreviewsFit'
    BY <1>1, <1>3, <1>6, <2>1 DEF RunInv, PreviewsFit, AtPreview, Settled, NoPreview
  <2> QED
    BY <1>1, <1>4, <2>2, <2>3, <2>4, WorkerStep DEF RunInv
<1> QED
  BY <1>2, <1>5, <1>6

LEMMA WorkerFailsInv == ASSUME RunInv, WorkerFails PROVE RunInv'
<1> USE DEF WorkerFails, queues
<1>1. 0 \notin JobIds
  BY RunAssumption
<1>2. /\ worker'.round = "checks" /\ worker'.at = "listing" /\ worker'.job = 0
      /\ worker'.todo = {}
      /\ worker' \in [at : {"listing", "running", "writing", "done"}, todo : SUBSET Nat,
                      round : {"checks", "previews"}, job : Nat, version : Nat]
  BY DEF Waiting
<1>3. Types' /\ PreviewTypes'
  BY <1>2 DEF RunInv, Types, PreviewTypes
<1>4. WorkerFits' /\ FreshResults'
  BY <1>1, <1>2 DEF RunInv, WorkerFits, FreshResults
<1>5. PreviewsFit'
  BY <1>2 DEF RunInv, PreviewsFit, AtPreview, Settled
<1> QED
  BY <1>3, <1>4, <1>5, WorkerStep DEF RunInv

LEMMA NextInv == RunInv /\ [Next]_vars => RunInv'
<1> SUFFICES ASSUME RunInv, [Next]_vars PROVE RunInv'
  OBVIOUS
<1>1. CASE ShortCalls
  BY <1>1, ShortCallsInv
<1>2. CASE EvaluateWorkspace
  BY <1>2, EvaluateInv
<1>3. CASE Evaluation
  BY <1>3, QueueJobInv, CollectResultInv, CheckRaisesInv, ConcludeInv, ArchiveCandidateInv,
     SaveCandidateInv DEF Evaluation
<1>4. CASE PreviewWorkspace \/ Preview
  BY <1>4, PreviewWorkspaceInv, OpenPreviewJobInv, WritePreviewJobInv DEF Preview
<1>5. CASE Worker
  BY <1>5, WorkerListsInv, WorkerTakesInv, WorkerOpensInv, WorkerWritesInv, WorkerUnlinksInv
     DEF Worker
<1>6. CASE Tick \/ ServiceFails \/ WorkerFails
  BY <1>6, TickInv, ServiceFailsInv, WorkerFailsInv
<1>7. CASE UNCHANGED vars
  <2>1. RunFits(run')
    BY <1>7 DEF vars, RunInv, CountersFit, Types, RunFits
  <2> QED
    BY <1>7, <2>1, RunChanges DEF vars, queues
<1> QED
  BY <1>1, <1>2, <1>3, <1>4, <1>5, <1>6, <1>7 DEF Next

------------------------------------------------------------------------------
(***************************************************************************)
(* The theorems.                                                           *)
(***************************************************************************)

\* A run whose last evaluations were so many without a better score has ended, for any
\* number of evaluations, of crashes, and any budget (Verdict and the counter of
\* evaluate_workspace).
THEOREM PlateausEndTheRunHolds == Spec => []PlateausEndTheRun
<1>1. RunInv => PlateausEndTheRun
  <2> SUFFICES ASSUME RunInv,
                      Len(run.scores) > MaxNonImproving,
                      \A i \in Len(run.scores) - MaxNonImproving + 1 .. Len(run.scores) :
                        run.scores[i] <= run.scores[i - 1]
               PROVE  run.state \in Terminal
    BY DEF PlateausEndTheRun
  <2>1. PICK n \in Nat, s \in Nat : n = Len(run.scores) /\ s = run.stagnant
    BY DEF RunInv, Types, RunType
  <2>2. run.scores \in Seq(Nat) /\ Counted(run) /\ MaxNonImproving \in Nat \ {0}
    BY RunAssumption DEF RunInv, CountersFit, Types, RunType
  <2>3. s < n /\ (n - s > 1 => run.scores[n - s] > run.scores[n - s - 1])
    BY <2>1, <2>2 DEF Counted
  <2>4. ASSUME s < MaxNonImproving
        PROVE  FALSE
    <3> DEFINE k == n - s
    <3>1. k \in 1 .. n /\ k - 1 \in 1 .. n /\ k \in n - MaxNonImproving + 1 .. n
      <4>1. PICK m \in Nat : m = MaxNonImproving /\ s < m /\ m < n
        BY <2>1, <2>2, <2>4
      <4>2. n - s > 1 /\ n - s \in n - m + 1 .. n
        BY <4>1
      <4> QED
        BY <2>3, <4>1, <4>2, Back
    <3> HIDE DEF k
    <3>2. run.scores[k] <= run.scores[k - 1] /\ run.scores[k] > run.scores[k - 1]
      <4>1. n - s > 1
        BY <2>1, <2>2, <2>4
      <4> QED
        BY <2>1, <2>3, <3>1, <4>1 DEF k
    <3>3. run.scores[k] \in Nat /\ run.scores[k - 1] \in Nat
      <4>1. k \in 1 .. Len(run.scores) /\ k - 1 \in 1 .. Len(run.scores)
        BY <2>1, <3>1
      <4> QED
        BY <2>2, <4>1
    <3> QED
      BY <3>2, <3>3
  <2> QED
    BY <2>1, <2>2, <2>4 DEF RunInv, CountersFit
<1> QED
  BY <1>1, InitInv, NextInv, PTL DEF Spec

\* A run becomes review-ready only when its workspace has just been archived as a
\* candidate and every check has passed on the version in the archive, whatever stale
\* jobs and results there are (run_check, mark_review_ready).
THEOREM CandidatesHavePassedHolds == Spec => CandidatesHavePassed
<1> DEFINE Passed ==
      run.state # "review_ready" /\ run'.state = "review_ready" =>
        /\ workspace'.state = "review_ready" /\ workspace'.version > 0
        /\ \A i \in DOMAIN Checks :
             call.evidence[i] = [check |-> Checks[i], passed |-> TRUE,
                                 version |-> workspace'.version]
<1>1. ASSUME RunInv, [Next]_vars
      PROVE  [Passed]_vars
  <2> SUFFICES ASSUME run.state # "review_ready", run'.state = "review_ready"
               PROVE  Passed
    BY DEF vars
  <2>1. SaveCandidate
    <3>1. run \in RunType
      BY <1>1 DEF RunInv, Types
    <3>2. \A r \in RunType : r.state # "review_ready" => Status(r).state # "review_ready"
      BY StatusKeeps
    <3>3. ~ShortCalls
      <4>1. ASSUME NEW new, new \in RunType, new.state # "review_ready", SaveAndReport(new)
            PROVE  FALSE
        BY <3>2, <4>1 DEF SaveAndReport, NoRun
      <4> DEFINE Rewritten(s) == [run EXCEPT !.state = s]
                 Started == [NoRun EXCEPT !.state = "running", !.started = clock]
      <4>2. \A s \in States : Rewritten(s) \in RunType /\ Rewritten(s).state = s
        BY <3>1 DEF RunType
      <4>3. Started \in RunType /\ Started.state = "running"
        BY <1>1, NoRunFits DEF RunInv, Types, RunType, States
      <4>4. Rewritten("paused") \in RunType /\ Rewritten("paused").state = "paused"
            /\ Rewritten("running") \in RunType /\ Rewritten("running").state = "running"
            /\ Rewritten("stopped") \in RunType /\ Rewritten("stopped").state = "stopped"
        BY <4>2 DEF States
      <4>5. ~StartAutonomousRun /\ ~AutonomousStatus /\ ~PauseAutonomousRun
            /\ ~ResumeAutonomousRun /\ ~StopAutonomousRun /\ ~RecordAutonomousProgress
        <5> HIDE DEF Started, Rewritten
        <5> QED
          BY <3>1, <4>1, <4>3, <4>4 DEF StartAutonomousRun, AutonomousStatus, PauseAutonomousRun,
             ResumeAutonomousRun, StopAutonomousRun, RecordAutonomousProgress, Started, Rewritten
      <4>6. ~StartInterrupted
        BY DEF StartInterrupted, NoRun
      <4>7. ~Edit /\ ~CreateWorkspace
        BY DEF Edit, CreateWorkspace
      <4>8. ~ArchiveWorkspace
        BY <3>1, <3>2 DEF ArchiveWorkspace, Archived
      <4> QED
        BY <4>5, <4>6, <4>7, <4>8 DEF ShortCalls
    <3>4. ~EvaluateWorkspace
      BY <3>1 DEF EvaluateWorkspace, RunType
    <3>5. ~Conclude
      <4> SUFFICES ASSUME Conclude PROVE FALSE
        OBVIOUS
      <4> DEFINE r == Scored(call.payload, call.evidence)
      <4>1. r \in RunType
        BY <1>1, ScoredFits DEF RunInv, Types, CountersFit
      <4>2. run' = Status([r EXCEPT !.state = Verdict(r)])
        BY DEF Conclude
      <4> HIDE DEF r
      <4>3. [r EXCEPT !.state = Verdict(r)] \in RunType
            /\ [r EXCEPT !.state = Verdict(r)].state # "review_ready"
        BY <4>1 DEF RunType, States, Verdict
      <4> QED
        BY <3>2, <4>2, <4>3
    <3>6. ~ArchiveCandidate
      BY <3>1, <3>2 DEF ArchiveCandidate, Archived
    <3>7. ~QueueJob /\ ~CollectResult /\ ~CheckRaises
      BY DEF QueueJob, CollectResult, CheckRaises
    <3>8. ~PreviewWorkspace /\ ~Preview /\ ~Worker /\ ~Tick /\ ~WorkerFails
      BY DEF PreviewWorkspace, Preview, OpenPreviewJob, WritePreviewJob, Worker, WorkerLists,
         WorkerTakes, WorkerOpens, WorkerWrites, WorkerUnlinks, Tick, WorkerFails
    <3>9. ~ServiceFails
      BY DEF ServiceFails, NoRun
    <3>10. ~(UNCHANGED vars)
      BY DEF vars
    <3> QED
      BY <1>1, <3>3, <3>4, <3>5, <3>6, <3>7, <3>8, <3>9, <3>10 DEF Next, Evaluation
  <2>2. call.at = "archived" /\ workspace' = workspace
    BY <2>1 DEF SaveCandidate
  <2>3. /\ workspace.state = "review_ready" /\ workspace.version > 0
        /\ Len(call.evidence) = Len(Checks)
        /\ \A i \in 1 .. Len(Checks) :
             /\ call.evidence[i].passed /\ call.evidence[i].check = Checks[i]
             /\ call.evidence[i].version = workspace.version
    BY <1>1, <2>2 DEF RunInv, CandidateFits, Evidence
  <2>4. \A i \in 1 .. Len(Checks) : call.evidence[i] \in EvidenceType
    BY <1>1, <2>3, RunAssumption DEF RunInv, Types
  <2>5. DOMAIN Checks = 1 .. Len(Checks)
    BY RunAssumption
  <2>6. \A i \in DOMAIN Checks :
          call.evidence[i] = [check |-> Checks[i], passed |-> TRUE, version |-> workspace.version]
    BY <2>3, <2>4, <2>5 DEF EvidenceType
  <2> QED
    BY <2>2, <2>3, <2>6
<1> QED
  BY <1>1, InitInv, NextInv, PTL DEF Spec, CandidatesHavePassed

\* The safety part of PreviewsAreServed: what is shown answers the last request, unless
\* that was made while the job of an earlier one was still in the directory
\* (preview_workspace, and the worker's way of removing a job by its name).
THEOREM ShownPreviewIsTheLast ==
  Spec => [](preview.written = "whole" => preview.request = asked \/ asked \in overtaken)
<1>1. RunInv => (preview.written = "whole" => preview.request = asked \/ asked \in overtaken)
  BY DEF RunInv, PreviewsFit, Settled
<1> QED
  BY <1>1, InitInv, NextInv, PTL DEF Spec
==============================================================================
