---------------------------- MODULE RepoWorkspaces ----------------------------
(***************************************************************************)
(* The disposable workspaces of repo-ops (repo_ops/core.py,                *)
(* RepoOpsManager) and the sweeper that archives and expires them          *)
(* (cleanup_workspaces, repo_ops/lifecycle.py).                            *)
(*                                                                         *)
(* The MCP service, the lab worker and the sweeper are processes with a    *)
(* manager each.  They share directories and nothing locks them: a         *)
(* lifecycle record is loaded, changed and saved, an archive is written,   *)
(* the worktree removed and the record saved, and another process or a     *)
(* crash may come between any two of these.  A process does one call at a  *)
(* time: the service's tools block its event loop.                         *)
(***************************************************************************)
EXTENDS Naturals, Sequences

CONSTANTS
  Tasks,             \* task identifiers, in the order of their record files
  Named,             \* those a client may choose; restored ones get others
  Clients,           \* the processes with a manager, the sweeper excepted
  WorkspaceTtl,      \* workspace_ttl_days
  ArchiveTtl,        \* archive_ttl_days
  SweeperAutonomy,   \* autonomy_enabled of the sweeper; compose leaves it off
  Horizon,           \* bound: the last day
  MaxEdits,          \* bound: edits of one worktree
  MaxArchives,       \* bound: a task with so many archives is not made again
  MaxFaults          \* bound: crashes and failed commands

ASSUME WorkspacesAssumption ==
  /\ Tasks \subseteq Nat \ {0} /\ Named \subseteq Tasks
  /\ WorkspaceTtl \in Nat \ {0} /\ ArchiveTtl \in Nat \ {0}
  /\ SweeperAutonomy \in BOOLEAN
  /\ Horizon \in Nat /\ MaxEdits \in Nat
  /\ MaxArchives \in Nat /\ MaxFaults \in Nat
  /\ "sweeper" \notin Clients

VARIABLES
  today,          \* the clock, in days
  record,         \* record[t]: the lifecycle record of task t
  worktree,       \* worktree[t]: its directory; the version counts edits
  archives,       \* archives[t]: the archive directories made for t; each is
                  \* partial, complete, removing or gone, of a whole worktree or not
  tombstones,     \* tombstones.jsonl: archives <<t, n>> that were expired
  autonomy,       \* tasks with an autonomous-run record
  proc,           \* proc[p]: the call process p is in, and how far (at)
  sweep,          \* sweep[t]: what the current sweep has still to do for t
  faults,         \* crashes and failures so far
  created         \* auxiliary: tasks given a complete worktree, as a first one

vars == <<today, record, worktree, archives, tombstones, autonomy, proc, sweep,
          faults, created>>

Procs == Clients \union {"sweeper"}
Live == {"active", "paused"}
NoRecord == [state |-> "absent", last_activity_at |-> 0, archive |-> 0]
Unreadable == [NoRecord EXCEPT !.state = "unreadable"]
NoTree == [there |-> "none", version |-> 0]
Idle == [at |-> "idle", task |-> 0, payload |-> NoRecord, dir |-> 0,
         version |-> 0, from |-> 0]

Init ==
  /\ today = 0
  /\ record = [t \in Tasks |-> NoRecord]
  /\ worktree = [t \in Tasks |-> NoTree]
  /\ archives = [t \in Tasks |-> <<>>]
  /\ tombstones = <<>>
  /\ autonomy = {} /\ created = {} /\ faults = 0
  /\ proc = [p \in Procs |-> Idle]
  /\ sweep = [t \in Tasks |-> NoRecord]

------------------------------------------------------------------------------
(***************************************************************************)
(* Calls.                                                                  *)
(***************************************************************************)

\* What a sweep has still to do is done in the order of the record files.
Todo == {t \in Tasks : sweep[t] # NoRecord}

\* The call of process p returns; of a sweep, the part for its task is done.
Return(p) ==
  /\ proc' = [proc EXCEPT ![p] = Idle]
  /\ sweep' = IF p = "sweeper" THEN [sweep EXCEPT ![proc[p].task] = NoRecord]
                               ELSE sweep

\* The call raises.  Nothing in the sweeper catches it: the sweep is over.
Raise(p) ==
  /\ proc' = [proc EXCEPT ![p] = Idle]
  /\ sweep' = IF p = "sweeper" THEN [t \in Tasks |-> NoRecord] ELSE sweep

GoTo(p, stage) == proc' = [proc EXCEPT ![p].at = stage]

\* A loaded record, changed, about to be saved.
SaveNext(p, t, payload) ==
  proc' = [proc EXCEPT ![p] = [Idle EXCEPT !.at = "saving", !.task = t,
                                           !.payload = payload]]

Touched(t) == [record[t] EXCEPT !.last_activity_at = today]

\* _save_lifecycle, at the end of every call that changes a record.
Save(p) ==
  LET t == proc[p].task IN
  /\ proc[p].at = "saving"
  /\ record' = [record EXCEPT ![t] = proc[p].payload]
  /\ IF proc[p].from = 0
       THEN Return(p)
       ELSE GoTo(p, "extracting") /\ UNCHANGED sweep
  /\ created' = IF record[t].state = "absent" /\ proc[p].from = 0
                  THEN created \union {t} ELSE created
  /\ UNCHANGED <<today, worktree, archives, tombstones, autonomy, faults>>

\* Calls and sweeps take minutes (every command times out), the times to live
\* are days: no call ages a record by a day.
NextDay ==
  /\ today < Horizon
  /\ Todo = {} /\ \A p \in Procs : proc[p].at = "idle"
  /\ today' = today + 1
  /\ UNCHANGED <<record, worktree, archives, tombstones, autonomy, proc, sweep,
                 faults, created>>

(***************************************************************************)
(* The service: edits, leases, pauses and autonomous runs.                 *)
(***************************************************************************)

\* write_file and the other calls that end in _touch_activity, which leaves
\* records that are not live alone.
Edit(p, t) ==
  /\ proc[p].at = "idle"
  /\ worktree[t].there = "whole" /\ worktree[t].version < MaxEdits
  /\ worktree' = [worktree EXCEPT ![t].version = @ + 1]
  /\ IF record[t].state \in Live THEN SaveNext(p, t, Touched(t)) ELSE UNCHANGED proc
  /\ UNCHANGED <<today, record, archives, tombstones, autonomy, sweep, faults, created>>

RenewWorkspaceLease(p, t) ==
  /\ proc[p].at = "idle"
  /\ record[t].state \in Live
  /\ SaveNext(p, t, Touched(t))
  /\ UNCHANGED <<today, record, worktree, archives, tombstones, autonomy, sweep,
                 faults, created>>

PauseWorkspace(p, t) ==
  /\ proc[p].at = "idle"
  /\ record[t].state = "active" /\ worktree[t].there # "none"
  /\ SaveNext(p, t, [record[t] EXCEPT !.state = "paused"])
  /\ UNCHANGED <<today, record, worktree, archives, tombstones, autonomy, sweep,
                 faults, created>>

StartAutonomousRun(p, t) ==
  /\ proc[p].at = "idle"
  /\ worktree[t].there # "none" /\ t \notin autonomy
  /\ autonomy' = autonomy \union {t}
  /\ IF record[t].state \in Live THEN SaveNext(p, t, Touched(t)) ELSE UNCHANGED proc
  /\ UNCHANGED <<today, record, worktree, archives, tombstones, sweep, faults, created>>

(***************************************************************************)
(* create_workspace and restore_workspace.                                 *)
(***************************************************************************)
Clone(p, t, from, dir) ==
  /\ proc[p].at = "idle"
  /\ worktree[t].there = "none" /\ Len(archives[t]) < MaxArchives
  /\ worktree' = [worktree EXCEPT ![t] = [there |-> "partial", version |-> 0]]
  /\ proc' = [proc EXCEPT ![p] = [Idle EXCEPT !.at = "cloning", !.task = t,
                                              !.from = from, !.dir = dir]]
  /\ UNCHANGED <<today, record, archives, tombstones, autonomy, sweep, faults, created>>

\* Only the directory is asked for: a record of the task is written over.
CreateWorkspace(p, t) == t \in Named /\ Clone(p, t, 0, 0)

\* The clone has its branch and its locked remote; _create_lifecycle.
Cloned(p) ==
  LET t == proc[p].task IN
  /\ proc[p].at = "cloning"
  /\ worktree' = [worktree EXCEPT ![t].there = "whole"]
  /\ proc' = [proc EXCEPT
       ![p].at = "saving",
       ![p].payload = [NoRecord EXCEPT !.state = "active",
                                       !.last_activity_at = today]]
  /\ UNCHANGED <<today, record, archives, tombstones, autonomy, sweep, faults, created>>

Available(t, n) == n \in 1 .. Len(archives[t]) /\ archives[t][n].state = "complete"

\* The archive is checked first; the restored workspace has an identifier of
\* its own, made from the time.
RestoreWorkspace(p, t, r) ==
  /\ record[t].state \in {"archived", "review_ready"}
  /\ Available(t, record[t].archive)
  /\ r \notin Named /\ record[r].state = "absent"
  /\ Clone(p, r, t, record[t].archive)

\* _safe_extract, or its exception handler if the archive has gone meanwhile.
Extract(p) ==
  LET r == proc[p].task  t == proc[p].from  n == proc[p].dir IN
  /\ proc[p].at = "extracting"
  /\ IF Available(t, n)
       THEN /\ worktree' = [worktree EXCEPT ![r] =
                 [there |-> IF archives[t][n].whole THEN "whole" ELSE "partial",
                  version |-> archives[t][n].version]]
            /\ created' = IF archives[t][n].whole THEN created \union {r} ELSE created
            /\ UNCHANGED record
       ELSE /\ worktree' = [worktree EXCEPT ![r] = NoTree]
            /\ record' = [record EXCEPT ![r] = NoRecord]
            /\ UNCHANGED created
  /\ Return(p)
  /\ UNCHANGED <<today, archives, tombstones, autonomy, faults>>

(***************************************************************************)
(* archive_workspace and mark_review_ready.                                *)
(***************************************************************************)
Archivable(t) == record[t].state \in Live /\ worktree[t].there # "none"

\* task_report asks for the status of a task's autonomous run, which raises in
\* a process where autonomy is not enabled.
ReportRaises(p, t) == p = "sweeper" /\ ~SweeperAutonomy /\ t \in autonomy

\* (The version is for the properties: the edits there are to keep.  A damaged
\* worktree has lost its own already.)
BeginArchive(p, t, outcome) ==
  /\ proc[p].at = "idle"
  /\ Archivable(t)
  /\ ~ReportRaises(p, t)
  /\ proc' = [proc EXCEPT ![p] =
       [Idle EXCEPT !.at = "reporting", !.task = t,
                    !.version = IF worktree[t].there = "whole" THEN worktree[t].version ELSE 0,
                    !.payload = [record[t] EXCEPT !.state = outcome]]]
  /\ UNCHANGED <<today, record, worktree, archives, tombstones, autonomy, sweep,
                 faults, created>>

ArchiveWorkspace(p, t) == BeginArchive(p, t, "archived")

\* A review candidate has a diff (and a recorded check).
MarkReviewReady(p, t) ==
  /\ worktree[t].version > 0
  /\ BeginArchive(p, t, "review_ready")

WriteTree_CommittedTree(p) ==
  LET t == proc[p].task  tree == worktree[t] IN
  /\ proc[p].at = "reporting" /\ tree.there # "none"
  /\ archives' = [archives EXCEPT ![t] = Append(@,
       [state |-> "partial", whole |-> tree.there = "whole",
        version |-> 0, archived_at |-> today])]
  /\ proc' = [proc EXCEPT ![p].at = "archiving", ![p].dir = Len(archives'[t])]
  /\ UNCHANGED <<today, record, worktree, tombstones, autonomy, sweep, faults, created>>

\* _write_workspace_archive: a new directory and the tar of the worktree ...
WriteTree(p) ==
  LET t == proc[p].task  tree == worktree[t] IN
  /\ proc[p].at = "reporting" /\ tree.there # "none"
  /\ archives' = [archives EXCEPT ![t] = Append(@,
       [state |-> "partial", whole |-> tree.there = "whole",
        version |-> tree.version, archived_at |-> today])]
  /\ proc' = [proc EXCEPT ![p].at = "archiving", ![p].dir = Len(archives'[t])]
  /\ UNCHANGED <<today, record, worktree, tombstones, autonomy, sweep, faults, created>>

\* ... and, once diff, report and evidence are there, the signed manifest.
WriteManifest(p) ==
  LET t == proc[p].task IN
  /\ proc[p].at = "archiving" /\ worktree[t].there # "none"
  /\ archives' = [archives EXCEPT ![t][proc[p].dir].state = "complete"]
  /\ proc' = [proc EXCEPT ![p].at = "archived", ![p].payload.archive = proc[p].dir]
  /\ UNCHANGED <<today, record, worktree, tombstones, autonomy, sweep, faults, created>>

BeginRemoval_BeforeManifest(p) ==
  LET t == proc[p].task IN
  /\ proc[p].at \in {"archiving", "archived"} /\ worktree[t].there # "none"
  /\ worktree' = [worktree EXCEPT ![t].there = "partial"]
  /\ GoTo(p, "removing")
  /\ UNCHANGED <<today, record, archives, tombstones, autonomy, sweep, faults, created>>

\* shutil.rmtree(workspace) removes one entry after the other.
BeginRemoval(p) ==
  LET t == proc[p].task IN
  /\ proc[p].at = "archived" /\ worktree[t].there # "none"
  /\ worktree' = [worktree EXCEPT ![t].there = "partial"]
  /\ GoTo(p, "removing")
  /\ UNCHANGED <<today, record, archives, tombstones, autonomy, sweep, faults, created>>

EndRemoval(p) ==
  LET t == proc[p].task IN
  /\ proc[p].at = "removing" /\ worktree[t].there # "none"
  /\ worktree' = [worktree EXCEPT ![t] = NoTree]
  /\ GoTo(p, "saving")
  /\ UNCHANGED <<today, record, archives, tombstones, autonomy, sweep, faults, created>>

\* A worktree that another process has removed, or a damaged one Git refuses.
ArchiveRaises(p) ==
  LET t == proc[p].task IN
  /\ proc[p].at \in {"reporting", "archiving", "archived", "removing"}
  /\ \/ worktree[t].there = "none"
     \/ worktree[t].there = "partial" /\ proc[p].at = "reporting"
  /\ Raise(p)
  /\ UNCHANGED <<today, record, worktree, archives, tombstones, autonomy, faults, created>>

(***************************************************************************)
(* cleanup_workspaces.                                                     *)
(***************************************************************************)
Stale(rec) ==
  rec.state \in Live /\ rec.last_activity_at + WorkspaceTtl <= today

Expired(t, rec) ==
  /\ rec.state = "archived" /\ rec.archive # 0
  /\ archives[t][rec.archive].archived_at + ArchiveTtl <= today

Due(t, rec) == Stale(rec) \/ Expired(t, rec)

BeginSweep_PausedLeftOut ==
  /\ proc["sweeper"].at = "idle" /\ Todo = {}
  /\ sweep' = [t \in Tasks |->
       IF Due(t, record[t]) /\ record[t].state # "paused" THEN record[t] ELSE NoRecord]
  /\ UNCHANGED <<today, record, worktree, archives, tombstones, autonomy, proc,
                 faults, created>>

\* list_workspaces reads all records, and leaves out those it finds unreadable
\* or half written.
BeginSweep ==
  /\ proc["sweeper"].at = "idle" /\ Todo = {}
  /\ \E skipped \in SUBSET {proc[p].task : p \in {q \in Clients : proc[q].at = "saving"}} :
       sweep' = [t \in Tasks |-> IF Due(t, record[t]) /\ t \notin skipped
                                   THEN record[t] ELSE NoRecord]
  /\ UNCHANGED <<today, record, worktree, archives, tombstones, autonomy, proc,
                 faults, created>>

SweepsNext(t) ==
  /\ proc["sweeper"].at = "idle"
  /\ t \in Todo /\ \A u \in Todo : t <= u

SweepArchives(t) ==
  /\ SweepsNext(t) /\ sweep[t].state \in Live
  /\ ArchiveWorkspace("sweeper", t)

\* shutil.rmtree(archive): it must be there, if only in part.
SweepExpires(t) ==
  LET n == sweep[t].archive IN
  /\ SweepsNext(t) /\ sweep[t].state \notin Live
  /\ archives[t][n].state # "gone"
  /\ archives' = [archives EXCEPT ![t][n].state = "removing"]
  /\ proc' = [proc EXCEPT !["sweeper"] =
       [Idle EXCEPT !.at = "expiring", !.task = t, !.dir = n,
                    !.payload = [sweep[t] EXCEPT !.state = "expired"]]]
  /\ UNCHANGED <<today, record, worktree, tombstones, autonomy, sweep, faults, created>>

ArchiveRemoved_Unburied ==
  LET t == proc["sweeper"].task  n == proc["sweeper"].dir IN
  /\ proc["sweeper"].at = "expiring"
  /\ archives' = [archives EXCEPT ![t][n].state = "gone"]
  /\ GoTo("sweeper", "saving")
  /\ UNCHANGED <<today, record, worktree, tombstones, autonomy, sweep, faults, created>>

ArchiveRemoved ==
  LET t == proc["sweeper"].task  n == proc["sweeper"].dir IN
  /\ proc["sweeper"].at = "expiring"
  /\ archives' = [archives EXCEPT ![t][n].state = "gone"]
  /\ GoTo("sweeper", "burying")
  /\ UNCHANGED <<today, record, worktree, tombstones, autonomy, sweep, faults, created>>

\* _append_tombstone; the record that is saved next is the one of the list.
Bury ==
  /\ proc["sweeper"].at = "burying"
  /\ tombstones' = Append(tombstones, <<proc["sweeper"].task, proc["sweeper"].dir>>)
  /\ GoTo("sweeper", "saving")
  /\ UNCHANGED <<today, record, worktree, archives, autonomy, sweep, faults, created>>

\* An archive that raises at once, or an expiry without an archive directory.
SweepRaises(t) ==
  /\ SweepsNext(t)
  /\ IF sweep[t].state \in Live
       THEN ~Archivable(t) \/ ReportRaises("sweeper", t)
       ELSE archives[t][sweep[t].archive].state = "gone"
  /\ sweep' = [u \in Tasks |-> NoRecord]
  /\ UNCHANGED <<today, record, worktree, archives, tombstones, autonomy, proc,
                 faults, created>>

(***************************************************************************)
(* A process is killed, or a command or a write fails.  create_workspace   *)
(* and restore_workspace tidy up after most failures and after no crash.   *)
(* (Between two calls there is nothing to lose: the next sweep starts      *)
(* afresh.)                                                                *)
(***************************************************************************)
Fail(p) ==
  LET t == proc[p].task IN
  /\ proc[p].at # "idle" /\ faults < MaxFaults
  /\ faults' = faults + 1
  /\ \/ proc[p].at \notin {"cloning", "extracting"} /\ UNCHANGED <<record, worktree>>
     \/ /\ proc[p].at = "saving"
        /\ record' = [record EXCEPT ![t] = Unreadable]
        /\ UNCHANGED worktree
     \/ /\ proc[p].at = "cloning"
        /\ \E there \in {"none", "partial", "whole"} :
             worktree' = [worktree EXCEPT ![t].there = there]
        /\ UNCHANGED record
     \/ /\ proc[p].at = "extracting"
        /\ \/ UNCHANGED <<record, worktree>>
           \/ /\ worktree' = [worktree EXCEPT ![t] = NoTree]
              /\ record' \in {record, [record EXCEPT ![t] = NoRecord]}
  /\ Raise(p)
  /\ UNCHANGED <<today, archives, tombstones, autonomy, created>>

ClientCalls(p, t) ==
  \/ Edit(p, t)
  \/ RenewWorkspaceLease(p, t)
  \/ PauseWorkspace(p, t)
  \/ StartAutonomousRun(p, t)
  \/ CreateWorkspace(p, t)
  \/ ArchiveWorkspace(p, t)
  \/ MarkReviewReady(p, t)
  \/ \E r \in Tasks : RestoreWorkspace(p, t, r)

\* A call that has begun goes on.
Proceed(p) ==
  \/ Save(p)
  \/ Cloned(p)
  \/ Extract(p)
  \/ WriteTree(p)
  \/ WriteManifest(p)
  \/ BeginRemoval(p)
  \/ EndRemoval(p)
  \/ ArchiveRaises(p)

Sweeper ==
  \/ BeginSweep
  \/ \E t \in Tasks : SweepArchives(t)
  \/ \E t \in Tasks : SweepExpires(t)
  \/ \E t \in Tasks : SweepRaises(t)
  \/ ArchiveRemoved
  \/ Bury

Next ==
  \/ NextDay
  \/ \E p \in Clients, t \in Tasks : ClientCalls(p, t)
  \/ \E p \in Procs : Proceed(p)
  \/ Sweeper
  \/ \E p \in Procs : Fail(p)

Spec == Init /\ [][Next]_vars

(***************************************************************************)
(* Calls end (commands have timeouts), the sweeper's loop comes round and  *)
(* the process is restarted whenever it has ended.                         *)
(***************************************************************************)
Fairness ==
  /\ \A p \in Procs : WF_vars(Proceed(p))
  /\ WF_vars(Sweeper)

FairSpec == Spec /\ Fairness

------------------------------------------------------------------------------
(***************************************************************************)
(* Properties.                                                             *)
(***************************************************************************)

\* No crash, failure or race loses a task: once it was given a complete
\* worktree there is one, or a complete archive of a complete worktree, until
\* an archive of it is expired on purpose ("Archives include the worktree";
\* archive_workspace removes it only after the manifest is written).
WorkIsKept ==
  \A t \in created :
    \/ worktree[t].there = "whole"
    \/ \E n \in 1 .. Len(archives[t]) :
         archives[t][n].state = "complete" /\ archives[t][n].whole
    \/ \E n \in 1 .. Len(archives[t]) : archives[t][n].state \in {"removing", "gone"}

\* Nothing is removed before its time.  When the removal of a whole worktree begins,
\* what a whole one held when its archive was begun is in a complete archive, also
\* if service and sweeper archive the same task (an edit made after the tar is lost
\* with the worktree).  An archive is removed only when it has had its time, and
\* never while the record calls it a review candidate, however old the list the
\* sweep works on ("removes their archives after 14 days", "protected from
\* automatic expiry").
RemovalKeepsTheWork ==
  [][/\ \A p \in Procs, t \in created :
          ( /\ proc[p].task = t /\ proc[p].at = "archived" /\ proc'[p].at = "removing"
            /\ worktree[t].there = "whole" )
          => \E n \in 1 .. Len(archives[t]) :
               /\ archives[t][n].state = "complete" /\ archives[t][n].whole
               /\ archives[t][n].version >= proc[p].version
     /\ \A t \in Tasks : \A n \in 1 .. Len(archives[t]) :
          archives[t][n].state = "complete" /\ archives'[t][n].state # "complete" =>
            /\ archives[t][n].archived_at + ArchiveTtl <= today
            /\ ~(record[t].state = "review_ready" /\ record[t].archive = n)]_vars

\* Expired archives are gone and buried once, whatever was interrupted: a
\* tombstone is never of an archive that is there, no archive has two, and an
\* expired record has the tombstone of its archive.
ExpiriesAreBuried ==
  /\ \A i \in 1 .. Len(tombstones) :
       /\ archives[tombstones[i][1]][tombstones[i][2]].state = "gone"
       /\ \A j \in 1 .. Len(tombstones) : tombstones[i] = tombstones[j] => i = j
  /\ \A t \in Tasks : record[t].state = "expired" =>
       \E i \in 1 .. Len(tombstones) : tombstones[i] = <<t, record[t].archive>>

\* What ends a sweep at task u whenever it comes to it, and not because a call
\* is about to save the record: a worktree that is gone or damaged, an
\* autonomous run, an archive that is gone.
Blocking(u) ==
  /\ Due(u, record[u])
  /\ \A p \in Procs :
       proc[p].task = u => proc[p].at \notin {"removing", "burying", "saving"}
  /\ IF record[u].state \in Live
       THEN worktree[u].there # "whole" \/ ReportRaises("sweeper", u)
       ELSE archives[u][record[u].archive].state = "gone"

\* Workspaces past their time are archived and archives past theirs expired in
\* the end, unless one of them, or one before them, ends every sweep.
SweptUnlessBlocked ==
  \A t \in Tasks :
    Due(t, record[t]) ~>
      (~Due(t, record[t]) \/ \E u \in Tasks : u <= t /\ Blocking(u))
==============================================================================
