------------------------- MODULE RepoWorkspacesProofs -------------------------
(***************************************************************************)
(* Proofs about module RepoWorkspaces, for any tasks, times to live and    *)
(* bounds.  What is said of archives and expiries holds for any number of  *)
(* processes.  What is said of the work in a workspace is said of one      *)
(* service beside the sweeper: with two of them one may make a task again  *)
(* that the other is about to archive.                                     *)
(*                                                                         *)
(* ArchiveInv says what may refer to an archive, and how far it is:        *)
(* records, the list of the sweep, calls, tombstones.  WorkInv follows the *)
(* work: a removal begins only with a fresh archive, one that no sweep of  *)
(* today takes away, and the record speaks of it as long as it is fresh.   *)
(***************************************************************************)
EXTENDS RepoWorkspaces, SequenceTheorems, TLAPS

Kept == {"archived", "review_ready", "expired"}

States == {"absent", "unreadable"} \union Live \union Kept

Records == [state : States, last_activity_at : Nat, archive : Nat]

Archives == [state : {"partial", "complete", "removing", "gone"}, whole : BOOLEAN,
             version : Nat, archived_at : Nat]

Worktrees == [there : {"none", "partial", "whole"}, version : Nat]

Stages == {"idle", "cloning", "saving", "extracting", "reporting", "archiving", "archived",
           "removing", "expiring", "burying"}

Calls == [at : Stages, task : Nat, payload : Records, dir : Nat, version : Nat, from : Nat]

Types ==
  /\ today \in Nat
  /\ record \in [Tasks -> Records]
  /\ worktree \in [Tasks -> Worktrees]
  /\ archives \in [Tasks -> Seq(Archives)]
  /\ tombstones \in Seq(Tasks \X Nat)
  /\ autonomy \subseteq Tasks /\ created \subseteq Tasks
  /\ proc \in [Procs -> Calls]
  /\ sweep \in [Tasks -> Records]

------------------------------------------------------------------------------
(***************************************************************************)
(* Archives and what refers to them.                                       *)
(***************************************************************************)
Has(t, n) == n \in 1 .. Len(archives[t])

\* Whatever says something of an archive of task t: its record, the list of the sweep,
\* and the records about to be saved.
Says(t, rec) ==
  \/ rec = record[t]
  \/ rec = sweep[t]
  \/ \E p \in Procs : proc[p].task = t /\ rec = proc[p].payload

\* It is an archive that was completed, and it is said for what.
Names(t, rec) ==
  rec.archive > 0 =>
    /\ rec.state \in Kept
    /\ Has(t, rec.archive) /\ archives[t][rec.archive].state # "partial"

Agree(a, b) ==
  a.archive > 0 /\ a.archive = b.archive =>
    (a.state = "review_ready" <=> b.state = "review_ready")

ReferencesFit(t) ==
  /\ \A a : Says(t, a) => Names(t, a)
  /\ \A a, b : Says(t, a) /\ Says(t, b) => Agree(a, b)

\* An archive nobody refers to but the call that makes it.
Unsaid(p) ==
  LET t == proc[p].task  n == proc[p].dir IN
  /\ record[t].archive # n /\ sweep[t].archive # n
  /\ \A q \in Procs \ {p} : proc[q].task = t => proc[q].payload.archive # n

Buried(t, n) == \E i \in 1 .. Len(tombstones) : tombstones[i] = <<t, n>>

CallFits(p) ==
  LET call == proc[p]  t == proc[p].task  n == proc[p].dir IN
  /\ call.at = "idle" => call = Idle
  /\ call.at # "idle" => t \in Tasks
  /\ call.at \in {"reporting", "archiving"} =>
       call.payload.archive = 0 /\ call.payload.state \in {"archived", "review_ready"}
  /\ call.at = "archiving" =>
       /\ Has(t, n) /\ archives[t][n].state = "partial"
       /\ archives[t][n].archived_at = today
       /\ \A q \in Procs : proc[q].at = "archiving" /\ proc[q].task = t /\ proc[q].dir = n => q = p
  /\ call.at \in {"archived", "removing"} =>
       /\ call.payload.archive = n /\ call.payload.state \in {"archived", "review_ready"}
       /\ Has(t, n) /\ archives[t][n].state = "complete"
       /\ archives[t][n].archived_at = today
       /\ Unsaid(p)
  /\ call.at \in {"expiring", "burying"} =>
       /\ Has(t, n) /\ call.payload.archive = n /\ call.payload.state = "expired"
       /\ archives[t][n].state = IF call.at = "expiring" THEN "removing" ELSE "gone"
       /\ ~Buried(t, n)
  /\ call.at \in {"cloning", "extracting", "expiring", "burying"} =>
       (p = "sweeper" <=> call.at \in {"expiring", "burying"})
  /\ call.from # 0 =>
       /\ p # "sweeper" /\ call.from \in Tasks
       /\ call.at \in {"cloning", "saving", "extracting"}
  /\ call.at = "extracting" => call.from # 0
  /\ call.payload.state = "expired" => p = "sweeper" /\ call.at \in {"expiring", "burying", "saving"}
  /\ call.at = "saving" => call.payload.state \in Live \union Kept
  /\ call.at = "saving" /\ call.payload.state = "expired" => Buried(t, call.payload.archive)

SweepFits(t) ==
  \/ sweep[t] = NoRecord
  \/ sweep[t].state \in Live
  \/ /\ sweep[t].state = "archived" /\ sweep[t].archive > 0
     /\ archives[t][sweep[t].archive].archived_at + ArchiveTtl <= today

TombstonesFit ==
  \A i \in 1 .. Len(tombstones) :
    /\ Has(tombstones[i][1], tombstones[i][2])
    /\ archives[tombstones[i][1]][tombstones[i][2]].state = "gone"
    /\ \A j \in 1 .. Len(tombstones) : tombstones[i] = tombstones[j] => i = j

ArchiveInv ==
  /\ Types
  /\ \A t \in Tasks : ReferencesFit(t) /\ SweepFits(t)
  /\ \A p \in Procs : CallFits(p)
  /\ TombstonesFit
  /\ \A t \in Tasks : record[t].state = "expired" => Buried(t, record[t].archive)

------------------------------------------------------------------------------
(***************************************************************************)
(* The work in a workspace.                                                *)
(***************************************************************************)
Whole(t) == worktree[t].there = "whole"

\* A complete archive that no sweep of today takes away.
Fresh(t, n) ==
  /\ Has(t, n) /\ archives[t][n].state = "complete" /\ archives[t][n].whole
  /\ sweep[t].archive # n
  /\ \A a : Says(t, a) /\ a.archive = n => archives[t][n].archived_at = today

HasFresh(t, v) == \E n \in 1 .. Len(archives[t]) : Fresh(t, n) /\ archives[t][n].version >= v

\* A task with a record was made, one without is unknown to the sweeper.
MadeFits(t) ==
  /\ t \in created => record[t].state # "absent"
  /\ record[t].state = "absent" => proc["sweeper"].task # t /\ sweep[t] = NoRecord

\* The service makes a workspace, archives one, or saves a record.
ServiceFits(c) ==
  LET call == proc[c]  t == proc[c].task  n == proc[c].dir IN
  /\ call.at \in {"cloning", "saving", "extracting"} /\ call.from # 0 =>
       /\ t \notin created /\ proc["sweeper"].task # t /\ sweep[t] = NoRecord
       /\ call.at \in {"cloning", "saving"} => record[t].state = "absent"
       /\ call.at = "saving" =>
            call.payload.state \in Live /\ call.payload.last_activity_at = today
       /\ call.at = "extracting" =>
            record[t].state \in Live /\ record[t].last_activity_at = today
  /\ call.at = "saving" /\ record[t].state = "absent" => Whole(t) \/ call.from # 0
  /\ call.at \in {"reporting", "archiving", "archived", "removing"} => record[t].state # "absent"
  /\ call.at \in {"cloning", "removing"} => ~Whole(t)
  /\ call.at \in {"reporting", "archiving", "archived"} /\ Whole(t) =>
       worktree[t].version >= call.version
  /\ call.at \in {"archiving", "archived"} /\ Whole(t) =>
       archives[t][n].whole /\ archives[t][n].version = worktree[t].version

\* The sweeper archives a workspace beside the service.
SweeperFits ==
  LET call == proc["sweeper"]  t == proc["sweeper"].task  n == proc["sweeper"].dir IN
  /\ call.at \in {"reporting", "archiving", "archived", "removing"} => sweep[t].state \in Live
  /\ call.at = "saving" => call.payload.state \in Kept
  /\ call.from = 0
  /\ t \in created =>
       /\ call.at = "reporting" =>
            \/ Whole(t) /\ worktree[t].version >= call.version
            \/ HasFresh(t, call.version)
       /\ call.at = "archiving" =>
            \/ archives[t][n].whole /\ archives[t][n].version >= call.version
            \/ HasFresh(t, call.version)
       /\ call.at \in {"archived", "removing"} => HasFresh(t, call.version)

\* A task that may be archived has its work.
MayBeLive(c, t) ==
  \/ record[t].state \in Live
  \/ proc[c].at = "saving" /\ proc[c].task = t /\ proc[c].payload.state \in Live

LiveFits(c, t) == t \in created /\ ~Whole(t) /\ MayBeLive(c, t) => HasFresh(t, 0)

WorkInv(c) ==
  /\ ArchiveInv
  /\ \A t \in Tasks : MadeFits(t) /\ LiveFits(c, t)
  /\ ServiceFits(c) /\ SweeperFits
  /\ WorkIsKept

------------------------------------------------------------------------------
(***************************************************************************)
(* What a step of process p may do to archives and to what refers to them. *)
(***************************************************************************)
LEMMA TasksAreNatural == Tasks \subseteq Nat /\ 0 \notin Tasks
BY WorkspacesAssumption

LEMMA CallTypes ==
  ASSUME Types, NEW p \in Procs
  PROVE  /\ proc[p] \in Calls /\ proc[p].payload \in Records /\ proc[p].payload.state \in States
         /\ proc[p].at \in Stages /\ proc[p].task \in Nat /\ proc[p].dir \in Nat
         /\ proc[p].payload.archive \in Nat /\ proc[p].payload.last_activity_at \in Nat
         /\ proc[p].version \in Nat /\ proc[p].from \in Nat
BY DEF Types, Calls, Records

LEMMA TaskTypes ==
  ASSUME Types, NEW t \in Tasks
  PROVE  /\ record[t] \in Records /\ record[t].state \in States /\ record[t].archive \in Nat
         /\ sweep[t] \in Records /\ sweep[t].state \in States /\ sweep[t].archive \in Nat
         /\ archives[t] \in Seq(Archives) /\ Len(archives[t]) \in Nat
         /\ \A n : Has(t, n) => /\ archives[t][n] \in Archives /\ n \in Nat \ {0}
                                /\ archives[t][n].archived_at \in Nat
<1>1. /\ record[t] \in Records /\ record[t].state \in States /\ record[t].archive \in Nat
      /\ sweep[t] \in Records /\ sweep[t].state \in States /\ sweep[t].archive \in Nat
  BY DEF Types, Records
<1>2. archives[t] \in Seq(Archives) /\ Len(archives[t]) \in Nat
  BY DEF Types
<1>3. \A n \in 1 .. Len(archives[t]) : archives[t][n] \in Archives /\ n \in Nat \ {0}
  BY <1>2
<1>4. \A a \in Archives : a.archived_at \in Nat
  BY DEF Archives
<1> QED
  BY <1>1, <1>2, <1>3, <1>4 DEF Has

\* The archive (t, n) is marked, and nothing else becomes of the archives.
Marked(t, n, value) ==
  /\ DOMAIN archives' = Tasks
  /\ \A u \in Tasks : archives'[u] \in Seq(Archives) /\ Len(archives'[u]) = Len(archives[u])
  /\ \A u \in Tasks : \A m \in 1 .. Len(archives[u]) :
       archives'[u][m] = IF u = t /\ m = n THEN [archives[u][m] EXCEPT !.state = value]
                                           ELSE archives[u][m]

LEMMA MarkedByExcept ==
  ASSUME Types, NEW t \in Tasks, NEW n, Has(t, n),
         NEW value \in {"partial", "complete", "removing", "gone"},
         archives' = [archives EXCEPT ![t][n].state = value]
  PROVE  Marked(t, n, value) /\ archives' \in [Tasks -> Seq(Archives)]
<1> DEFINE e == [archives[t][n] EXCEPT !.state = value]
           s == [archives[t] EXCEPT ![n] = e]
<1>1. archives[t] \in Seq(Archives) /\ n \in 1 .. Len(archives[t]) /\ archives[t][n] \in Archives
  BY TaskTypes DEF Has
<1>2. e \in Archives
  BY <1>1 DEF Archives
<1>3. archives' = [archives EXCEPT ![t] = s]
  OBVIOUS
<1> HIDE DEF e
<1>4. /\ s \in Seq(Archives) /\ Len(s) = Len(archives[t])
      /\ \A j \in 1 .. Len(archives[t]) : s[j] = IF j = n THEN e ELSE archives[t][j]
  BY <1>1, <1>2, ExceptSeq
<1> HIDE DEF s
<1>5. archives \in [Tasks -> Seq(Archives)]
  BY DEF Types
<1>6. archives' \in [Tasks -> Seq(Archives)]
  BY <1>3, <1>4, <1>5
<1>7. \A u \in Tasks : archives'[u] = IF u = t THEN s ELSE archives[u]
  BY <1>3, <1>5
<1>8. \A u \in Tasks : \A m \in 1 .. Len(archives[u]) :
        archives'[u][m] = IF u = t /\ m = n THEN e ELSE archives[u][m]
  BY <1>4, <1>7
<1> QED
  BY <1>4, <1>5, <1>6, <1>7, <1>8 DEF Marked, e

\* An archive is begun for task t.
Begun(t, entry) ==
  /\ DOMAIN archives' = Tasks
  /\ \A u \in Tasks : /\ archives'[u] \in Seq(Archives)
                      /\ Len(archives'[u]) = IF u = t THEN Len(archives[u]) + 1 ELSE Len(archives[u])
                      /\ \A m \in 1 .. Len(archives[u]) : archives'[u][m] = archives[u][m]
  /\ archives'[t][Len(archives[t]) + 1] = entry

LEMMA BegunByAppend ==
  ASSUME Types, NEW t \in Tasks, NEW entry \in Archives,
         archives' = [archives EXCEPT ![t] = Append(@, entry)]
  PROVE  Begun(t, entry) /\ archives' \in [Tasks -> Seq(Archives)]
<1>1. archives \in [Tasks -> Seq(Archives)] /\ archives[t] \in Seq(Archives)
  BY DEF Types
<1>2. \A u \in Tasks : archives'[u] = IF u = t THEN Append(archives[u], entry) ELSE archives[u]
  BY <1>1
<1>3. /\ Append(archives[t], entry) \in Seq(Archives)
      /\ Len(Append(archives[t], entry)) = Len(archives[t]) + 1
      /\ \A m \in 1 .. Len(archives[t]) : Append(archives[t], entry)[m] = archives[t][m]
      /\ Append(archives[t], entry)[Len(archives[t]) + 1] = entry
  BY <1>1, AppendProperties
<1> QED
  BY <1>1, <1>2, <1>3 DEF Begun

\* Archives are added; they keep what they hold; they are completed by the call that makes
\* them and removed by the sweeper.
ArchivesMove(p) ==
  \A t \in Tasks, n \in Nat :
    /\ Has(t, n) =>
         /\ Has(t, n)'
         /\ archives'[t][n].whole = archives[t][n].whole
         /\ archives'[t][n].version = archives[t][n].version
         /\ archives'[t][n].archived_at = archives[t][n].archived_at
         /\ \/ archives'[t][n].state = archives[t][n].state
            \/ /\ proc[p].at = "archiving" /\ t = proc[p].task /\ n = proc[p].dir
               /\ archives'[t][n].state = "complete"
            \/ /\ p = "sweeper" /\ proc[p].at = "idle" /\ n = sweep[t].archive
               /\ sweep[t].state = "archived" /\ archives[t][n].state # "gone"
               /\ archives'[t][n].state = "removing"
            \/ /\ p = "sweeper" /\ proc[p].at = "expiring" /\ t = proc[p].task /\ n = proc[p].dir
               /\ archives'[t][n].state = "gone"
    /\ ~Has(t, n) /\ Has(t, n)' => archives'[t][n].state = "partial"

\* Who may say what of an archive after the step.
ReferencesMove(p) ==
  /\ \A q \in Procs : q # p => proc'[q] = proc[q]
  /\ \A t \in Tasks : \/ record'[t] = record[t]
                      \/ record'[t] \in {NoRecord, Unreadable}
                      \/ /\ proc[p].at = "saving" /\ t = proc[p].task
                         /\ record'[t] = proc[p].payload
  /\ \A t \in Tasks : sweep'[t] \in {sweep[t], NoRecord, record[t]}
  /\ \/ proc'[p].payload.archive = 0
     \/ proc'[p].task = proc[p].task /\ proc'[p].payload = proc[p].payload
     \/ /\ sweep[proc'[p].task].state = "archived"
        /\ proc'[p].payload = [sweep[proc'[p].task] EXCEPT !.state = "expired"]
     \/ /\ proc[p].at = "archiving" /\ proc'[p].at = "archived"
        /\ proc'[p].task = proc[p].task
        /\ archives'[proc[p].task][proc[p].dir].state = "complete"
        /\ proc'[p].payload = [proc[p].payload EXCEPT !.archive = proc[p].dir]

LEMMA ReferencesStay ==
  ASSUME ArchiveInv, Types', NEW p \in Procs, ArchivesMove(p), ReferencesMove(p),
         NEW t \in Tasks
  PROVE  ReferencesFit(t)'
<1> DEFINE n == proc[p].dir
           New(a) == /\ proc[p].at = "archiving" /\ t = proc[p].task
                     /\ a.archive = n /\ archives'[t][n].state = "complete"
                     /\ a.state = proc[p].payload.state
           Old(a, b) == /\ Says(t, b) /\ a.archive = b.archive
                        /\ a.archive > 0 => a.state \in Kept
                        /\ a.state = "review_ready" <=> b.state = "review_ready"
<1>1. ReferencesFit(t) /\ SweepFits(t) /\ CallFits(p) /\ Types
  BY DEF ArchiveInv
<1>2. \A a : Says(t, a) => a.archive \in Nat
  BY <1>1, CallTypes, TaskTypes DEF Says
<1>3. \A a : Says(t, a) => Old(a, a)
  BY <1>1 DEF ReferencesFit, Names
<1>4. ASSUME NEW a, Says(t, a)'
      PROVE  a.archive = 0 \/ New(a) \/ \E b : Old(a, b)
  <2>1. CASE a = record'[t]
    <3>1. record'[t].archive = 0 \/ Says(t, a)
      BY <2>1 DEF ReferencesMove, Says, NoRecord, Unreadable
    <3> QED
      BY <2>1, <3>1, <1>3
  <2>2. CASE a = sweep'[t]
    <3>1. a.archive = 0 \/ Says(t, a)
      BY <2>2 DEF ReferencesMove, Says, NoRecord
    <3> QED
      BY <3>1, <1>3
  <2>3. CASE \E q \in Procs : proc'[q].task = t /\ a = proc'[q].payload
    <3> PICK q \in Procs : proc'[q].task = t /\ a = proc'[q].payload
      BY <2>3
    <3>1. CASE Says(t, a)
      BY <3>1, <1>3
    <3>2. CASE a.archive = 0
      BY <3>2
    <3>3. CASE /\ q = p /\ sweep[t].state = "archived"
               /\ a = [sweep[t] EXCEPT !.state = "expired"]
      <4>1. Says(t, sweep[t]) /\ sweep[t] \in Records
        BY <1>1, TaskTypes DEF Says
      <4>2. a.archive = sweep[t].archive /\ a.state = "expired"
        BY <3>3, <4>1 DEF Records
      <4>3. Old(a, sweep[t])
        BY <3>3, <4>1, <4>2 DEF Kept
      <4> QED
        BY <4>3
    <3>4. CASE /\ q = p /\ proc[p].at = "archiving" /\ t = proc[p].task
               /\ archives'[t][n].state = "complete"
               /\ a = [proc[p].payload EXCEPT !.archive = n]
      <4>1. proc[p].payload \in Records
        BY <1>1, CallTypes
      <4>2. a.archive = n /\ a.state = proc[p].payload.state
        BY <3>4, <4>1 DEF Records
      <4> QED
        BY <3>4, <4>2
    <3>5. Says(t, a) \/ q = p
      BY DEF ReferencesMove, Says
    <3>6. q = p => Says(t, a) \/ a.archive = 0
                   \/ (sweep[t].state = "archived" /\ a = [sweep[t] EXCEPT !.state = "expired"])
                   \/ (/\ proc[p].at = "archiving" /\ t = proc[p].task
                       /\ archives'[t][n].state = "complete"
                       /\ a = [proc[p].payload EXCEPT !.archive = n])
      BY DEF ReferencesMove, Says
    <3> QED
      BY <3>1, <3>2, <3>3, <3>4, <3>5, <3>6
  <2> QED
    BY <1>4, <2>1, <2>2, <2>3 DEF Says
<1>5. ASSUME proc[p].at = "archiving", t = proc[p].task
      PROVE  /\ Has(t, n) /\ archives[t][n].state = "partial" /\ n \in Nat \ {0}
             /\ proc[p].payload.state \in Kept
             /\ \A b : Says(t, b) => b.archive # n
  BY <1>1, <1>5, TaskTypes DEF CallFits, ReferencesFit, Names, Kept
<1>6. ASSUME NEW a, a.archive > 0, a.archive = 0 \/ New(a) \/ \E b : Old(a, b), a.archive \in Nat
      PROVE  Names(t, a)'
  <2>1. CASE New(a)
    BY <1>5, <2>1 DEF Names, ArchivesMove
  <2>2. CASE \E b : Old(a, b)
    <3> PICK b : Old(a, b)
      BY <2>2
    <3>1. Names(t, b)
      BY <1>1 DEF ReferencesFit
    <3>2. Has(t, a.archive) /\ archives[t][a.archive].state # "partial" /\ a.state \in Kept
      BY <1>6, <3>1 DEF Names
    <3>3. Has(t, a.archive)' /\ archives'[t][a.archive].state # "partial"
      BY <1>6, <3>2 DEF ArchivesMove
    <3> QED
      BY <3>2, <3>3 DEF Names
  <2> QED
    BY <1>6, <2>1, <2>2
<1>7. \A a : Says(t, a)' => a.archive \in Nat
  <2>1. \A q \in Procs : proc'[q].payload.archive \in Nat
    BY DEF Types, Calls, Records
  <2>2. record'[t].archive \in Nat /\ sweep'[t].archive \in Nat
    BY DEF Types, Records
  <2> QED
    BY <2>1, <2>2 DEF Says
<1>8. ASSUME NEW a, NEW b, Says(t, a)', Says(t, b)', a.archive > 0, a.archive = b.archive
      PROVE  a.state = "review_ready" <=> b.state = "review_ready"
  <2>1. (New(a) \/ \E x : Old(a, x)) /\ (New(b) \/ \E y : Old(b, y))
    BY <1>4, <1>8
  <2>2. CASE New(a) /\ New(b)
    BY <2>2
  <2>3. CASE (New(a) /\ \E y : Old(b, y)) \/ (New(b) /\ \E x : Old(a, x))
    BY <1>5, <1>8, <2>3
  <2>4. CASE (\E x : Old(a, x)) /\ (\E y : Old(b, y))
    <3> PICK x, y : Old(a, x) /\ Old(b, y)
      BY <2>4
    <3>1. Agree(x, y)
      BY <1>1 DEF ReferencesFit
    <3> QED
      BY <1>8, <3>1 DEF Agree
  <2> QED
    BY <2>1, <2>2, <2>3, <2>4
<1> QED
  <2> HIDE DEF New, Old
  <2>1. \A a : Says(t, a)' => Names(t, a)'
    <3> TAKE a
    <3>1. CASE Says(t, a)' /\ a.archive > 0
      BY <1>4, <1>6, <1>7, <3>1
    <3>2. CASE ~(a.archive > 0)
      BY <3>2 DEF Names
    <3> QED
      BY <3>1, <3>2
  <2>2. \A a, b : Says(t, a)' /\ Says(t, b)' => Agree(a, b)
    BY <1>8 DEF Agree
  <2> QED
    BY <2>1, <2>2 DEF ReferencesFit

\* The sweeper buries what it has removed.
TombstonesMove(p) ==
  \/ tombstones' = tombstones
  \/ /\ p = "sweeper" /\ proc[p].at = "burying"
     /\ tombstones' = Append(tombstones, <<proc[p].task, proc[p].dir>>)

LEMMA BuriedLonger ==
  ASSUME ArchiveInv, NEW p \in Procs, TombstonesMove(p)
  PROVE  \A t, n : Buried(t, n)' <=> \/ Buried(t, n)
                                     \/ /\ tombstones' # tombstones
                                        /\ t = proc[p].task /\ n = proc[p].dir
<1>1. CASE tombstones' = tombstones
  BY <1>1 DEF Buried
<1>2. CASE /\ p = "sweeper" /\ proc[p].at = "burying"
           /\ tombstones' = Append(tombstones, <<proc[p].task, proc[p].dir>>)
  <2> DEFINE e == <<proc[p].task, proc[p].dir>>
  <2>1. Types /\ CallFits(p) /\ proc[p].dir \in Nat
    BY CallTypes DEF ArchiveInv
  <2>2. tombstones \in Seq(Tasks \X Nat) /\ e \in Tasks \X Nat
    BY <1>2, <2>1 DEF Types, CallFits
  <2>3. Len(tombstones) \in Nat /\ Len(tombstones') = Len(tombstones) + 1
        /\ (\A i \in 1 .. Len(tombstones) : tombstones'[i] = tombstones[i])
        /\ tombstones'[Len(tombstones) + 1] = e
    BY <1>2, <2>2, AppendProperties
  <2> PICK m \in Nat : m = Len(tombstones)
    BY <2>3
  <2>4. 1 .. m + 1 = (1 .. m) \union {m + 1}
    OBVIOUS
  <2>5. tombstones' # tombstones
    BY <2>3
  <2>6. \A t, n : Buried(t, n)' <=> Buried(t, n) \/ <<t, n>> = e
    BY <2>3, <2>4 DEF Buried
  <2> QED
    BY <2>5, <2>6
<1> QED
  BY <1>1, <1>2 DEF TombstonesMove

\* A call that takes no step is not disturbed by one that does.
LEMMA OthersFit ==
  ASSUME ArchiveInv, Types', NEW p \in Procs, ArchivesMove(p), ReferencesMove(p),
         TombstonesMove(p), today' = today,
         \/ proc'[p].at # "archiving" \/ proc'[p] = proc[p]
         \/ ~Has(proc'[p].task, proc'[p].dir)
  PROVE  \A q \in Procs : q # p => CallFits(q)'
<1> SUFFICES ASSUME NEW q \in Procs, q # p
             PROVE  CallFits(q)'
  OBVIOUS
<1> DEFINE t == proc[q].task
           n == proc[q].dir
<1>1. proc'[q] = proc[q] /\ CallFits(q) /\ CallFits(p) /\ n \in Nat
  BY CallTypes DEF ReferencesMove, ArchiveInv
<1>2. CASE proc[q].at \in {"archiving", "archived", "removing"}
  <2>1. /\ t \in Tasks /\ Has(t, n) /\ archives[t][n].archived_at = today
        /\ archives[t][n].state = IF proc[q].at = "archiving" THEN "partial" ELSE "complete"
    BY <1>1, <1>2 DEF CallFits
  <2>2. /\ Has(t, n)' /\ archives'[t][n].archived_at = today'
    BY <1>1, <2>1 DEF ArchivesMove
  <2>3. archives'[t][n].state = archives[t][n].state
    <3>1. ~(proc[p].at = "archiving" /\ t = proc[p].task /\ n = proc[p].dir)
      BY <1>1, <1>2, <2>1 DEF CallFits
    <3>2. ~(proc[p].at = "expiring" /\ t = proc[p].task /\ n = proc[p].dir)
      BY <1>1, <2>1 DEF CallFits
    <3>3. ~(n = sweep[t].archive /\ sweep[t].state = "archived")
      <4>1. Names(t, sweep[t]) /\ SweepFits(t)
        BY <2>1 DEF ArchiveInv, ReferencesFit, Says
      <4> QED
        BY <1>1, <1>2, <2>1, <4>1 DEF CallFits, Names, SweepFits, Unsaid, NoRecord, Has
    <3> QED
      BY <1>1, <2>1, <3>1, <3>2, <3>3 DEF ArchivesMove
  <2>4. CASE proc[q].at = "archiving"
    <3>1. \A r \in Procs : /\ proc'[r].at = "archiving" /\ proc'[r].task = t /\ proc'[r].dir = n
                           => r = q
      <4>1. ASSUME NEW r \in Procs, proc'[r].at = "archiving", proc'[r].task = t, proc'[r].dir = n
            PROVE  r = q
        <5>1. proc'[r] = proc[r]
          BY <2>1, <4>1 DEF ReferencesMove
        <5> QED
          BY <1>1, <2>4, <4>1, <5>1 DEF CallFits
      <4> QED
        BY <4>1
    <3> QED
      BY <1>1, <2>1, <2>2, <2>3, <2>4, <3>1 DEF CallFits
  <2>5. CASE proc[q].at \in {"archived", "removing"}
    <3>1. Unsaid(q)
      BY <1>1, <2>5 DEF CallFits
    <3>2. n # 0 /\ archives[t][n].state = "complete"
      BY <2>1, <2>5 DEF Has
    <3>3. record'[t].archive # n /\ sweep'[t].archive # n
      BY <2>1, <3>1, <3>2 DEF ReferencesMove, Unsaid, NoRecord, Unreadable
    <3>4. ASSUME proc'[p].task = t
          PROVE  proc'[p].payload.archive # n
      <4>1. CASE proc'[p].payload.archive = 0
        BY <3>2, <4>1
      <4>2. CASE proc'[p].task = proc[p].task /\ proc'[p].payload = proc[p].payload
        BY <3>1, <3>4, <4>2 DEF Unsaid
      <4>3. CASE proc'[p].payload = [sweep[t] EXCEPT !.state = "expired"]
        <5>1. sweep[t] \in Records
          BY <2>1, TaskTypes DEF ArchiveInv
        <5>2. proc'[p].payload.archive = sweep[t].archive
          BY <4>3, <5>1 DEF Records
        <5> QED
          BY <3>1, <5>2 DEF Unsaid
      <4>4. CASE /\ proc[p].at = "archiving" /\ proc[p].task = t
                 /\ proc'[p].payload = [proc[p].payload EXCEPT !.archive = proc[p].dir]
        <5>1. proc[p].payload \in Records
          BY CallTypes DEF ArchiveInv
        <5>2. proc'[p].payload.archive = proc[p].dir
          BY <4>4, <5>1 DEF Records
        <5>3. archives[t][proc[p].dir].state = "partial"
          BY <1>1, <4>4 DEF CallFits
        <5> QED
          BY <3>2, <5>2, <5>3
      <4> QED
        BY <3>4, <4>1, <4>2, <4>3, <4>4 DEF ReferencesMove
    <3>5. Unsaid(q)'
      <4>1. \A r \in Procs \ {q} : proc'[r].task = t => proc'[r].payload.archive # n
        BY <3>1, <3>4 DEF ReferencesMove, Unsaid
      <4> QED
        BY <1>1, <3>3, <4>1 DEF Unsaid
    <3> QED
      BY <1>1, <2>1, <2>2, <2>3, <2>5, <3>5 DEF CallFits
  <2> QED
    BY <1>2, <2>4, <2>5
<1>3. CASE proc[q].at \in {"expiring", "burying"}
  <2>1. q = "sweeper" /\ t \in Tasks /\ Has(t, n)
        /\ archives[t][n].state \in {"removing", "gone"} /\ ~Buried(t, n)
    BY <1>1, <1>3 DEF CallFits
  <2>2. tombstones' = tombstones
    BY <2>1 DEF TombstonesMove
  <2>3. Has(t, n)' /\ archives'[t][n].state = archives[t][n].state
    BY <1>1, <2>1 DEF ArchivesMove, CallFits
  <2> QED
    BY <1>1, <1>3, <2>1, <2>2, <2>3 DEF CallFits, Buried
<1>4. CASE proc[q].at \notin {"archiving", "archived", "removing", "expiring", "burying"}
  <2>1. \A a, b : Buried(a, b) => Buried(a, b)'
    BY BuriedLonger
  <2> QED
    BY <1>1, <1>4, <2>1 DEF CallFits
<1> QED
  BY <1>2, <1>3, <1>4

\* What is left to show of a step of process p.
LEMMA StepKeeps ==
  ASSUME ArchiveInv, Types', NEW p \in Procs, ArchivesMove(p), ReferencesMove(p),
         TombstonesMove(p), today' = today,
         \/ proc'[p].at # "archiving" \/ proc'[p] = proc[p]
         \/ ~Has(proc'[p].task, proc'[p].dir),
         CallFits(p)',
         \A t \in Tasks : sweep'[t] = record[t] => sweep'[t] = sweep[t] \/ SweepFits(t)'
  PROVE  ArchiveInv'
<1>1. \A q \in Procs : CallFits(q)'
  BY OthersFit
<1>2. \A t \in Tasks : ReferencesFit(t)'
  BY ReferencesStay
<1>3. \A t \in Tasks : SweepFits(t)'
  <2> TAKE t \in Tasks
  <2>1. CASE sweep'[t] = sweep[t]
    <3>1. SweepFits(t) /\ Names(t, sweep[t]) /\ sweep[t].archive \in Nat
      BY TaskTypes DEF ArchiveInv, ReferencesFit, Says
    <3>2. sweep[t].archive > 0 => Has(t, sweep[t].archive)
      BY <3>1 DEF Names
    <3> QED
      BY <2>1, <3>1, <3>2 DEF SweepFits, ArchivesMove
  <2>2. CASE sweep'[t] = NoRecord
    BY <2>2 DEF SweepFits, NoRecord
  <2> QED
    BY <2>1, <2>2 DEF ReferencesMove
<1>4. TombstonesFit'
  <2>1. ASSUME NEW t \in Tasks, NEW n \in Nat, Has(t, n), archives[t][n].state = "gone"
        PROVE  Has(t, n)' /\ archives'[t][n].state = "gone"
    BY <2>1 DEF ArchivesMove, ArchiveInv, CallFits
  <2>2. CASE tombstones' = tombstones
    <3>1. \A i \in 1 .. Len(tombstones) : tombstones[i][1] \in Tasks /\ tombstones[i][2] \in Nat
      BY DEF ArchiveInv, Types
    <3> QED
      BY <2>1, <2>2, <3>1 DEF ArchiveInv, TombstonesFit
  <2>3. CASE /\ p = "sweeper" /\ proc[p].at = "burying"
             /\ tombstones' = Append(tombstones, <<proc[p].task, proc[p].dir>>)
    <3> DEFINE e == <<proc[p].task, proc[p].dir>>
    <3>1. Types /\ CallFits(p) /\ proc[p].dir \in Nat
      BY CallTypes DEF ArchiveInv
    <3>2. /\ proc[p].task \in Tasks /\ Has(proc[p].task, proc[p].dir)
          /\ archives[proc[p].task][proc[p].dir].state = "gone"
          /\ ~Buried(proc[p].task, proc[p].dir)
      BY <2>3, <3>1 DEF CallFits
    <3>3. tombstones \in Seq(Tasks \X Nat) /\ e \in Tasks \X Nat
      BY <3>1, <3>2 DEF Types
    <3>4. Len(tombstones) \in Nat /\ Len(tombstones') = Len(tombstones) + 1
          /\ (\A i \in 1 .. Len(tombstones) : tombstones'[i] = tombstones[i])
          /\ tombstones'[Len(tombstones) + 1] = e
      BY <2>3, <3>3, AppendProperties
    <3> PICK m \in Nat : m = Len(tombstones)
      BY <3>4
    <3>5. 1 .. m + 1 = (1 .. m) \union {m + 1} /\ m + 1 \notin 1 .. m
      OBVIOUS
    <3>6. \A i \in 1 .. m : tombstones[i] # e
      BY <3>2 DEF Buried
    <3>7. \A i \in 1 .. m : tombstones[i] \in Tasks \X Nat
      BY <3>3
    <3>8. \A i \in 1 .. m :
            /\ tombstones[i][2] \in 1 .. Len(archives'[tombstones[i][1]])
            /\ archives'[tombstones[i][1]][tombstones[i][2]].state = "gone"
      <4> TAKE i \in 1 .. m
      <4>1. tombstones[i][1] \in Tasks /\ tombstones[i][2] \in Nat
        BY <3>7
      <4>2. PICK a \in Tasks, b \in Nat : a = tombstones[i][1] /\ b = tombstones[i][2]
        BY <4>1
      <4>3. Has(a, b) /\ archives[a][b].state = "gone"
        BY <4>2 DEF ArchiveInv, TombstonesFit
      <4>4. Has(a, b)' /\ archives'[a][b].state = "gone"
        BY <2>1, <4>3
      <4> QED
        BY <4>2, <4>4 DEF Has
    <3>9. proc[p].dir \in 1 .. Len(archives'[proc[p].task])
          /\ archives'[proc[p].task][proc[p].dir].state = "gone"
      <4>1. PICK a \in Tasks, b \in Nat : a = proc[p].task /\ b = proc[p].dir
        BY <3>1, <3>2
      <4> QED
        BY <2>1, <3>2, <4>1 DEF Has
    <3>10. \A i, j \in 1 .. m : tombstones[i] = tombstones[j] => i = j
      BY DEF ArchiveInv, TombstonesFit
    <3> HIDE DEF e
    <3>11. e[1] = proc[p].task /\ e[2] = proc[p].dir
      BY DEF e
    <3>12. \A i \in 1 .. m + 1 :
             /\ tombstones'[i][2] \in 1 .. Len(archives'[tombstones'[i][1]])
             /\ archives'[tombstones'[i][1]][tombstones'[i][2]].state = "gone"
      BY <3>4, <3>5, <3>8, <3>9, <3>11
    <3>13. \A i, j \in 1 .. m + 1 : tombstones'[i] = tombstones'[j] => i = j
      BY <3>4, <3>5, <3>6, <3>10
    <3> QED
      BY <3>4, <3>12, <3>13 DEF TombstonesFit, Has
  <2> QED
    BY <2>2, <2>3 DEF TombstonesMove
<1>5. \A t \in Tasks : record'[t].state = "expired" => Buried(t, record[t].archive)'
  <2> TAKE t \in Tasks
  <2> HAVE record'[t].state = "expired"
  <2>1. \A a, b : Buried(a, b) => Buried(a, b)'
    BY BuriedLonger
  <2>2. CASE record'[t] = record[t]
    <3>1. PICK n : n = record[t].archive
      OBVIOUS
    <3>2. Buried(t, n)
      BY <2>2, <3>1 DEF ArchiveInv
    <3>3. Buried(t, n)'
      BY <2>1, <3>2
    <3> QED
      BY <2>2, <3>1, <3>3 DEF Buried
  <2>3. CASE proc[p].at = "saving" /\ t = proc[p].task /\ record'[t] = proc[p].payload
    <3>1. PICK n : n = proc[p].payload.archive
      OBVIOUS
    <3>2. CallFits(p)
      BY DEF ArchiveInv
    <3>3. Buried(t, n)
      BY <2>3, <3>1, <3>2 DEF CallFits
    <3>4. Buried(t, n)'
      BY <2>1, <3>3
    <3> QED
      BY <2>3, <3>1, <3>4 DEF Buried
  <2> QED
    BY <2>2, <2>3 DEF ReferencesMove, NoRecord, Unreadable
<1> QED
  BY <1>1, <1>2, <1>3, <1>4, <1>5 DEF ArchiveInv

------------------------------------------------------------------------------
(***************************************************************************)
(* Each step keeps what is said of the archives.                           *)
(***************************************************************************)

\* Every step keeps the invariant, and archives move as said.
Keeps(p) == ArchiveInv' /\ ArchivesMove(p) /\ ReferencesMove(p)

LEMMA ArchivesStay ==
  ASSUME NEW p, UNCHANGED archives
  PROVE  ArchivesMove(p)
BY DEF ArchivesMove, Has

LEMMA CallChanged ==
  ASSUME Types, NEW p \in Procs, NEW v \in Calls, proc' = [proc EXCEPT ![p] = v]
  PROVE  /\ proc' \in [Procs -> Calls] /\ proc'[p] = v
         /\ \A q \in Procs : q # p => proc'[q] = proc[q]
BY DEF Types

LEMMA IdleCall ==
  /\ Idle \in Calls /\ NoRecord \in Records /\ Unreadable \in Records
  /\ Unreadable.state = "unreadable" /\ Unreadable.archive = 0
BY DEF Idle, Calls, NoRecord, Unreadable, Records, Stages, States, Live, Kept

LEMMA IdleFits ==
  ASSUME NEW p, proc'[p] = Idle
  PROVE  CallFits(p)'
BY DEF CallFits, Idle, NoRecord

\* A call of process p begins or goes on: nobody else notices.
LEMMA CallMoves ==
  ASSUME ArchiveInv, NEW p \in Procs, NEW v \in Calls, proc' = [proc EXCEPT ![p] = v],
         UNCHANGED <<today, record, archives, tombstones, sweep>>,
         worktree' \in [Tasks -> Worktrees], autonomy' \subseteq Tasks, created' \subseteq Tasks,
         v.payload.archive = 0 \/ (v.task = proc[p].task /\ v.payload = proc[p].payload),
         v.at # "archiving",
         CallFits(p)'
  PROVE  Keeps(p)
<1>1. Types
  BY DEF ArchiveInv
<1>2. /\ proc' \in [Procs -> Calls] /\ proc'[p] = v
      /\ \A q \in Procs : q # p => proc'[q] = proc[q]
  BY <1>1, CallChanged
<1>3. Types'
  BY <1>1, <1>2 DEF Types
<1>4. ArchivesMove(p)
  BY ArchivesStay
<1>5. ReferencesMove(p)
  BY <1>2 DEF ReferencesMove
<1>6. TombstonesMove(p)
  BY DEF TombstonesMove
<1> QED
  BY <1>2, <1>3, <1>4, <1>5, <1>6, StepKeeps DEF Keeps

\* A call of process p ends.
LEMMA CallEnds ==
  ASSUME ArchiveInv, NEW p \in Procs, proc' = [proc EXCEPT ![p] = Idle],
         UNCHANGED <<today, archives, tombstones>>,
         \A t \in Tasks : sweep'[t] \in {sweep[t], NoRecord}, sweep' \in [Tasks -> Records],
         record' \in [Tasks -> Records],
         \A t \in Tasks : \/ record'[t] = record[t]
                          \/ record'[t] \in {NoRecord, Unreadable}
                          \/ /\ proc[p].at = "saving" /\ t = proc[p].task
                             /\ record'[t] = proc[p].payload,
         worktree' \in [Tasks -> Worktrees], autonomy' \subseteq Tasks, created' \subseteq Tasks
  PROVE  Keeps(p)
<1>1. Types
  BY DEF ArchiveInv
<1>2. /\ proc' \in [Procs -> Calls] /\ proc'[p] = Idle
      /\ \A q \in Procs : q # p => proc'[q] = proc[q]
  BY <1>1, CallChanged, IdleCall
<1>3. Types'
  BY <1>1, <1>2 DEF Types
<1>4. ArchivesMove(p)
  BY ArchivesStay
<1>5. ReferencesMove(p)
  BY <1>2 DEF ReferencesMove, Idle, NoRecord
<1>6. TombstonesMove(p)
  BY DEF TombstonesMove
<1>7. CallFits(p)'
  BY <1>2, IdleFits
<1>8. proc'[p].at # "archiving"
  BY <1>2 DEF Idle
<1>9. \A t \in Tasks : sweep'[t] = sweep[t] \/ SweepFits(t)'
  BY DEF SweepFits
<1> QED
  BY <1>3, <1>4, <1>5, <1>6, <1>7, <1>8, <1>9, StepKeeps DEF Keeps

\* A live record names no archive.
LEMMA LiveNamesNone ==
  ASSUME ArchiveInv, NEW t \in Tasks, record[t].state \in Live
  PROVE  record[t].archive = 0
<1>1. Names(t, record[t]) /\ record[t].archive \in Nat
  BY TaskTypes DEF ArchiveInv, ReferencesFit, Says
<1> QED
  BY <1>1 DEF Names, Kept, Live

LEMMA SaveKeeps ==
  ASSUME ArchiveInv, NEW p \in Procs, Save(p)
  PROVE  Keeps(p)
<1> DEFINE t == proc[p].task
<1>1. Types /\ CallFits(p) /\ proc[p] \in Calls /\ proc[p].payload \in Records
  BY CallTypes DEF ArchiveInv
<1>2. proc[p].at = "saving" /\ t \in Tasks
  BY <1>1 DEF Save, CallFits
<1>3. /\ record' \in [Tasks -> Records] /\ record'[t] = proc[p].payload
      /\ \A u \in Tasks : u # t => record'[u] = record[u]
  BY <1>1, <1>2 DEF Save, Types
<1>4. created' \subseteq Tasks
  BY <1>1, <1>2 DEF Save, Types
<1>5. UNCHANGED <<today, worktree, archives, tombstones, autonomy>>
  BY DEF Save
<1>6. CASE proc[p].from = 0
  <2>1. Return(p)
    BY <1>6 DEF Save
  <2>2. \A u \in Tasks : sweep'[u] \in {sweep[u], NoRecord}
    BY <1>1, <2>1 DEF Return, Types
  <2>3. sweep' \in [Tasks -> Records]
    BY <1>1, <1>2, <2>1, IdleCall DEF Return, Types
  <2> QED
    BY <1>1, <1>2, <1>3, <1>4, <1>5, <2>1, <2>2, <2>3, CallEnds DEF Return, Types
<1>7. CASE proc[p].from # 0
  <2> DEFINE v == [proc[p] EXCEPT !.at = "extracting"]
  <2>1. v \in Calls /\ proc' = [proc EXCEPT ![p] = v] /\ UNCHANGED sweep
    BY <1>1, <1>7 DEF Save, GoTo, Calls, Stages
  <2>2. /\ v.at = "extracting" /\ v.task = t /\ v.payload = proc[p].payload
        /\ v.from = proc[p].from /\ v.dir = proc[p].dir
    BY <1>1 DEF Calls
  <2> HIDE DEF v
  <2>3. /\ proc' \in [Procs -> Calls] /\ proc'[p] = v
        /\ \A q \in Procs : q # p => proc'[q] = proc[q]
    BY <1>1, <2>1, CallChanged
  <2>4. Types'
    BY <1>1, <1>3, <1>4, <1>5, <2>1, <2>3 DEF Types
  <2>5. ArchivesMove(p)
    BY <1>5, ArchivesStay
  <2>6. ReferencesMove(p)
    BY <1>2, <1>3, <2>1, <2>2, <2>3 DEF ReferencesMove
  <2>7. TombstonesMove(p)
    BY <1>5 DEF TombstonesMove
  <2>8. CallFits(p)'
    BY <1>1, <1>2, <1>7, <2>2, <2>3 DEF CallFits
  <2> QED
    BY <1>5, <2>1, <2>2, <2>3, <2>4, <2>5, <2>6, <2>7, <2>8, StepKeeps DEF Keeps
<1> QED
  BY <1>6, <1>7

LEMMA SaveNextKeeps ==
  ASSUME ArchiveInv, NEW p \in Procs, NEW t \in Tasks, NEW payload \in Records,
         payload.state \in Live, payload.archive = 0, SaveNext(p, t, payload),
         UNCHANGED <<today, record, archives, tombstones, sweep>>,
         worktree' \in [Tasks -> Worktrees], autonomy' \subseteq Tasks, created' \subseteq Tasks
  PROVE  Keeps(p)
<1> DEFINE v == [Idle EXCEPT !.at = "saving", !.task = t, !.payload = payload]
<1>1. v \in Calls /\ v.at = "saving" /\ v.task = t /\ v.payload = payload /\ v.from = 0
  BY TasksAreNatural DEF Idle, Calls, Stages
<1>2. proc' = [proc EXCEPT ![p] = v]
  BY DEF SaveNext
<1> HIDE DEF v
<1>3. proc'[p] = v
  BY <1>1, <1>2, CallChanged DEF ArchiveInv
<1>4. CallFits(p)'
  BY <1>1, <1>3 DEF CallFits, Live
<1> QED
  BY <1>1, <1>2, <1>4, CallMoves

\* A call that only writes in the worktree or in the autonomous-run records.
LEMMA NoCallKeeps ==
  ASSUME ArchiveInv, NEW p \in Procs,
         UNCHANGED <<today, record, archives, tombstones, sweep, proc>>,
         worktree' \in [Tasks -> Worktrees], autonomy' \subseteq Tasks, created' \subseteq Tasks
  PROVE  Keeps(p)
<1>1. Types
  BY DEF ArchiveInv
<1>2. Types'
  BY <1>1 DEF Types
<1>3. ArchivesMove(p)
  BY ArchivesStay
<1>4. ReferencesMove(p) /\ TombstonesMove(p)
  BY DEF ReferencesMove, TombstonesMove
<1>5. CallFits(p)'
  <2>1. CallFits(p)
    BY DEF ArchiveInv
  <2> QED
    BY <2>1 DEF CallFits, Buried, Unsaid, Has
<1> QED
  BY <1>2, <1>3, <1>4, <1>5, StepKeeps DEF Keeps

LEMMA TouchedFits ==
  ASSUME ArchiveInv, NEW t \in Tasks, record[t].state \in Live
  PROVE  /\ Touched(t) \in Records /\ Touched(t).state = record[t].state
         /\ Touched(t).archive = 0 /\ Touched(t).last_activity_at = today
<1>1. record[t] \in Records /\ today \in Nat /\ record[t].archive = 0
  BY LiveNamesNone, TaskTypes DEF ArchiveInv, Types
<1> QED
  BY <1>1 DEF Touched, Records

LEMMA WorktreeChanged ==
  ASSUME Types, NEW t \in Tasks
  PROVE  /\ \A w \in Worktrees : [worktree EXCEPT ![t] = w] \in [Tasks -> Worktrees]
         /\ \A there \in {"none", "partial", "whole"} :
              [worktree EXCEPT ![t].there = there] \in [Tasks -> Worktrees]
         /\ [worktree EXCEPT ![t].version = @ + 1] \in [Tasks -> Worktrees]
         /\ NoTree \in Worktrees
<1>1. worktree \in [Tasks -> Worktrees] /\ worktree[t] \in Worktrees
  BY DEF Types
<1>2. \A w \in Worktrees : [worktree EXCEPT ![t] = w] \in [Tasks -> Worktrees]
  BY <1>1
<1>3. \A there \in {"none", "partial", "whole"} :
        [worktree[t] EXCEPT !.there = there] \in Worktrees
  BY <1>1 DEF Worktrees
<1>4. [worktree[t] EXCEPT !.version = @ + 1] \in Worktrees
  BY <1>1 DEF Worktrees
<1>5. NoTree \in Worktrees
  BY DEF NoTree, Worktrees
<1> QED
  BY <1>2, <1>3, <1>4, <1>5

LEMMA EditKeeps ==
  ASSUME ArchiveInv, NEW p \in Procs, NEW t \in Tasks, Edit(p, t)
  PROVE  Keeps(p)
<1>1. Types
  BY DEF ArchiveInv
<1>2. /\ worktree' \in [Tasks -> Worktrees] /\ autonomy' \subseteq Tasks /\ created' \subseteq Tasks
      /\ UNCHANGED <<today, record, archives, tombstones, sweep>>
  BY <1>1, WorktreeChanged DEF Edit, Types
<1>3. CASE record[t].state \in Live
  BY <1>2, <1>3, TouchedFits, SaveNextKeeps DEF Edit
<1>4. CASE record[t].state \notin Live
  BY <1>2, <1>4, NoCallKeeps DEF Edit
<1> QED
  BY <1>3, <1>4

LEMMA RenewWorkspaceLeaseKeeps ==
  ASSUME ArchiveInv, NEW p \in Procs, NEW t \in Tasks, RenewWorkspaceLease(p, t)
  PROVE  Keeps(p)
<1>1. /\ worktree' \in [Tasks -> Worktrees] /\ autonomy' \subseteq Tasks /\ created' \subseteq Tasks
      /\ UNCHANGED <<today, record, archives, tombstones, sweep>>
  BY DEF RenewWorkspaceLease, ArchiveInv, Types
<1> QED
  BY <1>1, TouchedFits, SaveNextKeeps DEF RenewWorkspaceLease

LEMMA PauseWorkspaceKeeps ==
  ASSUME ArchiveInv, NEW p \in Procs, NEW t \in Tasks, PauseWorkspace(p, t)
  PROVE  Keeps(p)
<1>1. /\ worktree' \in [Tasks -> Worktrees] /\ autonomy' \subseteq Tasks /\ created' \subseteq Tasks
      /\ UNCHANGED <<today, record, archives, tombstones, sweep>>
  BY DEF PauseWorkspace, ArchiveInv, Types
<1>2. record[t] \in Records /\ record[t].archive = 0
  BY LiveNamesNone, TaskTypes DEF ArchiveInv, PauseWorkspace, Live
<1> DEFINE payload == [record[t] EXCEPT !.state = "paused"]
<1>3. payload \in Records /\ payload.state \in Live /\ payload.archive = 0
  BY <1>2 DEF Records, States, Live
<1> QED
  BY <1>1, <1>3, SaveNextKeeps DEF PauseWorkspace

LEMMA StartAutonomousRunKeeps ==
  ASSUME ArchiveInv, NEW p \in Procs, NEW t \in Tasks, StartAutonomousRun(p, t)
  PROVE  Keeps(p)
<1>1. /\ worktree' \in [Tasks -> Worktrees] /\ autonomy' \subseteq Tasks /\ created' \subseteq Tasks
      /\ UNCHANGED <<today, record, archives, tombstones, sweep>>
  BY DEF StartAutonomousRun, ArchiveInv, Types
<1>2. CASE record[t].state \in Live
  BY <1>1, <1>2, TouchedFits, SaveNextKeeps DEF StartAutonomousRun
<1>3. CASE record[t].state \notin Live
  BY <1>1, <1>3, NoCallKeeps DEF StartAutonomousRun
<1> QED
  BY <1>2, <1>3

LEMMA CloneKeeps ==
  ASSUME ArchiveInv, NEW p \in Clients, NEW t \in Tasks, NEW from \in Tasks \union {0}, NEW dir \in Nat,
         Clone(p, t, from, dir)
  PROVE  Keeps(p)
<1> DEFINE v == [Idle EXCEPT !.at = "cloning", !.task = t, !.from = from, !.dir = dir]
<1>1. /\ v \in Calls /\ v.at = "cloning" /\ v.task = t /\ v.payload = NoRecord
      /\ v.from = from
  BY TasksAreNatural, IdleCall DEF Idle, Calls, Stages
<1>2. p \in Procs /\ p # "sweeper" /\ Types
  BY WorkspacesAssumption DEF Procs, ArchiveInv
<1>3. proc' = [proc EXCEPT ![p] = v]
  BY DEF Clone
<1> HIDE DEF v
<1>4. proc'[p] = v
  BY <1>1, <1>2, <1>3, CallChanged
<1>5. CallFits(p)'
  BY <1>1, <1>2, <1>4 DEF CallFits, NoRecord
<1>6. [there |-> "partial", version |-> 0] \in Worktrees
  BY DEF Worktrees
<1>7. /\ worktree' \in [Tasks -> Worktrees] /\ autonomy' \subseteq Tasks /\ created' \subseteq Tasks
      /\ UNCHANGED <<today, record, archives, tombstones, sweep>>
  BY <1>2, <1>6, WorktreeChanged DEF Clone, Types
<1>8. v.payload.archive = 0 /\ v.at # "archiving"
  BY <1>1 DEF NoRecord
<1> QED
  BY <1>1, <1>2, <1>3, <1>5, <1>7, <1>8, CallMoves

LEMMA ClonedKeeps ==
  ASSUME ArchiveInv, NEW p \in Procs, Cloned(p)
  PROVE  Keeps(p)
<1> DEFINE t == proc[p].task
           payload == [NoRecord EXCEPT !.state = "active", !.last_activity_at = today]
           v == [proc[p] EXCEPT !.at = "saving", !.payload = payload]
<1>1. Types /\ CallFits(p) /\ proc[p] \in Calls /\ today \in Nat
  BY CallTypes DEF ArchiveInv, Types
<1>2. t \in Tasks /\ proc[p].at = "cloning"
  BY <1>1 DEF CallFits, Cloned
<1>3. payload \in Records /\ payload.state = "active" /\ payload.archive = 0
  BY <1>1 DEF NoRecord, Records, States, Live
<1> HIDE DEF payload
<1>4. /\ v \in Calls /\ v.at = "saving" /\ v.payload = payload /\ v.task = t
      /\ v.from = proc[p].from
  BY <1>1, <1>3 DEF Calls, Stages
<1>5. proc' = [proc EXCEPT ![p] = v]
  BY DEF Cloned, payload
<1> HIDE DEF v
<1>6. proc'[p] = v
  BY <1>1, <1>4, <1>5, CallChanged
<1>7. CallFits(p)'
  BY <1>1, <1>2, <1>3, <1>4, <1>6 DEF CallFits, Live
<1>8. /\ worktree' \in [Tasks -> Worktrees] /\ autonomy' \subseteq Tasks /\ created' \subseteq Tasks
      /\ UNCHANGED <<today, record, archives, tombstones, sweep>>
  BY <1>1, <1>2, WorktreeChanged DEF Cloned, Types
<1> QED
  BY <1>3, <1>4, <1>5, <1>7, <1>8, CallMoves

LEMMA ExtractKeeps ==
  ASSUME ArchiveInv, NEW p \in Procs, Extract(p)
  PROVE  Keeps(p)
<1> DEFINE r == proc[p].task
           t == proc[p].from
           n == proc[p].dir
<1>1. Types /\ CallFits(p) /\ proc[p] \in Calls
  BY CallTypes DEF ArchiveInv
<1>2. r \in Tasks /\ proc[p].at = "extracting" /\ p # "sweeper"
  BY <1>1 DEF CallFits, Extract
<1>3. record' \in [Tasks -> Records] /\ \A u \in Tasks : record'[u] \in {record[u], NoRecord}
  BY <1>1, IdleCall DEF Extract, Types
<1>4. worktree' \in [Tasks -> Worktrees] /\ created' \subseteq Tasks
  <2>1. CASE Available(t, n)
    <3>1. created' \subseteq Tasks /\ worktree' =
            [worktree EXCEPT ![r] = [there |-> IF archives[t][n].whole THEN "whole" ELSE "partial",
                                     version |-> archives[t][n].version]]
      BY <1>1, <1>2, <2>1 DEF Extract, Types
    <3>2. archives[t][n] \in Archives
      BY <1>1, <1>2, <2>1, TaskTypes DEF Available, Has, CallFits
    <3> QED
      BY <1>1, <1>2, <3>1, <3>2, WorktreeChanged DEF Archives, Worktrees
  <2>2. CASE ~Available(t, n)
    BY <1>1, <1>2, <2>2, WorktreeChanged DEF Extract, Types
  <2> QED
    BY <2>1, <2>2
<1>5. /\ autonomy' \subseteq Tasks /\ UNCHANGED <<today, archives, tombstones>>
      /\ sweep' = sweep /\ proc' = [proc EXCEPT ![p] = Idle]
  BY <1>1, <1>2 DEF Extract, Return, Types
<1>6. sweep' \in [Tasks -> Records]
  BY <1>1, <1>5 DEF Types
<1> QED
  BY <1>3, <1>4, <1>5, <1>6, CallEnds

LEMMA BeginArchiveKeeps ==
  ASSUME ArchiveInv, NEW p \in Procs, NEW t \in Tasks, NEW outcome \in {"archived", "review_ready"},
         BeginArchive(p, t, outcome)
  PROVE  Keeps(p)
<1> DEFINE payload == [record[t] EXCEPT !.state = outcome]
           version == IF worktree[t].there = "whole" THEN worktree[t].version ELSE 0
           v == [Idle EXCEPT !.at = "reporting", !.task = t, !.version = version,
                             !.payload = payload]
<1>1. Types /\ record[t] \in Records /\ record[t].archive = 0
  BY LiveNamesNone, TaskTypes DEF ArchiveInv, BeginArchive, Archivable
<1>2. payload \in Records /\ payload.state = outcome /\ payload.archive = 0
  BY <1>1 DEF Records, States, Live, Kept
<1>3. version \in Nat
  BY <1>1 DEF Types, Worktrees
<1> HIDE DEF payload, version
<1>4. /\ v \in Calls /\ v.at = "reporting" /\ v.task = t /\ v.payload = payload /\ v.from = 0
  BY <1>2, <1>3, TasksAreNatural DEF Idle, Calls, Stages
<1>5. proc' = [proc EXCEPT ![p] = v]
  BY DEF BeginArchive, payload, version
<1> HIDE DEF v
<1>6. proc'[p] = v
  BY <1>1, <1>4, <1>5, CallChanged
<1>7. CallFits(p)'
  BY <1>2, <1>4, <1>6 DEF CallFits
<1>8. /\ worktree' \in [Tasks -> Worktrees] /\ autonomy' \subseteq Tasks /\ created' \subseteq Tasks
      /\ UNCHANGED <<today, record, archives, tombstones, sweep>>
  BY <1>1 DEF BeginArchive, Types
<1> QED
  BY <1>2, <1>4, <1>5, <1>7, <1>8, CallMoves

LEMMA WriteTreeKeeps ==
  ASSUME ArchiveInv, NEW p \in Procs, WriteTree(p)
  PROVE  Keeps(p)
<1> DEFINE t == proc[p].task
           entry == [state |-> "partial", whole |-> worktree[t].there = "whole",
                     version |-> worktree[t].version, archived_at |-> today]
<1>1. Types /\ CallFits(p) /\ proc[p] \in Calls /\ today \in Nat
  BY CallTypes DEF ArchiveInv, Types
<1>2. t \in Tasks /\ proc[p].at = "reporting"
  BY <1>1 DEF CallFits, WriteTree
<1>3. worktree[t].version \in Nat /\ (worktree[t].there = "whole") \in BOOLEAN
  BY <1>1, <1>2 DEF Types, Worktrees
<1>4. entry \in Archives
  BY <1>1, <1>3 DEF Archives
<1>5. entry.state = "partial" /\ entry.archived_at = today
  OBVIOUS
<1>6. archives' = [archives EXCEPT ![t] = Append(@, entry)]
  BY DEF WriteTree
<1> HIDE DEF entry
<1>7. Begun(t, entry) /\ archives' \in [Tasks -> Seq(Archives)]
  BY <1>1, <1>2, <1>4, <1>6, BegunByAppend
<1> PICK m \in Nat : m = Len(archives[t])
  BY <1>1, <1>2, TaskTypes
<1>8. Len(archives'[t]) = m + 1 /\ archives'[t][m + 1] = entry
  BY <1>2, <1>7 DEF Begun
<1> PICK k \in Nat : k = m + 1
  OBVIOUS
<1> DEFINE v == [proc[p] EXCEPT !.at = "archiving", !.dir = k]
<1>9. /\ v \in Calls /\ v.at = "archiving" /\ v.task = t /\ v.payload = proc[p].payload
      /\ v.dir = k /\ v.from = proc[p].from
  BY <1>1 DEF Calls, Stages
<1>10. proc' = [proc EXCEPT ![p] = v]
  BY <1>8 DEF WriteTree
<1> HIDE DEF v
<1>11. /\ proc' \in [Procs -> Calls] /\ proc'[p] = v
       /\ \A q \in Procs : q # p => proc'[q] = proc[q]
  BY <1>1, <1>9, <1>10, CallChanged
<1>12. UNCHANGED <<today, record, worktree, tombstones, autonomy, sweep, created>>
  BY DEF WriteTree
<1>13. Types'
  BY <1>1, <1>7, <1>11, <1>12 DEF Types
<1>14. ArchivesMove(p)
  <2> SUFFICES ASSUME NEW u \in Tasks, NEW n \in Nat
               PROVE  /\ Has(u, n) => Has(u, n)' /\ archives'[u][n] = archives[u][n]
                      /\ ~Has(u, n) /\ Has(u, n)' => archives'[u][n].state = "partial"
    BY DEF ArchivesMove
  <2>1. CASE u = t
    <3>1. 1 .. m + 1 = (1 .. m) \union {m + 1}
      OBVIOUS
    <3> QED
      BY <1>2, <1>5, <1>7, <1>8, <2>1, <3>1 DEF Begun, Has
  <2>2. CASE u # t
    BY <1>7, <2>2 DEF Begun, Has
  <2> QED
    BY <2>1, <2>2
<1>15. ReferencesMove(p) /\ TombstonesMove(p)
  BY <1>9, <1>11, <1>12 DEF ReferencesMove, TombstonesMove
<1>16. ~Has(proc'[p].task, proc'[p].dir) /\ ~Has(t, m + 1)
  BY <1>9, <1>11 DEF Has
<1>17. CallFits(p)'
  <2>1. (m + 1 \in 1 .. Len(archives'[t])) /\ archives'[t][m + 1].state = "partial"
        /\ archives'[t][m + 1].archived_at = today'
    BY <1>5, <1>8, <1>12
  <2>2. ASSUME NEW q \in Procs, proc'[q].at = "archiving", proc'[q].task = t, proc'[q].dir = m + 1
        PROVE  q = p
    <3>1. CASE q # p
      <4>1. proc[q].at = "archiving" /\ proc[q].task = t /\ proc[q].dir = m + 1
        BY <1>11, <2>2, <3>1
      <4>2. CallFits(q)
        BY DEF ArchiveInv
      <4> QED
        BY <1>16, <4>1, <4>2 DEF CallFits
    <3> QED
      BY <3>1
  <2> QED
    BY <1>1, <1>2, <1>9, <1>11, <2>1, <2>2 DEF CallFits, Has
<1> QED
  BY <1>12, <1>13, <1>14, <1>15, <1>16, <1>17, StepKeeps DEF Keeps

LEMMA WriteManifestKeeps ==
  ASSUME ArchiveInv, NEW p \in Procs, WriteManifest(p)
  PROVE  Keeps(p)
<1> DEFINE t == proc[p].task
           n == proc[p].dir
           v == [proc[p] EXCEPT !.at = "archived", !.payload.archive = n]
<1>1. Types /\ CallFits(p) /\ proc[p] \in Calls /\ proc[p].payload \in Records /\ n \in Nat
  BY CallTypes DEF ArchiveInv
<1>2. /\ t \in Tasks /\ proc[p].at = "archiving" /\ Has(t, n) /\ archives[t][n].state = "partial"
      /\ archives[t][n].archived_at = today
  BY <1>1 DEF CallFits, WriteManifest
<1>3. Marked(t, n, "complete") /\ archives' \in [Tasks -> Seq(Archives)]
  BY <1>1, <1>2, MarkedByExcept DEF WriteManifest
<1>4. [proc[p].payload EXCEPT !.archive = n] \in Records
  BY <1>1 DEF Records
<1>5. /\ v \in Calls /\ v.at = "archived" /\ v.task = t /\ v.dir = n /\ v.from = proc[p].from
      /\ v.payload = [proc[p].payload EXCEPT !.archive = n]
  BY <1>1, <1>4 DEF Calls, Stages
<1>6. v.payload.archive = n /\ v.payload.state = proc[p].payload.state
  BY <1>1, <1>5 DEF Records
<1>7. proc' = [proc EXCEPT ![p] = v]
  BY DEF WriteManifest
<1> HIDE DEF v
<1>8. /\ proc' \in [Procs -> Calls] /\ proc'[p] = v
      /\ \A q \in Procs : q # p => proc'[q] = proc[q]
  BY <1>1, <1>5, <1>7, CallChanged
<1>9. UNCHANGED <<today, record, worktree, tombstones, autonomy, sweep, created>>
  BY DEF WriteManifest
<1>10. Types'
  BY <1>1, <1>3, <1>8, <1>9 DEF Types
<1>11. archives[t][n] \in Archives
  BY <1>1, <1>2, TaskTypes
<1>12. /\ archives'[t][n].state = "complete" /\ archives'[t][n].archived_at = today'
       /\ n \in 1 .. Len(archives'[t])
  <2>1. archives'[t][n] = [archives[t][n] EXCEPT !.state = "complete"] /\ n \in 1 .. Len(archives'[t])
    BY <1>2, <1>3 DEF Marked, Has
  <2> QED
    BY <1>2, <1>9, <1>11, <2>1 DEF Archives
<1>13. ArchivesMove(p)
  <2> SUFFICES ASSUME NEW u \in Tasks, NEW k \in Nat
               PROVE  /\ Has(u, k) => /\ Has(u, k)'
                                      /\ archives'[u][k] = archives[u][k]
                                         \/ (u = t /\ k = n)
                      /\ Has(u, k)' => Has(u, k)
    <3>1. /\ archives'[t][n].whole = archives[t][n].whole
          /\ archives'[t][n].version = archives[t][n].version
          /\ archives'[t][n].archived_at = archives[t][n].archived_at
      <4>1. archives'[t][n] = [archives[t][n] EXCEPT !.state = "complete"]
        BY <1>2, <1>3 DEF Marked, Has
      <4> QED
        BY <1>11, <4>1 DEF Archives
    <3> QED
      BY <1>2, <1>12, <3>1 DEF ArchivesMove
  <2>1. Len(archives'[u]) = Len(archives[u])
    BY <1>3 DEF Marked
  <2>2. ASSUME Has(u, k), ~(u = t /\ k = n)
        PROVE  archives'[u][k] = archives[u][k]
    BY <1>3, <2>2 DEF Marked, Has
  <2> QED
    BY <2>1, <2>2 DEF Has
<1>14. ReferencesMove(p) /\ TombstonesMove(p)
  BY <1>2, <1>5, <1>8, <1>9, <1>12 DEF ReferencesMove, TombstonesMove
<1>15. \A a : Says(t, a) => a.archive # n
  <2>1. ReferencesFit(t) /\ n > 0
    BY <1>1, <1>2 DEF ArchiveInv, Has
  <2> QED
    BY <1>2, <2>1 DEF ReferencesFit, Names
<1>16. Unsaid(p)'
  <2>1. record'[t].archive # n /\ sweep'[t].archive # n
    BY <1>9, <1>15 DEF Says
  <2>2. \A q \in Procs \ {p} : proc'[q].task = t => proc'[q].payload.archive # n
    BY <1>8, <1>15 DEF Says
  <2> QED
    BY <1>5, <1>8, <2>1, <2>2 DEF Unsaid
<1>17. CallFits(p)'
  BY <1>1, <1>2, <1>5, <1>6, <1>8, <1>12, <1>16 DEF CallFits, Has
<1>18. proc'[p].at # "archiving"
  BY <1>5, <1>8
<1> QED
  BY <1>9, <1>10, <1>13, <1>14, <1>17, <1>18, StepKeeps DEF Keeps

\* A call goes on to its next stage.
LEMMA StageChanged ==
  ASSUME Types, NEW p \in Procs, NEW stage \in Stages, GoTo(p, stage)
  PROVE  LET v == [proc[p] EXCEPT !.at = stage] IN
         /\ v \in Calls /\ proc' = [proc EXCEPT ![p] = v] /\ proc' \in [Procs -> Calls]
         /\ proc'[p].at = stage
         /\ proc'[p].task = proc[p].task /\ proc'[p].payload = proc[p].payload
         /\ proc'[p].dir = proc[p].dir /\ proc'[p].version = proc[p].version
         /\ proc'[p].from = proc[p].from
         /\ \A q \in Procs : q # p => proc'[q] = proc[q]
<1> DEFINE v == [proc[p] EXCEPT !.at = stage]
<1>1. proc[p] \in Calls
  BY CallTypes
<1>2. /\ v \in Calls /\ v.at = stage /\ v.task = proc[p].task /\ v.payload = proc[p].payload
      /\ v.dir = proc[p].dir /\ v.version = proc[p].version /\ v.from = proc[p].from
  BY <1>1 DEF Calls
<1>3. proc' = [proc EXCEPT ![p] = v]
  BY DEF GoTo
<1> HIDE DEF v
<1>4. /\ proc' \in [Procs -> Calls] /\ proc'[p] = v
      /\ \A q \in Procs : q # p => proc'[q] = proc[q]
  BY <1>2, <1>3, CallChanged
<1> QED
  BY <1>2, <1>3, <1>4 DEF v

LEMMA BeginRemovalKeeps ==
  ASSUME ArchiveInv, NEW p \in Procs, BeginRemoval(p)
  PROVE  Keeps(p)
<1> DEFINE t == proc[p].task
           n == proc[p].dir
<1>1. Types /\ CallFits(p)
  BY DEF ArchiveInv
<1>2. t \in Tasks /\ proc[p].at = "archived"
  BY <1>1 DEF CallFits, BeginRemoval
<1>3. PICK v \in Calls :
        /\ v = [proc[p] EXCEPT !.at = "removing"] /\ proc' = [proc EXCEPT ![p] = v]
        /\ proc'[p].at = "removing"
        /\ proc'[p].task = t /\ proc'[p].payload = proc[p].payload
        /\ proc'[p].dir = n /\ proc'[p].from = proc[p].from
        /\ \A q \in Procs : q # p => proc'[q] = proc[q]
  BY <1>1, StageChanged DEF BeginRemoval, Stages
<1>4. proc'[p] = v
  BY <1>1, <1>3, CallChanged
<1>5. /\ worktree' \in [Tasks -> Worktrees] /\ autonomy' \subseteq Tasks /\ created' \subseteq Tasks
      /\ UNCHANGED <<today, record, archives, tombstones, sweep>>
  BY <1>1, <1>2, WorktreeChanged DEF BeginRemoval, Types
<1>6. Unsaid(p)'
  <2>1. Unsaid(p)
    BY <1>1, <1>2 DEF CallFits
  <2>2. record'[t].archive # n /\ sweep'[t].archive # n
    BY <1>5, <2>1 DEF Unsaid
  <2>3. \A q \in Procs \ {p} : proc'[q].task = t => proc'[q].payload.archive # n
    BY <1>3, <2>1 DEF Unsaid
  <2> QED
    BY <1>3, <2>2, <2>3 DEF Unsaid
<1>7. CallFits(p)'
  BY <1>1, <1>2, <1>3, <1>5, <1>6 DEF CallFits, Has
<1> QED
  BY <1>3, <1>4, <1>5, <1>7, CallMoves

LEMMA EndRemovalKeeps ==
  ASSUME ArchiveInv, NEW p \in Procs, EndRemoval(p)
  PROVE  Keeps(p)
<1> DEFINE t == proc[p].task
<1>1. Types /\ CallFits(p)
  BY DEF ArchiveInv
<1>2. t \in Tasks /\ proc[p].at = "removing"
  BY <1>1 DEF CallFits, EndRemoval
<1>3. PICK v \in Calls :
        /\ v = [proc[p] EXCEPT !.at = "saving"] /\ proc' = [proc EXCEPT ![p] = v]
        /\ proc'[p].at = "saving"
        /\ proc'[p].task = t /\ proc'[p].payload = proc[p].payload
        /\ proc'[p].from = proc[p].from
  BY <1>1, StageChanged DEF EndRemoval, Stages
<1>4. proc'[p] = v
  BY <1>1, <1>3, CallChanged
<1>5. /\ worktree' \in [Tasks -> Worktrees] /\ autonomy' \subseteq Tasks /\ created' \subseteq Tasks
      /\ UNCHANGED <<today, record, archives, tombstones, sweep>>
  BY <1>1, <1>2, WorktreeChanged DEF EndRemoval, Types
<1>6. CallFits(p)'
  BY <1>1, <1>2, <1>3 DEF CallFits, Kept
<1> QED
  BY <1>3, <1>4, <1>5, <1>6, CallMoves

LEMMA RaiseMoves ==
  ASSUME Types, NEW p \in Procs, Raise(p)
  PROVE  /\ proc' = [proc EXCEPT ![p] = Idle] /\ sweep' \in [Tasks -> Records]
         /\ \A t \in Tasks : sweep'[t] \in {sweep[t], NoRecord}
BY IdleCall DEF Raise, Types

LEMMA ArchiveRaisesKeeps ==
  ASSUME ArchiveInv, NEW p \in Procs, ArchiveRaises(p)
  PROVE  Keeps(p)
<1>1. /\ record' \in [Tasks -> Records] /\ worktree' \in [Tasks -> Worktrees]
      /\ autonomy' \subseteq Tasks /\ created' \subseteq Tasks
      /\ UNCHANGED <<today, record, archives, tombstones>>
  BY DEF ArchiveRaises, ArchiveInv, Types
<1>2. Raise(p) /\ Types
  BY DEF ArchiveRaises, ArchiveInv
<1> QED
  BY <1>1, <1>2, RaiseMoves, CallEnds

LEMMA FailKeeps ==
  ASSUME ArchiveInv, NEW p \in Procs, Fail(p)
  PROVE  Keeps(p)
<1> DEFINE t == proc[p].task
<1>1. Types /\ CallFits(p) /\ t \in Tasks
  BY DEF ArchiveInv, CallFits, Fail
<1>2. autonomy' \subseteq Tasks /\ created' \subseteq Tasks /\ UNCHANGED <<today, archives, tombstones>>
  BY <1>1 DEF Fail, Types
<1>3. Raise(p)
  BY DEF Fail
<1>4. \/ record' = record
      \/ record' = [record EXCEPT ![t] = Unreadable]
      \/ record' = [record EXCEPT ![t] = NoRecord]
  BY DEF Fail
<1>5. record' \in [Tasks -> Records] /\ \A u \in Tasks : record'[u] \in {record[u], NoRecord, Unreadable}
  BY <1>1, <1>4, IdleCall DEF Types
<1>6. \/ worktree' = worktree
      \/ worktree' = [worktree EXCEPT ![t] = NoTree]
      \/ \E there \in {"none", "partial", "whole"} :
           worktree' = [worktree EXCEPT ![t].there = there]
  BY DEF Fail
<1>7. worktree' \in [Tasks -> Worktrees]
  <2>1. \A there \in {"none", "partial", "whole"} :
          [worktree EXCEPT ![t].there = there] \in [Tasks -> Worktrees]
    BY <1>1, WorktreeChanged
  <2>2. [worktree EXCEPT ![t] = NoTree] \in [Tasks -> Worktrees]
    BY <1>1, WorktreeChanged
  <2> QED
    BY <1>1, <1>6, <2>1, <2>2 DEF Types
<1> QED
  BY <1>1, <1>2, <1>3, <1>5, <1>7, RaiseMoves, CallEnds

LEMMA BeginSweepKeeps ==
  ASSUME ArchiveInv, BeginSweep
  PROVE  Keeps("sweeper")
<1> DEFINE p == "sweeper"
<1>1. Types /\ p \in Procs /\ CallFits(p) /\ proc[p].at = "idle"
  BY DEF ArchiveInv, Procs, BeginSweep
<1>2. UNCHANGED <<today, record, worktree, archives, tombstones, autonomy, proc, created>>
  BY DEF BeginSweep
<1>3. PICK skipped : sweep' = [t \in Tasks |-> IF Due(t, record[t]) /\ t \notin skipped
                                                 THEN record[t] ELSE NoRecord]
  BY DEF BeginSweep
<1>4. \A t \in Tasks : sweep'[t] = NoRecord \/ (Due(t, record[t]) /\ sweep'[t] = record[t])
  BY <1>3
<1>5. sweep' \in [Tasks -> Records]
  BY <1>1, <1>3, IdleCall DEF Types
<1>6. Types'
  BY <1>1, <1>2, <1>5 DEF Types
<1>7. ArchivesMove(p)
  BY <1>2, ArchivesStay
<1>8. ReferencesMove(p) /\ TombstonesMove(p)
  BY <1>2, <1>4 DEF ReferencesMove, TombstonesMove
<1>9. CallFits(p)'
  BY <1>1, <1>2, IdleFits DEF CallFits
<1>10. \A t \in Tasks : SweepFits(t)'
  <2> TAKE t \in Tasks
  <2>1. CASE sweep'[t] = NoRecord
    BY <2>1 DEF SweepFits
  <2>2. CASE Due(t, record[t]) /\ sweep'[t] = record[t]
    <3>1. record[t].archive \in Nat
      BY <1>1, TaskTypes
    <3> QED
      BY <1>2, <2>2, <3>1 DEF SweepFits, Due, Stale, Expired
  <2> QED
    BY <1>4, <2>1, <2>2
<1> QED
  BY <1>1, <1>2, <1>6, <1>7, <1>8, <1>9, <1>10, StepKeeps DEF Keeps

LEMMA SweepRaisesKeeps ==
  ASSUME ArchiveInv, NEW t \in Tasks, SweepRaises(t)
  PROVE  Keeps("sweeper")
<1> DEFINE p == "sweeper"
<1>1. Types /\ p \in Procs /\ CallFits(p) /\ proc[p] = Idle
  BY DEF ArchiveInv, Procs, SweepRaises, SweepsNext, CallFits
<1>2. /\ record' \in [Tasks -> Records] /\ worktree' \in [Tasks -> Worktrees]
      /\ autonomy' \subseteq Tasks /\ created' \subseteq Tasks
      /\ UNCHANGED <<today, record, archives, tombstones>>
  BY <1>1 DEF SweepRaises, Types
<1>3. sweep' \in [Tasks -> Records] /\ \A u \in Tasks : sweep'[u] = NoRecord
  BY IdleCall DEF SweepRaises
<1>4. proc' = [proc EXCEPT ![p] = Idle]
  BY <1>1 DEF SweepRaises, Types
<1> QED
  BY <1>1, <1>2, <1>3, <1>4, CallEnds

LEMMA NextDayKeeps ==
  ASSUME ArchiveInv, NextDay
  PROVE  ArchiveInv' /\ UNCHANGED archives
<1>1. Types /\ today' = today + 1 /\ today \in Nat
  BY DEF ArchiveInv, NextDay, Types
<1>2. UNCHANGED <<record, worktree, archives, tombstones, autonomy, proc, sweep, created>>
  BY DEF NextDay
<1>3. Types'
  BY <1>1, <1>2 DEF Types
<1>4. \A t \in Tasks : ReferencesFit(t)'
  <2> TAKE t \in Tasks
  <2>1. ReferencesFit(t)
    BY DEF ArchiveInv
  <2>2. \A a : (Says(t, a)' <=> Says(t, a)) /\ (Names(t, a)' <=> Names(t, a))
    BY <1>2 DEF Says, Names, Has
  <2> QED
    BY <2>1, <2>2 DEF ReferencesFit, Agree
<1>5. \A t \in Tasks : SweepFits(t)'
  BY <1>2 DEF NextDay, Todo, SweepFits
<1>6. \A p \in Procs : CallFits(p)'
  BY <1>2, IdleFits DEF NextDay, ArchiveInv, CallFits
<1>7. TombstonesFit'
  BY <1>2 DEF ArchiveInv, TombstonesFit, Has
<1>8. \A t \in Tasks : record'[t].state = "expired" => Buried(t, record[t].archive)'
  BY <1>2 DEF ArchiveInv, Buried
<1> QED
  BY <1>2, <1>3, <1>4, <1>5, <1>6, <1>7, <1>8 DEF ArchiveInv

\* The sweep's next task: an archive it has to expire is one that is past its time.
LEMMA ExpiryIsDue ==
  ASSUME ArchiveInv, NEW t \in Tasks, SweepsNext(t), sweep[t].state \notin Live
  PROVE  /\ sweep[t].state = "archived" /\ sweep[t].archive > 0
         /\ Has(t, sweep[t].archive)
         /\ archives[t][sweep[t].archive].state # "partial"
         /\ archives[t][sweep[t].archive].archived_at + ArchiveTtl <= today
         /\ sweep[t] \in Records /\ sweep[t].archive \in Nat
<1>1. SweepFits(t) /\ Names(t, sweep[t])
  BY DEF ArchiveInv, ReferencesFit, Says
<1>2. sweep[t] # NoRecord
  BY DEF SweepsNext, Todo
<1>3. sweep[t] \in Records /\ sweep[t].archive \in Nat
  BY TaskTypes DEF ArchiveInv
<1> QED
  BY <1>1, <1>2, <1>3 DEF SweepFits, Names

LEMMA SweepExpiresKeeps ==
  ASSUME ArchiveInv, NEW t \in Tasks, SweepExpires(t)
  PROVE  Keeps("sweeper")
<1> DEFINE p == "sweeper"
           payload == [sweep[t] EXCEPT !.state = "expired"]
<1>1. Types /\ p \in Procs /\ CallFits(p) /\ proc[p] = Idle
  BY DEF ArchiveInv, Procs, SweepExpires, SweepsNext, CallFits
<1>2. PICK n \in Nat : n = sweep[t].archive
  BY <1>1, TaskTypes
<1>3. /\ sweep[t].state = "archived" /\ n > 0 /\ Has(t, n)
      /\ archives[t][n].state \notin {"partial", "gone"} /\ sweep[t] \in Records
  BY <1>2, ExpiryIsDue DEF SweepExpires
<1>4. Marked(t, n, "removing") /\ archives' \in [Tasks -> Seq(Archives)]
  BY <1>1, <1>2, <1>3, MarkedByExcept DEF SweepExpires
<1>5. payload \in Records /\ payload.state = "expired" /\ payload.archive = n
  BY <1>2, <1>3 DEF Records, States, Kept
<1> HIDE DEF payload
<1> DEFINE v == [Idle EXCEPT !.at = "expiring", !.task = t, !.dir = n, !.payload = payload]
<1>6. /\ v \in Calls /\ v.at = "expiring" /\ v.task = t /\ v.dir = n /\ v.payload = payload
      /\ v.from = 0
  BY <1>5, TasksAreNatural DEF Idle, Calls, Stages
<1>7. proc' = [proc EXCEPT ![p] = v]
  BY <1>2 DEF SweepExpires, payload
<1> HIDE DEF v
<1>8. /\ proc' \in [Procs -> Calls] /\ proc'[p] = v
      /\ \A q \in Procs : q # p => proc'[q] = proc[q]
  BY <1>1, <1>6, <1>7, CallChanged
<1>9. UNCHANGED <<today, record, worktree, tombstones, autonomy, sweep, created>>
  BY DEF SweepExpires
<1>10. Types'
  BY <1>1, <1>4, <1>8, <1>9 DEF Types
<1>11. archives[t][n] \in Archives
  BY <1>1, <1>3, TaskTypes
<1>12. Has(t, n)'
  BY <1>3, <1>4 DEF Marked, Has
<1>13. /\ archives'[t][n].state = "removing"
       /\ archives'[t][n].whole = archives[t][n].whole
       /\ archives'[t][n].version = archives[t][n].version
       /\ archives'[t][n].archived_at = archives[t][n].archived_at
  <2>1. archives'[t][n] = [archives[t][n] EXCEPT !.state = "removing"]
    BY <1>3, <1>4 DEF Marked, Has
  <2> QED
    BY <1>11, <2>1 DEF Archives
<1>14. ArchivesMove(p)
  <2> SUFFICES ASSUME NEW u \in Tasks, NEW k \in Nat
               PROVE  /\ Has(u, k) => /\ Has(u, k)'
                                      /\ archives'[u][k] = archives[u][k] \/ (u = t /\ k = n)
                      /\ Has(u, k)' => Has(u, k)
    <3>1. proc[p].at = "idle"
      BY <1>1 DEF Idle
    <3> QED
      BY <1>2, <1>3, <1>12, <1>13, <3>1 DEF ArchivesMove
  <2>1. Len(archives'[u]) = Len(archives[u])
    BY <1>4 DEF Marked
  <2>2. ASSUME Has(u, k), ~(u = t /\ k = n)
        PROVE  archives'[u][k] = archives[u][k]
    BY <1>4, <2>2 DEF Marked, Has
  <2> QED
    BY <2>1, <2>2 DEF Has
<1>15. ReferencesMove(p) /\ TombstonesMove(p)
  BY <1>3, <1>6, <1>8, <1>9 DEF ReferencesMove, TombstonesMove, payload
<1>16. ~Buried(t, n)
  <2>1. Buried(t, n) => archives[t][n].state = "gone"
    BY DEF Buried, ArchiveInv, TombstonesFit
  <2> QED
    BY <1>3, <2>1
<1>17. CallFits(p)'
  <2>1. ~Buried(t, n)'
    BY <1>9, <1>16 DEF Buried
  <2> QED
    BY <1>5, <1>6, <1>8, <1>12, <1>13, <2>1 DEF CallFits, Has, Buried
<1>18. proc'[p].at # "archiving"
  BY <1>6, <1>8
<1> QED
  BY <1>1, <1>9, <1>10, <1>14, <1>15, <1>17, <1>18, StepKeeps DEF Keeps

LEMMA ArchiveRemovedKeeps ==
  ASSUME ArchiveInv, ArchiveRemoved
  PROVE  Keeps("sweeper")
<1> DEFINE p == "sweeper"
<1>1. Types /\ p \in Procs /\ CallFits(p) /\ proc[p].at = "expiring" /\ proc[p].dir \in Nat
  BY CallTypes DEF ArchiveInv, Procs, ArchiveRemoved
<1>2. PICK t \in Tasks, n \in Nat : t = proc[p].task /\ n = proc[p].dir
  BY <1>1 DEF CallFits
<1>3. /\ Has(t, n) /\ archives[t][n].state = "removing" /\ ~Buried(t, n)
      /\ proc[p].payload.archive = n /\ proc[p].payload.state = "expired"
  BY <1>1, <1>2 DEF CallFits
<1>4. Marked(t, n, "gone") /\ archives' \in [Tasks -> Seq(Archives)]
  BY <1>1, <1>2, <1>3, MarkedByExcept DEF ArchiveRemoved
<1>5. /\ proc' \in [Procs -> Calls] /\ proc'[p].at = "burying"
      /\ proc'[p].task = t /\ proc'[p].payload = proc[p].payload
      /\ proc'[p].dir = n /\ proc'[p].from = proc[p].from
      /\ \A q \in Procs : q # p => proc'[q] = proc[q]
  BY <1>1, <1>2, StageChanged DEF ArchiveRemoved, Stages
<1>6. UNCHANGED <<today, record, worktree, tombstones, autonomy, sweep, created>>
  BY DEF ArchiveRemoved
<1>7. Types'
  BY <1>1, <1>4, <1>5, <1>6 DEF Types
<1>8. archives[t][n] \in Archives
  BY <1>1, <1>3, TaskTypes
<1>9. Has(t, n)'
  BY <1>3, <1>4 DEF Marked, Has
<1>10. /\ archives'[t][n].state = "gone"
       /\ archives'[t][n].whole = archives[t][n].whole
       /\ archives'[t][n].version = archives[t][n].version
       /\ archives'[t][n].archived_at = archives[t][n].archived_at
  <2>1. archives'[t][n] = [archives[t][n] EXCEPT !.state = "gone"]
    BY <1>3, <1>4 DEF Marked, Has
  <2> QED
    BY <1>8, <2>1 DEF Archives
<1>11. ArchivesMove(p)
  <2> SUFFICES ASSUME NEW u \in Tasks, NEW k \in Nat
               PROVE  /\ Has(u, k) => /\ Has(u, k)'
                                      /\ archives'[u][k] = archives[u][k] \/ (u = t /\ k = n)
                      /\ Has(u, k)' => Has(u, k)
    BY <1>1, <1>2, <1>9, <1>10 DEF ArchivesMove
  <2>1. Len(archives'[u]) = Len(archives[u])
    BY <1>4 DEF Marked
  <2>2. ASSUME Has(u, k), ~(u = t /\ k = n)
        PROVE  archives'[u][k] = archives[u][k]
    BY <1>4, <2>2 DEF Marked, Has
  <2> QED
    BY <2>1, <2>2 DEF Has
<1>12. ReferencesMove(p) /\ TombstonesMove(p)
  BY <1>2, <1>5, <1>6 DEF ReferencesMove, TombstonesMove
<1>13. CallFits(p)'
  <2>1. ~Buried(t, n)'
    BY <1>3, <1>6 DEF Buried
  <2> QED
    BY <1>1, <1>3, <1>5, <1>9, <1>10, <2>1 DEF CallFits, Has, Buried
<1> QED
  BY <1>1, <1>5, <1>6, <1>7, <1>11, <1>12, <1>13, StepKeeps DEF Keeps

LEMMA BuryKeeps ==
  ASSUME ArchiveInv, Bury
  PROVE  Keeps("sweeper")
<1> DEFINE p == "sweeper"
<1>1. Types /\ p \in Procs /\ CallFits(p) /\ proc[p].at = "burying" /\ proc[p].dir \in Nat
  BY CallTypes DEF ArchiveInv, Procs, Bury
<1>2. PICK t \in Tasks, n \in Nat : t = proc[p].task /\ n = proc[p].dir
  BY <1>1 DEF CallFits
<1>3. proc[p].payload.archive = n /\ proc[p].payload.state = "expired"
  BY <1>1, <1>2 DEF CallFits
<1>4. /\ proc' \in [Procs -> Calls] /\ proc'[p].at = "saving"
      /\ proc'[p].task = t /\ proc'[p].payload = proc[p].payload
      /\ proc'[p].dir = n /\ proc'[p].from = proc[p].from
      /\ \A q \in Procs : q # p => proc'[q] = proc[q]
  BY <1>1, <1>2, StageChanged DEF Bury, Stages
<1>5. UNCHANGED <<today, record, worktree, archives, autonomy, sweep, created>>
  BY DEF Bury
<1>6. tombstones' = Append(tombstones, <<t, n>>) /\ tombstones \in Seq(Tasks \X Nat)
  BY <1>1, <1>2 DEF Bury, Types
<1>7. tombstones' \in Seq(Tasks \X Nat)
  BY <1>6, AppendProperties
<1>8. Types'
  BY <1>1, <1>4, <1>5, <1>7 DEF Types
<1>9. ArchivesMove(p)
  BY <1>5, ArchivesStay
<1>10. ReferencesMove(p) /\ TombstonesMove(p)
  BY <1>1, <1>2, <1>4, <1>5, <1>6 DEF ReferencesMove, TombstonesMove
<1>11. Buried(t, n)'
  <2>1. Len(tombstones') = Len(tombstones) + 1 /\ tombstones'[Len(tombstones) + 1] = <<t, n>>
        /\ Len(tombstones) \in Nat
    BY <1>6, AppendProperties
  <2> QED
    BY <2>1 DEF Buried
<1>12. CallFits(p)'
  BY <1>1, <1>3, <1>4, <1>11 DEF CallFits, Buried, Kept
<1> QED
  BY <1>1, <1>4, <1>5, <1>8, <1>9, <1>10, <1>12, StepKeeps DEF Keeps

LEMMA StutterKeeps ==
  ASSUME ArchiveInv, UNCHANGED vars
  PROVE  ArchiveInv' /\ UNCHANGED archives
<1>1. Types'
  BY DEF ArchiveInv, Types, vars
<1>2. \A t \in Tasks : ReferencesFit(t)' /\ SweepFits(t)'
  <2> TAKE t \in Tasks
  <2>1. ReferencesFit(t) /\ SweepFits(t)
    BY DEF ArchiveInv
  <2>2. \A a : (Says(t, a)' <=> Says(t, a)) /\ (Names(t, a)' <=> Names(t, a))
    BY DEF vars, Says, Names, Has
  <2> QED
    BY <2>1, <2>2 DEF ReferencesFit, Agree, SweepFits, vars
<1>3. \A p \in Procs : CallFits(p)'
  <2> TAKE p \in Procs
  <2>1. CallFits(p)
    BY DEF ArchiveInv
  <2> QED
    BY <2>1 DEF CallFits, Has, Unsaid, Buried, vars
<1>4. TombstonesFit'
  BY DEF ArchiveInv, TombstonesFit, Has, vars
<1>5. \A t \in Tasks : record'[t].state = "expired" => Buried(t, record[t].archive)'
  BY DEF ArchiveInv, Buried, vars
<1> QED
  BY <1>1, <1>2, <1>3, <1>4, <1>5 DEF ArchiveInv, vars

LEMMA InitArchiveInv ==
  ASSUME Init
  PROVE  ArchiveInv
<1>1. NoTree \in Worktrees
  BY DEF NoTree, Worktrees
<1>2. archives \in [Tasks -> Seq(Archives)] /\ tombstones \in Seq(Tasks \X Nat)
      /\ Len(tombstones) = 0
  BY DEF Init
<1>3. Types
  BY <1>1, <1>2, IdleCall DEF Init, Types
<1>4. \A p \in Procs : proc[p] = Idle
  BY DEF Init
<1>5. \A p \in Procs : CallFits(p)
  BY <1>4 DEF CallFits, Idle, NoRecord
<1>6. \A t \in Tasks : \A a : Says(t, a) => a = NoRecord
  BY <1>4 DEF Init, Says, Idle
<1>7. \A t \in Tasks : ReferencesFit(t) /\ SweepFits(t)
  <2>1. NoRecord.archive = 0 /\ ~(0 > 0)
    BY DEF NoRecord
  <2>2. \A t \in Tasks : ReferencesFit(t)
    BY <1>6, <2>1 DEF ReferencesFit, Names, Agree
  <2> QED
    BY <2>2 DEF SweepFits, Init
<1>8. TombstonesFit
  BY <1>2 DEF TombstonesFit
<1>9. \A t \in Tasks : record[t].state # "expired"
  BY DEF Init, NoRecord
<1> QED
  BY <1>3, <1>5, <1>7, <1>8, <1>9 DEF ArchiveInv

LEMMA NextArchiveInv ==
  ASSUME ArchiveInv, [Next]_vars
  PROVE  ArchiveInv' /\ (UNCHANGED archives \/ \E p \in Procs : ArchivesMove(p))
<1> DEFINE Goal == ArchiveInv' /\ (UNCHANGED archives \/ \E p \in Procs : ArchivesMove(p))
<1>1. (\A p \in Procs : Keeps(p) => Goal) /\ (Keeps("sweeper") => Goal)
  BY DEF Keeps, Procs
<1> SUFFICES Goal
  OBVIOUS
<1>2. "sweeper" \in Procs /\ \A c \in Clients : c \in Procs
  BY DEF Procs
<1> HIDE DEF Goal
<1>3. CASE NextDay
  BY <1>3, NextDayKeeps DEF Goal
<1>4. ASSUME NEW p \in Clients, NEW t \in Tasks, ClientCalls(p, t)
      PROVE  Goal
  <2>1. CASE Edit(p, t)
    BY <1>1, <1>2, <2>1, EditKeeps
  <2>2. CASE RenewWorkspaceLease(p, t)
    BY <1>1, <1>2, <2>2, RenewWorkspaceLeaseKeeps
  <2>3. CASE PauseWorkspace(p, t)
    BY <1>1, <1>2, <2>3, PauseWorkspaceKeeps
  <2>4. CASE StartAutonomousRun(p, t)
    BY <1>1, <1>2, <2>4, StartAutonomousRunKeeps
  <2>5. CASE CreateWorkspace(p, t)
    BY <1>1, <1>2, <2>5, CloneKeeps DEF CreateWorkspace
  <2>6. CASE ArchiveWorkspace(p, t)
    BY <1>1, <1>2, <2>6, BeginArchiveKeeps DEF ArchiveWorkspace
  <2>7. CASE MarkReviewReady(p, t)
    BY <1>1, <1>2, <2>7, BeginArchiveKeeps DEF MarkReviewReady
  <2>8. ASSUME NEW r \in Tasks, RestoreWorkspace(p, t, r)
        PROVE  Goal
    <3>1. record[t].archive \in Nat
      BY TaskTypes DEF ArchiveInv
    <3> QED
      BY <1>1, <1>2, <2>8, <3>1, CloneKeeps DEF RestoreWorkspace
  <2> QED
    BY <1>4, <2>1, <2>2, <2>3, <2>4, <2>5, <2>6, <2>7, <2>8 DEF ClientCalls
<1>5. ASSUME NEW p \in Procs, Proceed(p)
      PROVE  Goal
  <2>1. Keeps(p)
    BY <1>5, SaveKeeps, ClonedKeeps, ExtractKeeps, WriteTreeKeeps, WriteManifestKeeps,
       BeginRemovalKeeps, EndRemovalKeeps, ArchiveRaisesKeeps DEF Proceed
  <2> QED
    BY <1>1, <2>1
<1>6. CASE Sweeper
  <2>1. ASSUME NEW t \in Tasks, SweepArchives(t)
        PROVE  Keeps("sweeper")
    BY <1>2, <2>1, BeginArchiveKeeps DEF SweepArchives, ArchiveWorkspace
  <2>2. Keeps("sweeper")
    BY <1>6, <2>1, BeginSweepKeeps, SweepExpiresKeeps, SweepRaisesKeeps, ArchiveRemovedKeeps,
       BuryKeeps DEF Sweeper
  <2> QED
    BY <1>1, <2>2
<1>7. ASSUME NEW p \in Procs, Fail(p)
      PROVE  Goal
  BY <1>1, <1>7, FailKeeps
<1>8. CASE UNCHANGED vars
  BY <1>8, StutterKeeps DEF Goal
<1>9. CASE Next
  BY <1>3, <1>4, <1>5, <1>6, <1>7, <1>9 DEF Next
<1> QED
  BY <1>8, <1>9

\* Expired archives are gone and buried once, with any number of processes on the same
\* directories, whatever is interrupted and however old the list of the sweep.
THEOREM ExpiriesAreBuriedHolds == Spec => []ExpiriesAreBuried
<1>1. ArchiveInv => ExpiriesAreBuried
  BY DEF ArchiveInv, ExpiriesAreBuried, TombstonesFit, Buried
<1> QED
  BY <1>1, InitArchiveInv, NextArchiveInv, PTL DEF Spec

\* An archive is complete until it has had its time, and while the record calls it a
\* review candidate: the second half of RemovalKeepsTheWork, for any number of processes.
ArchivesHaveTheirTime ==
  [][\A t \in Tasks : \A n \in 1 .. Len(archives[t]) :
       archives[t][n].state = "complete" /\ archives'[t][n].state # "complete" =>
         /\ archives[t][n].archived_at + ArchiveTtl <= today
         /\ ~(record[t].state = "review_ready" /\ record[t].archive = n)]_vars

LEMMA RemovedInTime ==
  ASSUME ArchiveInv, [Next]_vars,
         NEW t \in Tasks, NEW n \in 1 .. Len(archives[t]),
         archives[t][n].state = "complete", archives'[t][n].state # "complete"
  PROVE  /\ archives[t][n].archived_at + ArchiveTtl <= today
         /\ ~(record[t].state = "review_ready" /\ record[t].archive = n)
<1>1. Has(t, n) /\ n \in Nat /\ n > 0
  BY TaskTypes DEF Has, ArchiveInv
<1>2. PICK p \in Procs : ArchivesMove(p)
  BY NextArchiveInv
<1>3. CallFits(p) /\ ReferencesFit(t) /\ SweepFits(t)
  BY DEF ArchiveInv
<1>4. n = sweep[t].archive /\ sweep[t].state = "archived"
  BY <1>1, <1>2, <1>3 DEF ArchivesMove, CallFits
<1>5. archives[t][n].archived_at + ArchiveTtl <= today
  BY <1>3, <1>4 DEF SweepFits, NoRecord, Live
<1>6. Says(t, sweep[t]) /\ Says(t, record[t])
  BY DEF Says
<1>7. Agree(sweep[t], record[t])
  BY <1>3, <1>6 DEF ReferencesFit
<1> QED
  BY <1>1, <1>4, <1>5, <1>7 DEF Agree

\* No race, crash or stale list removes an archive before its time or a review candidate's.
THEOREM ArchivesHaveTheirTimeHolds == Spec => ArchivesHaveTheirTime
<1>1. ASSUME ArchiveInv, [Next]_vars
      PROVE  [\A t \in Tasks : \A n \in 1 .. Len(archives[t]) :
                archives[t][n].state = "complete" /\ archives'[t][n].state # "complete" =>
                  /\ archives[t][n].archived_at + ArchiveTtl <= today
                  /\ ~(record[t].state = "review_ready" /\ record[t].archive = n)]_vars
  BY <1>1, RemovedInTime
<1> QED
  BY <1>1, InitArchiveInv, NextArchiveInv, PTL DEF Spec, ArchivesHaveTheirTime

------------------------------------------------------------------------------
(***************************************************************************)
(* The work in a workspace: one service beside the sweeper.                *)
(***************************************************************************)

\* What makes an archive fresh lasts for the day.
LEMMA FreshLasts ==
  ASSUME ArchiveInv, NEW p \in Procs, Keeps(p), today' = today,
         NEW t \in Tasks, NEW n, Fresh(t, n)
  PROVE  /\ Fresh(t, n)' /\ Has(t, n)
         /\ archives'[t][n].version = archives[t][n].version
<1>1. /\ ArchiveInv' /\ ArchivesMove(p) /\ ReferencesMove(p)
      /\ Types /\ ReferencesFit(t) /\ SweepFits(t)' /\ CallFits(p)
  BY DEF Keeps, ArchiveInv
<1>2. /\ Has(t, n) /\ n \in Nat /\ n > 0 /\ archives[t][n].state = "complete"
      /\ archives[t][n].whole /\ sweep[t].archive # n /\ archives[t][n].archived_at \in Nat
  BY <1>1, TaskTypes DEF Fresh, Has
<1>3. ~(proc[p].at = "archiving" /\ t = proc[p].task /\ n = proc[p].dir)
  BY <1>1, <1>2 DEF CallFits
<1>4. ~(proc[p].at = "expiring" /\ t = proc[p].task /\ n = proc[p].dir)
  BY <1>1, <1>2 DEF CallFits
<1>5. /\ Has(t, n)' /\ archives'[t][n].state = "complete" /\ archives'[t][n].whole
      /\ archives'[t][n].version = archives[t][n].version
      /\ archives'[t][n].archived_at = archives[t][n].archived_at
  BY <1>1, <1>2, <1>3, <1>4 DEF ArchivesMove
<1>6. \A a : Says(t, a) /\ a.archive = n => archives[t][n].archived_at = today
  BY DEF Fresh
<1>7. sweep'[t].archive # n
  <2>1. CASE sweep'[t] = record[t]
    <3>1. Says(t, record[t]) /\ Names(t, record[t])
      BY <1>1 DEF Says, ReferencesFit
    <3>2. record[t].archive = n => record[t].state \notin Live /\ archives[t][n].archived_at = today
      BY <1>2, <1>6, <3>1 DEF Names, Kept, Live
    <3>3. ~(archives'[t][n].archived_at + ArchiveTtl <= today) \/ archives[t][n].archived_at # today
      BY <1>2, <1>5, WorkspacesAssumption
    <3> QED
      BY <1>1, <1>2, <2>1, <3>2, <3>3 DEF SweepFits, NoRecord
  <2> QED
    BY <1>1, <1>2, <2>1 DEF ReferencesMove, NoRecord
<1>8. ASSUME NEW a, Says(t, a)', a.archive = n
      PROVE  archives'[t][n].archived_at = today'
  <2>1. CASE a = record'[t]
    <3>1. Says(t, a)
      BY <1>1, <1>2, <1>8, <2>1 DEF ReferencesMove, Says, NoRecord, Unreadable
    <3> QED
      BY <1>5, <1>6, <1>8, <3>1
  <2>2. CASE a = sweep'[t]
    BY <1>7, <1>8, <2>2
  <2>3. CASE \E q \in Procs : proc'[q].task = t /\ a = proc'[q].payload
    <3> PICK q \in Procs : proc'[q].task = t /\ a = proc'[q].payload
      BY <2>3
    <3>1. CASE Says(t, a)
      BY <1>5, <1>6, <1>8, <3>1
    <3>2. CASE q = p /\ a = [sweep[t] EXCEPT !.state = "expired"]
      <4>1. sweep[t] \in Records
        BY <1>1, TaskTypes
      <4>2. a.archive = sweep[t].archive
        BY <3>2, <4>1 DEF Records
      <4> QED
        BY <1>2, <1>8, <4>2
    <3>3. CASE /\ q = p /\ proc[p].at = "archiving" /\ t = proc[p].task
               /\ a = [proc[p].payload EXCEPT !.archive = proc[p].dir]
      <4>1. proc[p].payload \in Records
        BY <1>1, CallTypes
      <4>2. a.archive = proc[p].dir
        BY <3>3, <4>1 DEF Records
      <4> QED
        BY <1>3, <1>8, <3>3, <4>2
    <3> QED
      BY <1>1, <1>2, <1>8, <3>1, <3>2, <3>3 DEF ReferencesMove, Says
  <2> QED
    BY <1>8, <2>1, <2>2, <2>3 DEF Says
<1> QED
  BY <1>2, <1>5, <1>7, <1>8 DEF Fresh

LEMMA HasFreshLasts ==
  ASSUME ArchiveInv, NEW p \in Procs, Keeps(p), today' = today, NEW t \in Tasks
  PROVE  \A v : HasFresh(t, v) => HasFresh(t, v)'
<1> TAKE v
<1> HAVE HasFresh(t, v)
<1>1. PICK n : n \in 1 .. Len(archives[t]) /\ Fresh(t, n) /\ archives[t][n].version >= v
  BY DEF HasFresh
<1>2. Fresh(t, n)' /\ archives'[t][n].version >= v
  BY <1>1, FreshLasts
<1> QED
  BY <1>2 DEF HasFresh, Fresh, Has

\* The archive a call has completed is fresh, until the record that names it is saved.
LEMMA CompletedIsFresh ==
  ASSUME ArchiveInv, NEW p \in Procs, proc[p].at \in {"archived", "removing"},
         archives[proc[p].task][proc[p].dir].whole
  PROVE  Fresh(proc[p].task, proc[p].dir)
<1> DEFINE t == proc[p].task
           n == proc[p].dir
<1>1. /\ Has(t, n) /\ archives[t][n].state = "complete" /\ archives[t][n].archived_at = today
      /\ Unsaid(p)
  BY DEF ArchiveInv, CallFits
<1> QED
  BY <1>1 DEF Fresh, Unsaid

\* What a step may do to the work: none is lost that is not in an archive.
LEMMA WorkIsKeptLonger ==
  ASSUME ArchiveInv, NEW p \in Procs, Keeps(p), WorkIsKept, created' \subseteq Tasks,
         \A t \in created' : t \in created \/ Whole(t)',
         \A t \in created : Whole(t) => Whole(t)' \/ HasFresh(t, 0)'
  PROVE  WorkIsKept'
<1> SUFFICES ASSUME NEW t \in created', ~Whole(t)'
             PROVE  \E n \in 1 .. Len(archives'[t]) :
                      \/ archives'[t][n].state = "complete" /\ archives'[t][n].whole
                      \/ archives'[t][n].state \in {"removing", "gone"}
  BY DEF WorkIsKept, Whole
<1>1. t \in created /\ t \in Tasks
  OBVIOUS
<1>2. CASE HasFresh(t, 0)'
  BY <1>2 DEF HasFresh, Fresh
<1>3. CASE ~Whole(t)
  <2>1. PICK n \in 1 .. Len(archives[t]) :
          \/ archives[t][n].state = "complete" /\ archives[t][n].whole
          \/ archives[t][n].state \in {"removing", "gone"}
    BY <1>1, <1>3 DEF WorkIsKept, Whole
  <2>2. Has(t, n) /\ n \in Nat /\ ArchivesMove(p) /\ CallFits(p)
    BY <1>1, TaskTypes DEF Has, ArchiveInv, Keeps
  <2>3. /\ Has(t, n)'
        /\ \/ archives'[t][n].state = "complete" /\ archives'[t][n].whole
           \/ archives'[t][n].state \in {"removing", "gone"}
    BY <1>1, <2>1, <2>2 DEF ArchivesMove, CallFits
  <2> QED
    BY <2>3 DEF Has
<1> QED
  BY <1>1, <1>2, <1>3

\* What a step of the sweeper does beside the service c.
SweeperMoves(c) ==
  /\ proc'[c] = proc[c] /\ created' = created /\ today' = today
  /\ \A t \in Tasks :
       \/ worktree'[t] = worktree[t]
       \/ t = proc["sweeper"].task /\ ~Whole(t)'
  /\ \A t \in Tasks :
       \/ record'[t] = record[t]
       \/ t = proc["sweeper"].task /\ record'[t].state \notin Live \union {"absent"}
  /\ \A t \in Tasks : \/ sweep'[t] \in {sweep[t], NoRecord}
                      \/ Due(t, record[t]) /\ sweep'[t] = record[t]
  /\ \/ proc'["sweeper"].task = proc["sweeper"].task
     \/ proc'["sweeper"].task \notin Tasks
     \/ sweep[proc'["sweeper"].task] # NoRecord
  /\ \A t \in created : Whole(t) => Whole(t)' \/ HasFresh(t, 0)'

\* A record that was made or used today is not due, nor is one that is absent.
LEMMA NotDue ==
  ASSUME ArchiveInv, NEW t \in Tasks,
         \/ record[t].state = "absent"
         \/ record[t].state \in Live /\ record[t].last_activity_at = today
  PROVE  ~Due(t, record[t])
<1>1. today \in Nat
  BY DEF ArchiveInv, Types
<1>2. ~(today + WorkspaceTtl <= today)
  BY <1>1, WorkspacesAssumption
<1> QED
  BY <1>2 DEF Due, Stale, Expired, Live

LEMMA SweeperKeepsWork ==
  ASSUME NEW c, Clients = {c}, WorkInv(c), Keeps("sweeper"), SweeperMoves(c), SweeperFits'
  PROVE  WorkInv(c)'
<1> DEFINE s == "sweeper"
<1>1. /\ ArchiveInv /\ ArchiveInv' /\ Types /\ created \subseteq Tasks
      /\ s \in Procs /\ c \in Procs /\ c # s
  BY WorkspacesAssumption DEF WorkInv, Keeps, ArchiveInv, Types, Procs
<1>2. \A t \in Tasks : \A v : HasFresh(t, v) => HasFresh(t, v)'
  BY <1>1, HasFreshLasts DEF SweeperMoves
<1>3. WorkIsKept'
  BY <1>1, WorkIsKeptLonger DEF SweeperMoves, WorkInv
<1>4. \A t \in Tasks : MadeFits(t)'
  <2> TAKE t \in Tasks
  <2>1. MadeFits(t)
    BY DEF WorkInv
  <2>2. record[t].state = "absent" <=> record'[t].state = "absent"
    BY <2>1 DEF SweeperMoves, MadeFits
  <2>3. record[t].state = "absent" => ~Due(t, record[t])
    BY <1>1, NotDue
  <2>4. record[t].state = "absent" => sweep'[t] = NoRecord /\ proc'[s].task # t
    BY <2>1, <2>3 DEF SweeperMoves, MadeFits
  <2> QED
    BY <2>1, <2>2, <2>4 DEF MadeFits, SweeperMoves
<1>5. \A t \in Tasks : LiveFits(c, t)'
  <2> TAKE t \in Tasks
  <2>1. LiveFits(c, t)
    BY DEF WorkInv
  <2>2. MayBeLive(c, t)' => MayBeLive(c, t)
    BY DEF SweeperMoves, MayBeLive
  <2>3. t \in created' => t \in created
    BY DEF SweeperMoves
  <2>4. t \in created /\ Whole(t) => Whole(t)' \/ HasFresh(t, 0)'
    BY DEF SweeperMoves
  <2>5. HasFresh(t, 0) => HasFresh(t, 0)'
    BY <1>2
  <2> QED
    BY <2>1, <2>2, <2>3, <2>4, <2>5 DEF LiveFits
<1>6. ServiceFits(c)'
  <2> DEFINE call == proc[c]
             t == proc[c].task
             n == proc[c].dir
  <2>1. ServiceFits(c) /\ CallFits(c) /\ proc'[c] = proc[c]
    BY <1>1 DEF WorkInv, ArchiveInv, SweeperMoves
  <2>2. CASE call.at \in {"idle", "expiring", "burying"}
    BY <2>1, <2>2 DEF ServiceFits
  <2>3. CASE call.at \notin {"idle", "expiring", "burying"}
    <3>1. t \in Tasks
      BY <2>1, <2>3 DEF CallFits
    <3>2. /\ Whole(t)' => Whole(t) /\ worktree'[t] = worktree[t]
          /\ record'[t] = record[t]
             \/ (record'[t].state \notin Live \union {"absent"} /\ t = proc[s].task)
      BY <3>1 DEF SweeperMoves, Whole
    <3>3. MadeFits(t)
      BY <3>1 DEF WorkInv
    <3>4. CASE call.at \in {"cloning", "saving", "extracting"} /\ call.from # 0
      <4>1. /\ t \notin created /\ proc[s].task # t /\ sweep[t] = NoRecord
            /\ call.at \in {"cloning", "saving"} => record[t].state = "absent"
            /\ call.at = "saving" =>
                 call.payload.state \in Live /\ call.payload.last_activity_at = today
            /\ call.at = "extracting" =>
                 record[t].state \in Live /\ record[t].last_activity_at = today
        BY <2>1, <3>4 DEF ServiceFits
      <4>2. ~Due(t, record[t])
        BY <1>1, <3>1, <3>4, <4>1, NotDue
      <4>3. /\ t \notin created' /\ proc'[s].task # t /\ sweep'[t] = NoRecord
            /\ record'[t] = record[t] /\ today' = today
        BY <3>1, <4>1, <4>2 DEF SweeperMoves
      <4>4. call.at = "cloning" => ~Whole(t)'
        BY <2>1, <3>2 DEF ServiceFits
      <4> QED
        BY <2>1, <3>4, <4>1, <4>3, <4>4 DEF ServiceFits
    <3>5. CASE call.at \in {"cloning", "saving", "extracting"} /\ call.from = 0
      <4>1. record'[t].state = "absent" => record[t].state = "absent"
        BY <3>2
      <4>2. record[t].state = "absent" => worktree'[t] = worktree[t]
        BY <3>1, <3>3 DEF SweeperMoves, MadeFits
      <4> QED
        BY <2>1, <3>2, <3>5, <4>1, <4>2 DEF ServiceFits, Whole, CallFits
    <3>6. CASE call.at \in {"reporting", "archiving", "archived", "removing"}
      <4>1. record'[t].state # "absent"
        BY <2>1, <3>2, <3>6 DEF ServiceFits
      <4>2. ASSUME call.at \in {"archiving", "archived"}
            PROVE  /\ archives'[t][n].whole = archives[t][n].whole
                   /\ archives'[t][n].version = archives[t][n].version
        <5>1. Has(t, n) /\ n \in Nat /\ ArchivesMove(s)
          BY <1>1, <2>1, <4>2, CallTypes DEF CallFits, Keeps
        <5> QED
          BY <3>1, <5>1 DEF ArchivesMove
      <4> QED
        BY <2>1, <3>2, <3>6, <4>1, <4>2 DEF ServiceFits
    <3> QED
      <4>1. call.at \in Stages
        BY <1>1, CallTypes
      <4> QED
        BY <2>3, <3>4, <3>5, <3>6, <4>1 DEF Stages
  <2> QED
    BY <2>2, <2>3
<1> QED
  BY <1>1, <1>3, <1>4, <1>5, <1>6 DEF WorkInv

LEMMA FreshAtAll ==
  ASSUME ArchiveInv, NEW t \in Tasks, NEW v \in Nat, HasFresh(t, v)
  PROVE  HasFresh(t, 0)
<1>1. PICK n : n \in 1 .. Len(archives[t]) /\ Fresh(t, n) /\ archives[t][n].version >= v
  BY DEF HasFresh
<1>2. archives[t][n] \in Archives
  BY <1>1, TaskTypes DEF ArchiveInv, Has
<1>3. archives[t][n].version >= 0
  BY <1>2 DEF Archives
<1> QED
  BY <1>1, <1>3 DEF HasFresh

LEMMA CompletedWillBeFresh ==
  ASSUME ArchiveInv', NEW p \in Procs, proc'[p].at \in {"archived", "removing"},
         archives'[proc'[p].task][proc'[p].dir].whole
  PROVE  Fresh(proc[p].task, proc[p].dir)'
<1> DEFINE t == proc[p].task
           n == proc[p].dir
<1>1. /\ Has(t, n)' /\ archives'[proc'[p].task][proc'[p].dir].state = "complete"
      /\ archives'[proc'[p].task][proc'[p].dir].archived_at = today'
      /\ Unsaid(p)'
  BY DEF ArchiveInv, CallFits
<1> QED
  BY <1>1 DEF Fresh, Unsaid

\* The sweeper is not archiving.
LEMMA SweeperElsewhere ==
  ASSUME proc'["sweeper"].from = 0,
         proc'["sweeper"].at \notin {"reporting", "archiving", "archived", "removing"},
         proc'["sweeper"].at = "saving" => proc'["sweeper"].payload.state \in Kept
  PROVE  SweeperFits'
BY DEF SweeperFits

LEMMA SweeperSaves ==
  ASSUME NEW c, Clients = {c}, WorkInv(c), Save("sweeper")
  PROVE  SweeperMoves(c) /\ SweeperFits'
<1> DEFINE s == "sweeper"
           t == proc[s].task
<1>1. Types /\ s \in Procs /\ c \in Procs /\ c # s /\ CallFits(s) /\ SweeperFits /\ created \subseteq Tasks
  BY WorkspacesAssumption DEF WorkInv, ArchiveInv, Types, Procs
<1>2. t \in Tasks /\ proc[s].at = "saving" /\ proc[s].from = 0 /\ proc[s].payload.state \in Kept
  BY <1>1 DEF CallFits, SweeperFits, Save
<1>3. Return(s)
  BY <1>2 DEF Save
<1>4. proc'[s] = Idle /\ proc'[c] = proc[c] /\ \A u \in Tasks : sweep'[u] \in {sweep[u], NoRecord}
  BY <1>1, <1>3 DEF Return, Types
<1>5. \A u \in Tasks : record'[u] = IF u = t THEN proc[s].payload ELSE record[u]
  BY <1>1 DEF Save, Types
<1>6. record[t].state # "absent"
  BY <1>2 DEF WorkInv, MadeFits
<1>7. created' = created /\ today' = today /\ worktree' = worktree
  BY <1>6 DEF Save
<1>8. Idle.task \notin Tasks /\ Idle.from = 0 /\ Idle.at = "idle"
  BY TasksAreNatural DEF Idle
<1>9. SweeperFits'
  BY <1>4, <1>8, SweeperElsewhere
<1> QED
  BY <1>1, <1>2, <1>4, <1>5, <1>7, <1>8, <1>9 DEF SweeperMoves, Kept, Live, Whole

LEMMA SweeperWritesTree ==
  ASSUME NEW c, Clients = {c}, WorkInv(c), Keeps("sweeper"), WriteTree("sweeper")
  PROVE  SweeperMoves(c) /\ SweeperFits'
<1> DEFINE s == "sweeper"
<1>1. /\ ArchiveInv /\ Types /\ s \in Procs /\ c \in Procs /\ c # s
      /\ CallFits(s) /\ SweeperFits /\ proc[s] \in Calls /\ today \in Nat
  BY WorkspacesAssumption, CallTypes DEF WorkInv, ArchiveInv, Types, Procs
<1>2. PICK t \in Tasks : t = proc[s].task
  BY <1>1 DEF CallFits, WriteTree
<1> DEFINE entry == [state |-> "partial", whole |-> Whole(t),
                     version |-> worktree[t].version, archived_at |-> today]
<1>3. worktree[t].version \in Nat /\ Whole(t) \in BOOLEAN
  BY <1>1, <1>2 DEF Types, Worktrees, Whole
<1>4. entry \in Archives
  BY <1>1, <1>3 DEF Archives
<1>5. (entry.whole <=> Whole(t)) /\ entry.version = worktree[t].version
  OBVIOUS
<1>6. archives' = [archives EXCEPT ![t] = Append(@, entry)]
  BY <1>2 DEF WriteTree, Whole
<1> HIDE DEF entry
<1>7. Begun(t, entry)
  BY <1>1, <1>2, <1>4, <1>6, BegunByAppend
<1> PICK k \in Nat : k = Len(archives[t]) + 1
  BY <1>1, TaskTypes
<1>8. Len(archives'[t]) = k /\ archives'[t][k] = entry
  BY <1>7 DEF Begun
<1> DEFINE w == [proc[s] EXCEPT !.at = "archiving", !.dir = k]
<1>9. /\ w \in Calls /\ w.at = "archiving" /\ w.task = t /\ w.dir = k
      /\ w.version = proc[s].version /\ w.from = proc[s].from
  BY <1>1, <1>2 DEF Calls, Stages
<1>10. proc' = [proc EXCEPT ![s] = w]
  BY <1>2, <1>8 DEF WriteTree
<1> HIDE DEF w
<1>11. proc'[s] = w /\ proc'[c] = proc[c]
  BY <1>1, <1>9, <1>10, CallChanged
<1>12. UNCHANGED <<today, record, worktree, sweep, created>>
  BY DEF WriteTree
<1>13. SweeperMoves(c)
  BY <1>2, <1>9, <1>11, <1>12 DEF SweeperMoves, Whole
<1>14. \A v : HasFresh(t, v) => HasFresh(t, v)'
  BY <1>1, <1>12, HasFreshLasts
<1>15. /\ proc[s].at = "reporting" /\ sweep[t].state \in Live /\ proc[s].from = 0
       /\ t \in created => \/ Whole(t) /\ worktree[t].version >= proc[s].version
                           \/ HasFresh(t, proc[s].version)
  BY <1>1, <1>2 DEF SweeperFits, WriteTree
<1>16. PICK v : v = proc[s].version
  OBVIOUS
<1>17. t \in created' => \/ archives'[t][k].whole /\ archives'[t][k].version >= v
                         \/ HasFresh(t, v)'
  BY <1>5, <1>8, <1>12, <1>14, <1>15, <1>16
<1>18. SweeperFits'
  BY <1>9, <1>11, <1>12, <1>15, <1>16, <1>17 DEF SweeperFits, HasFresh
<1> QED
  BY <1>13, <1>18

LEMMA SweeperWritesManifest ==
  ASSUME NEW c, Clients = {c}, WorkInv(c), Keeps("sweeper"), WriteManifest("sweeper")
  PROVE  SweeperMoves(c) /\ SweeperFits'
<1> DEFINE s == "sweeper"
<1>1. /\ ArchiveInv /\ ArchiveInv' /\ Types /\ s \in Procs /\ c \in Procs /\ c # s
      /\ CallFits(s) /\ SweeperFits /\ proc[s] \in Calls /\ proc[s].payload \in Records
      /\ ArchivesMove(s)
  BY WorkspacesAssumption, CallTypes DEF WorkInv, ArchiveInv, Procs, Keeps
<1>2. PICK t \in Tasks, n \in Nat, v \in Nat : t = proc[s].task /\ n = proc[s].dir /\ v = proc[s].version
  BY <1>1, CallTypes DEF CallFits, WriteManifest
<1>3. proc[s].at = "archiving" /\ Has(t, n)
  BY <1>1, <1>2 DEF CallFits, WriteManifest
<1> DEFINE w == [proc[s] EXCEPT !.at = "archived", !.payload.archive = n]
<1>4. [proc[s].payload EXCEPT !.archive = n] \in Records
  BY <1>1 DEF Records
<1>5. w \in Calls /\ w.at = "archived" /\ w.task = t /\ w.dir = n /\ w.version = v /\ w.from = proc[s].from
  BY <1>1, <1>2, <1>4 DEF Calls, Stages
<1>6. proc' = [proc EXCEPT ![s] = w]
  BY <1>2 DEF WriteManifest
<1> HIDE DEF w
<1>7. proc'[s] = w /\ proc'[c] = proc[c]
  BY <1>1, <1>5, <1>6, CallChanged
<1>8. UNCHANGED <<today, record, worktree, sweep, created>>
  BY DEF WriteManifest
<1>9. SweeperMoves(c)
  BY <1>2, <1>5, <1>7, <1>8 DEF SweeperMoves, Whole
<1>10. HasFresh(t, v) => HasFresh(t, v)'
  BY <1>1, <1>8, HasFreshLasts
<1>11. /\ sweep[t].state \in Live /\ proc[s].from = 0
       /\ t \in created => \/ archives[t][n].whole /\ archives[t][n].version >= v
                           \/ HasFresh(t, v)
  BY <1>1, <1>2, <1>3 DEF SweeperFits
<1>12. /\ archives'[t][n].whole = archives[t][n].whole
       /\ archives'[t][n].version = archives[t][n].version
       /\ n \in 1 .. Len(archives'[t])
  BY <1>1, <1>3 DEF ArchivesMove, Has
<1>13. ASSUME archives[t][n].whole, archives[t][n].version >= v
       PROVE  HasFresh(t, v)'
  <2>1. Fresh(t, n)'
    BY <1>1, <1>5, <1>7, <1>12, <1>13, CompletedWillBeFresh DEF Fresh, Has, Says
  <2> QED
    BY <1>12, <1>13, <2>1 DEF HasFresh
<1>14. t \in created' => HasFresh(t, v)'
  BY <1>8, <1>10, <1>11, <1>13
<1>15. SweeperFits'
  BY <1>5, <1>7, <1>8, <1>11, <1>14 DEF SweeperFits, HasFresh
<1> QED
  BY <1>9, <1>15

\* The worktree the sweeper removes is in a fresh archive.
LEMMA SweptIsFresh ==
  ASSUME ArchiveInv, SweeperFits, proc["sweeper"].at \in {"archived", "removing"},
         NEW t \in created, t = proc["sweeper"].task
  PROVE  HasFresh(t, proc["sweeper"].version) /\ HasFresh(t, 0)
<1>1. HasFresh(t, proc["sweeper"].version)
  BY DEF SweeperFits
<1>2. proc["sweeper"].version \in Nat /\ t \in Tasks
  BY CallTypes DEF ArchiveInv, Procs, Types
<1> QED
  BY <1>1, <1>2, FreshAtAll

LEMMA SweeperRemoves ==
  ASSUME NEW c, Clients = {c}, WorkInv(c), Keeps("sweeper"),
         BeginRemoval("sweeper") \/ EndRemoval("sweeper")
  PROVE  SweeperMoves(c) /\ SweeperFits'
<1> DEFINE s == "sweeper"
<1>1. /\ ArchiveInv /\ Types /\ s \in Procs /\ c \in Procs /\ c # s
      /\ CallFits(s) /\ SweeperFits /\ created \subseteq Tasks
  BY WorkspacesAssumption DEF WorkInv, ArchiveInv, Types, Procs
<1>2. PICK t \in Tasks, v \in Nat : t = proc[s].task /\ v = proc[s].version
  BY <1>1, CallTypes DEF CallFits, BeginRemoval, EndRemoval
<1>3. proc[s].at \in {"archived", "removing"}
  BY DEF BeginRemoval, EndRemoval
<1>4. PICK stage \in {"removing", "saving"} : GoTo(s, stage) /\ (stage = "removing" <=> BeginRemoval(s))
  BY DEF BeginRemoval, EndRemoval
<1>5. /\ proc'[s].at = stage /\ proc'[s].task = t /\ proc'[s].version = v
      /\ proc'[s].from = proc[s].from /\ proc'[s].payload = proc[s].payload /\ proc'[c] = proc[c]
  BY <1>1, <1>2, <1>4, StageChanged DEF Stages
<1>6. UNCHANGED <<today, record, archives, sweep, created>>
  BY DEF BeginRemoval, EndRemoval
<1>7. \A u \in Tasks : worktree'[u] = worktree[u] \/ (u = t /\ ~Whole(u)')
  <2>1. CASE BeginRemoval(s)
    <3>1. worktree' = [worktree EXCEPT ![t].there = "partial"] /\ worktree[t] \in Worktrees
      BY <1>1, <1>2, <2>1 DEF BeginRemoval, Types
    <3>2. worktree'[t].there = "partial" /\ \A u \in Tasks : u # t => worktree'[u] = worktree[u]
      BY <1>1, <3>1 DEF Types, Worktrees
    <3> QED
      BY <3>2 DEF Whole
  <2>2. CASE EndRemoval(s)
    <3>1. worktree' = [worktree EXCEPT ![t] = NoTree]
      BY <1>2, <2>2 DEF EndRemoval
    <3>2. worktree'[t].there = "none" /\ \A u \in Tasks : u # t => worktree'[u] = worktree[u]
      BY <1>1, <3>1 DEF Types, NoTree
    <3> QED
      BY <3>2 DEF Whole
  <2> QED
    BY <2>1, <2>2
<1>8. \A x : HasFresh(t, x) => HasFresh(t, x)'
  BY <1>1, <1>6, HasFreshLasts
<1>9. t \in created => HasFresh(t, v)' /\ HasFresh(t, 0)'
  BY <1>1, <1>2, <1>3, <1>8, SweptIsFresh
<1>10. SweeperMoves(c)
  <2>1. \A u \in created : Whole(u) => Whole(u)' \/ HasFresh(u, 0)'
    <3> TAKE u \in created
    <3>1. CASE u = t
      BY <1>9, <3>1 DEF HasFresh
    <3>2. CASE u # t
      BY <1>1, <1>7, <3>2 DEF Whole
    <3> QED
      BY <3>1, <3>2
  <2> QED
    BY <1>2, <1>5, <1>6, <1>7, <2>1 DEF SweeperMoves
<1>11. proc[s].from = 0 /\ sweep[t].state \in Live /\ proc[s].payload.state \in Kept
  BY <1>1, <1>2, <1>3 DEF SweeperFits, CallFits, Kept
<1>12. SweeperFits'
  <2>1. CASE stage = "saving"
    BY <1>5, <1>11, <2>1, SweeperElsewhere
  <2>2. CASE stage = "removing"
    BY <1>5, <1>6, <1>9, <1>11, <2>2 DEF SweeperFits, HasFresh
  <2> QED
    BY <2>1, <2>2
<1> QED
  BY <1>10, <1>12

\* The sweeper's call raises: its archive, or whatever it was at when it failed.
LEMMA SweeperRaises ==
  ASSUME NEW c, Clients = {c}, WorkInv(c), ArchiveRaises("sweeper") \/ Fail("sweeper")
  PROVE  SweeperMoves(c) /\ SweeperFits'
<1> DEFINE s == "sweeper"
           t == proc[s].task
<1>1. /\ ArchiveInv /\ Types /\ s \in Procs /\ c \in Procs /\ c # s /\ CallFits(s) /\ t \in Tasks
  BY WorkspacesAssumption DEF WorkInv, ArchiveInv, Procs, CallFits, ArchiveRaises, Fail
<1>2. Raise(s)
  BY DEF ArchiveRaises, Fail
<1>3. proc'[s] = Idle /\ proc'[c] = proc[c] /\ \A u \in Tasks : sweep'[u] = NoRecord
  BY <1>1, <1>2 DEF Raise, Types
<1>4. UNCHANGED <<today, worktree, created>>
  BY <1>1 DEF ArchiveRaises, Fail, CallFits
<1>5. record' = record \/ record' = [record EXCEPT ![t] = Unreadable]
  BY <1>1 DEF ArchiveRaises, Fail, CallFits
<1>6. \A u \in Tasks : record'[u] = record[u] \/ (u = t /\ record'[u] = Unreadable)
  BY <1>1, <1>5 DEF Types
<1>7. Idle.task \notin Tasks /\ Idle.from = 0 /\ Idle.at = "idle"
  BY TasksAreNatural DEF Idle
<1>8. Unreadable.state \notin Live \union {"absent"}
  BY IdleCall DEF Live
<1>9. SweeperFits'
  BY <1>3, <1>7, SweeperElsewhere
<1> QED
  BY <1>1, <1>3, <1>4, <1>6, <1>7, <1>8, <1>9 DEF SweeperMoves, Whole

LEMMA SweepMoves ==
  ASSUME NEW c, Clients = {c}, WorkInv(c), BeginSweep \/ \E t \in Tasks : SweepRaises(t)
  PROVE  SweeperMoves(c) /\ SweeperFits'
<1> DEFINE s == "sweeper"
<1>1. CallFits(s) /\ proc[s].at = "idle" /\ SweeperFits
  BY DEF WorkInv, ArchiveInv, Procs, BeginSweep, SweepRaises, SweepsNext
<1>2. UNCHANGED <<today, record, worktree, proc, created>>
  BY DEF BeginSweep, SweepRaises
<1>3. \A t \in Tasks : sweep'[t] = NoRecord \/ (Due(t, record[t]) /\ sweep'[t] = record[t])
  BY DEF BeginSweep, SweepRaises
<1>4. SweeperFits'
  BY <1>1, <1>2, SweeperElsewhere DEF SweeperFits
<1> QED
  BY <1>2, <1>3, <1>4 DEF SweeperMoves, Whole

LEMMA SweeperArchives ==
  ASSUME NEW c, Clients = {c}, WorkInv(c), NEW t \in Tasks, Keeps("sweeper"), SweepArchives(t)
  PROVE  SweeperMoves(c) /\ SweeperFits'
<1> DEFINE s == "sweeper"
           payload == [record[t] EXCEPT !.state = "archived"]
           version == IF Whole(t) THEN worktree[t].version ELSE 0
<1>1. /\ ArchiveInv /\ Types /\ s \in Procs /\ c \in Procs /\ c # s /\ record[t] \in Records
  BY WorkspacesAssumption, TaskTypes DEF WorkInv, ArchiveInv, Procs
<1>2. /\ sweep[t].state \in Live /\ sweep[t] # NoRecord /\ record[t].state \in Live
      /\ BeginArchive(s, t, "archived")
  BY DEF SweepArchives, SweepsNext, Todo, ArchiveWorkspace, BeginArchive, Archivable
<1>3. worktree[t].version \in Nat /\ version \in Nat
  BY <1>1 DEF Types, Worktrees
<1>4. payload \in Records
  BY <1>1 DEF Records, States, Kept
<1>5. Whole(t) => version = worktree[t].version
  OBVIOUS
<1>6. ~Whole(t) => version = 0
  OBVIOUS
<1> DEFINE w == [Idle EXCEPT !.at = "reporting", !.task = t, !.version = version,
                             !.payload = payload]
<1>7. proc' = [proc EXCEPT ![s] = w]
  BY <1>2 DEF BeginArchive, Whole
<1> HIDE DEF payload, version
<1>8. w \in Calls /\ w.at = "reporting" /\ w.task = t /\ w.version = version /\ w.from = 0
  BY <1>3, <1>4, TasksAreNatural DEF Idle, Calls, Stages
<1> HIDE DEF w
<1>9. proc'[s] = w /\ proc'[c] = proc[c]
  BY <1>1, <1>7, <1>8, CallChanged
<1>10. UNCHANGED <<today, record, worktree, archives, sweep, created>>
  BY <1>2 DEF BeginArchive
<1>11. SweeperMoves(c)
  BY <1>2, <1>8, <1>9, <1>10 DEF SweeperMoves, Whole
<1>12. HasFresh(t, 0) => HasFresh(t, 0)'
  BY <1>1, <1>10, HasFreshLasts
<1>13. t \in created /\ ~Whole(t) => HasFresh(t, 0)
  BY <1>2 DEF WorkInv, LiveFits, MayBeLive
<1>14. PICK v \in Nat : v = version
  BY <1>3
<1>15. t \in created' => \/ worktree'[t].there = "whole" /\ worktree'[t].version >= v
                         \/ HasFresh(t, v)'
  BY <1>3, <1>5, <1>6, <1>10, <1>12, <1>13, <1>14 DEF Whole
<1>16. SweeperFits'
  BY <1>2, <1>8, <1>9, <1>10, <1>14, <1>15 DEF SweeperFits, HasFresh, Whole
<1> QED
  BY <1>11, <1>16

LEMMA SweeperExpires ==
  ASSUME NEW c, Clients = {c}, WorkInv(c),
         \/ \E t \in Tasks : SweepExpires(t)
         \/ ArchiveRemoved
         \/ Bury
  PROVE  SweeperMoves(c) /\ SweeperFits'
<1> DEFINE s == "sweeper"
<1>1. Types /\ s \in Procs /\ c \in Procs /\ c # s /\ CallFits(s) /\ SweeperFits
  BY WorkspacesAssumption DEF WorkInv, ArchiveInv, Procs
<1>2. UNCHANGED <<today, record, worktree, sweep, created>>
  BY DEF SweepExpires, ArchiveRemoved, Bury
<1>3. CASE \E t \in Tasks : SweepExpires(t)
  <2> PICK t \in Tasks : SweepExpires(t)
    BY <1>3
  <2>1. sweep[t] # NoRecord
    BY DEF SweepExpires, SweepsNext, Todo
  <2>2. proc'[s] = [Idle EXCEPT !.at = "expiring", !.task = t, !.dir = sweep[t].archive,
                                !.payload = [sweep[t] EXCEPT !.state = "expired"]]
        /\ proc'[c] = proc[c]
    BY <1>1 DEF SweepExpires, Types
  <2>3. proc'[s].task = t /\ proc'[s].at = "expiring" /\ proc'[s].from = 0
    BY <2>2 DEF Idle
  <2>4. SweeperFits'
    BY <2>3, SweeperElsewhere
  <2> QED
    BY <1>2, <2>1, <2>2, <2>3, <2>4 DEF SweeperMoves, Whole
<1>4. CASE ArchiveRemoved \/ Bury
  <2>1. PICK stage \in {"burying", "saving"} :
          GoTo(s, stage) /\ (stage = "saving" => proc[s].at = "burying")
    BY <1>4 DEF ArchiveRemoved, Bury
  <2>2. /\ proc'[s].at = stage /\ proc'[s].task = proc[s].task
        /\ proc'[s].from = proc[s].from /\ proc'[s].payload = proc[s].payload /\ proc'[c] = proc[c]
    BY <1>1, <2>1, StageChanged DEF Stages
  <2>3. proc[s].from = 0 /\ (stage = "saving" => proc[s].payload.state \in Kept)
    BY <1>1, <2>1 DEF SweeperFits, CallFits, Kept
  <2>4. SweeperFits'
    BY <2>2, <2>3, SweeperElsewhere
  <2> QED
    BY <1>2, <2>2, <2>4 DEF SweeperMoves, Whole
<1> QED
  BY <1>3, <1>4

\* A step of the sweeper keeps the work.
LEMMA SweeperStep ==
  ASSUME NEW c, Clients = {c}, WorkInv(c), Sweeper \/ Proceed("sweeper") \/ Fail("sweeper")
  PROVE  WorkInv(c)'
<1> DEFINE s == "sweeper"
<1>1. ArchiveInv /\ s \in Procs /\ CallFits(s)
  BY DEF WorkInv, ArchiveInv, Procs
<1>2. ~Cloned(s) /\ ~Extract(s)
  BY <1>1 DEF CallFits, Cloned, Extract
<1>3. Keeps(s)
  <2>1. \A t \in Tasks : SweepArchives(t) => Keeps(s)
    BY <1>1, BeginArchiveKeeps DEF SweepArchives, ArchiveWorkspace
  <2>2. Sweeper => Keeps(s)
    BY <1>1, <2>1, BeginSweepKeeps, SweepExpiresKeeps, SweepRaisesKeeps, ArchiveRemovedKeeps,
       BuryKeeps DEF Sweeper
  <2>3. Proceed(s) => Keeps(s)
    BY <1>1, SaveKeeps, ClonedKeeps, ExtractKeeps, WriteTreeKeeps, WriteManifestKeeps,
       BeginRemovalKeeps, EndRemovalKeeps, ArchiveRaisesKeeps DEF Proceed
  <2>4. Fail(s) => Keeps(s)
    BY <1>1, FailKeeps
  <2> QED
    BY <2>2, <2>3, <2>4
<1>4. SweeperMoves(c) /\ SweeperFits'
  <2>1. CASE Sweeper
    BY <1>3, <2>1, SweepMoves, SweeperArchives, SweeperExpires DEF Sweeper
  <2>2. CASE Proceed(s)
    BY <1>2, <1>3, <2>2, SweeperSaves, SweeperWritesTree, SweeperWritesManifest, SweeperRemoves,
       SweeperRaises DEF Proceed
  <2>3. CASE Fail(s)
    BY <2>3, SweeperRaises
  <2> QED
    BY <2>1, <2>2, <2>3
<1> QED
  BY <1>3, <1>4, SweeperKeepsWork

\* What a step of the service c does beside the sweeper.
ServiceMoves(c) ==
  /\ proc'["sweeper"] = proc["sweeper"] /\ sweep' = sweep /\ today' = today
  /\ \A t \in created :
       Whole(t) => \/ Whole(t)' /\ worktree'[t].version >= worktree[t].version
                   \/ \A v \in Nat : v <= worktree[t].version => HasFresh(t, v)'
  /\ \A t \in created' : t \in created \/ (Whole(t)' /\ proc["sweeper"].task # t)
  /\ \A t \in created : MayBeLive(c, t)' => MayBeLive(c, t) \/ Whole(t)'

LEMMA ServiceKeepsWork ==
  ASSUME NEW c, Clients = {c}, WorkInv(c), Keeps(c), ServiceMoves(c), ServiceFits(c)',
         \A t \in Tasks : MadeFits(t)'
  PROVE  WorkInv(c)'
<1> DEFINE s == "sweeper"
<1>1. /\ ArchiveInv /\ ArchiveInv' /\ Types /\ Types' /\ created \subseteq Tasks /\ created' \subseteq Tasks
      /\ s \in Procs /\ c \in Procs /\ c # s /\ ArchivesMove(c) /\ SweeperFits /\ CallFits(s)
  BY WorkspacesAssumption DEF WorkInv, Keeps, ArchiveInv, Types, Procs
<1>2. \A t \in Tasks : \A v : HasFresh(t, v) => HasFresh(t, v)'
  BY <1>1, HasFreshLasts DEF ServiceMoves
<1>3. \A t \in Tasks : worktree[t].version \in Nat /\ 0 <= worktree[t].version
  BY <1>1 DEF Types, Worktrees
<1>4. \A t \in created : Whole(t) => Whole(t)' \/ HasFresh(t, 0)'
  BY <1>1, <1>3 DEF ServiceMoves
<1>5. WorkIsKept'
  BY <1>1, <1>4, WorkIsKeptLonger DEF ServiceMoves, WorkInv
<1>6. \A t \in Tasks : LiveFits(c, t)'
  <2> TAKE t \in Tasks
  <2>1. LiveFits(c, t)
    BY DEF WorkInv
  <2>2. t \in created' => t \in created \/ Whole(t)'
    BY DEF ServiceMoves
  <2>3. t \in created => (MayBeLive(c, t)' => MayBeLive(c, t) \/ Whole(t)')
    BY DEF ServiceMoves
  <2>4. HasFresh(t, 0) => HasFresh(t, 0)'
    BY <1>2
  <2>5. t \in created /\ Whole(t) => Whole(t)' \/ HasFresh(t, 0)'
    BY <1>4
  <2> QED
    BY <2>1, <2>2, <2>3, <2>4, <2>5 DEF LiveFits
<1>7. SweeperFits'
  <2>1. CASE proc[s].at \notin {"reporting", "archiving", "archived", "removing"}
    BY <2>1, SweeperElsewhere DEF WorkInv, SweeperFits, ServiceMoves
  <2>2. CASE proc[s].at \in {"reporting", "archiving", "archived", "removing"}
    <3>1. PICK t \in Tasks, n \in Nat, v \in Nat :
            t = proc[s].task /\ n = proc[s].dir /\ v = proc[s].version
      BY <1>1, <2>2, CallTypes DEF CallFits
    <3>2. proc'[s] = proc[s] /\ sweep'[t] = sweep[t] /\ sweep[t].state \in Live /\ proc[s].from = 0
      BY <1>1, <2>2, <3>1 DEF SweeperFits, ServiceMoves
    <3>3. t \in created' => t \in created
      BY <3>1 DEF ServiceMoves
    <3>4. HasFresh(t, v) => HasFresh(t, v)'
      BY <1>2
    <3>5. ASSUME t \in created, proc[s].at = "reporting"
          PROVE  \/ worktree'[t].there = "whole" /\ worktree'[t].version >= v
                 \/ HasFresh(t, v)'
      <4>1. (Whole(t) /\ worktree[t].version >= v) \/ HasFresh(t, v)
        BY <1>1, <3>1, <3>5 DEF SweeperFits
      <4>2. worktree'[t].version \in Nat
        BY <1>1 DEF Types, Worktrees
      <4> QED
        BY <1>3, <3>4, <3>5, <4>1, <4>2 DEF ServiceMoves, Whole
    <3>6. ASSUME t \in created, proc[s].at = "archiving"
          PROVE  \/ archives'[t][n].whole /\ archives'[t][n].version >= v
                 \/ HasFresh(t, v)'
      <4>1. (archives[t][n].whole /\ archives[t][n].version >= v) \/ HasFresh(t, v)
        BY <1>1, <3>1, <3>6 DEF SweeperFits
      <4>2. Has(t, n)
        BY <1>1, <3>1, <3>6 DEF CallFits
      <4>3. archives'[t][n].whole = archives[t][n].whole /\ archives'[t][n].version = archives[t][n].version
        BY <1>1, <4>2 DEF ArchivesMove
      <4> QED
        BY <3>4, <4>1, <4>3
    <3>7. ASSUME t \in created, proc[s].at \in {"archived", "removing"}
          PROVE  HasFresh(t, v)'
      BY <1>1, <3>1, <3>4, <3>7 DEF SweeperFits
    <3> QED
      BY <2>2, <3>1, <3>2, <3>3, <3>5, <3>6, <3>7 DEF SweeperFits, HasFresh, Whole
  <2> QED
    BY <2>1, <2>2
<1> QED
  BY <1>1, <1>5, <1>6, <1>7 DEF WorkInv

\* The service c is about to save a record that was live, or does nothing at all.
LEMMA ServiceUses ==
  ASSUME NEW c, Clients = {c}, WorkInv(c), Keeps(c), proc[c].at = "idle", NEW t \in Tasks,
         UNCHANGED <<today, record, sweep, created>>,
         \A u \in Tasks : \/ worktree'[u] = worktree[u]
                          \/ worktree'[u].there = "whole" /\ worktree'[u].version >= worktree[u].version,
         \/ proc' = proc
         \/ /\ record[t].state \in Live
            /\ \E payload : SaveNext(c, t, payload)
  PROVE  WorkInv(c)'
<1> DEFINE s == "sweeper"
<1>1. /\ Types /\ created \subseteq Tasks /\ s \in Procs /\ c \in Procs /\ c # s /\ CallFits(c)
  BY WorkspacesAssumption DEF WorkInv, ArchiveInv, Types, Procs
<1>2. proc'[s] = proc[s]
        /\ (proc'[c] = Idle
            \/ (/\ record[t].state \in Live
                /\ proc'[c].at = "saving" /\ proc'[c].task = t /\ proc'[c].from = 0))
  BY <1>1 DEF SaveNext, Types, Idle, CallFits
<1>3. \A u \in Tasks : worktree[u].version \in Nat /\ worktree[u].version >= worktree[u].version
  BY <1>1 DEF Types, Worktrees
<1>4. \A u \in Tasks : Whole(u) => Whole(u)' /\ worktree'[u].version >= worktree[u].version
  BY <1>3 DEF Whole
<1>5. \A u \in Tasks : MayBeLive(c, u)' => MayBeLive(c, u)
  BY <1>2 DEF MayBeLive, Idle
<1>6. ServiceMoves(c)
  BY <1>1, <1>2, <1>4, <1>5 DEF ServiceMoves
<1>7. ServiceFits(c)'
  BY <1>2 DEF ServiceFits, Idle, Live
<1>8. \A u \in Tasks : MadeFits(u)'
  BY <1>2 DEF WorkInv, MadeFits
<1> QED
  BY <1>6, <1>7, <1>8, ServiceKeepsWork

LEMMA ServiceCalls ==
  ASSUME NEW c, Clients = {c}, WorkInv(c), Keeps(c), NEW t \in Tasks,
         \/ Edit(c, t) \/ RenewWorkspaceLease(c, t) \/ PauseWorkspace(c, t)
         \/ StartAutonomousRun(c, t)
  PROVE  WorkInv(c)'
<1>1. Types
  BY DEF WorkInv, ArchiveInv
<1>2. UNCHANGED <<today, record, sweep, created>> /\ proc[c].at = "idle"
  BY DEF Edit, RenewWorkspaceLease, PauseWorkspace, StartAutonomousRun
<1>3. proc' = proc \/ (record[t].state \in Live /\ \E payload : SaveNext(c, t, payload))
  BY DEF Edit, RenewWorkspaceLease, PauseWorkspace, StartAutonomousRun, Live
<1>4. \A u \in Tasks : \/ worktree'[u] = worktree[u]
                       \/ worktree'[u].there = "whole" /\ worktree'[u].version >= worktree[u].version
  <2>1. CASE Edit(c, t)
    <3>1. /\ worktree[t] \in Worktrees /\ worktree[t].there = "whole"
          /\ worktree' = [worktree EXCEPT ![t] = [worktree[t] EXCEPT !.version = @ + 1]]
      BY <1>1, <2>1 DEF Edit, Types
    <3> PICK k \in Nat : k = worktree[t].version
      BY <3>1 DEF Worktrees
    <3> DEFINE w == [worktree[t] EXCEPT !.version = k + 1]
    <3>2. w.there = "whole" /\ w.version = k + 1
      BY <3>1 DEF Worktrees
    <3>3. worktree' = [worktree EXCEPT ![t] = w]
      BY <3>1
    <3> HIDE DEF w
    <3>4. \A u \in Tasks : worktree'[u] = IF u = t THEN w ELSE worktree[u]
      BY <1>1, <3>3 DEF Types
    <3> QED
      BY <3>2, <3>4
  <2> QED
    BY <2>1 DEF RenewWorkspaceLease, PauseWorkspace, StartAutonomousRun
<1> QED
  BY <1>2, <1>3, <1>4, ServiceUses

\* What every step of the service rests on.
LEMMA ServiceFacts ==
  ASSUME NEW c, Clients = {c}, WorkInv(c)
  PROVE  /\ ArchiveInv /\ Types /\ created \subseteq Tasks
         /\ "sweeper" \in Procs /\ c \in Procs /\ c # "sweeper"
         /\ CallFits(c) /\ ServiceFits(c) /\ proc[c] \in Calls /\ proc[c].payload \in Records
         /\ \A t \in Tasks : /\ MadeFits(t) /\ LiveFits(c, t) /\ worktree[t] \in Worktrees
                             /\ worktree[t].version \in Nat
                             /\ worktree[t].version >= worktree[t].version
<1>1. ArchiveInv /\ Types /\ "sweeper" \in Procs /\ c \in Procs /\ c # "sweeper"
  BY WorkspacesAssumption DEF WorkInv, ArchiveInv, Procs
<1>2. created \subseteq Tasks /\ \A t \in Tasks : worktree[t] \in Worktrees
  BY <1>1 DEF Types
<1>3. CallFits(c) /\ ServiceFits(c) /\ proc[c] \in Calls /\ proc[c].payload \in Records
  BY <1>1, CallTypes DEF WorkInv, ArchiveInv
<1>4. \A w \in Worktrees : w.version \in Nat /\ w.version >= w.version
  BY DEF Worktrees
<1> QED
  BY <1>1, <1>2, <1>3, <1>4 DEF WorkInv

LEMMA ServiceClones ==
  ASSUME NEW c, Clients = {c}, WorkInv(c), Keeps(c), NEW t \in Tasks, NEW from, NEW dir,
         Clone(c, t, from, dir), from # 0 => record[t].state = "absent"
  PROVE  WorkInv(c)'
<1> DEFINE s == "sweeper"
<1>1. /\ Types /\ created \subseteq Tasks /\ s \in Procs /\ c \in Procs /\ c # s
      /\ \A u \in Tasks : MadeFits(u) /\ worktree[u].version >= worktree[u].version
  BY ServiceFacts
<1>2. UNCHANGED <<today, record, sweep, created>> /\ worktree[t].there = "none"
  BY DEF Clone
<1>3. /\ proc'[c].at = "cloning" /\ proc'[c].task = t /\ proc'[c].from = from /\ proc'[s] = proc[s]
  BY <1>1 DEF Clone, Idle, Types
<1>4. ~(worktree'[t].there = "whole") /\ \A u \in Tasks : u # t => worktree'[u] = worktree[u]
  BY <1>1 DEF Clone, Types
<1>5. \A u \in Tasks : Whole(u) => Whole(u)' /\ worktree'[u].version >= worktree[u].version
  BY <1>1, <1>2, <1>4 DEF Whole
<1>6. \A u \in Tasks : MayBeLive(c, u)' => MayBeLive(c, u)
  BY <1>2, <1>3 DEF MayBeLive
<1>7. ServiceMoves(c)
  BY <1>1, <1>2, <1>3, <1>5, <1>6 DEF ServiceMoves
<1>8. \A u \in Tasks : MadeFits(u)'
  BY <1>1, <1>2, <1>3 DEF MadeFits
<1>9. ServiceFits(c)'
  <2>1. MadeFits(t)
    BY <1>1
  <2> QED
    BY <1>2, <1>3, <1>4, <2>1 DEF ServiceFits, MadeFits, Whole
<1> QED
  BY <1>7, <1>8, <1>9, ServiceKeepsWork

LEMMA ServiceCloned ==
  ASSUME NEW c, Clients = {c}, WorkInv(c), Keeps(c), Cloned(c)
  PROVE  WorkInv(c)'
<1> DEFINE s == "sweeper"
           payload == [NoRecord EXCEPT !.state = "active", !.last_activity_at = today]
           w == [proc[c] EXCEPT !.at = "saving", !.payload = payload]
<1>1. /\ Types /\ created \subseteq Tasks /\ s \in Procs /\ c \in Procs /\ c # s
      /\ CallFits(c) /\ ServiceFits(c) /\ proc[c] \in Calls /\ today \in Nat
      /\ \A u \in Tasks : MadeFits(u) /\ worktree[u].version >= worktree[u].version
  BY ServiceFacts DEF Types
<1>2. PICK t \in Tasks : t = proc[c].task
  BY <1>1 DEF CallFits, Cloned
<1>3. /\ UNCHANGED <<today, record, sweep, created>> /\ proc[c].at = "cloning"
      /\ worktree' = [worktree EXCEPT ![t].there = "whole"]
  BY <1>2 DEF Cloned
<1>4. payload \in Records /\ payload.state \in Live /\ payload.last_activity_at = today
  BY <1>1 DEF NoRecord, Records, States, Live
<1> HIDE DEF payload
<1>5. /\ w \in Calls /\ w.at = "saving" /\ w.task = t /\ w.payload = payload /\ w.from = proc[c].from
  BY <1>1, <1>2, <1>4 DEF Calls, Stages
<1>6. proc' = [proc EXCEPT ![c] = w]
  BY DEF Cloned, payload
<1> HIDE DEF w
<1>7. proc'[c] = w /\ proc'[s] = proc[s]
  BY <1>1, <1>5, <1>6, CallChanged
<1>8. worktree'[t].there = "whole" /\ \A u \in Tasks : u # t => worktree'[u] = worktree[u]
  BY <1>1, <1>3 DEF Types, Worktrees
<1>9. ~Whole(t)
  BY <1>1, <1>2, <1>3 DEF ServiceFits
<1>10. \A u \in Tasks : Whole(u) => Whole(u)' /\ worktree'[u].version >= worktree[u].version
  BY <1>1, <1>8, <1>9 DEF Whole
<1>11. \A u \in Tasks : MayBeLive(c, u)' => MayBeLive(c, u) \/ Whole(u)'
  BY <1>3, <1>5, <1>7, <1>8 DEF MayBeLive, Whole
<1>12. ServiceMoves(c)
  BY <1>1, <1>3, <1>7, <1>10, <1>11 DEF ServiceMoves
<1>13. \A u \in Tasks : MadeFits(u)'
  BY <1>1, <1>3, <1>7 DEF MadeFits
<1>14. ServiceFits(c)'
  BY <1>1, <1>2, <1>3, <1>4, <1>5, <1>7, <1>8 DEF ServiceFits, Whole
<1> QED
  BY <1>12, <1>13, <1>14, ServiceKeepsWork

LEMMA ServiceSaves ==
  ASSUME NEW c, Clients = {c}, WorkInv(c), Keeps(c), Save(c)
  PROVE  WorkInv(c)'
<1> DEFINE s == "sweeper"
           payload == proc[c].payload
<1>1. /\ Types /\ created \subseteq Tasks /\ s \in Procs /\ c \in Procs /\ c # s
      /\ CallFits(c) /\ ServiceFits(c) /\ proc[c] \in Calls
      /\ \A u \in Tasks : MadeFits(u) /\ worktree[u].version >= worktree[u].version
  BY ServiceFacts
<1>2. PICK t \in Tasks : t = proc[c].task
  BY <1>1 DEF CallFits, Save
<1>3. /\ UNCHANGED <<today, worktree>> /\ proc[c].at = "saving"
      /\ record' = [record EXCEPT ![t] = payload]
  BY <1>2 DEF Save
<1>4. \A u \in Tasks : record'[u] = IF u = t THEN payload ELSE record[u]
  BY <1>1, <1>3 DEF Types
<1>5. payload.state \in Live \union Kept
  BY <1>1, <1>3 DEF CallFits
<1>6. created' = created \/ (/\ created' = created \union {t} /\ record[t].state = "absent"
                             /\ proc[c].from = 0)
  BY <1>2 DEF Save
<1>7. proc'[s] = proc[s] /\ sweep' = sweep
  BY <1>1 DEF Save, Return, GoTo, Types
<1>8. \/ proc'[c] = Idle
      \/ /\ proc[c].from # 0 /\ proc'[c].at = "extracting" /\ proc'[c].task = t
         /\ proc'[c].from = proc[c].from
  <2>1. CASE proc[c].from = 0
    BY <1>1, <2>1 DEF Save, Return, Types
  <2>2. CASE proc[c].from # 0
    BY <1>1, <1>2, <2>2, StageChanged DEF Save, Stages
  <2> QED
    BY <2>1, <2>2
<1>9. \A u \in created' : u \in created \/ (Whole(u)' /\ proc[s].task # u)
  <2>1. record[t].state = "absent" /\ proc[c].from = 0 => Whole(t)
    BY <1>1, <1>2, <1>3 DEF ServiceFits
  <2>2. record[t].state = "absent" => proc[s].task # t
    BY <1>1 DEF MadeFits
  <2> QED
    BY <1>3, <1>6, <2>1, <2>2 DEF Whole
<1>10. \A u \in Tasks : MayBeLive(c, u)' => MayBeLive(c, u)
  BY <1>2, <1>3, <1>4, <1>8 DEF MayBeLive, Idle
<1>11. \A u \in Tasks : Whole(u) => Whole(u)' /\ worktree'[u].version >= worktree[u].version
  BY <1>1, <1>3 DEF Whole
<1>12. ServiceMoves(c)
  BY <1>1, <1>3, <1>7, <1>9, <1>10, <1>11 DEF ServiceMoves
<1>13. \A u \in Tasks : MadeFits(u)'
  BY <1>1, <1>4, <1>5, <1>6, <1>7 DEF MadeFits, Live, Kept
<1>14. ServiceFits(c)'
  <2>1. CASE proc'[c] = Idle
    BY <2>1 DEF ServiceFits, Idle
  <2>2. CASE /\ proc[c].from # 0 /\ proc'[c].at = "extracting" /\ proc'[c].task = t
             /\ proc'[c].from = proc[c].from
    <3>1. /\ t \notin created /\ proc[s].task # t /\ sweep[t] = NoRecord
          /\ payload.state \in Live /\ payload.last_activity_at = today
      BY <1>1, <1>2, <1>3, <2>2 DEF ServiceFits
    <3>2. t \notin created'
      BY <1>6, <2>2, <3>1
    <3> QED
      BY <1>3, <1>4, <1>7, <2>2, <3>1, <3>2 DEF ServiceFits
  <2> QED
    BY <1>8, <2>1, <2>2
<1> QED
  BY <1>12, <1>13, <1>14, ServiceKeepsWork

\* The service's call is over, with or without a restored worktree.
LEMMA ServiceEnds ==
  ASSUME NEW c, Clients = {c}, WorkInv(c), Keeps(c), NEW t \in Tasks, t = proc[c].task,
         proc' = [proc EXCEPT ![c] = Idle], UNCHANGED <<today, sweep>>,
         \A u \in Tasks : worktree'[u] = worktree[u] \/ (u = t /\ (~Whole(t) \/ t \notin created)),
         \A u \in Tasks : \/ record'[u] = record[u]
                          \/ u = t /\ record'[u] = Unreadable
                          \/ /\ u = t /\ record'[u] = NoRecord
                             /\ proc[c].at = "extracting" /\ created' = created,
         \/ created' = created
         \/ /\ created' = created \union {t} /\ worktree'[t].there = "whole"
            /\ proc[c].at = "extracting" /\ record' = record
  PROVE  WorkInv(c)'
<1> DEFINE s == "sweeper"
<1>1. /\ Types /\ created \subseteq Tasks /\ s \in Procs /\ c \in Procs /\ c # s
      /\ CallFits(c) /\ ServiceFits(c)
      /\ \A u \in Tasks : MadeFits(u) /\ worktree[u].version >= worktree[u].version
  BY ServiceFacts
<1>2. proc'[c] = Idle /\ proc'[s] = proc[s]
  BY <1>1 DEF Types
<1>3. proc[c].at = "extracting" => /\ t \notin created /\ proc[s].task # t /\ sweep[t] = NoRecord
                                   /\ record[t].state \in Live
  BY <1>1 DEF CallFits, ServiceFits
<1>4. \A u \in created : Whole(u) => Whole(u)' /\ worktree'[u].version >= worktree[u].version
  BY <1>1 DEF Whole
<1>5. \A u \in created' : u \in created \/ (Whole(u)' /\ proc[s].task # u)
  BY <1>3 DEF Whole
<1>6. \A u \in Tasks : MayBeLive(c, u)' => MayBeLive(c, u)
  BY <1>2 DEF MayBeLive, Idle, Unreadable, NoRecord, Live
<1>7. ServiceMoves(c)
  BY <1>1, <1>2, <1>4, <1>5, <1>6 DEF ServiceMoves
<1>8. \A u \in Tasks : MadeFits(u)'
  <2> TAKE u \in Tasks
  <2>1. MadeFits(u)
    BY <1>1
  <2>2. CASE record'[u] = record[u]
    BY <1>2, <1>3, <2>1, <2>2 DEF MadeFits, Live
  <2>3. CASE u = t /\ record'[u] = Unreadable
    BY <2>3, <1>3, IdleCall DEF Unreadable, MadeFits
  <2>4. CASE /\ u = t /\ record'[u] = NoRecord /\ proc[c].at = "extracting" /\ created' = created
    BY <1>2, <1>3, <2>4 DEF MadeFits
  <2> QED
    BY <2>2, <2>3, <2>4
<1>9. ServiceFits(c)'
  BY <1>2 DEF ServiceFits, Idle
<1> QED
  BY <1>7, <1>8, <1>9, ServiceKeepsWork

LEMMA ServiceExtracts ==
  ASSUME NEW c, Clients = {c}, WorkInv(c), Keeps(c), Extract(c)
  PROVE  WorkInv(c)'
<1>1. Types /\ c \in Procs /\ c # "sweeper" /\ CallFits(c) /\ ServiceFits(c)
  BY ServiceFacts
<1>2. PICK t \in Tasks : t = proc[c].task
  BY <1>1 DEF CallFits, Extract
<1>3. proc[c].at = "extracting" /\ t \notin created
  BY <1>1, <1>2 DEF Extract, CallFits, ServiceFits
<1>4. proc' = [proc EXCEPT ![c] = Idle] /\ UNCHANGED <<today, sweep>>
  BY <1>1 DEF Extract, Return
<1>5. \A u \in Tasks : worktree'[u] = worktree[u] \/ u = t
  BY <1>1, <1>2 DEF Extract, Types
<1>6. \/ record' = record
      \/ record' = [record EXCEPT ![t] = NoRecord] /\ created' = created
  BY <1>2 DEF Extract
<1>7. \A u \in Tasks : \/ record'[u] = record[u]
                       \/ /\ u = t /\ record'[u] = NoRecord
                          /\ proc[c].at = "extracting" /\ created' = created
  BY <1>1, <1>3, <1>6 DEF Types
<1>8. \/ created' = created
      \/ created' = created \union {t} /\ worktree'[t].there = "whole" /\ record' = record
  BY <1>1, <1>2 DEF Extract, Types
<1> QED
  BY <1>2, <1>3, <1>4, <1>5, <1>7, <1>8, ServiceEnds

LEMMA ServiceFails ==
  ASSUME NEW c, Clients = {c}, WorkInv(c), Keeps(c), ArchiveRaises(c) \/ Fail(c)
  PROVE  WorkInv(c)'
<1>1. Types /\ c \in Procs /\ c # "sweeper" /\ CallFits(c) /\ ServiceFits(c)
  BY ServiceFacts
<1>2. PICK t \in Tasks : t = proc[c].task
  BY <1>1 DEF CallFits, ArchiveRaises, Fail
<1>3. proc' = [proc EXCEPT ![c] = Idle] /\ UNCHANGED <<today, sweep, created>>
  BY <1>1 DEF ArchiveRaises, Fail, Raise
<1>4. \A u \in Tasks : worktree'[u] = worktree[u] \/ (u = t /\ (~Whole(t) \/ t \notin created))
  <2>1. CASE worktree' = worktree
    BY <2>1
  <2>2. CASE proc[c].at = "cloning"
    <3>1. ~Whole(t)
      BY <1>1, <1>2, <2>2 DEF ServiceFits
    <3>2. worktree' = worktree \/ \E there : worktree' = [worktree EXCEPT ![t].there = there]
      BY <1>2, <2>2 DEF ArchiveRaises, Fail
    <3> QED
      BY <1>1, <3>1, <3>2 DEF Types
  <2>3. CASE proc[c].at = "extracting"
    <3>1. t \notin created
      BY <1>1, <1>2, <2>3 DEF ServiceFits, CallFits
    <3>2. worktree' = worktree \/ worktree' = [worktree EXCEPT ![t] = NoTree]
      BY <1>2, <2>3 DEF ArchiveRaises, Fail
    <3> QED
      BY <1>1, <3>1, <3>2 DEF Types
  <2> QED
    BY <2>1, <2>2, <2>3 DEF ArchiveRaises, Fail
<1>5. \/ record' = record \/ record' = [record EXCEPT ![t] = Unreadable]
      \/ record' = [record EXCEPT ![t] = NoRecord] /\ proc[c].at = "extracting"
  BY <1>2 DEF ArchiveRaises, Fail
<1>6. \A u \in Tasks : \/ record'[u] = record[u]
                       \/ u = t /\ record'[u] = Unreadable
                       \/ /\ u = t /\ record'[u] = NoRecord
                          /\ proc[c].at = "extracting" /\ created' = created
  BY <1>1, <1>3, <1>5 DEF Types
<1> QED
  BY <1>2, <1>3, <1>4, <1>6, ServiceEnds

\* A step of a call that archives, when the worktree does not change.
LEMMA ServiceArchiving ==
  ASSUME NEW c, Clients = {c}, WorkInv(c), Keeps(c), ServiceFits(c)',
         UNCHANGED <<today, record, worktree, sweep, created>>,
         proc'["sweeper"] = proc["sweeper"], proc'[c].at # "saving"
  PROVE  WorkInv(c)'
<1>1. \A u \in Tasks : MadeFits(u) /\ worktree[u].version >= worktree[u].version
  BY ServiceFacts
<1>2. created \subseteq Tasks
  BY ServiceFacts
<1>3. \A u \in Tasks : Whole(u) => Whole(u)' /\ worktree'[u].version >= worktree[u].version
  BY <1>1 DEF Whole
<1>4. \A u \in Tasks : MayBeLive(c, u)' => MayBeLive(c, u)
  BY DEF MayBeLive
<1>5. ServiceMoves(c)
  BY <1>2, <1>3, <1>4 DEF ServiceMoves
<1>6. \A u \in Tasks : MadeFits(u)'
  BY <1>1 DEF MadeFits
<1> QED
  BY <1>5, <1>6, ServiceKeepsWork

LEMMA ServiceBeginsArchive ==
  ASSUME NEW c, Clients = {c}, WorkInv(c), Keeps(c), NEW t \in Tasks,
         NEW outcome, BeginArchive(c, t, outcome)
  PROVE  WorkInv(c)'
<1>1. /\ Types /\ c \in Procs /\ c # "sweeper" /\ worktree[t].version >= worktree[t].version
  BY ServiceFacts
<1>2. UNCHANGED <<today, record, worktree, sweep, created>> /\ record[t].state \in Live
  BY DEF BeginArchive, Archivable
<1>3. /\ proc'[c].at = "reporting" /\ proc'[c].task = t /\ proc'[c].from = 0
      /\ Whole(t) => proc'[c].version = worktree[t].version
      /\ proc'["sweeper"] = proc["sweeper"]
  BY <1>1 DEF BeginArchive, Types, Idle, Whole
<1>4. ServiceFits(c)'
  BY <1>1, <1>2, <1>3 DEF ServiceFits, Whole, Live
<1> QED
  BY <1>2, <1>3, <1>4, ServiceArchiving

LEMMA ServiceWritesTree ==
  ASSUME NEW c, Clients = {c}, WorkInv(c), Keeps(c), WriteTree(c)
  PROVE  WorkInv(c)'
<1>1. /\ Types /\ c \in Procs /\ c # "sweeper" /\ CallFits(c) /\ ServiceFits(c)
      /\ proc[c] \in Calls /\ today \in Nat
  BY ServiceFacts DEF Types
<1>2. PICK t \in Tasks : t = proc[c].task
  BY <1>1 DEF CallFits, WriteTree
<1> DEFINE entry == [state |-> "partial", whole |-> Whole(t),
                     version |-> worktree[t].version, archived_at |-> today]
<1>3. worktree[t].version \in Nat /\ Whole(t) \in BOOLEAN
  BY ServiceFacts DEF Whole
<1>4. entry \in Archives
  BY <1>1, <1>3 DEF Archives
<1>5. (entry.whole <=> Whole(t)) /\ entry.version = worktree[t].version
  OBVIOUS
<1>6. archives' = [archives EXCEPT ![t] = Append(@, entry)]
  BY <1>2 DEF WriteTree, Whole
<1> HIDE DEF entry
<1>7. Begun(t, entry)
  BY <1>1, <1>2, <1>4, <1>6, BegunByAppend
<1> PICK k \in Nat : k = Len(archives[t]) + 1
  BY <1>1, TaskTypes
<1>8. Len(archives'[t]) = k /\ archives'[t][k] = entry
  BY <1>7 DEF Begun
<1> DEFINE w == [proc[c] EXCEPT !.at = "archiving", !.dir = k]
<1>9. /\ w \in Calls /\ w.at = "archiving" /\ w.task = t /\ w.dir = k
      /\ w.version = proc[c].version /\ w.from = proc[c].from
  BY <1>1, <1>2 DEF Calls, Stages
<1>10. proc' = [proc EXCEPT ![c] = w]
  BY <1>2, <1>8 DEF WriteTree
<1> HIDE DEF w
<1>11. proc'[c] = w /\ proc'["sweeper"] = proc["sweeper"]
  BY <1>1, <1>9, <1>10, CallChanged DEF Procs
<1>12. UNCHANGED <<today, record, worktree, sweep, created>> /\ proc[c].at = "reporting"
  BY DEF WriteTree
<1>13. /\ record[t].state # "absent"
       /\ Whole(t) => worktree[t].version >= proc[c].version
  BY <1>1, <1>2, <1>12 DEF ServiceFits
<1>14. ServiceFits(c)'
  BY <1>5, <1>8, <1>9, <1>11, <1>12, <1>13 DEF ServiceFits, Whole
<1> QED
  BY <1>9, <1>11, <1>12, <1>14, ServiceArchiving

LEMMA ServiceWritesManifest ==
  ASSUME NEW c, Clients = {c}, WorkInv(c), Keeps(c), WriteManifest(c)
  PROVE  WorkInv(c)'
<1>1. /\ Types /\ c \in Procs /\ c # "sweeper" /\ CallFits(c) /\ ServiceFits(c)
      /\ proc[c] \in Calls /\ proc[c].payload \in Records /\ ArchivesMove(c)
  BY ServiceFacts DEF Keeps
<1>2. PICK t \in Tasks, n \in Nat : t = proc[c].task /\ n = proc[c].dir
  BY <1>1, CallTypes DEF CallFits, WriteManifest
<1>3. proc[c].at = "archiving" /\ Has(t, n)
  BY <1>1, <1>2 DEF CallFits, WriteManifest
<1> DEFINE w == [proc[c] EXCEPT !.at = "archived", !.payload.archive = n]
<1>4. [proc[c].payload EXCEPT !.archive = n] \in Records
  BY <1>1 DEF Records
<1>5. /\ w \in Calls /\ w.at = "archived" /\ w.task = t /\ w.dir = n
      /\ w.version = proc[c].version /\ w.from = proc[c].from
  BY <1>1, <1>2, <1>4 DEF Calls, Stages
<1>6. proc' = [proc EXCEPT ![c] = w]
  BY <1>2 DEF WriteManifest
<1> HIDE DEF w
<1>7. proc'[c] = w /\ proc'["sweeper"] = proc["sweeper"]
  BY <1>1, <1>5, <1>6, CallChanged DEF Procs
<1>8. UNCHANGED <<today, record, worktree, sweep, created>>
  BY DEF WriteManifest
<1>9. /\ archives'[t][n].whole = archives[t][n].whole
      /\ archives'[t][n].version = archives[t][n].version
  BY <1>1, <1>3 DEF ArchivesMove
<1>10. /\ record[t].state # "absent"
       /\ Whole(t) => /\ worktree[t].version >= proc[c].version
                      /\ archives[t][n].whole /\ archives[t][n].version = worktree[t].version
  BY <1>1, <1>2, <1>3 DEF ServiceFits
<1>11. ServiceFits(c)'
  BY <1>5, <1>7, <1>8, <1>9, <1>10 DEF ServiceFits, Whole
<1> QED
  BY <1>5, <1>7, <1>8, <1>11, ServiceArchiving

LEMMA ServiceRemoves ==
  ASSUME NEW c, Clients = {c}, WorkInv(c), Keeps(c), BeginRemoval(c) \/ EndRemoval(c)
  PROVE  WorkInv(c)'
<1> DEFINE s == "sweeper"
<1>1. /\ ArchiveInv /\ Types /\ created \subseteq Tasks /\ s \in Procs /\ c \in Procs /\ c # s
      /\ CallFits(c) /\ ServiceFits(c)
      /\ \A u \in Tasks : /\ MadeFits(u) /\ worktree[u] \in Worktrees
                          /\ worktree[u].version \in Nat
                          /\ worktree[u].version >= worktree[u].version
  BY ServiceFacts
<1>2. PICK t \in Tasks, n \in Nat : t = proc[c].task /\ n = proc[c].dir
  BY <1>1, CallTypes DEF CallFits, BeginRemoval, EndRemoval
<1>3. PICK stage \in {"removing", "saving"} : GoTo(c, stage) /\ (stage = "removing" <=> BeginRemoval(c))
  BY DEF BeginRemoval, EndRemoval
<1>4. /\ proc'[c].at = stage /\ proc'[c].task = t /\ proc'[c].from = proc[c].from
      /\ proc'[c].payload = proc[c].payload /\ proc'[s] = proc[s]
  <2>1. stage \in Stages /\ GoTo(c, stage)
    BY <1>3 DEF Stages
  <2>2. /\ proc'[c].at = stage /\ proc'[c].task = proc[c].task /\ proc'[c].from = proc[c].from
        /\ proc'[c].payload = proc[c].payload /\ \A q \in Procs : q # c => proc'[q] = proc[q]
    BY <1>1, <2>1, StageChanged
  <2> QED
    BY <1>1, <1>2, <2>2
<1>5. /\ UNCHANGED <<today, record, sweep, created>> /\ proc[c].at \in {"archived", "removing"}
      /\ BeginRemoval(c) => proc[c].at = "archived"
      /\ EndRemoval(c) => proc[c].at = "removing"
  BY DEF BeginRemoval, EndRemoval
<1>6. proc[c].from = 0 /\ record[t].state # "absent"
      /\ proc[c].payload.state \in {"archived", "review_ready"}
  BY <1>1, <1>2, <1>5 DEF CallFits, ServiceFits
<1>7. worktree'[t].there # "whole" /\ \A u \in Tasks : u # t => worktree'[u] = worktree[u]
  BY <1>1, <1>2 DEF BeginRemoval, EndRemoval, Types, NoTree, Worktrees
<1>8. ASSUME Whole(t)
      PROVE  \A v \in Nat : v <= worktree[t].version => HasFresh(t, v)'
  <2>1. proc[c].at = "archived" /\ archives[t][n].whole
        /\ archives[t][n].version = worktree[t].version /\ Has(t, n)
    BY <1>1, <1>2, <1>5, <1>8 DEF ServiceFits, CallFits
  <2>2. Fresh(t, n)
    BY <1>1, <1>2, <2>1, CompletedIsFresh
  <2>3. \A v \in Nat : v <= worktree[t].version => HasFresh(t, v)
    BY <1>1, <2>1, <2>2 DEF HasFresh, Has
  <2> QED
    BY <1>1, <1>5, <2>3, HasFreshLasts
<1>9. \A u \in created :
        Whole(u) => \/ Whole(u)' /\ worktree'[u].version >= worktree[u].version
                    \/ \A v \in Nat : v <= worktree[u].version => HasFresh(u, v)'
  <2> TAKE u \in created
  <2>1. CASE u = t
    <3> HAVE Whole(u)
    <3>1. \A v \in Nat : v <= worktree[t].version => HasFresh(t, v)'
      BY <1>8, <2>1
    <3> QED
      BY <2>1, <3>1 DEF HasFresh
  <2>2. CASE u # t
    BY <1>1, <1>7, <2>2 DEF Whole
  <2> QED
    BY <2>1, <2>2
<1>10. \A u \in Tasks : MayBeLive(c, u)' => MayBeLive(c, u)
  BY <1>2, <1>4, <1>5, <1>6 DEF MayBeLive, Live
<1>11. ServiceMoves(c)
  BY <1>1, <1>4, <1>5, <1>9, <1>10 DEF ServiceMoves
<1>12. \A u \in Tasks : MadeFits(u)'
  BY <1>1, <1>4, <1>5 DEF MadeFits
<1>13. ServiceFits(c)'
  BY <1>4, <1>5, <1>6, <1>7 DEF ServiceFits, Whole
<1> QED
  BY <1>11, <1>12, <1>13, ServiceKeepsWork

\* A step of the service keeps the work.
LEMMA ServiceStep ==
  ASSUME NEW c, Clients = {c}, WorkInv(c),
         (\E t \in Tasks : ClientCalls(c, t)) \/ Proceed(c) \/ Fail(c)
  PROVE  WorkInv(c)'
<1>1. ArchiveInv /\ c \in Clients /\ c \in Procs
  BY ServiceFacts
<1>2. ASSUME NEW t \in Tasks, ClientCalls(c, t)
      PROVE  WorkInv(c)'
  <2>1. CASE Edit(c, t) \/ RenewWorkspaceLease(c, t) \/ PauseWorkspace(c, t)
             \/ StartAutonomousRun(c, t)
    BY <1>1, <2>1, EditKeeps, RenewWorkspaceLeaseKeeps, PauseWorkspaceKeeps,
       StartAutonomousRunKeeps, ServiceCalls
  <2>2. CASE CreateWorkspace(c, t)
    BY <1>1, <2>2, CloneKeeps, ServiceClones DEF CreateWorkspace
  <2>3. CASE ArchiveWorkspace(c, t)
    BY <1>1, <2>3, BeginArchiveKeeps, ServiceBeginsArchive DEF ArchiveWorkspace
  <2>4. CASE MarkReviewReady(c, t)
    BY <1>1, <2>4, BeginArchiveKeeps, ServiceBeginsArchive DEF MarkReviewReady
  <2>5. ASSUME NEW r \in Tasks, RestoreWorkspace(c, t, r)
        PROVE  WorkInv(c)'
    <3>1. record[t].archive \in Nat /\ record[r].state = "absent"
          /\ Clone(c, r, t, record[t].archive)
      BY <1>1, <2>5, TaskTypes DEF ArchiveInv, RestoreWorkspace
    <3>2. Keeps(c)
      BY <1>1, <3>1, CloneKeeps
    <3> QED
      BY <3>1, <3>2, ServiceClones
  <2> QED
    BY <1>2, <2>1, <2>2, <2>3, <2>4, <2>5 DEF ClientCalls
<1>3. CASE Proceed(c)
  <2>1. Keeps(c)
    BY <1>1, <1>3, SaveKeeps, ClonedKeeps, ExtractKeeps, WriteTreeKeeps, WriteManifestKeeps,
       BeginRemovalKeeps, EndRemovalKeeps, ArchiveRaisesKeeps DEF Proceed
  <2> QED
    BY <1>3, <2>1, ServiceSaves, ServiceCloned, ServiceExtracts, ServiceWritesTree,
       ServiceWritesManifest, ServiceRemoves, ServiceFails DEF Proceed
<1>4. CASE Fail(c)
  BY <1>1, <1>4, FailKeeps, ServiceFails
<1> QED
  BY <1>2, <1>3, <1>4

LEMMA WorkNextDay ==
  ASSUME NEW c, Clients = {c}, WorkInv(c), NextDay
  PROVE  WorkInv(c)'
<1> DEFINE s == "sweeper"
<1>1. /\ ArchiveInv /\ ArchiveInv' /\ s \in Procs /\ c \in Procs
  BY ServiceFacts, NextDayKeeps
<1>2. UNCHANGED <<record, worktree, archives, proc, sweep, created>>
  BY DEF NextDay
<1>3. \A p \in Procs : proc[p] = Idle /\ proc'[p] = Idle
  BY <1>1, <1>2 DEF NextDay, ArchiveInv, CallFits
<1>4. \A t \in Tasks : sweep'[t] = NoRecord
  BY <1>2 DEF NextDay, Todo
<1>5. \A t \in Tasks : MadeFits(t)'
  BY <1>2 DEF WorkInv, MadeFits
<1>6. SweeperFits'
  BY <1>1, <1>3 DEF SweeperFits, Idle
<1>7. ServiceFits(c)'
  BY <1>1, <1>3 DEF ServiceFits, Idle
<1>8. WorkIsKept'
  BY <1>2 DEF WorkInv, WorkIsKept
<1>9. \A t \in Tasks : LiveFits(c, t)'
  <2> TAKE t \in Tasks
  <2> SUFFICES ASSUME t \in created', ~Whole(t)', MayBeLive(c, t)'
               PROVE  HasFresh(t, 0)'
    BY DEF LiveFits
  <2>1. record[t].state \in Live /\ MayBeLive(c, t)
    BY <1>1, <1>2, <1>3 DEF MayBeLive, Idle
  <2>2. HasFresh(t, 0)
    BY <1>2, <2>1 DEF WorkInv, LiveFits, Whole
  <2>3. PICK n : n \in 1 .. Len(archives[t]) /\ Fresh(t, n) /\ archives[t][n].version >= 0
    BY <2>2 DEF HasFresh
  <2>4. n # 0 /\ record'[t].archive = 0
    BY <1>1, <1>2, <2>1, <2>3, LiveNamesNone, TaskTypes DEF ArchiveInv, Has
  <2>5. \A a : Says(t, a)' => a.archive # n
    BY <1>3, <1>4, <2>4 DEF Says, Idle, NoRecord
  <2>6. Fresh(t, n)'
    BY <1>2, <1>4, <2>3, <2>4, <2>5 DEF Fresh, Has, NoRecord
  <2> QED
    BY <1>2, <2>3, <2>6 DEF HasFresh
<1> QED
  BY <1>1, <1>5, <1>6, <1>7, <1>8, <1>9 DEF WorkInv

LEMMA WorkStutters ==
  ASSUME NEW c, Clients = {c}, WorkInv(c), UNCHANGED vars
  PROVE  WorkInv(c)'
<1>1. ArchiveInv'
  BY StutterKeeps DEF WorkInv
<1>2. \A t, n : Fresh(t, n) <=> Fresh(t, n)'
  BY DEF vars, Fresh, Has, Says
<1>3. \A t, v : HasFresh(t, v) => HasFresh(t, v)'
  BY <1>2 DEF vars, HasFresh
<1>4. \A t \in Tasks : MadeFits(t)' /\ LiveFits(c, t)'
  BY <1>3 DEF vars, WorkInv, MadeFits, LiveFits, MayBeLive, Whole
<1>5. ServiceFits(c)'
  BY DEF vars, WorkInv, ServiceFits, Whole
<1>6. SweeperFits'
  <2>1. \A t, v : HasFresh(t, v)' <=> HasFresh(t, v)
    BY <1>2 DEF vars, HasFresh
  <2> QED
    BY <2>1 DEF vars, WorkInv, SweeperFits, Whole, HasFresh, Fresh, Has, Says
<1>7. WorkIsKept'
  BY DEF vars, WorkInv, WorkIsKept
<1> QED
  BY <1>1, <1>4, <1>5, <1>6, <1>7 DEF WorkInv

LEMMA InitWorkInv ==
  ASSUME NEW c, Clients = {c}, Init
  PROVE  WorkInv(c)
<1>1. ArchiveInv
  BY InitArchiveInv
<1>2. created = {} /\ proc[c] = Idle /\ proc["sweeper"] = Idle /\ \A t \in Tasks : sweep[t] = NoRecord
  BY DEF Init, Procs
<1>3. Idle.task \notin Tasks /\ Idle.at = "idle" /\ Idle.from = 0
  BY TasksAreNatural DEF Idle
<1> QED
  BY <1>1, <1>2, <1>3 DEF WorkInv, MadeFits, LiveFits, ServiceFits, SweeperFits, WorkIsKept

LEMMA NextWorkInv ==
  ASSUME NEW c, Clients = {c}, WorkInv(c), [Next]_vars
  PROVE  WorkInv(c)'
<1>1. Procs = {c, "sweeper"}
  BY DEF Procs
<1>2. CASE NextDay
  BY <1>2, WorkNextDay
<1>3. ASSUME NEW p \in Clients, NEW t \in Tasks, ClientCalls(p, t)
      PROVE  WorkInv(c)'
  BY <1>3, ServiceStep
<1>4. ASSUME NEW p \in Procs, Proceed(p) \/ Fail(p)
      PROVE  WorkInv(c)'
  BY <1>1, <1>4, ServiceStep, SweeperStep
<1>5. CASE Sweeper
  BY <1>5, SweeperStep
<1>6. CASE UNCHANGED vars
  BY <1>6, WorkStutters
<1> QED
  BY <1>2, <1>3, <1>4, <1>5, <1>6 DEF Next

\* With one service beside the sweeper no crash, failure or race loses a task's work.
THEOREM WorkIsKeptHolds ==
  ASSUME NEW c, Clients = {c}
  PROVE  Spec => []WorkIsKept
<1>1. Init => WorkInv(c)
  BY InitWorkInv
<1>2. WorkInv(c) /\ [Next]_vars => WorkInv(c)'
  BY NextWorkInv
<1>3. WorkInv(c) => WorkIsKept
  BY DEF WorkInv
<1> QED
  BY <1>1, <1>2, <1>3, PTL DEF Spec

\* When a whole worktree's removal begins its work is in an archive that is complete.
LEMMA ArchivedBeforeRemoval ==
  ASSUME NEW c, Clients = {c}, WorkInv(c), NEW p \in Procs, NEW t \in created,
         proc[p].task = t, proc[p].at = "archived", worktree[t].there = "whole"
  PROVE  \E n \in 1 .. Len(archives[t]) :
           /\ archives[t][n].state = "complete" /\ archives[t][n].whole
           /\ archives[t][n].version >= proc[p].version
<1>1. p = c \/ p = "sweeper"
  BY DEF Procs
<1>2. CASE p = c
  <2> PICK n : n = proc[c].dir
    OBVIOUS
  <2>1. Has(t, n) /\ archives[t][n].state = "complete"
    BY <1>2, ServiceFacts DEF CallFits
  <2>2. /\ archives[t][n].whole /\ archives[t][n].version = worktree[t].version
        /\ worktree[t].version >= proc[c].version
    BY <1>2, ServiceFacts DEF ServiceFits, Whole
  <2> QED
    BY <1>2, <2>1, <2>2 DEF Has
<1>3. CASE p = "sweeper"
  <2>1. HasFresh(t, proc[p].version)
    BY <1>3, SweptIsFresh DEF WorkInv
  <2> QED
    BY <2>1 DEF HasFresh, Fresh
<1> QED
  BY <1>1, <1>2, <1>3

\* Nothing is removed before its time: with one service beside the sweeper, no worktree
\* before its work is archived; and no archive before it had its time.
THEOREM RemovalKeepsTheWorkHolds ==
  ASSUME NEW c, Clients = {c}
  PROVE  Spec => RemovalKeepsTheWork
<1>1. Init => WorkInv(c)
  BY InitWorkInv
<1>2. WorkInv(c) /\ [Next]_vars => WorkInv(c)'
  BY NextWorkInv
<1>3. ASSUME WorkInv(c), [Next]_vars
      PROVE  [/\ \A p \in Procs, t \in created :
                   ( /\ proc[p].task = t /\ proc[p].at = "archived" /\ proc'[p].at = "removing"
                     /\ worktree[t].there = "whole" )
                   => \E n \in 1 .. Len(archives[t]) :
                        /\ archives[t][n].state = "complete" /\ archives[t][n].whole
                        /\ archives[t][n].version >= proc[p].version
              /\ \A t \in Tasks : \A n \in 1 .. Len(archives[t]) :
                   archives[t][n].state = "complete" /\ archives'[t][n].state # "complete" =>
                     /\ archives[t][n].archived_at + ArchiveTtl <= today
                     /\ ~(record[t].state = "review_ready" /\ record[t].archive = n)]_vars
  <2>1. ArchiveInv
    BY <1>3 DEF WorkInv
  <2>2. \A p \in Procs, t \in created :
          ( /\ proc[p].task = t /\ proc[p].at = "archived" /\ proc'[p].at = "removing"
            /\ worktree[t].there = "whole" )
          => \E n \in 1 .. Len(archives[t]) :
               /\ archives[t][n].state = "complete" /\ archives[t][n].whole
               /\ archives[t][n].version >= proc[p].version
    BY <1>3, ArchivedBeforeRemoval
  <2>3. \A t \in Tasks : \A n \in 1 .. Len(archives[t]) :
          archives[t][n].state = "complete" /\ archives'[t][n].state # "complete" =>
            /\ archives[t][n].archived_at + ArchiveTtl <= today
            /\ ~(record[t].state = "review_ready" /\ record[t].archive = n)
    BY <1>3, <2>1, RemovedInTime
  <2> QED
    BY <2>2, <2>3
<1> QED
  BY <1>1, <1>2, <1>3, PTL DEF Spec, RemovalKeepsTheWork
==============================================================================
