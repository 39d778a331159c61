------------------------------- MODULE Promotion -------------------------------
(***************************************************************************)
(* The promotion of a candidate patch to local main                        *)
(* (agent_learning/promotion.py) and the release of the sandbox            *)
(* (scripts/sandbox_release.py).                                           *)
(*                                                                         *)
(* An invocation of one of the scripts is a sequence of git commands in    *)
(* the checkout of a user, who goes on working in it, beside other         *)
(* invocations; it may be killed between any two of them.  A revision is   *)
(* known by its ancestors; of a patch nothing is told apart but whether    *)
(* the checks pass.                                                        *)
(***************************************************************************)
EXTENDS Naturals

CONSTANTS
  Invocations,    \* bound: runs of the two scripts
  Candidates,     \* candidate_id values
  User,           \* the author of every other revision
  MaxRevision,    \* bound: revisions, the first is there from the beginning
  MaxMoves        \* bound: what others do

ASSUME PromotionAssumption == MaxMoves \in Nat /\ MaxRevision \in Nat \ {0} /\ User \notin Candidates

None == 0
Revisions == 1 .. MaxRevision
Branches == {"main", "topic"}

VARIABLES
  past,           \* past[r]: r and its ancestors, {} if there is no r yet
  author,         \* author[r]: the candidate whose patch r is, or User
  base,           \* base[r]: the parent of r, or None
  tip,            \* tip[b]: the revision branch b is at
  head,           \* the branch checked out
  dirty,          \* git status --porcelain says something
  tags,           \* tags[c]: what auto-promote/c-before names, or None
  remote,         \* main of origin
  manifest,       \* manifest[c]: base_revision, and whether all gates passed in the last 24 h
  audit,          \* revisions in promotions.jsonl
  release,        \* release.json
  staging,        \* revision the stage command checks at the moment, or None
  pc,             \* pc[i]: where invocation i is
  round,          \* round[i]: how many times it has begun to check the checkout
  patch,          \* patch[i]: its candidate
  from,           \* from[i]: verified.base_revision
  made,           \* made[i]: promoted_revision, or None
  publishes,      \* invocations of the approve command
  sound,          \* sound[i]: no exception so far
  landed,         \* history: [branch, revision] of every merge
  disturbed,      \* history: the user changed branches or undid a promotion during another
  moves           \* bound: what others have done so far

gitVars == <<past, author, base, tip, head, dirty, tags, remote>>
fileVars == <<manifest, audit, release, staging>>
invocationVars == <<pc, round, patch, from, made, publishes, sound, landed>>
vars == <<gitVars, fileVars, invocationVars, disturbed, moves>>

Revision(r) == past[r] # {}
Running == {"branch", "clean", "head", "reread", "build", "tag", "merge", "audit", "leave", "push", "record"}
Places == Running \union {"idle", "done", "failed"}

GitTypeOK ==
  /\ past \in [Revisions -> SUBSET Revisions]
  /\ author \in [Revisions -> Candidates \union {User}]
  /\ base \in [Revisions -> Revisions \union {None}]
  /\ tip \in [Branches -> Revisions] /\ head \in Branches /\ dirty \in BOOLEAN
  /\ tags \in [Candidates -> Revisions \union {None}]
  /\ remote \in Revisions

FilesTypeOK ==
  /\ manifest \in [Candidates -> [base : Revisions, good : BOOLEAN]]
  /\ audit \subseteq Revisions
  /\ release \in [status : {"not_staged", "ready_for_repair", "ready_for_approval",
                            "published_pending_deploy"}, revision : Revisions \union {None}]
  /\ staging \in Revisions \union {None}

InvocationsTypeOK ==
  /\ pc \in [Invocations -> Places] /\ round \in [Invocations -> 0 .. 3]
  /\ patch \in [Invocations -> Candidates]
  /\ from \in [Invocations -> Revisions \union {None}]
  /\ made \in [Invocations -> Revisions \union {None}]
  /\ publishes \subseteq Invocations /\ sound \in [Invocations -> BOOLEAN]
  /\ landed \subseteq Branches \X Revisions

\* What the local variables of promote hold at each of its commands.
LocalsAreSet ==
  \A i \in Invocations :
    /\ pc[i] = "idle" => round[i] = 0
    /\ pc[i] \in Running => from[i] # None /\ round[i] # 0
    /\ (round[i] = 3) <=> (made[i] # None)
    /\ pc[i] = "reread" => round[i] = 1
    /\ pc[i] = "build" => round[i] = 2
    /\ pc[i] \in {"tag", "merge", "audit", "push", "record"} => round[i] = 3
    /\ pc[i] = "leave" /\ sound[i] => round[i] = 3

PromotionTypeOK ==
  /\ GitTypeOK /\ FilesTypeOK /\ InvocationsTypeOK /\ LocalsAreSet
  /\ disturbed \in BOOLEAN /\ moves \in 0 .. MaxMoves

Init ==
  /\ past = [r \in Revisions |-> IF r = 1 THEN {1} ELSE {}]
  /\ author = [r \in Revisions |-> User] /\ base = [r \in Revisions |-> None]
  /\ tip = [b \in Branches |-> 1] /\ head \in Branches /\ dirty \in BOOLEAN
  /\ tags = [c \in Candidates |-> None] /\ remote = 1
  /\ manifest \in [Candidates -> [base : {1}, good : {TRUE}]]
  /\ audit = {} /\ release = [status |-> "not_staged", revision |-> None] /\ staging = None
  /\ pc = [i \in Invocations |-> "idle"] /\ round = [i \in Invocations |-> 0]
  /\ patch \in [Invocations -> Candidates]
  /\ from = [i \in Invocations |-> None] /\ made = [i \in Invocations |-> None]
  /\ publishes \in SUBSET Invocations /\ sound = [i \in Invocations |-> TRUE]
  /\ landed = {} /\ disturbed = FALSE /\ moves = 0

------------------------------------------------------------------------------
(***************************************************************************)
(* PromotionController.promote                                             *)
(***************************************************************************)
Goto(i, place) == pc' = [pc EXCEPT ![i] = place]

\* An exception: the finally clause of promote takes the worktree away.
Raise(i) ==
  /\ Goto(i, IF round[i] = 1 THEN "failed" ELSE "leave")
  /\ sound' = [sound EXCEPT ![i] = FALSE]
  /\ UNCHANGED <<gitVars, fileVars, round, patch, from, made, publishes, landed>>

Advance(i, place) ==
  /\ Goto(i, place)
  /\ UNCHANGED <<gitVars, fileVars, round, patch, from, made, publishes, sound, landed>>

\* verify: _load_candidate, _verify_manifest, git rev-parse
Begin(i) ==
  /\ pc[i] = "idle"
  /\ manifest[patch[i]].good
  /\ from' = [from EXCEPT ![i] = manifest[patch[i]].base]
  /\ round' = [round EXCEPT ![i] = 1]
  /\ Goto(i, "branch")
  /\ UNCHANGED <<gitVars, fileVars, patch, made, publishes, sound, landed>>

\* _verify_source: three commands that look at the checkout one after the other.
CheckBranch(i) == pc[i] = "branch" /\ IF head = "main" THEN Advance(i, "clean") ELSE Raise(i)

CheckClean(i) == pc[i] = "clean" /\ IF dirty THEN Raise(i) ELSE Advance(i, "head")

Checked(i) == CASE round[i] = 1 -> "reread" [] round[i] = 2 -> "build" [] OTHER -> "tag"

CheckHead(i) == pc[i] = "head" /\ IF tip[head] = from[i] THEN Advance(i, Checked(i)) ELSE Raise(i)

Reread_IsTheLast(i) ==
  /\ pc[i] = "reread" /\ manifest[patch[i]].good
  /\ round' = [round EXCEPT ![i] = 3]
  /\ Goto(i, "branch")
  /\ UNCHANGED <<gitVars, fileVars, patch, from, made, publishes, sound, landed>>

\* git apply --check; promote reads the manifest again and checks the source again.
Reread(i) ==
  /\ pc[i] = "reread"
  /\ \/ /\ manifest[patch[i]].good
        /\ round' = [round EXCEPT ![i] = 2]
        /\ Goto(i, "branch")
        /\ UNCHANGED <<gitVars, fileVars, patch, from, made, publishes, sound, landed>>
     \/ Raise(i)

NewRevision(r, parent, who) ==
  /\ r \in Revisions /\ ~Revision(r)
  /\ past' = [past EXCEPT ![r] = past[parent] \union {r}]
  /\ author' = [author EXCEPT ![r] = who]
  /\ base' = [base EXCEPT ![r] = parent]

\* The worktree at the base, the patch, _rerun_checks and the commit; then the source
\* is checked for the third time.
Build(i) ==
  /\ pc[i] = "build"
  /\ \/ /\ \E r \in Revisions :
             /\ \A q \in 1 .. r - 1 : Revision(q)
             /\ NewRevision(r, from[i], patch[i])
             /\ made' = [made EXCEPT ![i] = r]
        /\ round' = [round EXCEPT ![i] = 3]
        /\ Goto(i, "branch")
        /\ UNCHANGED <<tip, head, dirty, tags, remote, fileVars, patch, from, publishes, sound, landed>>
     \/ Raise(i)

Tag_Forced(i) ==
  /\ pc[i] = "tag"
  /\ tags' = [tags EXCEPT ![patch[i]] = from[i]]
  /\ Goto(i, "merge")
  /\ UNCHANGED <<past, author, base, tip, head, dirty, remote, fileVars, round, patch, from, made,
                 publishes, sound, landed>>

Tag_WritesTheAudit(i) ==
  /\ pc[i] = "tag" /\ tags[patch[i]] = None
  /\ tags' = [tags EXCEPT ![patch[i]] = from[i]]
  /\ audit' = audit \union {made[i]}
  /\ Goto(i, "merge")
  /\ UNCHANGED <<past, author, base, tip, head, dirty, remote, manifest, release, staging, round, patch,
                 from, made, publishes, sound, landed>>

\* git tag -a fails if there is such a tag.
Tag(i) ==
  /\ pc[i] = "tag"
  /\ IF tags[patch[i]] = None
     THEN /\ tags' = [tags EXCEPT ![patch[i]] = from[i]]
          /\ Goto(i, "merge")
          /\ UNCHANGED <<past, author, base, tip, head, dirty, remote, fileVars, round, patch, from, made,
                         publishes, sound, landed>>
     ELSE Raise(i)

\* The branch that is checked out now moves; changes in the checkout may be in the way.
FastForward(i) ==
  /\ tip' = [tip EXCEPT ![head] = made[i]]
  /\ landed' = landed \union {<<head, made[i]>>}
  /\ Goto(i, "audit")
  /\ UNCHANGED <<past, author, base, head, dirty, tags, remote, fileVars, round, patch, from, made,
                 publishes, sound>>

Merge_Resets(i) == pc[i] = "merge" /\ FastForward(i)

\* git merge --ff-only
Merge(i) ==
  /\ pc[i] = "merge"
  /\ \/ tip[head] \in past[made[i]] /\ FastForward(i)
     \/ (tip[head] \notin past[made[i]] \/ dirty) /\ Raise(i)

Audit(i) ==
  /\ pc[i] = "audit"
  /\ \/ /\ audit' = audit \union {made[i]}
        /\ Goto(i, "leave")
        /\ UNCHANGED <<gitVars, manifest, release, staging, round, patch, from, made, publishes, sound, landed>>
     \/ Raise(i)

\* The finally clause, where git worktree remove may fail, too.
Leave(i) ==
  /\ pc[i] = "leave"
  /\ \/ sound[i] /\ Advance(i, IF i \in publishes THEN "push" ELSE "done")
     \/ Advance(i, "failed")

Push_Unchecked(i) ==
  /\ pc[i] = "push"
  /\ remote' = IF remote \in past[tip["main"]] THEN tip["main"] ELSE remote
  /\ Goto(i, "record")
  /\ UNCHANGED <<past, author, base, tip, head, dirty, tags, fileVars, round, patch, from, made,
                 publishes, sound, landed>>

\* approve: git push origin main, which fails if origin has something else.
Push(i) ==
  /\ pc[i] = "push"
  /\ \/ /\ remote \in past[tip["main"]]
        /\ remote' = tip["main"]
        /\ Goto(i, "record")
        /\ UNCHANGED <<past, author, base, tip, head, dirty, tags, fileVars, round, patch, from, made,
                       publishes, sound, landed>>
     \/ Advance(i, "failed")

Record(i) ==
  /\ pc[i] = "record"
  /\ release' = [status |-> "published_pending_deploy", revision |-> made[i]]
  /\ Goto(i, "done")
  /\ UNCHANGED <<gitVars, manifest, audit, staging, round, patch, from, made, publishes, sound, landed>>

Kill(i) == pc[i] \in Running /\ Advance(i, "failed")

Promote(i) ==
  \/ Begin(i) \/ CheckBranch(i) \/ CheckClean(i) \/ CheckHead(i) \/ Reread(i) \/ Build(i)
  \/ Tag(i) \/ Merge(i) \/ Audit(i) \/ Leave(i) \/ Push(i) \/ Record(i) \/ Kill(i)

------------------------------------------------------------------------------
(***************************************************************************)
(* The stage command: a clean checkout, git fetch, the checks in a         *)
(* worktree of their own, release.json.                                    *)
(***************************************************************************)
Stage ==
  /\ staging = None /\ ~dirty
  /\ staging' = remote
  /\ UNCHANGED <<gitVars, manifest, audit, release, invocationVars>>

Staged ==
  /\ staging # None
  /\ \E status \in {"ready_for_repair", "ready_for_approval"} :
       release' = [status |-> status, revision |-> staging]
  /\ staging' = None
  /\ UNCHANGED <<gitVars, manifest, audit, invocationVars>>

------------------------------------------------------------------------------
(***************************************************************************)
(* What others do: the user in the checkout, whoever pushes to origin, the *)
(* evaluation that writes manifests, and time.                             *)
(***************************************************************************)
Commit ==
  /\ \E r \in Revisions :
       /\ \A q \in 1 .. r - 1 : Revision(q)
       /\ NewRevision(r, tip[head], User)
       /\ tip' = [tip EXCEPT ![head] = r]
  /\ UNCHANGED <<head, dirty, tags, remote, fileVars, invocationVars>>

PushElsewhere ==
  /\ \E r \in Revisions :
       /\ \A q \in 1 .. r - 1 : Revision(q)
       /\ NewRevision(r, remote, User)
       /\ remote' = r
  /\ UNCHANGED <<tip, head, dirty, tags, fileVars, invocationVars>>

Disturb == disturbed' = (disturbed \/ \E i \in Invocations : pc[i] \in Running)

Switch ==
  /\ head' \in Branches \ {head}
  /\ Disturb
  /\ UNCHANGED <<past, author, base, tip, dirty, tags, remote, fileVars, invocationVars>>

Edit ==
  /\ dirty' = ~dirty
  /\ UNCHANGED <<past, author, base, tip, head, tags, remote, fileVars, invocationVars>>

\* git reset --hard to the rollback tag, as the audit offers it
Rollback ==
  /\ head = "main"
  /\ \E c \in Candidates :
       /\ tags[c] # None
       /\ tip' = [tip EXCEPT !["main"] = tags[c]]
  /\ dirty' = FALSE
  /\ Disturb
  /\ UNCHANGED <<past, author, base, head, tags, remote, fileVars, invocationVars>>

Evaluate ==
  /\ \E c \in Candidates, good \in BOOLEAN :
       manifest' = [manifest EXCEPT ![c] = [base |-> tip["main"], good |-> good]]
  /\ UNCHANGED <<gitVars, audit, release, staging, invocationVars>>

Expire ==
  /\ \E c \in Candidates : manifest' = [manifest EXCEPT ![c].good = FALSE]
  /\ UNCHANGED <<gitVars, audit, release, staging, invocationVars>>

Others ==
  /\ moves < MaxMoves
  /\ moves' = moves + 1
  /\ \/ Switch \/ Rollback
     \/ (Commit \/ PushElsewhere \/ Edit \/ Evaluate \/ Expire \/ Stage) /\ UNCHANGED disturbed

Next ==
  \/ (\E i \in Invocations : Promote(i)) /\ UNCHANGED <<disturbed, moves>>
  \/ Staged /\ UNCHANGED <<disturbed, moves>>
  \/ Others

Spec == Init /\ [][Next]_vars

------------------------------------------------------------------------------
(***************************************************************************)
(* Properties.                                                             *)
(***************************************************************************)
Reached == {r \in Revisions : r \in past[remote] \/ \E b \in Branches : r \in past[tip[b]]}

\* promote: the tag before the merge.  Every candidate's revision that a branch has, and
\* every one that origin has, can be undone: its rollback tag names its parent, whatever
\* was killed and whoever else promoted the same candidate.
PromotionsAreReversible ==
  \A r \in Reached : author[r] # User => tags[author[r]] = base[r] /\ base[r] # None

\* _append_audit: what the audit names was merged, to main as long as the user stays out of
\* the way; what was merged and is not in the audit belongs to an invocation that is about
\* to write it or did not end well.
AuditIsTrue ==
  LET merged == {m[2] : m \in landed} IN
  /\ audit \subseteq merged
  /\ \A m, n \in landed : author[m[2]] = author[n[2]] => m = n
  /\ ~disturbed => landed \subseteq {"main"} \X Revisions
  /\ \A r \in merged \ audit : \E i \in Invocations : made[i] = r /\ pc[i] \in {"audit", "leave", "failed"}

\* approve: `promote a verified candidate, then publish it'.  What release.json calls
\* published, origin has, although the push may fail and others push; unless the user
\* has changed branches or undone a promotion while one was running.
PublishedIsPushed ==
  release.status = "published_pending_deploy" /\ ~disturbed => release.revision \in past[remote]

\* git merge --ff-only: whatever the user commits while a promotion runs, no promotion
\* takes a revision off a branch, or off origin.
NothingIsLost ==
  [][(\E i \in Invocations : Promote(i)) =>
       /\ \A b \in Branches : tip[b] \in past'[tip'[b]]
       /\ remote \in past'[remote']]_vars
==============================================================================
