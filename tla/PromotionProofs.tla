--------------------------- MODULE PromotionProofs ---------------------------
(***************************************************************************)
(* That what was promoted can be undone and that the records of it are     *)
(* true, for any number of invocations, candidates and revisions.          *)
(*                                                                         *)
(* A revision is sealed if it is nobody's patch, or its rollback tag names *)
(* its parent.  Tags are never moved, so a sealed revision stays sealed;   *)
(* what has to be seen is that whatever a branch, origin, a manifest, a    *)
(* tag or an invocation starts from has only sealed ancestors, and that a  *)
(* merge adds to them one revision whose tag is there.                     *)
(***************************************************************************)
EXTENDS Promotion, TLAPS

------------------------------------------------------------------------------
(***************************************************************************)
(* Types.                                                                  *)
(***************************************************************************)
LEMMA InitTyped == Init => PromotionTypeOK
<1> SUFFICES ASSUME Init PROVE PromotionTypeOK
  OBVIOUS
<1>1. 1 \in Revisions /\ None \notin Revisions
  BY PromotionAssumption DEF Revisions, None
<1>2. GitTypeOK
  <2>1. past \in [Revisions -> SUBSET Revisions]
    BY <1>1 DEF Init
  <2> QED
    BY <1>1, <2>1 DEF Init, GitTypeOK, Branches
<1>3. FilesTypeOK
  BY <1>1 DEF Init, FilesTypeOK
<1>4. InvocationsTypeOK
  BY <1>1 DEF Init, InvocationsTypeOK, Places, Running
<1>5. LocalsAreSet
  <2>1. \A i \in Invocations : pc[i] = "idle" /\ round[i] = 0 /\ made[i] = None
    BY DEF Init
  <2>2. \A i \in Invocations : ~(round[i] = 3)
    <3>1. round = [i \in Invocations |-> 0]
      BY DEF Init
    <3> QED
      BY <3>1, 0 # 3
  <2>4. \A i \in Invocations : pc[i] \notin Running /\ pc[i] # "leave"
    BY <2>1 DEF Running
  <2>3. \A i \in Invocations : pc[i] # "reread" /\ pc[i] # "build"
                              /\ pc[i] \notin {"tag", "merge", "audit", "push", "record"}
    BY <2>1
  <2> QED
    BY <2>1, <2>2, <2>3, <2>4, Zenon DEF LocalsAreSet
<1>6. disturbed \in BOOLEAN /\ moves \in 0 .. MaxMoves
  <2>1. disturbed = FALSE /\ moves = 0
    BY DEF Init
  <2>2. moves \in 0 .. MaxMoves
    BY <2>1, PromotionAssumption
  <2> QED
    BY <2>1, <2>2
<1> QED
  BY <1>2, <1>3, <1>4, <1>5, <1>6 DEF PromotionTypeOK

LEMMA GitKept == GitTypeOK /\ UNCHANGED gitVars => GitTypeOK'
BY DEF GitTypeOK, gitVars

LEMMA FilesKept == FilesTypeOK /\ UNCHANGED fileVars => FilesTypeOK'
BY DEF FilesTypeOK, fileVars

LEMMA InvocationsKept ==
  InvocationsTypeOK /\ LocalsAreSet /\ UNCHANGED invocationVars => InvocationsTypeOK' /\ LocalsAreSet'
BY DEF InvocationsTypeOK, LocalsAreSet, invocationVars

LEMMA AdvanceTyped ==
  ASSUME PromotionTypeOK, NEW i \in Invocations, NEW place \in Places, Advance(i, place),
         pc[i] \in Running, place \notin {"idle", "reread", "build", "leave"},
         place \in {"tag", "merge", "audit", "push", "record"} => round[i] = 3
  PROVE  GitTypeOK' /\ FilesTypeOK' /\ InvocationsTypeOK' /\ LocalsAreSet'
<1> USE DEF PromotionTypeOK, Advance, Goto
<1>1. GitTypeOK' /\ FilesTypeOK'
  BY GitKept, FilesKept
<1>2. InvocationsTypeOK'
  BY DEF InvocationsTypeOK
<1>3. LocalsAreSet'
  BY DEF InvocationsTypeOK, LocalsAreSet
<1> QED
  BY <1>1, <1>2, <1>3

LEMMA RaiseTyped ==
  ASSUME PromotionTypeOK, NEW i \in Invocations, Raise(i), pc[i] \in Running
  PROVE  GitTypeOK' /\ FilesTypeOK' /\ InvocationsTypeOK' /\ LocalsAreSet'
<1> USE DEF PromotionTypeOK, Raise, Goto
<1>1. GitTypeOK' /\ FilesTypeOK'
  BY GitKept, FilesKept
<1>2. InvocationsTypeOK'
  BY DEF InvocationsTypeOK, Places, Running
<1>3. LocalsAreSet'
  BY DEF InvocationsTypeOK, LocalsAreSet, Running
<1> QED
  BY <1>1, <1>2, <1>3

LEMMA PromoteTyped ==
  ASSUME PromotionTypeOK, NEW i \in Invocations, Promote(i)
  PROVE  GitTypeOK' /\ FilesTypeOK' /\ InvocationsTypeOK' /\ LocalsAreSet'
<1> USE DEF PromotionTypeOK, Goto
<1>1. CASE Begin(i)
  <2>1. GitTypeOK' /\ FilesTypeOK'
    BY <1>1, GitKept, FilesKept DEF Begin
  <2>2. InvocationsTypeOK'
    BY <1>1 DEF Begin, InvocationsTypeOK, FilesTypeOK, Places, Running
  <2>3. LocalsAreSet'
    BY <1>1 DEF Begin, InvocationsTypeOK, FilesTypeOK, LocalsAreSet, Running, Revisions, None
  <2> QED
    BY <2>1, <2>2, <2>3
<1>2. CASE CheckBranch(i)
  BY <1>2, AdvanceTyped, RaiseTyped DEF CheckBranch, Places, Running
<1>3. CASE CheckClean(i)
  BY <1>3, AdvanceTyped, RaiseTyped DEF CheckClean, Places, Running
<1>4. CASE CheckHead(i)
  <2>1. pc[i] \in Running
    BY <1>4 DEF CheckHead, Running
  <2>2. CASE Raise(i)
    BY <2>1, <2>2, RaiseTyped
  <2>3. CASE Advance(i, Checked(i))
    <3>1. GitTypeOK' /\ FilesTypeOK'
      BY <2>3, GitKept, FilesKept DEF Advance
    <3>2. InvocationsTypeOK'
      BY <2>3 DEF Advance, Checked, InvocationsTypeOK, Places, Running
    <3>3. LocalsAreSet'
      BY <2>1, <2>3 DEF Advance, Checked, InvocationsTypeOK, LocalsAreSet, Running
    <3> QED
      BY <3>1, <3>2, <3>3
  <2> QED
    BY <1>4, <2>2, <2>3 DEF CheckHead
<1>5. CASE Reread(i)
  <2>1. CASE Raise(i)
    BY <1>5, <2>1, RaiseTyped DEF Reread, Running
  <2>2. CASE ~Raise(i)
    <3>1. GitTypeOK' /\ FilesTypeOK'
      BY <1>5, <2>2, GitKept, FilesKept DEF Reread
    <3>2. InvocationsTypeOK'
      BY <1>5, <2>2 DEF Reread, InvocationsTypeOK, Places, Running
    <3>3. LocalsAreSet'
      BY <1>5, <2>2 DEF Reread, InvocationsTypeOK, LocalsAreSet, Running
    <3> QED
      BY <3>1, <3>2, <3>3
  <2> QED
    BY <2>1, <2>2
<1>6. CASE Build(i)
  <2>1. CASE Raise(i)
    BY <1>6, <2>1, RaiseTyped DEF Build, Running
  <2>2. CASE ~Raise(i)
    <3>1. PICK r \in Revisions : NewRevision(r, from[i], patch[i]) /\ made' = [made EXCEPT ![i] = r]
      BY <1>6, <2>2 DEF Build
    <3>2. from[i] \in Revisions /\ patch[i] \in Candidates
      BY <1>6 DEF Build, InvocationsTypeOK, LocalsAreSet, Running, None
    <3>3. GitTypeOK'
      BY <1>6, <2>2, <3>1, <3>2 DEF Build, NewRevision, GitTypeOK
    <3>4. FilesTypeOK'
      BY <1>6, <2>2, FilesKept DEF Build
    <3>5. InvocationsTypeOK'
      BY <1>6, <2>2, <3>1 DEF Build, InvocationsTypeOK, Places, Running
    <3>6. LocalsAreSet'
      BY <1>6, <2>2, <3>1 DEF Build, InvocationsTypeOK, LocalsAreSet, Running, Revisions, None
    <3> QED
      BY <3>3, <3>4, <3>5, <3>6
  <2> QED
    BY <2>1, <2>2
<1>7. CASE Tag(i)
  <2>1. CASE Raise(i)
    BY <1>7, <2>1, RaiseTyped DEF Tag, Running
  <2>2. CASE ~Raise(i)
    <3>1. GitTypeOK'
      BY <1>7, <2>2 DEF Tag, GitTypeOK, InvocationsTypeOK
    <3>2. FilesTypeOK'
      BY <1>7, <2>2, FilesKept DEF Tag
    <3>3. InvocationsTypeOK'
      BY <1>7, <2>2 DEF Tag, InvocationsTypeOK, Places, Running
    <3>4. LocalsAreSet'
      BY <1>7, <2>2 DEF Tag, InvocationsTypeOK, LocalsAreSet, Running
    <3> QED
      BY <3>1, <3>2, <3>3, <3>4
  <2> QED
    BY <2>1, <2>2
<1>8. CASE Merge(i)
  <2>1. CASE Raise(i)
    BY <1>8, <2>1, RaiseTyped DEF Merge, Running
  <2>2. CASE FastForward(i)
    <3>1. made[i] \in Revisions
      BY <1>8 DEF Merge, InvocationsTypeOK, LocalsAreSet
    <3>2. GitTypeOK'
      BY <2>2, <3>1 DEF FastForward, GitTypeOK
    <3>3. FilesTypeOK'
      BY <2>2, FilesKept DEF FastForward
    <3>4. InvocationsTypeOK'
      BY <2>2, <3>1 DEF FastForward, GitTypeOK, InvocationsTypeOK, Places, Running
    <3>5. LocalsAreSet'
      BY <1>8, <2>2 DEF Merge, FastForward, InvocationsTypeOK, LocalsAreSet, Running
    <3> QED
      BY <3>2, <3>3, <3>4, <3>5
  <2> QED
    BY <1>8, <2>1, <2>2 DEF Merge
<1>9. CASE Audit(i)
  <2>1. CASE Raise(i)
    BY <1>9, <2>1, RaiseTyped DEF Audit, Running
  <2>2. CASE ~Raise(i)
    <3>1. made[i] \in Revisions
      BY <1>9 DEF Audit, InvocationsTypeOK, LocalsAreSet
    <3>2. GitTypeOK'
      BY <1>9, <2>2, GitKept DEF Audit
    <3>3. FilesTypeOK'
      BY <1>9, <2>2, <3>1 DEF Audit, FilesTypeOK
    <3>4. InvocationsTypeOK'
      BY <1>9, <2>2 DEF Audit, InvocationsTypeOK, Places, Running
    <3>5. LocalsAreSet'
      BY <1>9, <2>2 DEF Audit, InvocationsTypeOK, LocalsAreSet, Running
    <3> QED
      BY <3>2, <3>3, <3>4, <3>5
  <2> QED
    BY <2>1, <2>2
<1>10. CASE Leave(i)
  <2>1. pc[i] \in Running /\ (sound[i] => round[i] = 3)
    BY <1>10 DEF Leave, LocalsAreSet, Running
  <2> QED
    BY <1>10, <2>1, AdvanceTyped DEF Leave, Places, Running
<1>11. CASE Push(i)
  <2>1. CASE Advance(i, "failed")
    BY <1>11, <2>1, AdvanceTyped DEF Push, Places, Running
  <2>2. CASE ~Advance(i, "failed")
    <3>1. GitTypeOK'
      BY <1>11, <2>2 DEF Push, GitTypeOK, Branches
    <3>2. FilesTypeOK'
      BY <1>11, <2>2, FilesKept DEF Push
    <3>3. InvocationsTypeOK'
      BY <1>11, <2>2 DEF Push, InvocationsTypeOK, Places, Running
    <3>4. LocalsAreSet'
      BY <1>11, <2>2 DEF Push, InvocationsTypeOK, LocalsAreSet, Running
    <3> QED
      BY <3>1, <3>2, <3>3, <3>4
  <2> QED
    BY <2>1, <2>2
<1>12. CASE Record(i)
  <2>1. GitTypeOK'
    BY <1>12, GitKept DEF Record
  <2>2. FilesTypeOK'
    BY <1>12 DEF Record, FilesTypeOK, InvocationsTypeOK
  <2>3. InvocationsTypeOK'
    BY <1>12 DEF Record, InvocationsTypeOK, Places
  <2>4. LocalsAreSet'
    BY <1>12 DEF Record, InvocationsTypeOK, LocalsAreSet, Running
  <2> QED
    BY <2>1, <2>2, <2>3, <2>4
<1>13. CASE Kill(i)
  BY <1>13, AdvanceTyped DEF Kill, Places
<1> QED
  BY <1>1, <1>2, <1>3, <1>4, <1>5, <1>6, <1>7, <1>8, <1>9, <1>10, <1>11, <1>12, <1>13 DEF Promote
LEMMA OthersTyped ==
  ASSUME PromotionTypeOK, Others
  PROVE  PromotionTypeOK'
<1> USE DEF PromotionTypeOK
<1>1. moves' \in 0 .. MaxMoves
  BY PromotionAssumption DEF Others
<1>2. CASE Commit /\ UNCHANGED disturbed
  <2>1. PICK r \in Revisions : NewRevision(r, tip[head], User) /\ tip' = [tip EXCEPT ![head] = r]
    BY <1>2 DEF Commit
  <2>2. GitTypeOK'
    BY <1>2, <2>1 DEF Commit, NewRevision, GitTypeOK
  <2> QED
    BY <1>1, <1>2, <2>2, FilesKept, InvocationsKept DEF Commit
<1>3. CASE PushElsewhere /\ UNCHANGED disturbed
  <2>1. PICK r \in Revisions : NewRevision(r, remote, User) /\ remote' = r
    BY <1>3 DEF PushElsewhere
  <2>2. GitTypeOK'
    BY <1>3, <2>1 DEF PushElsewhere, NewRevision, GitTypeOK
  <2> QED
    BY <1>1, <1>3, <2>2, FilesKept, InvocationsKept DEF PushElsewhere
<1>4. CASE Switch
  <2>1. GitTypeOK' /\ disturbed' \in BOOLEAN
    BY <1>4 DEF Switch, Disturb, GitTypeOK
  <2> QED
    BY <1>1, <1>4, <2>1, FilesKept, InvocationsKept DEF Switch
<1>5. CASE Edit /\ UNCHANGED disturbed
  <2>1. GitTypeOK'
    BY <1>5 DEF Edit, GitTypeOK
  <2> QED
    BY <1>1, <1>5, <2>1, FilesKept, InvocationsKept DEF Edit
<1>6. CASE Rollback
  <2>1. GitTypeOK' /\ disturbed' \in BOOLEAN
    BY <1>6 DEF Rollback, Disturb, GitTypeOK, Branches
  <2> QED
    BY <1>1, <1>6, <2>1, FilesKept, InvocationsKept DEF Rollback
<1>7. CASE Evaluate /\ UNCHANGED disturbed
  <2>1. FilesTypeOK'
    BY <1>7 DEF Evaluate, FilesTypeOK, GitTypeOK, Branches
  <2> QED
    BY <1>1, <1>7, <2>1, GitKept, InvocationsKept DEF Evaluate
<1>8. CASE Expire /\ UNCHANGED disturbed
  <2>1. PICK c \in Candidates : manifest' = [manifest EXCEPT ![c].good = FALSE]
    BY <1>8 DEF Expire
  <2>2. manifest' \in [Candidates -> [base : Revisions, good : BOOLEAN]]
    BY <2>1 DEF FilesTypeOK
  <2>3. FilesTypeOK'
    BY <1>8, <2>2 DEF Expire, FilesTypeOK
  <2> QED
    BY <1>1, <1>8, <2>3, GitKept, InvocationsKept DEF Expire
<1>9. CASE Stage /\ UNCHANGED disturbed
  <2>1. FilesTypeOK'
    BY <1>9 DEF Stage, FilesTypeOK, GitTypeOK
  <2> QED
    BY <1>1, <1>9, <2>1, GitKept, InvocationsKept DEF Stage
<1> QED
  BY <1>2, <1>3, <1>4, <1>5, <1>6, <1>7, <1>8, <1>9 DEF Others

LEMMA NextTyped ==
  ASSUME PromotionTypeOK, [Next]_vars
  PROVE  PromotionTypeOK'
<1>1. CASE \E i \in Invocations : Promote(i) /\ UNCHANGED <<disturbed, moves>>
  BY <1>1, PromoteTyped DEF PromotionTypeOK
<1>2. CASE Staged /\ UNCHANGED <<disturbed, moves>>
  <2>1. FilesTypeOK'
    BY <1>2 DEF Staged, PromotionTypeOK, FilesTypeOK
  <2> QED
    BY <1>2, <2>1, GitKept, InvocationsKept DEF Staged, PromotionTypeOK
<1>3. CASE Others
  BY <1>3, OthersTyped
<1>4. CASE UNCHANGED vars
  BY <1>4, GitKept, FilesKept, InvocationsKept DEF vars, PromotionTypeOK
<1> QED
  BY <1>1, <1>2, <1>3, <1>4 DEF Next

\* Every variable has its type, and the locals of promote are set where they are used.
THEOREM PromotionTypeCorrect == Spec => []PromotionTypeOK
BY InitTyped, NextTyped, PTL DEF Spec

------------------------------------------------------------------------------
(***************************************************************************)
(* The invariant.                                                          *)
(***************************************************************************)
Sealed(r) == author[r] # User => tags[author[r]] = base[r] /\ base[r] # None

Undoable(r) == r \in Revisions /\ Revision(r) /\ \A q \in past[r] : Sealed(q)

\* A revision has itself as an ancestor, and ancestors are revisions that are there.
Closed == \A r \in Revisions : (Revision(r) => r \in past[r]) /\ \A q \in past[r] : Revision(q)

\* Whatever is built upon has only sealed ancestors.
Anchored ==
  /\ \A b \in Branches : Undoable(tip[b])
  /\ Undoable(remote)
  /\ \A c \in Candidates : Undoable(manifest[c].base) /\ (tags[c] # None => Undoable(tags[c]))
  /\ \A i \in Invocations : from[i] # None => Undoable(from[i])

\* What an invocation has made is its patch on its base, and when it merges, the base
\* has the tag.
Prepared ==
  \A i \in Invocations :
    /\ made[i] # None =>
         /\ Revision(made[i]) /\ author[made[i]] = patch[i]
         /\ from[i] # None /\ base[made[i]] = from[i]
         /\ past[made[i]] = past[from[i]] \union {made[i]}
    /\ pc[i] = "merge" => tags[patch[i]] = from[i]

ReversibleInv == PromotionTypeOK /\ Closed /\ Anchored /\ Prepared

\* What a step leaves alone: revisions that are there, and tags.
HistoryStays ==
  \A q \in Revisions : Revision(q) =>
    past'[q] = past[q] /\ author'[q] = author[q] /\ base'[q] = base[q]

TagsStay == \A c \in Candidates : tags[c] # None => tags'[c] = tags[c]

LEMMA UndoableStays ==
  ASSUME PromotionTypeOK, Closed, HistoryStays, TagsStay, NEW r \in Revisions, Undoable(r)
  PROVE  Undoable(r)'
<1>1. Revision(r)' /\ past'[r] = past[r]
  BY DEF Undoable, Revision, HistoryStays
<1>2. ASSUME NEW q \in past[r], author'[q] # User
      PROVE  tags'[author'[q]] = base'[q] /\ base'[q] # None
  <2>1. q \in Revisions /\ Revision(q)
    BY DEF PromotionTypeOK, GitTypeOK, Closed
  <2>2. author'[q] = author[q] /\ base'[q] = base[q] /\ author[q] \in Candidates
    BY <1>2, <2>1 DEF HistoryStays, PromotionTypeOK, GitTypeOK
  <2>3. tags[author[q]] = base[q] /\ base[q] # None
    BY <1>2, <2>2 DEF Undoable, Sealed
  <2> QED
    BY <2>2, <2>3 DEF TagsStay
<1> QED
  BY <1>1, <1>2 DEF Undoable, Sealed, Revision

LEMMA NewRevisionStays ==
  ASSUME PromotionTypeOK, Closed, NEW r \in Revisions, NEW parent \in Revisions, NEW who,
         NewRevision(r, parent, who), Revision(parent)
  PROVE  HistoryStays /\ Closed' /\ Revision(r)' /\ author'[r] = who /\ base'[r] = parent
         /\ past'[r] = past[parent] \union {r} /\ past'[parent] = past[parent]
<1>1. /\ past'[r] = past[parent] \union {r} /\ author'[r] = who /\ base'[r] = parent
      /\ \A q \in Revisions \ {r} : past'[q] = past[q] /\ author'[q] = author[q] /\ base'[q] = base[q]
  BY DEF NewRevision, PromotionTypeOK, GitTypeOK
<1>2. HistoryStays
  BY <1>1 DEF HistoryStays, NewRevision, Revision
<1>3. Closed'
  <2>1. \A q \in Revisions : Revision(q) \/ q = r => Revision(q)'
    BY <1>1 DEF NewRevision, Revision
  <2>2. \A p \in Revisions : \A q \in past'[p] : q \in Revisions /\ (Revision(q) \/ q = r)
    BY <1>1 DEF Closed, PromotionTypeOK, GitTypeOK
  <2>3. \A p \in Revisions : past'[p] # {} => p \in past'[p]
    BY <1>1 DEF Closed, Revision
  <2> QED
    BY <2>1, <2>2, <2>3 DEF Closed, Revision
<1> QED
  BY <1>1, <1>2, <1>3 DEF Revision, NewRevision

\* A revision of the user on an undoable one is undoable.
LEMMA UsersRevision ==
  ASSUME PromotionTypeOK, Closed, TagsStay, NEW r \in Revisions, NEW parent \in Revisions,
         NewRevision(r, parent, User), Undoable(parent)
  PROVE  Undoable(r)'
<1>1. HistoryStays /\ Revision(r)' /\ author'[r] = User /\ past'[r] = past'[parent] \union {r}
  BY NewRevisionStays DEF Undoable
<1>2. Undoable(parent)'
  BY <1>1, UndoableStays
<1> QED
  BY <1>1, <1>2 DEF Undoable, Sealed

\* A step that makes no revision and moves nothing that is built upon keeps it all.
LEMMA Undisturbed ==
  ASSUME PromotionTypeOK, Closed, Anchored, UNCHANGED <<past, author, base, tip, tags, remote, from>>,
         \A c \in Candidates : manifest'[c].base = manifest[c].base
  PROVE  Closed' /\ Anchored'
<1>1. \A r \in Revisions : Undoable(r) => Undoable(r)'
  BY DEF Undoable, Sealed, Revision
<1>2. Closed'
  BY DEF Closed, Revision
<1>3. Anchored'
  BY <1>1 DEF Anchored, Undoable, PromotionTypeOK, GitTypeOK, FilesTypeOK, InvocationsTypeOK
<1> QED
  BY <1>2, <1>3

------------------------------------------------------------------------------
(***************************************************************************)
(* The steps.                                                              *)
(***************************************************************************)
LEMMA InitReversible == Init => ReversibleInv
<1> SUFFICES ASSUME Init PROVE ReversibleInv
  OBVIOUS
<1>1. 1 \in Revisions /\ None \notin Revisions
  BY PromotionAssumption DEF Revisions, None
<1>2. /\ past = [r \in Revisions |-> IF r = 1 THEN {1} ELSE {}]
      /\ author = [r \in Revisions |-> User]
  BY DEF Init
<1>3. Closed
  BY <1>1, <1>2 DEF Closed, Revision
<1>4. Undoable(1)
  BY <1>1, <1>2 DEF Undoable, Sealed, Revision
<1>5. Anchored
  BY <1>4 DEF Init, Anchored
<1>6. Prepared
  <2>1. pc = [i \in Invocations |-> "idle"] /\ made = [i \in Invocations |-> None]
    BY DEF Init
  <2> QED
    BY <2>1 DEF Prepared
<1> QED
  BY <1>3, <1>5, <1>6, InitTyped DEF ReversibleInv

LEMMA PromoteReversible ==
  ASSUME ReversibleInv, NEW i \in Invocations, Promote(i)
  PROVE  Closed' /\ Anchored' /\ Prepared'
<1> USE DEF ReversibleInv
<1>1. ASSUME UNCHANGED <<gitVars, manifest, from, made, patch>>,
             pc' = [pc EXCEPT ![i] = pc'[i]], pc'[i] # "merge"
      PROVE  Closed' /\ Anchored' /\ Prepared'
  <2>1. Closed' /\ Anchored'
    BY <1>1, Undisturbed DEF gitVars
  <2>2. Prepared'
    BY <1>1 DEF gitVars, Prepared, Revision, PromotionTypeOK, InvocationsTypeOK
  <2> QED
    BY <2>1, <2>2
<1>2. ASSUME Raise(i) PROVE Closed' /\ Anchored' /\ Prepared'
  BY <1>1, <1>2 DEF Raise, Goto, fileVars, PromotionTypeOK, InvocationsTypeOK
<1>3. ASSUME NEW place, place # "merge", Advance(i, place) PROVE Closed' /\ Anchored' /\ Prepared'
  BY <1>1, <1>3 DEF Advance, Goto, fileVars, PromotionTypeOK, InvocationsTypeOK
<1>4. CASE Begin(i)
  <2>1. made[i] = None
    BY <1>4 DEF Begin, PromotionTypeOK, LocalsAreSet, InvocationsTypeOK
  <2>2. from'[i] = manifest[patch[i]].base /\ Undoable(from'[i])
    BY <1>4 DEF Begin, Anchored, PromotionTypeOK, InvocationsTypeOK
  <2>3. \A r : Undoable(r) => Undoable(r)'
    BY <1>4 DEF Begin, gitVars, Undoable, Sealed, Revision
  <2>4. Anchored'
    BY <1>4, <2>2, <2>3 DEF Begin, gitVars, fileVars, Anchored, PromotionTypeOK, InvocationsTypeOK
  <2>5. Closed'
    BY <1>4 DEF Begin, gitVars, Closed, Revision
  <2>6. Prepared'
    BY <1>4, <2>1 DEF Begin, Goto, gitVars, Prepared, Revision, PromotionTypeOK, InvocationsTypeOK
  <2> QED
    BY <2>4, <2>5, <2>6
<1>5. CASE Build(i) /\ ~Raise(i)
  <2>1. PICK r \in Revisions : NewRevision(r, from[i], patch[i]) /\ made' = [made EXCEPT ![i] = r]
    BY <1>5 DEF Build
  <2>2. from[i] \in Revisions /\ from[i] # None /\ Undoable(from[i])
    BY <1>5 DEF Build, Running, PromotionTypeOK, LocalsAreSet, InvocationsTypeOK, Anchored
  <2>3. /\ HistoryStays /\ Closed' /\ Revision(r)' /\ author'[r] = patch[i] /\ base'[r] = from[i]
        /\ past'[r] = past'[from[i]] \union {r}
    BY <2>1, <2>2, NewRevisionStays DEF Undoable
  <2>4. TagsStay
    BY <1>5 DEF Build, TagsStay
  <2>5. \A q \in Revisions : Undoable(q) => Undoable(q)'
    BY <2>3, <2>4, UndoableStays
  <2>6. Anchored'
    BY <1>5, <2>5 DEF Build, fileVars, Anchored, Undoable
  <2>7. Prepared'
    <3>1. ASSUME NEW j \in Invocations, j # i, made[j] # None
          PROVE  /\ past'[made[j]] # {} /\ author'[made[j]] = patch[j]
                 /\ from[j] # None /\ base'[made[j]] = from[j]
                 /\ past'[made[j]] = past'[from[j]] \union {made[j]}
      <4>1. made[j] \in Revisions /\ from[j] \in Revisions /\ Revision(made[j]) /\ Revision(from[j])
        BY <3>1 DEF Prepared, Anchored, Undoable, PromotionTypeOK, InvocationsTypeOK
      <4> QED
        BY <3>1, <4>1, <2>3 DEF Prepared, HistoryStays, Revision
    <3>2. \A j \in Invocations : pc'[j] = "merge" => tags[patch[j]] = from[j]
      BY <1>5 DEF Build, Goto, Prepared, PromotionTypeOK, InvocationsTypeOK
    <3>3. \A j \in Invocations : made'[j] = IF j = i THEN r ELSE made[j]
      BY <2>1 DEF PromotionTypeOK, InvocationsTypeOK
    <3> QED
      BY <1>5, <2>2, <2>3, <3>1, <3>2, <3>3 DEF Build, Prepared, Revision
  <2> QED
    BY <2>3, <2>6, <2>7
<1>6. CASE Tag(i) /\ ~Raise(i)
  <2>1. /\ tags[patch[i]] = None /\ tags' = [tags EXCEPT ![patch[i]] = from[i]]
        /\ UNCHANGED <<past, author, base, tip, remote, manifest, from, made, patch>>
    BY <1>6 DEF Tag, fileVars
  <2>2. TagsStay
    BY <2>1 DEF TagsStay, PromotionTypeOK, GitTypeOK
  <2>3. \A q \in Revisions : Undoable(q) => Undoable(q)'
    BY <2>1, <2>2, UndoableStays DEF HistoryStays
  <2>4. Closed'
    BY <2>1 DEF Closed, Revision
  <2>5. Anchored'
    BY <2>1, <2>3 DEF Anchored, Undoable, PromotionTypeOK, GitTypeOK, InvocationsTypeOK
  <2>6. Prepared'
    <3>1. from[i] # None /\ patch[i] \in Candidates
      BY <1>6 DEF Tag, Running, PromotionTypeOK, LocalsAreSet, InvocationsTypeOK
    <3>2. ASSUME NEW j \in Invocations, pc'[j] = "merge" PROVE tags'[patch[j]] = from[j]
      <4>1. CASE j = i
        BY <2>1, <3>1, <4>1 DEF PromotionTypeOK, GitTypeOK
      <4>2. CASE j # i
        <5>1. tags[patch[j]] = from[j] /\ made[j] # None
          BY <1>6, <3>2, <4>2 DEF Tag, Goto, Prepared, PromotionTypeOK, InvocationsTypeOK, LocalsAreSet
        <5>2. from[j] # None /\ patch[j] \in Candidates
          BY <5>1 DEF Prepared, PromotionTypeOK, InvocationsTypeOK
        <5> QED
          BY <2>2, <5>1, <5>2 DEF TagsStay
      <4> QED
        BY <4>1, <4>2
    <3> QED
      BY <2>1, <3>2 DEF Prepared, Revision
  <2> QED
    BY <2>4, <2>5, <2>6
<1>7. CASE Merge(i) /\ FastForward(i)
  <2>1. /\ tip' = [tip EXCEPT ![head] = made[i]] /\ pc' = [pc EXCEPT ![i] = "audit"]
        /\ UNCHANGED <<past, author, base, tags, remote, manifest, from, made, patch>>
    BY <1>7 DEF FastForward, Goto, fileVars
  <2>2. made[i] # None /\ made[i] \in Revisions /\ patch[i] \in Candidates
    BY <1>7 DEF Merge, PromotionTypeOK, LocalsAreSet, InvocationsTypeOK
  <2>3. Sealed(made[i])
    BY <1>7, <2>2 DEF Merge, Sealed, Prepared
  <2>4. Undoable(made[i])
    BY <2>2, <2>3 DEF Undoable, Prepared, Anchored
  <2>5. \A q : Undoable(q) => Undoable(q)'
    BY <2>1 DEF Undoable, Sealed, Revision
  <2>6. Closed'
    BY <2>1 DEF Closed, Revision
  <2>7. Anchored'
    BY <2>1, <2>4, <2>5 DEF Anchored, PromotionTypeOK, GitTypeOK
  <2>8. Prepared'
    BY <2>1 DEF Prepared, Revision, PromotionTypeOK, InvocationsTypeOK
  <2> QED
    BY <2>6, <2>7, <2>8
<1>8. CASE Push(i) /\ ~Advance(i, "failed")
  <2>1. /\ remote' = tip["main"] /\ pc' = [pc EXCEPT ![i] = "record"]
        /\ UNCHANGED <<past, author, base, tip, tags, manifest, from, made, patch>>
    BY <1>8 DEF Push, Goto, fileVars
  <2>2. \A q : Undoable(q) => Undoable(q)'
    BY <2>1 DEF Undoable, Sealed, Revision
  <2>3. Closed'
    BY <2>1 DEF Closed, Revision
  <2>4. Anchored'
    BY <2>1, <2>2 DEF Anchored, Branches
  <2>5. Prepared'
    BY <2>1 DEF Prepared, Revision, PromotionTypeOK, InvocationsTypeOK
  <2> QED
    BY <2>3, <2>4, <2>5
<1>9. CASE Reread(i) /\ ~Raise(i)
  BY <1>1, <1>9 DEF Reread, Goto, fileVars, PromotionTypeOK, InvocationsTypeOK
<1>10. CASE Audit(i) /\ ~Raise(i)
  BY <1>1, <1>10 DEF Audit, Goto, PromotionTypeOK, InvocationsTypeOK
<1>11. CASE Record(i)
  BY <1>1, <1>11 DEF Record, Goto, PromotionTypeOK, InvocationsTypeOK
<1>12. CASE CheckBranch(i) \/ CheckClean(i) \/ CheckHead(i) \/ Leave(i) \/ Kill(i)
  BY <1>2, <1>3, <1>12 DEF CheckBranch, CheckClean, CheckHead, Checked, Leave, Kill
<1>13. CASE Push(i) /\ Advance(i, "failed")
  BY <1>3, <1>13
<1> QED
  BY <1>2, <1>4, <1>5, <1>6, <1>7, <1>8, <1>9, <1>10, <1>11, <1>12, <1>13 DEF Promote, Merge

LEMMA OthersReversible ==
  ASSUME ReversibleInv, Others
  PROVE  Closed' /\ Anchored' /\ Prepared'
<1> USE DEF ReversibleInv
<1>1. ASSUME NEW r \in Revisions, NEW parent \in Revisions, NewRevision(r, parent, User),
             Undoable(parent), UNCHANGED <<tags, fileVars, invocationVars>>,
             \A b \in Branches : tip'[b] \in {tip[b], r}, remote' \in {remote, r}
      PROVE  Closed' /\ Anchored' /\ Prepared'
  <2>1. HistoryStays /\ Closed' /\ TagsStay
    BY <1>1, NewRevisionStays DEF Undoable, TagsStay
  <2>2. Undoable(r)' /\ \A q \in Revisions : Undoable(q) => Undoable(q)'
    BY <1>1, <2>1, UsersRevision, UndoableStays
  <2>3. Anchored'
    <3>1. \A b \in Branches : Undoable(tip[b])'
      BY <1>1, <2>2 DEF Anchored, Undoable
    <3>2. Undoable(remote)'
      BY <1>1, <2>2 DEF Anchored, Undoable
    <3> QED
      BY <1>1, <2>2, <3>1, <3>2 DEF Anchored, Undoable, fileVars, invocationVars
  <2>4. Prepared'
    <3>1. ASSUME NEW j \in Invocations, made[j] # None
          PROVE  made[j] \in Revisions /\ from[j] \in Revisions /\ Revision(made[j]) /\ Revision(from[j])
      BY <3>1 DEF Prepared, Anchored, Undoable, PromotionTypeOK, InvocationsTypeOK
    <3> QED
      BY <1>1, <2>1, <3>1 DEF Prepared, HistoryStays, Revision, invocationVars
  <2> QED
    BY <2>1, <2>3, <2>4
<1>2. CASE Commit
  <2>1. PICK r \in Revisions : NewRevision(r, tip[head], User) /\ tip' = [tip EXCEPT ![head] = r]
    BY <1>2 DEF Commit
  <2> QED
    BY <1>1, <1>2, <2>1 DEF Commit, Anchored, Undoable, PromotionTypeOK, GitTypeOK
<1>3. CASE PushElsewhere
  <2>1. PICK r \in Revisions : NewRevision(r, remote, User) /\ remote' = r
    BY <1>3 DEF PushElsewhere
  <2> QED
    BY <1>1, <1>3, <2>1 DEF PushElsewhere, Anchored, Undoable, PromotionTypeOK, GitTypeOK
<1>4. CASE Switch \/ Edit \/ Stage
  <2>1. UNCHANGED <<past, author, base, tip, tags, remote, manifest, invocationVars>>
    BY <1>4 DEF Switch, Edit, Stage, gitVars, fileVars
  <2>2. Closed' /\ Anchored'
    BY <2>1, Undisturbed DEF invocationVars
  <2> QED
    BY <2>1, <2>2 DEF Prepared, Revision, invocationVars
<1>5. CASE Rollback
  <2>1. PICK c \in Candidates : tags[c] # None /\ tip' = [tip EXCEPT !["main"] = tags[c]]
    BY <1>5 DEF Rollback
  <2>2. UNCHANGED <<past, author, base, tags, remote, manifest, invocationVars>>
    BY <1>5 DEF Rollback, fileVars
  <2>3. \A q : Undoable(q) => Undoable(q)'
    BY <2>2 DEF Undoable, Sealed, Revision
  <2>4. Anchored'
    BY <2>1, <2>2, <2>3 DEF Anchored, invocationVars, PromotionTypeOK, GitTypeOK
  <2>5. Closed' /\ Prepared'
    BY <2>2 DEF Closed, Prepared, Revision, invocationVars
  <2> QED
    BY <2>4, <2>5
<1>6. CASE Evaluate \/ Expire
  <2>1. PICK c \in Candidates : \/ manifest' = [manifest EXCEPT ![c].good = FALSE]
                               \/ \E good \in BOOLEAN :
                                    manifest' = [manifest EXCEPT ![c] = [base |-> tip["main"], good |-> good]]
    BY <1>6 DEF Evaluate, Expire
  <2>2. \A d \in Candidates : manifest'[d].base \in {manifest[d].base, tip["main"]}
    BY <2>1 DEF PromotionTypeOK, FilesTypeOK
  <2>3. UNCHANGED <<gitVars, invocationVars>>
    BY <1>6 DEF Evaluate, Expire
  <2>4. \A q : Undoable(q) => Undoable(q)'
    BY <2>3 DEF Undoable, Sealed, Revision, gitVars
  <2>5. Anchored'
    BY <2>2, <2>3, <2>4 DEF Anchored, Branches, gitVars, invocationVars
  <2>6. Closed' /\ Prepared'
    BY <2>3 DEF Closed, Prepared, Revision, gitVars, invocationVars
  <2> QED
    BY <2>5, <2>6
<1> QED
  BY <1>2, <1>3, <1>4, <1>5, <1>6 DEF Others

LEMMA NextReversible ==
  ASSUME ReversibleInv, [Next]_vars
  PROVE  ReversibleInv'
<1>1. PromotionTypeOK'
  BY NextTyped DEF ReversibleInv
<1>2. CASE \E i \in Invocations : Promote(i)
  BY <1>1, <1>2, PromoteReversible DEF ReversibleInv
<1>3. CASE Others
  BY <1>1, <1>3, OthersReversible DEF ReversibleInv
<1>4. CASE Staged \/ UNCHANGED vars
  <2>1. UNCHANGED <<past, author, base, tip, tags, remote, manifest, invocationVars>>
    BY <1>4 DEF Staged, vars, gitVars, fileVars
  <2>2. Closed' /\ Anchored'
    BY <2>1, Undisturbed DEF ReversibleInv, invocationVars
  <2>3. Prepared'
    BY <2>1 DEF ReversibleInv, Prepared, Revision, invocationVars
  <2> QED
    BY <1>1, <2>2, <2>3 DEF ReversibleInv
<1> QED
  BY <1>2, <1>3, <1>4 DEF Next

\* What a branch or origin has can be undone: the rollback tag of every candidate's
\* revision names its parent, for any number of invocations, kills and moves of others.
THEOREM PromotionsAreReversibleHolds == Spec => []PromotionsAreReversible
<1>1. ASSUME ReversibleInv, NEW r \in Reached PROVE Sealed(r)
  <2>1. CASE r \in past[remote]
    BY <1>1, <2>1 DEF ReversibleInv, Anchored, Undoable
  <2>2. CASE \E b \in Branches : r \in past[tip[b]]
    BY <1>1, <2>2 DEF ReversibleInv, Anchored, Undoable
  <2> QED
    BY <1>1, <2>1, <2>2 DEF Reached
<1>2. ReversibleInv => PromotionsAreReversible
  BY <1>1 DEF Sealed, PromotionsAreReversible
<1> QED
  BY <1>2, InitReversible, NextReversible, PTL DEF Spec

\* git merge --ff-only: no step of a promotion takes a revision off a branch or off origin.
THEOREM NothingIsLostHolds == Spec => NothingIsLost
<1> DEFINE Kept == (\A b \in Branches : tip[b] \in past'[tip'[b]]) /\ remote \in past'[remote']
<1>1. ASSUME ReversibleInv, NEW i \in Invocations, Promote(i)
      PROVE  Kept
  <2> USE DEF ReversibleInv
  <2>1. /\ \A b \in Branches : tip[b] \in Revisions /\ Revision(tip[b]) /\ tip[b] \in past[tip[b]]
        /\ remote \in Revisions /\ Revision(remote) /\ remote \in past[remote]
    BY <1>1 DEF Anchored, Undoable, Closed
  <2>2. CASE UNCHANGED <<past, tip, remote>>
    BY <2>1, <2>2
  <2>3. CASE FastForward(i) /\ Merge(i) /\ ~Raise(i)
    <3>1. /\ tip' = [tip EXCEPT ![head] = made[i]] /\ tip[head] \in past[made[i]]
          /\ UNCHANGED <<past, remote>>
      BY <2>3 DEF FastForward, Merge
    <3> QED
      BY <1>1, <2>1, <3>1 DEF PromotionTypeOK, GitTypeOK
  <2>4. CASE Build(i) /\ ~Raise(i)
    <3>1. PICK r \in Revisions : NewRevision(r, from[i], patch[i])
      BY <2>4 DEF Build
    <3>2. from[i] \in Revisions /\ Revision(from[i])
      BY <1>1, <2>4 DEF Build, Running, PromotionTypeOK, LocalsAreSet, InvocationsTypeOK, Anchored, Undoable
    <3>3. HistoryStays /\ UNCHANGED <<tip, remote>>
      BY <1>1, <2>4, <3>1, <3>2, NewRevisionStays DEF Build
    <3> QED
      BY <2>1, <3>3 DEF HistoryStays
  <2>5. CASE Push(i) /\ ~Advance(i, "failed")
    <3>1. remote' = tip["main"] /\ remote \in past[tip["main"]] /\ UNCHANGED <<past, tip>>
      BY <2>5 DEF Push
    <3> QED
      BY <2>1, <3>1
  <2>6. CASE Raise(i) \/ \E place \in Places : Advance(i, place)
    BY <2>2, <2>6 DEF Raise, Advance, gitVars
  <2>7. CASE Begin(i) \/ Reread(i) \/ Tag(i) \/ Audit(i) \/ Record(i)
    BY <2>2, <2>6, <2>7 DEF Begin, Reread, Tag, Audit, Record, gitVars
  <2>8. CASE CheckBranch(i) \/ CheckClean(i) \/ CheckHead(i) \/ Leave(i) \/ Kill(i)
    BY <2>6, <2>8 DEF CheckBranch, CheckClean, CheckHead, Checked, Leave, Kill, Places, Running
  <2> QED
    BY <1>1, <2>3, <2>4, <2>5, <2>6, <2>7, <2>8 DEF Promote, Merge, Places, Running
<1>2. ASSUME ReversibleInv, [Next]_vars
      PROVE  [(\E i \in Invocations : Promote(i)) => Kept]_vars
  BY <1>1, <1>2
<1> QED
  BY <1>2, InitReversible, NextReversible, PTL DEF Spec, NothingIsLost

------------------------------------------------------------------------------
(***************************************************************************)
(* What the audit and release.json say.  Only the first invocation to tag  *)
(* a candidate gets to merge it, and while the user stays out of the way,  *)
(* it is main it merges into, and what main and origin have only grows.    *)
(***************************************************************************)

\* The ancestors of an ancestor are ancestors.
Transitive == \A r \in Revisions : \A q \in past[r] : past[q] \subseteq past[r]

Merged == {m[2] : m \in landed}

\* What has landed is a tagged candidate's; who is about to merge is the first for its
\* candidate.
FirstToMerge ==
  /\ \A m \in landed : /\ Revision(m[2]) /\ author[m[2]] \in Candidates
                       /\ tags[author[m[2]]] # None
  /\ \A i \in Invocations : pc[i] = "merge" => \A m \in landed : author[m[2]] # patch[i]
  /\ \A i, j \in Invocations : pc[i] = "merge" /\ pc[j] = "merge" /\ patch[i] = patch[j] => i = j
  /\ \A m, n \in landed : author[m[2]] = author[n[2]] => m = n

\* What an invocation has merged it audits, or it does not end well.
Audited ==
  /\ audit \subseteq Merged
  /\ \A i \in Invocations :
       /\ pc[i] = "audit" => made[i] \in Merged
       /\ pc[i] = "leave" /\ sound[i] => made[i] \in audit
  /\ \A r \in Merged \ audit :
       \E i \in Invocations : made[i] = r /\ pc[i] \in {"audit", "leave", "failed"}

\* An invocation that has found main checked out still finds it, and main, then origin,
\* keeps what it merged.
OnMain ==
  ~disturbed =>
    /\ landed \subseteq {"main"} \X Revisions
    /\ \A i \in Invocations :
         /\ pc[i] \in Running /\ (pc[i] = "branch" => round[i] # 1) => head = "main"
         /\ pc[i] \in {"audit", "push"} \/ (pc[i] = "leave" /\ sound[i]) => made[i] \in past[tip["main"]]
         /\ pc[i] = "record" => made[i] \in past[remote]
    /\ release.status = "published_pending_deploy" => release.revision \in past[remote]

RecordsInv == Transitive /\ FirstToMerge /\ Audited /\ OnMain

LEMMA InitRecords == Init => RecordsInv
<1> SUFFICES ASSUME Init PROVE RecordsInv
  OBVIOUS
<1>1. past = [r \in Revisions |-> IF r = 1 THEN {1} ELSE {}]
  BY DEF Init
<1>2. Transitive
  BY <1>1 DEF Transitive, Revisions
<1>3. /\ pc = [i \in Invocations |-> "idle"] /\ landed = {} /\ audit = {}
      /\ release = [status |-> "not_staged", revision |-> None]
  BY DEF Init
<1> QED
  BY <1>2, <1>3 DEF RecordsInv, FirstToMerge, Audited, Merged, OnMain, Running

\* A new revision on one that is there adds to the history.
LEMMA NewRevisionTransitive ==
  ASSUME PromotionTypeOK, Closed, Transitive, NEW r \in Revisions, NEW parent \in Revisions, NEW who,
         NewRevision(r, parent, who), Revision(parent)
  PROVE  Transitive'
<1>1. HistoryStays /\ past'[r] = past[parent] \union {r} /\ past'[parent] = past[parent] /\ ~Revision(r)
  BY NewRevisionStays DEF NewRevision
<1>2. \A p \in Revisions : \A q \in past[p] : q \in Revisions /\ Revision(q) /\ past'[q] = past[q]
  BY <1>1 DEF Closed, HistoryStays, PromotionTypeOK, GitTypeOK
<1>3. ASSUME NEW p \in Revisions, p # r PROVE past'[p] = past[p]
  BY <1>3 DEF NewRevision, PromotionTypeOK, GitTypeOK
<1>4. ASSUME NEW p \in Revisions, NEW q \in past'[p] PROVE past'[q] \subseteq past'[p]
  <2>1. CASE p # r
    BY <1>2, <1>3, <1>4, <2>1 DEF Transitive
  <2>2. CASE p = r /\ q = r
    BY <2>2
  <2>3. CASE p = r /\ q # r
    <3>1. q \in past[parent]
      BY <1>1, <1>4, <2>3
    <3> QED
      BY <1>1, <1>2, <2>3, <3>1 DEF Transitive
  <2> QED
    BY <2>1, <2>2, <2>3
<1> QED
  BY <1>4 DEF Transitive

\* No step changes a revision that is there or moves a tag.
LEMMA StepKeepsHistory ==
  ASSUME ReversibleInv, Transitive, [Next]_vars
  PROVE  HistoryStays /\ TagsStay /\ Transitive'
<1> USE DEF ReversibleInv
<1>1. ASSUME UNCHANGED <<past, author, base>> PROVE HistoryStays /\ Transitive'
  BY <1>1 DEF HistoryStays, Transitive
<1>2. ASSUME NEW i \in Invocations, Promote(i) PROVE HistoryStays /\ TagsStay /\ Transitive'
  <2>1. CASE Build(i) /\ ~Raise(i)
    <3>1. PICK r \in Revisions : NewRevision(r, from[i], patch[i])
      BY <2>1 DEF Build
    <3>2. from[i] \in Revisions /\ Revision(from[i])
      BY <1>2, <2>1 DEF Build, Running, PromotionTypeOK, LocalsAreSet, InvocationsTypeOK, Anchored, Undoable
    <3>3. HistoryStays /\ Transitive'
      BY <3>1, <3>2, NewRevisionStays, NewRevisionTransitive
    <3> QED
      BY <2>1, <3>3 DEF Build, TagsStay
  <2>2. CASE Tag(i) /\ ~Raise(i)
    <3>1. TagsStay /\ UNCHANGED <<past, author, base>>
      BY <2>2 DEF Tag, TagsStay, PromotionTypeOK, GitTypeOK
    <3> QED
      BY <1>1, <3>1
  <2>3. CASE Raise(i) \/ \E place \in Places : Advance(i, place)
    BY <1>1, <2>3 DEF Raise, Advance, gitVars, TagsStay
  <2>4. CASE FastForward(i) \/ Begin(i) \/ Audit(i) \/ Record(i) \/ Reread(i)
    BY <1>1, <2>4 DEF FastForward, Begin, Audit, Record, Reread, Raise, gitVars, TagsStay
  <2>5. CASE Push(i)
    BY <1>1, <2>5 DEF Push, Advance, gitVars, TagsStay
  <2>6. CASE CheckBranch(i) \/ CheckClean(i) \/ CheckHead(i) \/ Leave(i) \/ Kill(i)
    BY <2>3, <2>6 DEF CheckBranch, CheckClean, CheckHead, Checked, Leave, Kill, Places, Running
  <2> QED
    BY <1>2, <2>1, <2>2, <2>3, <2>4, <2>5, <2>6 DEF Promote, Merge
<1>3. ASSUME Others PROVE HistoryStays /\ TagsStay /\ Transitive'
  <2>1. TagsStay
    BY <1>3 DEF Others, Switch, Rollback, Commit, PushElsewhere, Edit, Evaluate, Expire, Stage, gitVars, TagsStay
  <2>2. CASE Commit \/ PushElsewhere
    <3>1. PICK r \in Revisions, b \in Branches :
            NewRevision(r, tip[b], User) \/ NewRevision(r, remote, User)
      BY <2>2 DEF Commit, PushElsewhere, PromotionTypeOK, GitTypeOK
    <3>2. /\ tip[b] \in Revisions /\ Revision(tip[b])
          /\ remote \in Revisions /\ Revision(remote)
      BY DEF Anchored, Undoable
    <3> QED
      BY <2>1, <3>1, <3>2, NewRevisionStays, NewRevisionTransitive
  <2>3. CASE ~(Commit \/ PushElsewhere)
    <3>1. UNCHANGED <<past, author, base>>
      BY <1>3, <2>3 DEF Others, Switch, Rollback, Edit, Evaluate, Expire, Stage, gitVars
    <3> QED
      BY <1>1, <2>1, <3>1
  <2> QED
    BY <2>2, <2>3
<1>4. CASE Staged \/ UNCHANGED vars
  BY <1>1, <1>4 DEF Staged, vars, gitVars, TagsStay
<1> QED
  BY <1>2, <1>3, <1>4 DEF Next

\* A step of an invocation that merges, audits and publishes nothing.
LEMMA QuietStep ==
  ASSUME PromotionTypeOK, RecordsInv, NEW i \in Invocations,
         UNCHANGED <<gitVars, audit, landed, patch, made, release, disturbed>>,
         \A j \in Invocations \ {i} : pc'[j] = pc[j] /\ sound'[j] = sound[j] /\ round'[j] = round[j],
         pc'[i] \notin {"merge", "audit", "push", "record"}, pc'[i] = "leave" => ~sound'[i],
         pc[i] \in {"audit", "leave", "failed"} =>
           made[i] \in audit \/ pc'[i] \in {"audit", "leave", "failed"},
         ~disturbed /\ pc'[i] \in Running /\ (pc'[i] = "branch" => round'[i] # 1) => head = "main"
  PROVE  FirstToMerge' /\ Audited' /\ OnMain'
<1> USE DEF RecordsInv, gitVars
<1>1. FirstToMerge'
  BY DEF FirstToMerge, Revision
<1>2. Audited'
  <2>1. ASSUME NEW r \in Merged \ audit
        PROVE  \E j \in Invocations : made[j] = r /\ pc'[j] \in {"audit", "leave", "failed"}
    BY <2>1 DEF Audited
  <2> QED
    BY <2>1 DEF Audited, Merged
<1>3. OnMain'
  BY DEF OnMain
<1> QED
  BY <1>1, <1>2, <1>3

LEMMA PromoteRecords ==
  ASSUME ReversibleInv, ReversibleInv', RecordsInv, HistoryStays, TagsStay, Transitive',
         NEW i \in Invocations, Promote(i), UNCHANGED disturbed
  PROVE  FirstToMerge' /\ Audited' /\ OnMain'
<1> USE DEF ReversibleInv, Goto
<1>1. pc[i] \in Places /\ pc \in [Invocations -> Places] /\ sound \in [Invocations -> BOOLEAN]
      /\ round \in [Invocations -> 0 .. 3] /\ made \in [Invocations -> Revisions \union {None}]
  BY DEF PromotionTypeOK, InvocationsTypeOK
<1>2. ~disturbed /\ pc[i] \in Running /\ (pc[i] = "branch" => round[i] # 1) => head = "main"
  BY DEF RecordsInv, OnMain
<1>3. CASE Raise(i) /\ pc[i] \in Running
  <2>1. pc[i] # "branch" \/ round[i] # 1 \/ pc'[i] = "failed"
    BY <1>1, <1>3 DEF Raise
  <2>2. pc'[i] \in {"leave", "failed"} /\ ~sound'[i]
    BY <1>1, <1>3 DEF Raise
  <2>3. /\ UNCHANGED <<gitVars, audit, landed, patch, made, release>>
        /\ \A j \in Invocations \ {i} : pc'[j] = pc[j] /\ sound'[j] = sound[j] /\ round'[j] = round[j]
    BY <1>1, <1>3 DEF Raise, fileVars
  <2> QED
    BY <1>2, <1>3, <2>1, <2>2, <2>3, QuietStep DEF Running
<1>4. ASSUME NEW place \in {"clean", "head", "reread", "build", "tag", "done", "failed"}, Advance(i, place),
             place \in Running => (disturbed \/ head = "main"),
             place = "failed" \/ pc[i] \notin {"audit", "leave", "failed"} \/ made[i] \in audit
      PROVE  FirstToMerge' /\ Audited' /\ OnMain'
  <2>1. /\ pc'[i] = place /\ UNCHANGED <<gitVars, audit, landed, patch, made, release>>
        /\ \A j \in Invocations \ {i} : pc'[j] = pc[j] /\ sound'[j] = sound[j] /\ round'[j] = round[j]
    BY <1>1, <1>4 DEF Advance, fileVars
  <2> QED
    BY <1>4, <2>1, QuietStep
<1>5. CASE (Begin(i) \/ Reread(i)) /\ ~Raise(i)
  <2>1. /\ (pc[i] = "idle" /\ round'[i] = 1) \/ (pc[i] = "reread" /\ round'[i] = 2)
        /\ UNCHANGED <<gitVars, audit, landed, patch, made, release, sound>>
        /\ \A j \in Invocations \ {i} : pc'[j] = pc[j] /\ sound'[j] = sound[j] /\ round'[j] = round[j]
    BY <1>1, <1>5 DEF Begin, Reread, fileVars
  <2>2. pc'[i] = "branch"
    BY <1>1, <1>5 DEF Begin, Reread
  <2> QED
    BY <1>2, <2>1, <2>2, QuietStep DEF Running
<1>6. CASE CheckBranch(i) /\ ~Raise(i)
  BY <1>4, <1>6 DEF CheckBranch
<1>7. CASE (CheckClean(i) \/ CheckHead(i)) /\ ~Raise(i)
  BY <1>2, <1>4, <1>7 DEF CheckClean, CheckHead, Checked, Running
<1>8. CASE Kill(i)
  BY <1>4, <1>8 DEF Kill, Running
<1>9. CASE Push(i) /\ Advance(i, "failed")
  BY <1>4, <1>9 DEF Running
<1>10. CASE Leave(i) /\ (~(sound[i] /\ i \in publishes) \/ Advance(i, "failed"))
  <2>1. CASE Advance(i, "failed")
    BY <1>4, <2>1 DEF Running
  <2>2. CASE sound[i] /\ Advance(i, "done")
    <3>1. made[i] \in audit
      BY <1>10, <2>2 DEF Leave, RecordsInv, Audited
    <3> QED
      BY <1>4, <2>2, <3>1 DEF Running
  <2> QED
    BY <1>10, <2>1, <2>2 DEF Leave
<1>11. CASE Leave(i) /\ sound[i] /\ Advance(i, "push")
  <2>1. /\ pc[i] = "leave" /\ pc' = [pc EXCEPT ![i] = "push"]
        /\ UNCHANGED <<gitVars, fileVars, round, patch, made, sound, landed>>
    BY <1>11 DEF Leave, Advance
  <2>2. made[i] \in audit /\ (~disturbed => made[i] \in past[tip["main"]])
    BY <1>11, <2>1 DEF RecordsInv, Audited, OnMain
  <2>3. FirstToMerge'
    BY <1>1, <2>1 DEF RecordsInv, FirstToMerge, Revision, gitVars
  <2>4. Audited'
    <3>1. ASSUME NEW r \in Merged \ audit
          PROVE  \E j \in Invocations : made[j] = r /\ pc'[j] \in {"audit", "leave", "failed"}
      BY <1>1, <2>1, <2>2 DEF RecordsInv, Audited
    <3> QED
      BY <1>1, <2>1, <3>1 DEF RecordsInv, Audited, Merged, fileVars
  <2>5. OnMain'
    BY <1>1, <1>2, <2>1, <2>2 DEF RecordsInv, OnMain, gitVars, fileVars, Running
  <2> QED
    BY <2>3, <2>4, <2>5
<1>12. CASE Record(i)
  <2>1. /\ pc[i] = "record" /\ pc' = [pc EXCEPT ![i] = "done"]
        /\ release' = [status |-> "published_pending_deploy", revision |-> made[i]]
        /\ UNCHANGED <<gitVars, audit, round, patch, made, sound, landed>>
    BY <1>12 DEF Record
  <2>2. FirstToMerge'
    BY <1>1, <2>1 DEF RecordsInv, FirstToMerge, Revision, gitVars
  <2>3. Audited'
    <3>1. ASSUME NEW r \in Merged \ audit
          PROVE  \E j \in Invocations : made[j] = r /\ pc'[j] \in {"audit", "leave", "failed"}
      BY <1>1, <2>1 DEF RecordsInv, Audited
    <3> QED
      BY <1>1, <2>1, <3>1 DEF RecordsInv, Audited, Merged
  <2>4. OnMain'
    BY <1>1, <2>1 DEF RecordsInv, OnMain, gitVars, Running
  <2> QED
    BY <2>2, <2>3, <2>4
<1>13. CASE Audit(i) /\ ~Raise(i)
  <2>1. /\ pc[i] = "audit" /\ pc' = [pc EXCEPT ![i] = "leave"] /\ audit' = audit \union {made[i]}
        /\ UNCHANGED <<gitVars, release, round, patch, made, sound, landed>>
    BY <1>13 DEF Audit
  <2>2. FirstToMerge'
    BY <1>1, <2>1 DEF RecordsInv, FirstToMerge, Revision, gitVars
  <2>3. Audited'
    <3>1. ASSUME NEW r \in Merged \ audit
          PROVE  \E j \in Invocations : made[j] = r /\ pc'[j] \in {"audit", "leave", "failed"}
      BY <1>1, <2>1 DEF RecordsInv, Audited
    <3> QED
      BY <1>1, <2>1, <3>1 DEF RecordsInv, Audited, Merged
  <2>4. OnMain'
    BY <1>1, <1>2, <2>1 DEF RecordsInv, OnMain, gitVars, Running
  <2> QED
    BY <2>2, <2>3, <2>4
<1>14. CASE Tag(i) /\ ~Raise(i)
  <2>1. /\ pc[i] = "tag" /\ pc' = [pc EXCEPT ![i] = "merge"] /\ tags[patch[i]] = None
        /\ tags' = [tags EXCEPT ![patch[i]] = from[i]]
        /\ UNCHANGED <<past, author, base, tip, head, dirty, remote, fileVars, round, patch, from, made, sound, landed>>
    BY <1>14 DEF Tag
  <2>2. \A m \in landed : author[m[2]] # patch[i]
    BY <2>1 DEF RecordsInv, FirstToMerge
  <2>3. ASSUME NEW j \in Invocations, pc[j] = "merge" PROVE patch[j] # patch[i]
    <3>1. tags[patch[j]] = from[j] /\ from[j] # None
      BY <2>3 DEF Prepared, PromotionTypeOK, LocalsAreSet, Running
    <3> QED
      BY <2>1, <3>1
  <2>4. FirstToMerge'
    BY <1>1, <2>1, <2>2, <2>3 DEF RecordsInv, FirstToMerge, Revision, TagsStay
  <2>5. Audited'
    <3>1. ASSUME NEW r \in Merged \ audit
          PROVE  \E j \in Invocations : made[j] = r /\ pc'[j] \in {"audit", "leave", "failed"}
      BY <1>1, <2>1 DEF RecordsInv, Audited
    <3> QED
      BY <1>1, <2>1, <3>1 DEF RecordsInv, Audited, Merged, fileVars
  <2>6. OnMain'
    BY <1>1, <1>2, <2>1 DEF RecordsInv, OnMain, fileVars, Running
  <2> QED
    BY <2>4, <2>5, <2>6
<1>15. CASE FastForward(i) /\ Merge(i) /\ ~Raise(i)
  <2>1. /\ pc[i] = "merge" /\ pc' = [pc EXCEPT ![i] = "audit"] /\ tip[head] \in past[made[i]]
        /\ tip' = [tip EXCEPT ![head] = made[i]] /\ landed' = landed \union {<<head, made[i]>>}
        /\ UNCHANGED <<past, author, base, head, dirty, tags, remote, fileVars, round, patch, from, made, sound>>
    BY <1>15 DEF FastForward, Merge
  <2>2. made[i] \in Revisions /\ author[made[i]] = patch[i] /\ Revision(made[i])
    BY <1>1, <2>1 DEF Prepared, PromotionTypeOK, LocalsAreSet
  <2>3. patch[i] \in Candidates /\ tags[patch[i]] # None
    BY <2>1 DEF Prepared, PromotionTypeOK, LocalsAreSet, InvocationsTypeOK, Running
  <2>4. Merged' = Merged \union {made[i]}
    <3>1. ASSUME NEW r PROVE r \in Merged' <=> \E m \in landed \union {<<head, made[i]>>} : r = m[2]
      BY <2>1 DEF Merged
    <3>2. ASSUME NEW r PROVE r \in Merged <=> \E m \in landed : r = m[2]
      BY DEF Merged
    <3>3. <<head, made[i]>>[2] = made[i]
      OBVIOUS
    <3> QED
      BY <3>1, <3>2, <3>3
  <2>5. FirstToMerge'
    <3>1. \A m \in landed' : m \in landed \/ m = <<head, made[i]>>
      BY <2>1
    <3>2. \A m \in landed : author[m[2]] # patch[i]
      BY <2>1 DEF RecordsInv, FirstToMerge
    <3>3. \A m \in landed' : Revision(m[2]) /\ author[m[2]] \in Candidates /\ tags[author[m[2]]] # None
      BY <2>2, <2>3, <3>1 DEF RecordsInv, FirstToMerge
    <3>4. ASSUME NEW j \in Invocations, pc'[j] = "merge"
          PROVE  pc[j] = "merge" /\ \A m \in landed' : author[m[2]] # patch[j]
      <4>1. pc[j] = "merge" /\ j # i
        BY <1>1, <2>1, <3>4
      <4>2. patch[j] # patch[i]
        BY <2>1, <4>1 DEF RecordsInv, FirstToMerge
      <4> QED
        BY <2>2, <3>1, <4>1, <4>2 DEF RecordsInv, FirstToMerge
    <3>5. \A m, n \in landed' : author[m[2]] = author[n[2]] => m = n
      BY <2>2, <3>1, <3>2 DEF RecordsInv, FirstToMerge
    <3> QED
      BY <2>1, <3>3, <3>4, <3>5 DEF RecordsInv, FirstToMerge, Revision
  <2>6. Audited'
    <3>1. ASSUME NEW r \in Merged' \ audit
          PROVE  \E j \in Invocations : made[j] = r /\ pc'[j] \in {"audit", "leave", "failed"}
      BY <1>1, <2>1, <2>4 DEF RecordsInv, Audited
    <3>2. UNCHANGED <<audit, made, sound>>
      BY <2>1 DEF fileVars
    <3> QED
      BY <1>1, <2>1, <2>4, <3>1, <3>2 DEF RecordsInv, Audited
  <2>7. OnMain'
    <3> SUFFICES ASSUME ~disturbed PROVE OnMain'
      BY DEF OnMain
    <3>1. head = "main" /\ tip'["main"] = made[i] /\ tip["main"] \in past[made[i]]
      BY <1>2, <2>1 DEF Running, PromotionTypeOK, GitTypeOK, Branches
    <3>2. made[i] \in past[made[i]] /\ past[tip["main"]] \subseteq past[made[i]]
      BY <2>2, <3>1 DEF RecordsInv, Transitive, Closed
    <3>3. landed' \subseteq {"main"} \X Revisions
      BY <2>1, <2>2, <3>1 DEF RecordsInv, OnMain
    <3> QED
      BY <1>1, <2>1, <3>1, <3>2, <3>3 DEF RecordsInv, OnMain, fileVars
  <2> QED
    BY <2>5, <2>6, <2>7
<1>16. CASE Push(i) /\ ~Advance(i, "failed")
  <2>1. /\ pc[i] = "push" /\ pc' = [pc EXCEPT ![i] = "record"]
        /\ remote \in past[tip["main"]] /\ remote' = tip["main"]
        /\ UNCHANGED <<past, author, base, tip, head, dirty, tags, fileVars, round, patch, from, made, sound, landed>>
    BY <1>16 DEF Push
  <2>2. FirstToMerge'
    BY <1>1, <2>1 DEF RecordsInv, FirstToMerge, Revision
  <2>3. Audited'
    <3>1. ASSUME NEW r \in Merged \ audit
          PROVE  \E j \in Invocations : made[j] = r /\ pc'[j] \in {"audit", "leave", "failed"}
      BY <1>1, <2>1 DEF RecordsInv, Audited
    <3> QED
      BY <1>1, <2>1, <3>1 DEF RecordsInv, Audited, Merged, fileVars
  <2>4. past[remote] \subseteq past[remote']
    BY <2>1 DEF RecordsInv, Transitive, Anchored, Undoable, Branches
  <2>5. OnMain'
    BY <1>1, <1>2, <2>1, <2>4 DEF RecordsInv, OnMain, fileVars, Running
  <2> QED
    BY <2>2, <2>3, <2>5
<1>17. CASE Build(i) /\ ~Raise(i)
  <2>1. /\ pc[i] = "build" /\ pc' = [pc EXCEPT ![i] = "branch"] /\ round' = [round EXCEPT ![i] = 3]
        /\ UNCHANGED <<tip, head, dirty, tags, remote, fileVars, patch, from, sound, landed>>
        /\ \E r \in Revisions : made' = [made EXCEPT ![i] = r]
    BY <1>17 DEF Build
  <2>2. FirstToMerge'
    <3>1. ASSUME NEW m \in landed PROVE Revision(m[2])' /\ author'[m[2]] = author[m[2]]
      <4>1. m[2] \in Revisions /\ Revision(m[2])
        BY <3>1 DEF RecordsInv, FirstToMerge, PromotionTypeOK, InvocationsTypeOK
      <4> QED
        BY <4>1 DEF HistoryStays, Revision
    <3> QED
      BY <1>1, <2>1, <3>1 DEF RecordsInv, FirstToMerge
  <2>3. Audited'
    <3>1. ASSUME NEW r \in Merged \ audit
          PROVE  \E j \in Invocations : made'[j] = r /\ pc'[j] \in {"audit", "leave", "failed"}
      BY <1>1, <2>1 DEF RecordsInv, Audited
    <3> QED
      BY <1>1, <2>1, <3>1 DEF RecordsInv, Audited, Merged, fileVars
  <2>4. past'[tip["main"]] = past[tip["main"]] /\ past'[remote] = past[remote]
    BY DEF HistoryStays, Anchored, Undoable, Branches
  <2>5. OnMain'
    BY <1>1, <1>2, <2>1, <2>4 DEF RecordsInv, OnMain, fileVars, Running
  <2> QED
    BY <2>2, <2>3, <2>5
<1>18. ASSUME CheckBranch(i) \/ CheckClean(i) \/ CheckHead(i) \/ Reread(i) \/ Build(i) \/ Tag(i)
                \/ Merge(i) \/ Audit(i)
       PROVE  pc[i] \in Running
  BY <1>18 DEF CheckBranch, CheckClean, CheckHead, Reread, Build, Tag, Merge, Audit, Running
<1>19. Begin(i) => ~Raise(i)
  BY <1>1 DEF Begin, Raise
<1>20. CASE Merge(i) /\ ~Raise(i)
  BY <1>15, <1>20 DEF Merge
<1>21. Leave(i) => ~(sound[i] /\ i \in publishes) \/ Advance(i, "failed") \/ (sound[i] /\ Advance(i, "push"))
  BY DEF Leave
<1> QED
  BY <1>3, <1>5, <1>6, <1>7, <1>8, <1>9, <1>10, <1>11, <1>12, <1>13, <1>14, <1>16, <1>17, <1>18, <1>19, <1>20,
     <1>21 DEF Promote

LEMMA OthersRecords ==
  ASSUME ReversibleInv, RecordsInv, HistoryStays, TagsStay, Transitive',
         Others \/ (Staged /\ UNCHANGED disturbed)
  PROVE  FirstToMerge' /\ Audited' /\ OnMain'
<1> USE DEF ReversibleInv
<1>1. UNCHANGED <<audit, invocationVars>>
  BY DEF Others, Staged, Switch, Rollback, Commit, PushElsewhere, Edit, Evaluate, Expire, Stage, fileVars
<1>2. FirstToMerge'
  <2>1. ASSUME NEW m \in landed
        PROVE  /\ Revision(m[2])' /\ author'[m[2]] = author[m[2]] /\ author[m[2]] \in Candidates
               /\ tags'[author[m[2]]] = tags[author[m[2]]] /\ tags[author[m[2]]] # None
    <3>1. m[2] \in Revisions /\ Revision(m[2]) /\ author[m[2]] \in Candidates /\ tags[author[m[2]]] # None
      BY <2>1 DEF RecordsInv, FirstToMerge, PromotionTypeOK, InvocationsTypeOK
    <3> QED
      BY <3>1 DEF HistoryStays, TagsStay, Revision
  <2> QED
    BY <1>1, <2>1 DEF RecordsInv, FirstToMerge, invocationVars
<1>3. Audited'
  BY <1>1 DEF RecordsInv, Audited, Merged, invocationVars
<1>4. ASSUME past[tip["main"]] \subseteq past'[tip'["main"]], past[remote] \subseteq past'[remote'],
             UNCHANGED <<head, disturbed>>, release' = release \/ release'.status # "published_pending_deploy"
      PROVE  OnMain'
  BY <1>1, <1>4 DEF RecordsInv, OnMain, invocationVars
<1>5. /\ tip["main"] \in Revisions /\ Revision(tip["main"]) /\ past'[tip["main"]] = past[tip["main"]]
      /\ remote \in Revisions /\ Revision(remote) /\ past'[remote] = past[remote]
      /\ tip \in [Branches -> Revisions] /\ head \in Branches
  BY DEF Anchored, Undoable, Branches, HistoryStays, PromotionTypeOK, GitTypeOK
<1>6. CASE Staged /\ UNCHANGED disturbed
  <2>1. release'.status # "published_pending_deploy" /\ UNCHANGED <<tip, remote, head, disturbed>>
    BY <1>6 DEF Staged, gitVars
  <2> QED
    BY <1>2, <1>3, <1>4, <1>5, <2>1
<1>7. CASE (Edit \/ Evaluate \/ Expire \/ Stage) /\ UNCHANGED disturbed
  <2>1. UNCHANGED <<tip, remote, head, disturbed, release>>
    BY <1>7 DEF Edit, Evaluate, Expire, Stage, gitVars, fileVars
  <2> QED
    BY <1>2, <1>3, <1>4, <1>5, <2>1
<1>8. CASE Commit /\ UNCHANGED disturbed
  <2>1. PICK r \in Revisions : NewRevision(r, tip[head], User) /\ tip' = [tip EXCEPT ![head] = r]
    BY <1>8 DEF Commit
  <2>2. past'[r] = past[tip[head]] \union {r}
    BY <2>1 DEF NewRevision, PromotionTypeOK, GitTypeOK
  <2>3. past[tip["main"]] \subseteq past'[tip'["main"]]
    BY <1>5, <2>1, <2>2
  <2>4. UNCHANGED <<remote, head, disturbed, release>>
    BY <1>8 DEF Commit, fileVars
  <2> QED
    BY <1>2, <1>3, <1>4, <1>5, <2>3, <2>4
<1>9. CASE PushElsewhere /\ UNCHANGED disturbed
  <2>1. PICK r \in Revisions : NewRevision(r, remote, User) /\ remote' = r
    BY <1>9 DEF PushElsewhere
  <2>2. past[remote] \subseteq past'[remote']
    BY <2>1 DEF NewRevision, PromotionTypeOK, GitTypeOK
  <2>3. UNCHANGED <<tip, head, disturbed, release>>
    BY <1>9 DEF PushElsewhere, fileVars
  <2> QED
    BY <1>2, <1>3, <1>4, <1>5, <2>2, <2>3
<1>10. CASE Switch \/ Rollback
  <2>1. UNCHANGED <<past, remote, release>> /\ Disturb
    BY <1>10 DEF Switch, Rollback, fileVars
  <2>2. OnMain'
    <3> SUFFICES ASSUME ~disturbed' PROVE OnMain'
      BY DEF OnMain
    <3>1. ~disturbed /\ \A i \in Invocations : pc[i] \notin Running
      BY <2>1 DEF Disturb
    <3>2. \A i \in Invocations : pc[i] \notin {"audit", "push", "leave", "record"}
      BY <3>1 DEF Running
    <3> QED
      BY <1>1, <2>1, <3>1, <3>2 DEF RecordsInv, OnMain, invocationVars
  <2> QED
    BY <1>2, <1>3, <2>2
<1> QED
  BY <1>6, <1>7, <1>8, <1>9, <1>10 DEF Others

LEMMA NextRecords ==
  ASSUME ReversibleInv, RecordsInv, [Next]_vars
  PROVE  RecordsInv'
<1>1. ReversibleInv' /\ HistoryStays /\ TagsStay /\ Transitive'
  BY NextReversible, StepKeepsHistory DEF RecordsInv
<1>2. CASE (\E i \in Invocations : Promote(i)) /\ UNCHANGED <<disturbed, moves>>
  BY <1>1, <1>2, PromoteRecords DEF RecordsInv
<1>3. CASE Others \/ (Staged /\ UNCHANGED <<disturbed, moves>>)
  BY <1>1, <1>3, OthersRecords DEF RecordsInv
<1>4. CASE UNCHANGED vars
  BY <1>4 DEF RecordsInv, Transitive, FirstToMerge, Audited, Merged, OnMain, Revision,
              vars, gitVars, fileVars, invocationVars
<1> QED
  BY <1>2, <1>3, <1>4 DEF Next

\* _append_audit: promotions.jsonl names what was merged, main's alone while the user stays
\* out of the way, and what it does not name belongs to an invocation that did not end well.
THEOREM AuditIsTrueHolds == Spec => []AuditIsTrue
<1>1. RecordsInv => AuditIsTrue
  BY DEF RecordsInv, FirstToMerge, Audited, Merged, OnMain, AuditIsTrue
<1> QED
  BY <1>1, InitReversible, NextReversible, InitRecords, NextRecords, PTL DEF Spec

\* approve: what release.json calls published, origin has, however many invocations,
\* pushes of others and failures there are.
THEOREM PublishedIsPushedHolds == Spec => []PublishedIsPushed
<1>1. RecordsInv => PublishedIsPushed
  BY DEF RecordsInv, OnMain, PublishedIsPushed
<1> QED
  BY <1>1, InitReversible, NextReversible, InitRecords, NextRecords, PTL DEF Spec
==============================================================================
