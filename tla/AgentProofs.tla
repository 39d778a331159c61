------------------------------ MODULE AgentProofs ------------------------------
(***************************************************************************)
(* For any number of calls, runs, documents and points, and any limits:    *)
(* what the document store answers is of the time it was asked for, and an *)
(* agent answers only after all of its stages, and with the grounding it   *)
(* was asked for.  That its text cites nothing else is not so, and no      *)
(* theorem says it.                                                        *)
(*                                                                         *)
(* StoreInv says how what a call has read so far relates to the points     *)
(* that were there since it began and to those that were there all the     *)
(* time.  RunInv says at which stage of its pipeline a run is, and what    *)
(* its locals hold there.                                                  *)
(***************************************************************************)
EXTENDS AgentOrchestration, FiniteSetTheorems, SequenceTheorems, WellFoundedInduction, TLAPS

\* The types, with functions to sets of points, and sequences of stages.
Awaits == Ended \union {"checking", "creating", "working", "scrolling", "ranking"}

StageNames == {"intake", "retrieve", "planner", "execution", "review", "candidate", "expert", "verifier", "writer"}

Types ==
  /\ created \in BOOLEAN /\ points \subseteq Points /\ unused \subseteq 1 .. MaxId
  /\ op \in [Callers -> Ops] /\ at \in [Callers -> Awaits]
  /\ doc \in [Callers -> Docs \union {AnyDoc}]
  /\ want \in [Callers -> 0 .. TopK] /\ cursor \in [Callers -> 1 .. MaxId]
  /\ found \in [Callers -> SUBSET Points] /\ scanned \in [Callers -> SUBSET Points]
  /\ known \in [Callers -> SUBSET Points] /\ kept \in [Callers -> SUBSET Points]

RunTypes ==
  /\ mode \in [Runs -> Modes \union {"none"}] /\ grounded \subseteq Runs
  /\ todo \in [Runs -> Seq(StageNames)] /\ completed \in [Runs -> Seq(StageNames)]
  /\ searches \in [Runs -> 0 .. 3] /\ chunks \in [Runs -> SUBSET Points]
  /\ verdict \in [Runs -> Verdicts] /\ ledger \in [Runs -> SUBSET Labels]
  /\ outcome \in [Runs -> {"none", "running", "refused", "answered"}]
  /\ cites \in [Runs -> SUBSET Labels]

OneEach(S) == \A p, q \in S : p.id = q.id => p = q

\* An identifier is used once.
PointsFit == OneEach(points) /\ \A p \in points : p.id \notin unused

About(c, S) == {p \in S : doc[c] \in {AnyDoc, p.doc}}

Looking(c) == op[c] \in {"list", "search"} /\ at[c] \notin Ended

\* What a call has read is about its document, and was there since it began; what was
\* there all the time is there.
ReadingFits(c) ==
  /\ op[c] = "none" <=> at[c] = "idle"
  /\ at[c] \in {"scrolling", "ranking"} => op[c] = "search"
  /\ op[c] \in {"none", "ingest", "delete"} => found[c] = {}
  /\ op[c] = "ingest" => doc[c] \in Docs
  /\ at[c] \notin {"scrolling", "ranking", "failed"} => scanned[c] = {}
  /\ IsFiniteSet(found[c]) /\ IsFiniteSet(scanned[c]) /\ Cardinality(scanned[c]) <= ScanLimit
  /\ at[c] # "failed" => found[c] \union scanned[c] \subseteq About(c, known[c])
  /\ Looking(c) => points \subseteq known[c] /\ kept[c] \subseteq points
  /\ IsFiniteSet(kept[c])

\* A listing has all of it before its offset.
ListingFits(c) ==
  op[c] = "list" =>
    /\ doc[c] = AnyDoc
    /\ at[c] \notin Ended => \A p \in kept[c] : p.id < cursor[c] => p \in found[c]
    /\ at[c] = "done" => kept[c] \subseteq found[c]

\* A search has as much of it as the limits of its rankings allow.
SearchFits(c) ==
  op[c] = "search" =>
    /\ want[c] # 0
    /\ at[c] \in {"scrolling", "ranking"} =>
         \/ Cardinality(found[c]) >= Hybrid
         \/ Cardinality(found[c]) >= Cardinality(About(c, kept[c]))
    /\ at[c] = "done" /\ c \in Requests =>
         /\ Cardinality(found[c]) <= want[c]
         /\ \/ Cardinality(found[c]) >= want[c]
            \/ Cardinality(found[c]) >= RerankLimit
            \/ Cardinality(found[c]) >= Cardinality(About(c, kept[c]))

CallFits(c) == ReadingFits(c) /\ ListingFits(c) /\ SearchFits(c)

StoreInv == PointsFit /\ \A c \in Callers : CallFits(c)

\* Where a run is: at stage i of a pipeline with n experts that have answered or are
\* still to be asked.
Turn(m) == IF m = "adaptive" THEN 2 ELSE 1

Progress(m, n, i, ahead, behind) ==
  LET whole == Pipeline(m, n) IN
  /\ i \in 1 .. Len(whole)
  /\ Len(ahead) = Len(whole) - i + 1
  /\ \A x \in 1 .. Len(ahead) : ahead[x] = whole[i - 1 + x]
  /\ Len(behind) = IF i > Turn(m) THEN i - 2 ELSE i - 1
  /\ \A x \in 1 .. Len(behind) : behind[x] = whole[IF x < Turn(m) THEN x ELSE x + 1]

StageAt(r, n, i) ==
  LET retrieval == Turn(mode[r]) IN
  /\ Progress(mode[r], n, i, todo[r], completed[r])
  \* the retrieval
  /\ i < retrieval => at[r] = "idle"
  /\ i = retrieval /\ r \notin grounded => at[r] = "idle"
  /\ i > retrieval => /\ at[r] \in {"idle", "done"} /\ found[r] = {}
                      /\ r \in grounded => at[r] = "done"
  \* the verdict
  /\ i <= retrieval => verdict[r] = "unset"

Whole(r) ==
  \E n \in 1 .. MaxExperts : \E i \in DOMAIN Pipeline(mode[r], n) :
    /\ Pipeline(mode[r], n)[i] = "retrieve"
    /\ completed[r] = RemoveAt(Pipeline(mode[r], n), i)

GroundingFits(r) ==
  /\ chunks[r] \subseteq Relevant(r) /\ IsFiniteSet(chunks[r]) /\ Cardinality(chunks[r]) <= TopK
  /\ verdict[r] = "passed" => /\ ledger[r] \subseteq Sources(r)
                              /\ ledger[r] = {} => chunks[r] = {}

\* A search that is done has found something, if there was anything all the time.
Covered(r) == at[r] = "done" => chunks[r] # {} \/ found[r] # {} \/ About(r, kept[r]) = {}

RunFits(r) ==
  /\ op[r] \in {"none", "search"}
  /\ outcome[r] # "running" => at[r] \in Ended
  /\ outcome[r] \in {"none", "refused"} => /\ at[r] # "failed" => found[r] = {}
                                           /\ chunks[r] = {} /\ verdict[r] = "unset"
                                           /\ todo[r] = <<>> /\ completed[r] = <<>>
  /\ outcome[r] = "none" => at[r] = "idle"
  /\ outcome[r] = "running" => /\ mode[r] \in Modes
                               /\ \E n \in 1 .. MaxExperts : \E i \in 1 .. 7 : StageAt(r, n, i)
  /\ outcome[r] = "answered" => /\ mode[r] \in Modes /\ Whole(r) /\ todo[r] = <<>> /\ Len(completed[r]) <= 7
                                /\ found[r] = {} /\ (r \in grounded => at[r] = "done")
  /\ outcome[r] \in {"running", "answered"} => Covered(r)
  /\ GroundingFits(r)

RunInv == \A r \in Runs : RunFits(r)

------------------------------------------------------------------------------
(***************************************************************************)
(* Sets of points and of numbers.                                          *)
(***************************************************************************)
LEMMA Limits ==
  /\ MaxCalls \in Nat \ {0} /\ MaxId \in Nat \ {0} /\ PageSize \in Nat \ {0} /\ ScanLimit \in Nat \ {0}
  /\ Hybrid \in Nat \ {0} /\ RerankLimit \in Nat \ {0} /\ TopK \in Nat \ {0} /\ RerankLimit <= Hybrid
BY RagAssumption

LEMMA LeastNatural ==
  ASSUME NEW T \in SUBSET Nat, T # {}
  PROVE  Min(T) \in T /\ \A y \in T : Min(T) <= y
<1>1. PICK x \in T : \A y \in T : ~(<<y, x>> \in OpToRel(<, Nat))
  BY NatLessThanWellFounded, WFMin
<1>2. \A y \in T : ~(y < x)
  BY <1>1 DEF OpToRel
<1>3. \A y \in T : x <= y
  BY <1>2
<1> QED
  BY <1>3 DEF Min

LEMMA FinitePoints ==
  ASSUME NEW S \in SUBSET Points, OneEach(S)
  PROVE  IsFiniteSet(S)
<1> DEFINE f == [p \in S |-> p.id]
<1>1. f \in Injection(S, 1 .. MaxId)
  BY DEF Injection, IsInjective, OneEach, Points
<1>2. IsFiniteSet(1 .. MaxId)
  BY FS_Interval, Limits
<1> QED
  BY <1>1, <1>2, FS_Injection

LEMMA PointsAreFinite ==
  ASSUME Types, PointsFit
  PROVE  /\ IsFiniteSet(points)
         /\ \A S \in SUBSET points : IsFiniteSet(S) /\ Cardinality(S) \in Nat /\ Cardinality(S) <= Cardinality(points)
<1>1. IsFiniteSet(points)
  BY FinitePoints DEF Types, PointsFit
<1> QED
  BY <1>1, FS_Subset, FS_CardinalityType

LEMMA Smaller ==
  ASSUME NEW S, IsFiniteSet(S), NEW T \in SUBSET S
  PROVE  IsFiniteSet(T) /\ Cardinality(T) \in Nat /\ Cardinality(S) \in Nat /\ Cardinality(T) <= Cardinality(S)
BY FS_Subset, FS_CardinalityType

LEMMA LimitedTo ==
  ASSUME NEW S, IsFiniteSet(S), NEW limit \in Nat, NEW T \in Limited(S, limit)
  PROVE  /\ T \subseteq S /\ IsFiniteSet(T) /\ Cardinality(T) \in Nat /\ Cardinality(S) \in Nat
         /\ Cardinality(T) <= limit /\ Cardinality(T) <= Cardinality(S)
         /\ Cardinality(T) = limit \/ Cardinality(T) = Cardinality(S)
<1>1. T \subseteq S /\ Cardinality(T) = IF Cardinality(S) < limit THEN Cardinality(S) ELSE limit
  BY DEF Limited
<1>2. IsFiniteSet(T) /\ Cardinality(T) \in Nat /\ Cardinality(S) \in Nat
  BY <1>1, Smaller
<1> QED
  BY <1>1, <1>2

\* A page has no more points than asked for: each has another rank.
LEMMA PageFits ==
  ASSUME Types, PointsFit, NEW c \in Callers, NEW size \in Nat
  PROVE  /\ Page(c, size) \subseteq From(c) /\ From(c) \subseteq Matching(c) /\ Matching(c) \subseteq points
         /\ IsFiniteSet(Page(c, size)) /\ Cardinality(Page(c, size)) \in Nat /\ Cardinality(Page(c, size)) <= size
<1> DEFINE below(p) == {q \in From(c) : q.id < p.id}
           f == [p \in Page(c, size) |-> Cardinality(below(p))]
<1>1. Page(c, size) \subseteq From(c) /\ From(c) \subseteq Matching(c) /\ Matching(c) \subseteq points
  BY DEF Page, From, Matching
<1>2. /\ IsFiniteSet(Page(c, size)) /\ Cardinality(Page(c, size)) \in Nat
      /\ \A p \in Page(c, size) : IsFiniteSet(below(p)) /\ Cardinality(below(p)) \in Nat
  BY <1>1, PointsAreFinite
<1>3. f \in [Page(c, size) -> 0 .. size - 1]
  BY <1>2 DEF Page
<1>4. ASSUME NEW p \in Page(c, size), NEW q \in Page(c, size), p.id < q.id
      PROVE  Cardinality(below(p)) # Cardinality(below(q))
  <2>1. p \in From(c) /\ q \in From(c) /\ p.id \in Nat /\ q.id \in Nat /\ \A x \in From(c) : x.id \in Nat
    BY <1>1 DEF Types, Points
  <2>2. below(p) \subseteq below(q) /\ p \in below(q) /\ p \notin below(p)
    BY <1>4, <2>1
  <2> QED
    BY <1>2, <2>2, FS_Subset
<1>5. f \in Injection(Page(c, size), 0 .. size - 1)
  <2>1. ASSUME NEW p \in Page(c, size), NEW q \in Page(c, size), f[p] = f[q] PROVE p = q
    <3>1. p \in points /\ q \in points /\ p.id \in Nat /\ q.id \in Nat
      BY <1>1 DEF Types, Points
    <3>2. ~(p.id < q.id) /\ ~(q.id < p.id)
      BY <1>4, <2>1
    <3> QED
      BY <3>1, <3>2 DEF PointsFit, OneEach
  <2> HIDE DEF f
  <2> QED
    BY <1>3, <2>1 DEF Injection, IsInjective
<1>6. IsFiniteSet(0 .. size - 1) /\ Cardinality(0 .. size - 1) = size
  <2>1. IsFiniteSet(0 .. size - 1) /\ Cardinality(0 .. size - 1) = IF 0 > size - 1 THEN 0 ELSE (size - 1) - 0 + 1
    BY FS_Interval
  <2> QED
    BY <2>1
<1>7. Cardinality(Page(c, size)) <= size
  BY <1>5, <1>6, FS_Injection
<1> QED
  BY <1>1, <1>2, <1>7

\* The offset of the next page: what is below it and was not below the last one is on
\* the page.
LEMMA NextOffset ==
  ASSUME Types, PointsFit, NEW c \in Callers, NEW page \in SUBSET From(c), page # From(c)
  PROVE  /\ Offset(c, page) \in 1 .. MaxId
         /\ \A p \in Matching(c) : p.id < Offset(c, page) => p.id < cursor[c] \/ p \in page
<1> DEFINE rest == {p.id : p \in From(c) \ page}
<1>1. \A p \in Matching(c) : p \in Points /\ p.id \in 1 .. MaxId
  BY DEF Matching, Types, Points
<1>2. From(c) \subseteq Matching(c) /\ cursor[c] \in 1 .. MaxId
  BY DEF From, Types
<1>3. rest \in SUBSET (1 .. MaxId) /\ rest \in SUBSET Nat /\ rest # {}
  <2>1. PICK p \in From(c) : p \notin page
    OBVIOUS
  <2>2. p.id \in rest
    BY <2>1
  <2>3. rest \in SUBSET (1 .. MaxId)
    BY <1>1, <1>2
  <2>4. 1 .. MaxId \subseteq Nat
    BY Limits
  <2> QED
    BY <2>2, <2>3, <2>4
<1>4. Offset(c, page) \in rest /\ \A y \in rest : Offset(c, page) <= y
  <2>1. Offset(c, page) = Min(rest)
    BY DEF Offset
  <2> QED
    BY <1>3, <2>1, LeastNatural
<1>5. ASSUME NEW p \in Matching(c), p.id < Offset(c, page), ~(p.id < cursor[c]) PROVE p \in page
  <2>1. p \in From(c)
    BY <1>1, <1>2, <1>5 DEF From
  <2>2. p.id \notin rest
    BY <1>1, <1>3, <1>4, <1>5
  <2> QED
    BY <2>1, <2>2
<1> QED
  BY <1>3, <1>4, <1>5

------------------------------------------------------------------------------
(***************************************************************************)
(* The steps of the store.                                                 *)
(***************************************************************************)
LEMMA Calling ==
  /\ Requests \subseteq Callers /\ Runs \subseteq Callers /\ \A r \in Runs : r \notin Requests
  /\ AnyDoc \notin Docs /\ 0 \in 0 .. TopK /\ 1 \in 1 .. MaxId /\ 1 \in 1 .. TopK
BY Limits, RagAssumption DEF Callers

\* Points come and go beside a call that takes no step.
LEMMA CallStays ==
  ASSUME Types, PointsFit, NEW d \in Callers, CallFits(d),
         op'[d] = op[d], at'[d] = at[d], doc'[d] = doc[d], want'[d] = want[d], cursor'[d] = cursor[d],
         found'[d] = found[d], scanned'[d] = scanned[d],
         known[d] \subseteq known'[d], Looking(d) => points' \subseteq known'[d],
         kept'[d] \subseteq kept[d], Looking(d) => kept'[d] \subseteq points',
         at[d] \in Ended => kept'[d] = kept[d]
  PROVE  CallFits(d)'
<1>0. IsFiniteSet(kept'[d])
  BY Smaller DEF CallFits, ReadingFits
<1>1. ReadingFits(d)'
  BY <1>0 DEF CallFits, ReadingFits, Looking, About
<1>2. ListingFits(d)'
  BY DEF CallFits, ListingFits
<1>3. SearchFits(d)'
  <2>1. ASSUME op[d] = "search", at[d] \in {"scrolling", "ranking"}
        PROVE  /\ Cardinality(About(d, kept[d])') <= Cardinality(About(d, kept[d]))
               /\ Cardinality(About(d, kept[d])') \in Nat /\ Cardinality(About(d, kept[d])) \in Nat
    <3>1. Looking(d)
      BY <2>1 DEF Looking, Ended
    <3>2. About(d, kept[d]) \subseteq points /\ About(d, kept[d])' \subseteq About(d, kept[d])
      BY <3>1 DEF CallFits, ReadingFits, About
    <3>3. IsFiniteSet(About(d, kept[d]))
      BY <3>2, PointsAreFinite
    <3> QED
      BY <3>2, <3>3, Smaller
  <2>2. Cardinality(found[d]) \in Nat
    BY FS_CardinalityType DEF CallFits, ReadingFits
  <2>3. ASSUME op[d] = "search", at[d] \in {"scrolling", "ranking"}
        PROVE  \/ Cardinality(found'[d]) >= Hybrid
               \/ Cardinality(found'[d]) >= Cardinality(About(d, kept[d])')
    <3>1. \/ Cardinality(found[d]) >= Hybrid
          \/ Cardinality(found[d]) >= Cardinality(About(d, kept[d]))
      BY <2>3 DEF CallFits, SearchFits
    <3> QED
      BY <2>1, <2>2, <2>3, <3>1
  <2>4. ASSUME op[d] = "search", at[d] = "done", d \in Requests
        PROVE  /\ Cardinality(found'[d]) <= want'[d]
               /\ \/ Cardinality(found'[d]) >= want'[d]
                  \/ Cardinality(found'[d]) >= RerankLimit
                  \/ Cardinality(found'[d]) >= Cardinality(About(d, kept[d])')
    <3>1. kept'[d] = kept[d]
      BY <2>4 DEF Ended
    <3>2. About(d, kept[d])' = About(d, kept[d])
      BY <3>1 DEF About
    <3> QED
      BY <2>4, <3>2 DEF CallFits, SearchFits
  <2> QED
    BY <2>3, <2>4 DEF CallFits, SearchFits
<1> QED
  BY <1>1, <1>2, <1>3 DEF CallFits

Aside(d) ==
  /\ op'[d] = op[d] /\ at'[d] = at[d] /\ doc'[d] = doc[d] /\ want'[d] = want[d] /\ cursor'[d] = cursor[d]
  /\ found'[d] = found[d] /\ scanned'[d] = scanned[d] /\ known'[d] = known[d] /\ kept'[d] = kept[d]

LEMMA OneCall ==
  ASSUME Types, StoreInv, UNCHANGED <<points, unused>>, NEW c \in Callers, CallFits(c)',
         \A d \in Callers \ {c} : Aside(d)
  PROVE  StoreInv'
<1>1. PointsFit'
  BY DEF StoreInv, PointsFit
<1>2. ASSUME NEW d \in Callers \ {c} PROVE CallFits(d)'
  <2>1. CallFits(d) /\ Aside(d)
    BY DEF StoreInv
  <2>2. Looking(d) => points' \subseteq known'[d] /\ kept'[d] \subseteq points'
    BY <2>1 DEF CallFits, ReadingFits, Aside
  <2>3. PointsFit
    BY DEF StoreInv
  <2> QED
    BY <2>1, <2>2, <2>3, CallStays DEF Aside
<1> QED
  BY <1>1, <1>2 DEF StoreInv

LEMMA LookKeeps ==
  ASSUME Types, StoreInv, NEW c \in Callers, CheckCollection(c) \/ CreateCollection(c) \/ BreakDown(c)
  PROVE  Types' /\ StoreInv'
<1>1. /\ at[c] \notin Ended /\ at[c] # "ranking"
      /\ at' = [at EXCEPT ![c] = at'[c]] /\ at'[c] \in {"working", "creating", "failed"}
      /\ at'[c] # "failed" => at[c] \in {"checking", "creating"}
      /\ created' \in BOOLEAN
      /\ UNCHANGED <<points, unused, op, doc, want, cursor, found, scanned, known, kept>>
  BY DEF CheckCollection, CreateCollection, BreakDown, Types, Ended
<1>2. Types'
  BY <1>1 DEF Types, Awaits, Ended
<1>3. CallFits(c)
  BY DEF StoreInv
<1>4. CallFits(c)'
  <2>1. ReadingFits(c)'
    BY <1>1, <1>3 DEF CallFits, ReadingFits, Looking, About, Ended
  <2>2. ListingFits(c)'
    BY <1>1, <1>3 DEF CallFits, ListingFits, Ended
  <2>3. SearchFits(c)'
    BY <1>1, <1>3 DEF CallFits, SearchFits, Ended
  <2> QED
    BY <2>1, <2>2, <2>3 DEF CallFits
<1>5. \A d \in Callers \ {c} : Aside(d)
  BY <1>1 DEF Aside, Types
<1> QED
  BY <1>1, <1>2, <1>4, <1>5, OneCall

LEMMA EnterKeeps ==
  ASSUME Types, StoreInv, NEW c \in Callers, NEW o \in {"ingest", "delete", "list", "search"},
         NEW d \in Docs \union {AnyDoc}, NEW k \in 0 .. TopK, Enter(c, o, d, k),
         o = "list" => d = AnyDoc, o = "ingest" => d \in Docs,
         known' = [known EXCEPT ![c] = known'[c]], kept' = [kept EXCEPT ![c] = kept'[c]],
         known'[c] \subseteq Points, kept'[c] \subseteq Points,
         o \in {"list", "search"} => points \subseteq known'[c] /\ kept'[c] \subseteq points,
         IsFiniteSet(kept'[c]), o = "search" => k # 0
  PROVE  Types' /\ StoreInv'
<1>1. /\ op'[c] = o /\ at'[c] = "checking" /\ doc'[c] = d /\ want'[c] = k /\ cursor'[c] = 1
      /\ found'[c] = {} /\ scanned'[c] = {}
      /\ UNCHANGED <<points, unused>>
  BY DEF Enter, Types
<1>2. Types'
  BY Calling DEF Enter, Types, Awaits, Ops
<1>3. \A e \in Callers \ {c} : Aside(e)
  BY DEF Enter, Types, Aside
<1>4. CallFits(c)'
  <2>1. IsFiniteSet({}) /\ Cardinality({}) = 0 /\ 0 <= ScanLimit
    BY FS_EmptySet, Limits
  <2>2. ReadingFits(c)'
    BY <1>1, <2>1 DEF ReadingFits, Looking, Ended
  <2>3. \A p \in kept'[c] : ~(p.id < 1)
    BY DEF Types, Points
  <2>4. ListingFits(c)'
    BY <1>1, <2>3 DEF ListingFits, Ended
  <2>5. SearchFits(c)'
    BY <1>1 DEF SearchFits
  <2> QED
    BY <2>2, <2>4, <2>5 DEF CallFits
<1> QED
  BY <1>1, <1>2, <1>3, <1>4, OneCall

LEMMA AskKeeps ==
  ASSUME Types, StoreInv, NEW c \in Requests, Ask(c)
  PROVE  Types' /\ StoreInv'
<1>1. c \in Callers
  BY Calling
<1>2. CASE /\ \E o \in {"ingest", "delete"}, d \in Docs : Enter(c, o, d, 0)
           /\ UNCHANGED <<known, kept>>
  <2>1. PICK o \in {"ingest", "delete"}, d \in Docs : Enter(c, o, d, 0)
    BY <1>2
  <2>2. /\ known' = [known EXCEPT ![c] = known'[c]] /\ kept' = [kept EXCEPT ![c] = kept'[c]]
        /\ known'[c] \subseteq Points /\ kept'[c] \subseteq Points /\ IsFiniteSet(kept'[c])
    BY <1>1, <1>2 DEF Types, StoreInv, CallFits, ReadingFits
  <2>3. o \in {"ingest", "delete", "list", "search"} /\ o \notin {"list", "search"} /\ d \in Docs \union {AnyDoc}
        /\ o # "list" /\ d \in Docs
    OBVIOUS
  <2> QED
    BY <1>1, <2>1, <2>2, <2>3, Calling, EnterKeeps
<1>3. CASE /\ \/ Enter(c, "list", AnyDoc, 0)
              \/ \E d \in Docs \union {AnyDoc}, k \in 1 .. TopK : Enter(c, "search", d, k)
           /\ known' = [known EXCEPT ![c] = points]
           /\ kept' = [kept EXCEPT ![c] = points]
  <2>1. PICK o \in {"list", "search"}, d \in Docs \union {AnyDoc}, k \in 0 .. TopK :
          Enter(c, o, d, k) /\ (o = "list" => d = AnyDoc) /\ (o = "search" => k # 0)
    BY <1>3, Calling
  <2>2. /\ known' = [known EXCEPT ![c] = known'[c]] /\ kept' = [kept EXCEPT ![c] = kept'[c]]
        /\ known'[c] = points /\ kept'[c] = points /\ points \subseteq Points /\ IsFiniteSet(points)
    BY <1>1, <1>3, PointsAreFinite DEF Types, StoreInv
  <2>3. o \in {"ingest", "delete", "list", "search"}
    OBVIOUS
  <2> QED
    BY <1>1, <2>1, <2>2, <2>3, EnterKeeps
<1> QED
  BY <1>2, <1>3 DEF Ask

LEMMA UpsertKeeps ==
  ASSUME Types, StoreInv, NEW c \in Callers, Upsert(c)
  PROVE  Types' /\ StoreInv'
<1>1. CallFits(c) /\ op[c] = "ingest" /\ at[c] = "working"
  BY DEF StoreInv, Upsert
<1> DEFINE new(ids) == {[id |-> i, doc |-> doc[c]] : i \in ids}
<1>2. PICK ids \in SUBSET unused :
        /\ points' = points \union new(ids)
        /\ unused' = unused \ ids
        /\ known' = [d \in Callers |-> IF op[d] \in {"list", "search"} /\ at[d] \notin Ended
                                            THEN known[d] \union new(ids) ELSE known[d]]
  BY DEF Upsert
<1>3. new(ids) \subseteq Points /\ \A p \in new(ids) : p.id \in ids
  BY <1>1, <1>2 DEF Types, Points, CallFits, ReadingFits
<1> HIDE DEF new
<1>4. /\ at' = [at EXCEPT ![c] = "done"]
      /\ UNCHANGED <<created, op, doc, want, cursor, found, scanned, kept>>
  BY DEF Upsert
<1>5. Types'
  <2>1. known' \in [Callers -> SUBSET Points]
    BY <1>2, <1>3 DEF Types
  <2>2. at' \in [Callers -> Awaits]
    BY <1>4 DEF Types, Awaits, Ended
  <2> QED
    BY <1>2, <1>3, <1>4, <2>1, <2>2 DEF Types
<1>6. PointsFit'
  <2>1. PointsFit
    BY DEF StoreInv
  <2>2. ASSUME NEW p \in points', NEW q \in points', p.id = q.id PROVE p = q
    <3>1. CASE p \in points /\ q \in points
      BY <2>1, <2>2, <3>1 DEF PointsFit, OneEach
    <3>2. CASE p \in new(ids) /\ q \in new(ids)
      BY <1>2, <2>2, <3>2 DEF new
    <3>3. CASE \/ p \in points /\ q \in new(ids)
               \/ p \in new(ids) /\ q \in points
      BY <1>2, <1>3, <2>1, <2>2, <3>3 DEF PointsFit
    <3> QED
      BY <1>2, <3>1, <3>2, <3>3
  <2>3. \A p \in points' : p.id \notin unused'
    BY <1>2, <1>3, <2>1 DEF PointsFit
  <2> QED
    BY <2>2, <2>3 DEF PointsFit, OneEach
<1>7. ASSUME NEW d \in Callers PROVE CallFits(d)'
  <2>1. CallFits(d)
    BY DEF StoreInv
  <2>2. CASE d = c
    <3>1. at'[c] = "done" /\ op'[c] = "ingest" /\ known'[c] = known[c]
      BY <1>1, <1>2, <1>4 DEF Types
    <3> QED
      BY <1>1, <1>4, <2>1, <2>2, <3>1 DEF CallFits, ReadingFits, ListingFits, SearchFits, Looking, About, Ended
  <2>3. CASE d # c
    <3>1. at'[d] = at[d]
      BY <1>4, <2>3 DEF Types
    <3>2. known'[d] = IF Looking(d) THEN known[d] \union new(ids) ELSE known[d]
      BY <1>2 DEF Looking
    <3>3. known[d] \subseteq known'[d] /\ (Looking(d) => points' \subseteq known'[d] /\ kept'[d] \subseteq points')
      BY <1>2, <1>4, <2>1, <3>2 DEF CallFits, ReadingFits
    <3>4. PointsFit
      BY DEF StoreInv
    <3> QED
      BY <1>4, <2>1, <3>1, <3>3, <3>4, CallStays
  <2> QED
    BY <2>2, <2>3
<1> QED
  BY <1>5, <1>6, <1>7 DEF StoreInv

LEMMA EraseKeeps ==
  ASSUME Types, StoreInv, NEW c \in Callers, Erase(c)
  PROVE  Types' /\ StoreInv'
<1>1. CallFits(c) /\ op[c] = "delete" /\ at[c] = "working" /\ PointsFit
  BY DEF StoreInv, Erase
<1>2. /\ points' = points \ Matching(c)
      /\ kept' = [d \in Callers |-> IF at[d] \in Ended THEN kept[d] ELSE kept[d] \ Matching(c)]
      /\ at' = [at EXCEPT ![c] = "done"]
      /\ UNCHANGED <<created, unused, op, doc, want, cursor, found, scanned, known>>
  BY DEF Erase
<1>3. Types'
  BY <1>2 DEF Types, Awaits, Ended
<1>4. PointsFit'
  BY <1>1, <1>2 DEF PointsFit, OneEach
<1>5. ASSUME NEW d \in Callers PROVE CallFits(d)'
  <2>1. CallFits(d)
    BY DEF StoreInv
  <2>2. CASE d = c
    <3>0. kept'[c] \subseteq kept[c] /\ IsFiniteSet(kept[c])
      BY <1>1, <1>2 DEF CallFits, ReadingFits
    <3>1. at'[c] = "done" /\ op'[c] = "delete" /\ IsFiniteSet(kept'[c])
      BY <1>1, <1>2, <3>0, Smaller DEF Types, CallFits, ReadingFits
    <3> QED
      BY <1>1, <1>2, <2>1, <2>2, <3>1 DEF CallFits, ReadingFits, ListingFits, SearchFits, Looking, About, Ended
  <2>3. CASE d # c
    <3>1. at'[d] = at[d]
      BY <1>2, <2>3 DEF Types
    <3>2. kept'[d] = IF at[d] \in Ended THEN kept[d] ELSE kept[d] \ Matching(c)
      BY <1>2
    <3>3. /\ kept'[d] \subseteq kept[d]
          /\ Looking(d) => points' \subseteq known'[d] /\ kept'[d] \subseteq points'
          /\ at[d] \in Ended => kept'[d] = kept[d]
      BY <1>2, <2>1, <3>2 DEF CallFits, ReadingFits, Looking
    <3> QED
      BY <1>1, <1>2, <2>1, <3>1, <3>3, CallStays
  <2> QED
    BY <2>2, <2>3
<1> QED
  BY <1>3, <1>4, <1>5 DEF StoreInv

\* What a page adds was there.
LEMMA PageIsThere ==
  ASSUME Types, StoreInv, NEW c \in Callers, NEW S, S \subseteq Matching(c), op[c] \in {"list", "search"}, at[c] \notin Ended
  PROVE  /\ S \subseteq points /\ S \subseteq Points /\ S \subseteq About(c, known[c]) /\ IsFiniteSet(S)
         /\ About(c, kept[c]) \subseteq Matching(c) /\ kept[c] \subseteq points
<1>1. CallFits(c) /\ PointsFit
  BY DEF StoreInv
<1>2. points \subseteq known[c] /\ kept[c] \subseteq points
  BY <1>1 DEF CallFits, ReadingFits, Looking
<1>3. S \subseteq points
  BY DEF Matching
<1> QED
  BY <1>1, <1>2, <1>3, PointsAreFinite DEF Matching, About, Types

LEMMA ListPageKeeps ==
  ASSUME Types, StoreInv, NEW c \in Callers, ListPage(c)
  PROVE  Types' /\ StoreInv'
<1> DEFINE page == Page(c, PageSize)
<1>1. /\ op[c] = "list" /\ at[c] = "working"
      /\ found' = [found EXCEPT ![c] = found[c] \union page]
      /\ \/ page = From(c) /\ at' = [at EXCEPT ![c] = "done"] /\ UNCHANGED cursor
         \/ page # From(c) /\ cursor' = [cursor EXCEPT ![c] = Offset(c, page)] /\ UNCHANGED at
      /\ UNCHANGED <<created, points, unused, op, doc, want, scanned, known, kept>>
  BY DEF ListPage
<1>2. CallFits(c) /\ PointsFit /\ PageSize \in Nat
  BY Limits DEF StoreInv
<1>3. page \subseteq From(c) /\ From(c) \subseteq Matching(c) /\ Matching(c) \subseteq points
  BY <1>2, PageFits
<1>4. /\ page \subseteq Points /\ page \subseteq About(c, known[c]) /\ IsFiniteSet(page)
      /\ kept[c] \subseteq points
  BY <1>1, <1>3, PageIsThere DEF Ended
<1>5. page # From(c) => /\ Offset(c, page) \in 1 .. MaxId
                        /\ \A p \in Matching(c) : p.id < Offset(c, page) => p.id < cursor[c] \/ p \in page
  BY <1>2, <1>3, NextOffset
<1>6. points \subseteq Matching(c)
  BY <1>1, <1>2 DEF Matching, CallFits, ListingFits
<1>7. \A p \in points : p \in From(c) \/ p.id < cursor[c]
  BY <1>6 DEF From, Types, Points
<1>8. \A p \in kept[c] : p.id < cursor[c] => p \in found[c]
  BY <1>1, <1>2 DEF CallFits, ListingFits, Ended
<1> HIDE DEF page
<1>9. Types'
  BY <1>1, <1>4, <1>5 DEF Types, Awaits, Ended
<1>10. /\ found'[c] = found[c] \union page
       /\ at'[c] \in {"working", "done"}
       /\ at'[c] = "done" => page = From(c)
       /\ at'[c] = "working" => page # From(c) /\ cursor'[c] = Offset(c, page)
  BY <1>1 DEF Types
<1>11. CallFits(c)'
  <2>0. IsFiniteSet(found[c]) /\ IsFiniteSet(page)
    BY <1>2, <1>4 DEF CallFits, ReadingFits
  <2>1. IsFiniteSet(found'[c])
    BY <1>10, <2>0, FS_Union
  <2>2. ReadingFits(c)'
    BY <1>1, <1>2, <1>4, <1>10, <2>1 DEF CallFits, ReadingFits, Looking, About, Ended
  <2>3. at'[c] = "done" => kept'[c] \subseteq found'[c]
    BY <1>1, <1>4, <1>7, <1>8, <1>10
  <2>4. at'[c] = "working" => \A p \in kept'[c] : p.id < cursor'[c] => p \in found'[c]
    <3> SUFFICES ASSUME at'[c] = "working", NEW p \in kept[c], p.id < Offset(c, page)
                 PROVE  p \in found'[c]
      BY <1>1, <1>10
    <3>1. p \in Matching(c)
      BY <1>4, <1>6
    <3> QED
      BY <1>5, <1>8, <1>10, <3>1
  <2>5. ListingFits(c)'
    BY <1>1, <1>2, <1>10, <2>3, <2>4 DEF CallFits, ListingFits, Ended
  <2> QED
    BY <1>1, <2>2, <2>5 DEF CallFits, SearchFits
<1>12. \A d \in Callers \ {c} : Aside(d)
  BY <1>1 DEF Aside, Types
<1> QED
  BY <1>1, <1>9, <1>11, <1>12, OneCall

LEMMA SearchDenseKeeps ==
  ASSUME Types, StoreInv, NEW c \in Callers, SearchDense(c)
  PROVE  Types' /\ StoreInv'
<1>1. PICK near \in Limited(Matching(c), CandidateLimit(c)) : found' = [found EXCEPT ![c] = near]
  BY DEF SearchDense
<1>2. /\ op[c] = "search" /\ at[c] = "working"
      /\ at' = [at EXCEPT ![c] = "scrolling"]
      /\ UNCHANGED <<created, points, unused, op, doc, want, cursor, scanned, known, kept>>
  BY DEF SearchDense
<1>3. CallFits(c) /\ PointsFit
  BY DEF StoreInv
<1>4. CandidateLimit(c) \in Nat /\ CandidateLimit(c) >= Hybrid /\ Hybrid \in Nat
  BY Limits DEF CandidateLimit, Types
<1>5. /\ IsFiniteSet(Matching(c)) /\ About(c, kept[c]) \subseteq Matching(c)
  BY <1>2, PageIsThere DEF Ended
<1>6. /\ near \subseteq Matching(c) /\ Cardinality(near) \in Nat /\ Cardinality(Matching(c)) \in Nat
      /\ Cardinality(near) = CandidateLimit(c) \/ Cardinality(near) = Cardinality(Matching(c))
  BY <1>4, <1>5, LimitedTo
<1>7. near \subseteq Points /\ near \subseteq About(c, known[c]) /\ IsFiniteSet(near)
  BY <1>2, <1>6, PageIsThere DEF Ended
<1>8. Cardinality(About(c, kept[c])) \in Nat /\ Cardinality(About(c, kept[c])) <= Cardinality(Matching(c))
  BY <1>5, Smaller
<1>9. \/ Cardinality(near) >= Hybrid
      \/ Cardinality(near) >= Cardinality(About(c, kept[c]))
  BY <1>4, <1>6, <1>8
<1>10. Types'
  BY <1>1, <1>2, <1>7 DEF Types, Awaits
<1>11. found'[c] = near /\ at'[c] = "scrolling"
  BY <1>1, <1>2 DEF Types
<1>12. CallFits(c)'
  <2>1. ReadingFits(c)'
    BY <1>2, <1>3, <1>7, <1>11 DEF CallFits, ReadingFits, Looking, About, Ended
  <2>2. SearchFits(c)'
    BY <1>2, <1>3, <1>9, <1>11 DEF CallFits, SearchFits, About
  <2> QED
    BY <1>2, <2>1, <2>2 DEF CallFits, ListingFits
<1>13. \A d \in Callers \ {c} : Aside(d)
  BY <1>1, <1>2 DEF Aside, Types
<1> QED
  BY <1>2, <1>10, <1>12, <1>13, OneCall

LEMMA SearchPageKeeps ==
  ASSUME Types, StoreInv, NEW c \in Callers, SearchPage(c)
  PROVE  Types' /\ StoreInv'
<1> DEFINE room == ScanLimit - Cardinality(scanned[c])
           size == IF PageSize < room THEN PageSize ELSE room
           page == Page(c, size)
<1>1. /\ at[c] = "scrolling"
      /\ scanned' = [scanned EXCEPT ![c] = scanned[c] \union page]
      /\ \/ at' = [at EXCEPT ![c] = "ranking"] /\ UNCHANGED cursor
         \/ page # From(c) /\ cursor' = [cursor EXCEPT ![c] = Offset(c, page)] /\ UNCHANGED at
      /\ UNCHANGED <<created, points, unused, op, doc, want, found, known, kept>>
  BY DEF SearchPage
<1>2. CallFits(c) /\ PointsFit
  BY DEF StoreInv
<1>3. op[c] = "search" /\ IsFiniteSet(scanned[c]) /\ Cardinality(scanned[c]) <= ScanLimit
  BY <1>1, <1>2 DEF CallFits, ReadingFits
<1>4. Cardinality(scanned[c]) \in Nat
  BY <1>3, FS_CardinalityType
<1>5. size \in Nat /\ Cardinality(scanned[c]) + size <= ScanLimit /\ ScanLimit \in Nat
  BY <1>3, <1>4, Limits
<1> HIDE DEF size
<1>6. /\ page \subseteq From(c) /\ page \subseteq Matching(c)
      /\ Cardinality(page) \in Nat /\ Cardinality(page) <= size
  BY <1>2, <1>5, PageFits
<1>7. page \subseteq Points /\ page \subseteq About(c, known[c]) /\ IsFiniteSet(page)
  BY <1>1, <1>3, <1>6, PageIsThere DEF Ended
<1>8. page # From(c) => Offset(c, page) \in 1 .. MaxId
  BY <1>2, <1>6, NextOffset
<1> HIDE DEF page
<1>9. IsFiniteSet(scanned[c] \union page) /\ Cardinality(scanned[c] \union page) <= ScanLimit
  <2>1. /\ IsFiniteSet(scanned[c] \union page) /\ IsFiniteSet(scanned[c] \cap page)
        /\ Cardinality(scanned[c] \union page) = Cardinality(scanned[c]) + Cardinality(page) - Cardinality(scanned[c] \cap page)
    BY <1>3, <1>7, FS_Union, FS_Intersection
  <2>2. Cardinality(scanned[c] \cap page) \in Nat
    BY <2>1, FS_CardinalityType
  <2> QED
    BY <1>4, <1>5, <1>6, <2>1, <2>2
<1>10. Types'
  BY <1>1, <1>7, <1>8 DEF Types, Awaits
<1>11. scanned'[c] = scanned[c] \union page /\ at'[c] \in {"scrolling", "ranking"}
  BY <1>1 DEF Types
<1>12. CallFits(c)'
  <2>1. ReadingFits(c)'
    BY <1>1, <1>2, <1>3, <1>7, <1>9, <1>11 DEF CallFits, ReadingFits, Looking, About, Ended
  <2>2. SearchFits(c)'
    BY <1>1, <1>2, <1>3, <1>11 DEF CallFits, SearchFits, About
  <2> QED
    BY <1>1, <1>3, <2>1, <2>2 DEF CallFits, ListingFits
<1>13. \A d \in Callers \ {c} : Aside(d)
  BY <1>1 DEF Aside, Types
<1> QED
  BY <1>1, <1>10, <1>12, <1>13, OneCall

\* Of two reads and two selections something is left, if something was there all the time.
LEMMA RankFinds ==
  ASSUME Types, StoreInv, NEW c \in Callers, SearchRank(c)
  PROVE  found'[c] # {} \/ About(c, kept[c])' = {}
<1>a. PICK lexical \in SUBSET scanned[c] :
        \E reranked \in Limited(found[c] \union lexical, RerankLimit) :
        \E best \in Limited(reranked, want[c]) : found' = [found EXCEPT ![c] = best]
  BY DEF SearchRank
<1>b. PICK reranked \in Limited(found[c] \union lexical, RerankLimit) :
        \E best \in Limited(reranked, want[c]) : found' = [found EXCEPT ![c] = best]
  BY <1>a
<1>1. PICK best \in Limited(reranked, want[c]) : found' = [found EXCEPT ![c] = best]
  BY <1>b
<1>2. CallFits(c) /\ at[c] = "ranking" /\ op[c] = "search" /\ want[c] \in Nat
  BY Limits DEF StoreInv, CallFits, ReadingFits, SearchRank, Types
<1>3. /\ want[c] # 0 /\ IsFiniteSet(found[c]) /\ IsFiniteSet(scanned[c]) /\ IsFiniteSet(kept[c])
      /\ \/ Cardinality(found[c]) >= Hybrid
         \/ Cardinality(found[c]) >= Cardinality(About(c, kept[c]))
  BY <1>2 DEF CallFits, ReadingFits, SearchFits
<1>4. SUFFICES ASSUME About(c, kept[c]) # {} PROVE best # {}
  BY <1>1 DEF SearchRank, About, Types
<1>5. IsFiniteSet(About(c, kept[c]))
  BY <1>3, Smaller DEF About
<1>6. Cardinality(About(c, kept[c])) \in Nat \ {0} /\ Cardinality({}) = 0
  BY <1>4, <1>5, FS_EmptySet, FS_CardinalityType
<1>7. found[c] # {}
  BY <1>3, <1>6, Limits
<1>8. IsFiniteSet(found[c] \union lexical) /\ found[c] \union lexical # {}
  BY <1>3, <1>7, FS_Subset, FS_Union
<1>9. IsFiniteSet(reranked) /\ reranked # {}
  BY <1>6, <1>8, LimitedTo, FS_EmptySet, Limits
<1> QED
  BY <1>2, <1>3, <1>6, <1>9, LimitedTo, FS_EmptySet

LEMMA SearchRankKeeps ==
  ASSUME Types, StoreInv, NEW c \in Callers, SearchRank(c)
  PROVE  Types' /\ StoreInv'
<1>0. PICK lexical \in SUBSET scanned[c] :
        \E reranked \in Limited(found[c] \union lexical, RerankLimit) :
        \E best \in Limited(reranked, want[c]) : found' = [found EXCEPT ![c] = best]
  BY DEF SearchRank
<1>a. PICK reranked \in Limited(found[c] \union lexical, RerankLimit) :
        \E best \in Limited(reranked, want[c]) : found' = [found EXCEPT ![c] = best]
  BY <1>0
<1>1. PICK best \in Limited(reranked, want[c]) : found' = [found EXCEPT ![c] = best]
  BY <1>a
<1>2. /\ at[c] = "ranking" /\ at' = [at EXCEPT ![c] = "done"]
      /\ scanned' = [scanned EXCEPT ![c] = {}]
      /\ UNCHANGED <<created, points, unused, op, doc, want, cursor, known, kept>>
  BY DEF SearchRank
<1>3. CallFits(c)
  BY DEF StoreInv
<1>4. /\ op[c] = "search" /\ IsFiniteSet(found[c]) /\ IsFiniteSet(scanned[c])
      /\ found[c] \union scanned[c] \subseteq About(c, known[c])
  BY <1>2, <1>3 DEF CallFits, ReadingFits
<1>5. want[c] \in Nat /\ RerankLimit \in Nat /\ Hybrid \in Nat /\ RerankLimit <= Hybrid
  BY Limits DEF Types
<1>6. /\ IsFiniteSet(found[c] \union lexical)
      /\ Cardinality(found[c]) \in Nat /\ Cardinality(found[c] \union lexical) \in Nat
      /\ Cardinality(found[c]) <= Cardinality(found[c] \union lexical)
  <2>1. IsFiniteSet(lexical)
    BY <1>4, Smaller
  <2>2. IsFiniteSet(found[c] \union lexical)
    BY <1>4, <2>1, FS_Union
  <2> QED
    BY <2>2, Smaller
<1>7. /\ reranked \subseteq found[c] \union lexical /\ IsFiniteSet(reranked) /\ Cardinality(reranked) \in Nat
      /\ \/ Cardinality(reranked) = RerankLimit
         \/ Cardinality(reranked) = Cardinality(found[c] \union lexical)
  BY <1>5, <1>6, LimitedTo
<1>8. /\ best \subseteq reranked /\ IsFiniteSet(best) /\ Cardinality(best) \in Nat /\ Cardinality(best) <= want[c]
      /\ Cardinality(best) = want[c] \/ Cardinality(best) = Cardinality(reranked)
  BY <1>5, <1>7, LimitedTo
<1>9. best \subseteq About(c, known[c]) /\ best \subseteq Points
  BY <1>4, <1>7, <1>8 DEF About, Types
<1>10. \/ Cardinality(best) >= want[c]
       \/ Cardinality(best) >= RerankLimit
       \/ Cardinality(best) >= Cardinality(About(c, kept[c]))
  <2>1. \/ Cardinality(found[c]) >= Hybrid
        \/ Cardinality(found[c]) >= Cardinality(About(c, kept[c]))
    BY <1>2, <1>3, <1>4 DEF CallFits, SearchFits
  <2>2. CASE Cardinality(found[c]) >= Hybrid
    BY <1>5, <1>6, <1>7, <1>8, <2>2
  <2>3. CASE Cardinality(found[c]) >= Cardinality(About(c, kept[c]))
    <3>1. c \in Callers => Looking(c)
      BY <1>2, <1>4 DEF Looking, Ended
    <3>2. IsFiniteSet(About(c, kept[c]))
      BY <3>1, <1>2, <1>4, PageIsThere, Smaller, PointsAreFinite DEF Ended, About, StoreInv
    <3>3. Cardinality(About(c, kept[c])) \in Nat
      BY <3>2, FS_CardinalityType
    <3> QED
      BY <1>5, <1>6, <1>7, <1>8, <2>3, <3>3
  <2> QED
    BY <2>1, <2>2, <2>3
<1>11. Types'
  BY <1>1, <1>2, <1>9 DEF Types, Awaits, Ended
<1>12. found'[c] = best /\ scanned'[c] = {} /\ at'[c] = "done"
  BY <1>1, <1>2 DEF Types
<1>13. CallFits(c)'
  <2>1. IsFiniteSet({}) /\ Cardinality({}) = 0 /\ 0 <= ScanLimit
    BY FS_EmptySet, Limits
  <2>2. ReadingFits(c)'
    BY <1>2, <1>3, <1>4, <1>8, <1>9, <1>12, <2>1 DEF CallFits, ReadingFits, Looking, About, Ended
  <2>3. SearchFits(c)'
    BY <1>2, <1>3, <1>8, <1>10, <1>12 DEF CallFits, SearchFits, About
  <2> QED
    BY <1>2, <1>4, <2>2, <2>3 DEF CallFits, ListingFits
<1>14. \A d \in Callers \ {c} : Aside(d)
  BY <1>1, <1>2 DEF Aside, Types
<1> QED
  BY <1>2, <1>11, <1>13, <1>14, OneCall

LEMMA StoreStepKeeps ==
  ASSUME Types, StoreInv, NEW c \in Callers, StoreStep(c)
  PROVE  Types' /\ StoreInv'
BY LookKeeps, UpsertKeeps, EraseKeeps, ListPageKeeps, SearchDenseKeeps, SearchPageKeeps, SearchRankKeeps DEF StoreStep

------------------------------------------------------------------------------
(***************************************************************************)
(* The stages of a run.                                                    *)
(***************************************************************************)
LEMMA GraphStages ==
  ASSUME NEW n
  PROVE  LET whole == Pipeline("graph", n) IN
         /\ whole \in Seq(StageNames) /\ Len(whole) = 6
         /\ whole[1] = "retrieve" /\ whole[2] = "planner" /\ whole[3] = "execution"
         /\ whole[4] = "review" /\ whole[5] = "verifier" /\ whole[6] = "writer"
<1> DEFINE stages == <<"retrieve", "planner", "execution", "review", "verifier", "writer">>
<1>1. Pipeline("graph", n) = stages
  BY DEF Pipeline
<1>2. stages \in Seq(StageNames)
  BY DEF StageNames
<1>3. Len(stages) = 6
  OBVIOUS
<1>4. /\ stages[1] = "retrieve" /\ stages[2] = "planner" /\ stages[3] = "execution"
      /\ stages[4] = "review" /\ stages[5] = "verifier" /\ stages[6] = "writer"
  OBVIOUS
<1> HIDE DEF stages
<1> QED
  BY <1>1, <1>2, <1>3, <1>4

LEMMA AdaptiveStages ==
  ASSUME NEW n
  PROVE  LET whole == Pipeline("adaptive", n) IN
         /\ whole \in Seq(StageNames) /\ Len(whole) = 7
         /\ whole[1] = "intake" /\ whole[2] = "retrieve" /\ whole[3] = "candidate" /\ whole[4] = "candidate"
         /\ whole[5] = "candidate" /\ whole[6] = "verifier" /\ whole[7] = "writer"
<1> DEFINE stages == <<"intake", "retrieve", "candidate", "candidate", "candidate", "verifier", "writer">>
<1>1. Pipeline("adaptive", n) = stages
  BY DEF Pipeline
<1>2. stages \in Seq(StageNames)
  BY DEF StageNames
<1>3. Len(stages) = 7
  OBVIOUS
<1>4. /\ stages[1] = "intake" /\ stages[2] = "retrieve" /\ stages[3] = "candidate"
      /\ stages[4] = "candidate" /\ stages[5] = "candidate" /\ stages[6] = "verifier"
      /\ stages[7] = "writer"
  OBVIOUS
<1> HIDE DEF stages
<1> QED
  BY <1>1, <1>2, <1>3, <1>4

LEMMA ExpertStages ==
  ASSUME NEW n \in Nat
  PROVE  LET whole == Pipeline("mixture_of_experts", n) IN
         /\ whole \in Seq(StageNames) /\ Len(whole) = n + 3
         /\ whole[1] = "retrieve" /\ \A x \in 2 .. n + 1 : whole[x] = "expert"
         /\ whole[n + 2] = "verifier" /\ whole[n + 3] = "writer"
<1> DEFINE first == <<"retrieve">>
           experts == [i \in 1 .. n |-> "expert"]
           last == <<"verifier", "writer">>
<1>1. Pipeline("mixture_of_experts", n) = (first \o experts) \o last
  BY DEF Pipeline
<1>2. first \in Seq(StageNames) /\ Len(first) = 1 /\ first[1] = "retrieve"
  BY DEF StageNames
<1>3. experts \in Seq(StageNames) /\ Len(experts) = n /\ \A x \in 1 .. n : experts[x] = "expert"
  <2>1. experts \in [1 .. n -> StageNames]
    BY DEF StageNames
  <2> QED
    BY <2>1
<1>4. last \in Seq(StageNames) /\ Len(last) = 2 /\ last[1] = "verifier" /\ last[2] = "writer"
  BY DEF StageNames
<1> HIDE DEF first, experts, last
<1>5. /\ first \o experts \in Seq(StageNames) /\ Len(first \o experts) = n + 1
      /\ \A x \in 1 .. n + 1 : (first \o experts)[x] = IF x <= 1 THEN first[x] ELSE experts[x - 1]
  <2>1. /\ first \o experts \in Seq(StageNames) /\ Len(first \o experts) = Len(first) + Len(experts)
        /\ \A x \in 1 .. Len(first) + Len(experts) :
             (first \o experts)[x] = IF x <= Len(first) THEN first[x] ELSE experts[x - Len(first)]
    BY <1>2, <1>3, ConcatProperties
  <2>2. Len(first) + Len(experts) = n + 1
    BY <1>2, <1>3
  <2> QED
    BY <1>2, <2>1, <2>2
<1>6. /\ (first \o experts) \o last \in Seq(StageNames) /\ Len((first \o experts) \o last) = n + 3
      /\ \A x \in 1 .. n + 3 : ((first \o experts) \o last)[x]
                                   = IF x <= n + 1 THEN (first \o experts)[x] ELSE last[x - (n + 1)]
  <2> DEFINE front == first \o experts
  <2>1. front \in Seq(StageNames) /\ Len(front) = n + 1
    BY <1>5
  <2> HIDE DEF front
  <2>2. /\ front \o last \in Seq(StageNames) /\ Len(front \o last) = Len(front) + Len(last)
        /\ \A x \in 1 .. Len(front) + Len(last) :
             (front \o last)[x] = IF x <= Len(front) THEN front[x] ELSE last[x - Len(front)]
    BY <1>4, <2>1, ConcatProperties
  <2>3. Len(front) + Len(last) = n + 3
    BY <1>4, <2>1
  <2> QED
    BY <2>1, <2>2, <2>3 DEF front
<1>7. ((first \o experts) \o last)[1] = "retrieve"
  BY <1>2, <1>5, <1>6
<1>8. \A x \in 2 .. n + 1 : ((first \o experts) \o last)[x] = "expert"
  BY <1>3, <1>5, <1>6
<1>9. ((first \o experts) \o last)[n + 2] = "verifier" /\ ((first \o experts) \o last)[n + 3] = "writer"
  <2>1. n + 2 \in 1 .. n + 3 /\ n + 3 \in 1 .. n + 3 /\ ~(n + 2 <= n + 1) /\ ~(n + 3 <= n + 1)
        /\ (n + 2) - (n + 1) = 1 /\ (n + 3) - (n + 1) = 2
    OBVIOUS
  <2> QED
    BY <1>4, <1>6, <2>1
<1> QED
  BY <1>1, <1>6, <1>7, <1>8, <1>9

\* In every mode: where the retrieval, the experts, the verifier and the writer are.
LEMMA AllStages ==
  ASSUME NEW m \in Modes, NEW n \in 1 .. MaxExperts
  PROVE  LET whole == Pipeline(m, n) IN
         /\ whole \in Seq(StageNames) /\ Len(whole) \in 4 .. 7
         /\ Turn(m) \in 1 .. 2 /\ DOMAIN whole = 1 .. Len(whole)
         /\ \A x \in 1 .. Len(whole) : whole[x] = "retrieve" <=> x = Turn(m)
         /\ \A x \in 1 .. Len(whole) : whole[x] = "writer" <=> x = Len(whole)
         /\ \A x \in 1 .. Len(whole) : whole[x] = "verifier" => x > Turn(m)
         /\ \A x \in 1 .. Len(whole) : whole[x] = "expert" => m = "mixture_of_experts" /\ x \in 2 .. n + 1
<1>1. n \in Nat /\ n >= 1 /\ n <= 4
  BY AgentAssumption
<1>2. CASE m = "graph"
  <2>1. /\ Pipeline(m, n) \in Seq(StageNames) /\ Len(Pipeline(m, n)) = 6 /\ Turn(m) = 1
        /\ Pipeline(m, n)[1] = "retrieve" /\ Pipeline(m, n)[2] = "planner" /\ Pipeline(m, n)[3] = "execution"
        /\ Pipeline(m, n)[4] = "review" /\ Pipeline(m, n)[5] = "verifier" /\ Pipeline(m, n)[6] = "writer"
    BY <1>2, GraphStages DEF Turn
  <2>2. \A x \in 1 .. 6 : x = 1 \/ x = 2 \/ x = 3 \/ x = 4 \/ x = 5 \/ x = 6
    OBVIOUS
  <2> QED
    BY <1>1, <2>1, <2>2, LenProperties
<1>3. CASE m = "adaptive"
  <2>1. /\ Pipeline(m, n) \in Seq(StageNames) /\ Len(Pipeline(m, n)) = 7 /\ Turn(m) = 2
        /\ Pipeline(m, n)[1] = "intake" /\ Pipeline(m, n)[2] = "retrieve" /\ Pipeline(m, n)[3] = "candidate"
        /\ Pipeline(m, n)[4] = "candidate" /\ Pipeline(m, n)[5] = "candidate"
        /\ Pipeline(m, n)[6] = "verifier" /\ Pipeline(m, n)[7] = "writer"
    BY <1>3, AdaptiveStages DEF Turn
  <2>2. \A x \in 1 .. 7 : x = 1 \/ x = 2 \/ x = 3 \/ x = 4 \/ x = 5 \/ x = 6 \/ x = 7
    OBVIOUS
  <2> QED
    BY <1>1, <2>1, <2>2, LenProperties
<1>4. CASE m = "mixture_of_experts"
  <2>1. /\ Pipeline(m, n) \in Seq(StageNames) /\ Len(Pipeline(m, n)) = n + 3 /\ Turn(m) = 1
        /\ Pipeline(m, n)[1] = "retrieve" /\ \A x \in 2 .. n + 1 : Pipeline(m, n)[x] = "expert"
        /\ Pipeline(m, n)[n + 2] = "verifier" /\ Pipeline(m, n)[n + 3] = "writer"
    BY <1>1, <1>4, ExpertStages DEF Turn
  <2> DEFINE whole == Pipeline(m, n)
  <2>2. \A x \in 1 .. n + 3 : x = 1 \/ x \in 2 .. n + 1 \/ x = n + 2 \/ x = n + 3
    BY <1>1
  <2>3. ASSUME NEW x \in 1 .. n + 3
        PROVE  \/ x = 1 /\ whole[x] = "retrieve"
               \/ x \in 2 .. n + 1 /\ whole[x] = "expert"
               \/ x = n + 2 /\ whole[x] = "verifier"
               \/ x = n + 3 /\ whole[x] = "writer"
    <3>1. CASE x \in 2 .. n + 1
      BY <2>1, <3>1
    <3>2. CASE x = 1 \/ x = n + 2 \/ x = n + 3
      BY <2>1, <3>2
    <3> QED
      BY <2>2, <3>1, <3>2
  <2>a. whole \in Seq(StageNames) /\ Len(whole) = n + 3 /\ Turn(m) = 1
    BY <2>1
  <2> HIDE DEF whole
  <2>4. DOMAIN whole = 1 .. Len(whole) /\ Len(whole) \in 4 .. 7
    BY <1>1, <2>a, LenProperties
  <2>5. \A x \in 1 .. n + 3 : /\ whole[x] = "retrieve" <=> x = 1
                              /\ whole[x] = "writer" <=> x = n + 3
                              /\ whole[x] = "verifier" => x > 1
                              /\ whole[x] = "expert" => x \in 2 .. n + 1
    <3> TAKE x \in 1 .. n + 3
    <3> QED
      BY <1>1, <2>3
  <2> QED
    BY <1>4, <2>a, <2>4, <2>5 DEF whole
<1> QED
  BY <1>2, <1>3, <1>4 DEF Modes

\* Where a run is in its pipeline, by how it may go on.
LEMMA Starts ==
  ASSUME NEW m \in Modes, NEW n \in 1 .. MaxExperts
  PROVE  Pipeline(m, n) \in Seq(StageNames) /\ Progress(m, n, 1, Pipeline(m, n), <<>>)
<1> DEFINE whole == Pipeline(m, n)
<1>1. whole \in Seq(StageNames) /\ Len(whole) \in 4 .. 7 /\ Turn(m) \in 1 .. 2
  BY AllStages
<1>2. Len(<<>>) = 0
  BY EmptySeq
<1>l. PICK L \in 4 .. 7 : Len(whole) = L
  BY <1>1
<1>t. PICK T \in 1 .. 2 : Turn(m) = T
  BY <1>1
<1> HIDE DEF whole
<1>3. /\ 1 \in 1 .. Len(whole)
      /\ Len(whole) = Len(whole) - 1 + 1
      /\ \A x \in 1 .. Len(whole) : whole[x] = whole[1 - 1 + x]
      /\ ~(1 > Turn(m))
  BY <1>1, <1>l, <1>t
<1> QED
  BY <1>1, <1>2, <1>3 DEF Progress, whole

LEMMA NowAt ==
  ASSUME NEW m \in Modes, NEW n \in 1 .. MaxExperts, NEW i \in 1 .. 7,
         NEW ahead \in Seq(StageNames), NEW behind \in Seq(StageNames), Progress(m, n, i, ahead, behind)
  PROVE  /\ i \in 1 .. Len(Pipeline(m, n)) /\ ahead # <<>> /\ Head(ahead) = Pipeline(m, n)[i]
         /\ Head(ahead) = "retrieve" <=> i = Turn(m)
         /\ Head(ahead) = "writer" <=> i = Len(Pipeline(m, n))
         /\ Head(ahead) = "verifier" => i > Turn(m)
         /\ Head(ahead) = "expert" => m = "mixture_of_experts" /\ i \in 2 .. n + 1
         /\ Head(ahead) \in StageNames
         /\ Tail(ahead) \in Seq(StageNames) /\ Append(behind, Head(ahead)) \in Seq(StageNames)
         /\ Len(ahead) + Len(behind) <= 7
<1> DEFINE whole == Pipeline(m, n)
<1>1. /\ whole \in Seq(StageNames) /\ Len(whole) \in 4 .. 7 /\ Turn(m) \in 1 .. 2
      /\ \A x \in 1 .. Len(whole) : whole[x] = "retrieve" <=> x = Turn(m)
      /\ \A x \in 1 .. Len(whole) : whole[x] = "writer" <=> x = Len(whole)
      /\ \A x \in 1 .. Len(whole) : whole[x] = "verifier" => x > Turn(m)
      /\ \A x \in 1 .. Len(whole) : whole[x] = "expert" => m = "mixture_of_experts" /\ x \in 2 .. n + 1
  BY AllStages
<1>2. /\ i \in 1 .. Len(whole)
      /\ Len(ahead) = Len(whole) - i + 1
      /\ \A x \in 1 .. Len(ahead) : ahead[x] = whole[i - 1 + x]
      /\ Len(behind) = IF i > Turn(m) THEN i - 2 ELSE i - 1
  BY DEF Progress
<1>l. PICK L \in 4 .. 7 : Len(whole) = L
  BY <1>1
<1>t. PICK T \in 1 .. 2 : Turn(m) = T
  BY <1>1
<1> HIDE DEF whole
<1>3. Len(ahead) \in Nat /\ Len(behind) \in Nat /\ Len(<<>>) = 0
  BY EmptySeq, LenProperties
<1>4. 1 \in 1 .. Len(ahead) /\ ahead # <<>>
  BY <1>2, <1>3, <1>l
<1>5. Head(ahead) = ahead[1] /\ Head(ahead) \in StageNames /\ Tail(ahead) \in Seq(StageNames)
  BY <1>4, HeadTailProperties, ElementOfSeq
<1>6. ahead[1] = whole[i]
  BY <1>1, <1>2, <1>4
<1>7. Append(behind, Head(ahead)) \in Seq(StageNames)
  BY <1>5, AppendProperties
<1>8. Len(ahead) + Len(behind) <= 7
  BY <1>2, <1>l, <1>t
<1> QED
  BY <1>1, <1>2, <1>4, <1>5, <1>6, <1>7, <1>8 DEF whole

\* The retrieval is over.
LEMMA Retrieved ==
  ASSUME NEW m \in Modes, NEW n \in 1 .. MaxExperts, NEW i \in 1 .. 7,
         NEW ahead \in Seq(StageNames), NEW behind \in Seq(StageNames), Progress(m, n, i, ahead, behind),
         i = Turn(m)
  PROVE  i + 1 \in 1 .. 7 /\ i + 1 > Turn(m) /\ Progress(m, n, i + 1, Tail(ahead), behind)
<1> DEFINE whole == Pipeline(m, n)
<1>1. whole \in Seq(StageNames) /\ Len(whole) \in 4 .. 7 /\ Turn(m) \in 1 .. 2
  BY AllStages
<1>2. /\ i \in 1 .. Len(whole)
      /\ Len(ahead) = Len(whole) - i + 1
      /\ \A x \in 1 .. Len(ahead) : ahead[x] = whole[i - 1 + x]
      /\ Len(behind) = i - 1
      /\ \A x \in 1 .. Len(behind) : behind[x] = whole[IF x < Turn(m) THEN x ELSE x + 1]
  BY <1>1 DEF Progress
<1>l. PICK L \in 4 .. 7 : Len(whole) = L
  BY <1>1
<1>t. PICK T \in 1 .. 2 : Turn(m) = T
  BY <1>1
<1> HIDE DEF whole
<1>3. Len(ahead) \in Nat /\ ahead # <<>>
  BY NowAt, LenProperties
<1>4. /\ Len(Tail(ahead)) = Len(ahead) - 1
      /\ \A x \in 1 .. Len(Tail(ahead)) : Tail(ahead)[x] = ahead[x + 1]
  BY <1>3, HeadTailProperties
<1>5. /\ i + 1 \in 1 .. Len(whole)
      /\ Len(Tail(ahead)) = Len(whole) - (i + 1) + 1
      /\ i + 1 > Turn(m) /\ Len(behind) = (i + 1) - 2 /\ i + 1 \in 1 .. 7
  BY <1>2, <1>4, <1>l, <1>t
<1>6. ASSUME NEW x \in 1 .. Len(Tail(ahead)) PROVE Tail(ahead)[x] = whole[(i + 1) - 1 + x]
  <2>1. x + 1 \in 1 .. Len(ahead) /\ i - 1 + (x + 1) = (i + 1) - 1 + x
    BY <1>2, <1>4, <1>l, <1>t
  <2> QED
    BY <1>2, <1>4, <2>1
<1> QED
  BY <1>2, <1>5, <1>6 DEF Progress, whole

\* A stage has been answered.
LEMMA Answered ==
  ASSUME NEW m \in Modes, NEW n \in 1 .. MaxExperts, NEW i \in 1 .. 7,
         NEW ahead \in Seq(StageNames), NEW behind \in Seq(StageNames), Progress(m, n, i, ahead, behind),
         i # Turn(m), i # Len(Pipeline(m, n))
  PROVE  i + 1 \in 1 .. 7 /\ Progress(m, n, i + 1, Tail(ahead), Append(behind, Head(ahead)))
<1> DEFINE whole == Pipeline(m, n)
           more == Append(behind, Head(ahead))
<1>1. whole \in Seq(StageNames) /\ Len(whole) \in 4 .. 7 /\ Turn(m) \in 1 .. 2
  BY AllStages
<1>2. /\ i \in 1 .. Len(whole)
      /\ Len(ahead) = Len(whole) - i + 1
      /\ \A x \in 1 .. Len(ahead) : ahead[x] = whole[i - 1 + x]
      /\ Len(behind) = IF i > Turn(m) THEN i - 2 ELSE i - 1
      /\ \A x \in 1 .. Len(behind) : behind[x] = whole[IF x < Turn(m) THEN x ELSE x + 1]
  BY DEF Progress
<1>3. i # Len(whole)
  OBVIOUS
<1>4. Len(ahead) \in Nat /\ ahead # <<>> /\ Head(ahead) = whole[i] /\ Head(ahead) \in StageNames
  BY NowAt, LenProperties
<1>l. PICK L \in 4 .. 7 : Len(whole) = L
  BY <1>1
<1>t. PICK T \in 1 .. 2 : Turn(m) = T
  BY <1>1
<1> HIDE DEF whole
<1>5. /\ Len(Tail(ahead)) = Len(ahead) - 1
      /\ \A x \in 1 .. Len(Tail(ahead)) : Tail(ahead)[x] = ahead[x + 1]
  BY <1>4, HeadTailProperties
<1>6. /\ Len(more) = Len(behind) + 1
      /\ \A x \in 1 .. Len(behind) : more[x] = behind[x]
      /\ more[Len(behind) + 1] = Head(ahead)
  BY <1>4, AppendProperties
<1> HIDE DEF more
<1>7. /\ i + 1 \in 1 .. Len(whole)
      /\ Len(Tail(ahead)) = Len(whole) - (i + 1) + 1
      /\ Len(more) = IF i + 1 > Turn(m) THEN (i + 1) - 2 ELSE (i + 1) - 1
      /\ i + 1 \in 1 .. 7
  BY <1>2, <1>3, <1>5, <1>6, <1>l, <1>t
<1>8. ASSUME NEW x \in 1 .. Len(Tail(ahead)) PROVE Tail(ahead)[x] = whole[(i + 1) - 1 + x]
  <2>1. x + 1 \in 1 .. Len(ahead) /\ i - 1 + (x + 1) = (i + 1) - 1 + x
    BY <1>2, <1>5, <1>l
  <2> QED
    BY <1>2, <1>5, <2>1
<1>9. ASSUME NEW x \in 1 .. Len(more) PROVE more[x] = whole[IF x < Turn(m) THEN x ELSE x + 1]
  <2>1. CASE x \in 1 .. Len(behind)
    BY <1>2, <1>6, <2>1
  <2>2. CASE x = Len(behind) + 1
    <3>1. i = IF x < Turn(m) THEN x ELSE x + 1
      BY <1>2, <1>t, <2>2
    <3> QED
      BY <1>4, <1>6, <2>2, <3>1
  <2>3. Len(behind) \in Nat
    BY LenProperties
  <2> QED
    BY <1>6, <2>1, <2>2, <2>3
<1> QED
  BY <1>7, <1>8, <1>9 DEF Progress, whole, more

\* The writer is the last.
LEMMA WriterIsLast ==
  ASSUME NEW m \in Modes, NEW n \in 1 .. MaxExperts, NEW i \in 1 .. 7,
         NEW ahead \in Seq(StageNames), NEW behind \in Seq(StageNames), Progress(m, n, i, ahead, behind)
  PROVE  Head(ahead) = "writer" <=> i = Len(Pipeline(m, n))
BY NowAt

\* No more stages before and behind than the longest pipeline has.
LEMMA NoMoreThanSeven ==
  ASSUME NEW m \in Modes, NEW n \in 1 .. MaxExperts, NEW i \in 1 .. 7,
         NEW ahead \in Seq(StageNames), NEW behind \in Seq(StageNames), Progress(m, n, i, ahead, behind)
  PROVE  Len(ahead) + Len(behind) <= 7
BY NowAt

\* An expert is skipped: it is as if there had been one expert less.
LEMMA Skipped ==
  ASSUME NEW m \in Modes, NEW n \in 1 .. MaxExperts, NEW i \in 1 .. 7,
         NEW ahead \in Seq(StageNames), NEW behind \in Seq(StageNames), Progress(m, n, i, ahead, behind),
         Head(ahead) = "expert", ahead[2] = "expert" \/ behind # <<>>
  PROVE  n - 1 \in 1 .. MaxExperts /\ i > Turn(m) /\ Progress(m, n - 1, i, Tail(ahead), behind)
<1> DEFINE whole == Pipeline(m, n)
           fewer == Pipeline(m, n - 1)
<1>1. m = "mixture_of_experts" /\ i \in 2 .. n + 1 /\ ahead # <<>>
  BY NowAt
<1>2. Turn(m) = 1 /\ n \in Nat /\ n - 1 \in Nat /\ MaxExperts \in Nat
  BY <1>1, AgentAssumption DEF Turn
<1>3. /\ Len(whole) = n + 3
      /\ \A x \in 2 .. n + 1 : whole[x] = "expert"
      /\ whole[n + 2] = "verifier" /\ whole[n + 3] = "writer"
  BY <1>1, <1>2, ExpertStages
<1>4. /\ Len(fewer) = (n - 1) + 3
      /\ \A x \in 2 .. (n - 1) + 1 : fewer[x] = "expert"
      /\ fewer[(n - 1) + 2] = "verifier" /\ fewer[(n - 1) + 3] = "writer"
  BY <1>1, <1>2, ExpertStages
<1>5. /\ Len(ahead) = Len(whole) - i + 1
      /\ \A x \in 1 .. Len(ahead) : ahead[x] = whole[i - 1 + x]
      /\ Len(behind) = IF i > Turn(m) THEN i - 2 ELSE i - 1
      /\ \A x \in 1 .. Len(behind) : behind[x] = whole[IF x < Turn(m) THEN x ELSE x + 1]
  BY DEF Progress
<1> HIDE DEF whole, fewer
<1>6. /\ Len(Tail(ahead)) = Len(ahead) - 1
      /\ \A x \in 1 .. Len(Tail(ahead)) : Tail(ahead)[x] = ahead[x + 1]
  BY <1>1, HeadTailProperties
<1>7. Len(ahead) = n + 4 - i /\ Len(behind) = i - 2 /\ Len(Tail(ahead)) = n + 3 - i
  BY <1>1, <1>2, <1>3, <1>5, <1>6
<1>8. n >= 2
  <2>1. CASE ahead[2] = "expert"
    <3>1. SUFFICES ASSUME n = 1 PROVE FALSE
      BY <1>2
    <3>2. i = 2 /\ 2 \in 1 .. Len(ahead)
      BY <1>1, <1>7, <3>1
    <3>3. ahead[2] = whole[n + 2]
      BY <1>5, <3>1, <3>2
    <3> QED
      BY <1>3, <2>1, <3>3
  <2>2. CASE behind # <<>>
    <3>1. Len(behind) \in Nat \ {0}
      BY <2>2, EmptySeq
    <3> QED
      BY <1>1, <1>2, <1>7, <3>1
  <2> QED
    BY <2>1, <2>2
<1>9. \A x \in 2 .. n + 2 : fewer[x] = whole[x + 1]
  <2> TAKE x \in 2 .. n + 2
  <2>1. CASE x <= n
    BY <1>2, <1>3, <1>4, <2>1
  <2>2. CASE x = n + 1 \/ x = n + 2
    BY <1>2, <1>3, <1>4, <2>2
  <2> QED
    BY <1>2, <2>1, <2>2
<1>10. ASSUME NEW x \in 1 .. Len(Tail(ahead)) PROVE Tail(ahead)[x] = fewer[i - 1 + x]
  <2>1. x + 1 \in 1 .. Len(ahead) /\ i - 1 + x \in 2 .. n + 2 /\ i - 1 + (x + 1) = (i - 1 + x) + 1
    BY <1>1, <1>2, <1>7
  <2> QED
    BY <1>5, <1>6, <1>9, <2>1
<1>11. ASSUME NEW x \in 1 .. Len(behind) PROVE behind[x] = fewer[x + 1]
  <2>1. x + 1 \in 2 .. n /\ x + 1 \in 2 .. n + 1 /\ x + 1 \in 2 .. (n - 1) + 1 /\ ~(x < 1)
    BY <1>1, <1>2, <1>7
  <2>2. behind[x] = whole[x + 1]
    BY <1>2, <1>5, <2>1
  <2> QED
    BY <1>3, <1>4, <2>1, <2>2
<1>12. /\ i \in 1 .. Len(fewer) /\ i > 1
       /\ Len(Tail(ahead)) = Len(fewer) - i + 1
       /\ n - 1 \in 1 .. MaxExperts
  BY <1>1, <1>2, <1>4, <1>7, <1>8
<1>13. \A x \in 1 .. Len(behind) : ~(x < 1)
  OBVIOUS
<1> QED
  BY <1>2, <1>7, <1>10, <1>11, <1>12, <1>13 DEF Progress, fewer

\* The writer has answered: everything but the retrieval is behind.
LEMMA Finished ==
  ASSUME NEW m \in Modes, NEW n \in 1 .. MaxExperts, NEW i \in 1 .. 7,
         NEW ahead \in Seq(StageNames), NEW behind \in Seq(StageNames), Progress(m, n, i, ahead, behind),
         i = Len(Pipeline(m, n))
  PROVE  LET whole == Pipeline(m, n)
             all == Append(behind, Head(ahead))
         IN /\ i > Turn(m) /\ Tail(ahead) = <<>> /\ Len(all) <= 7
            /\ Turn(m) \in DOMAIN whole /\ whole[Turn(m)] = "retrieve"
            /\ all = RemoveAt(whole, Turn(m))
<1> DEFINE whole == Pipeline(m, n)
           all == Append(behind, Head(ahead))
<1>1. /\ whole \in Seq(StageNames) /\ Len(whole) \in 4 .. 7 /\ Turn(m) \in 1 .. 2
      /\ DOMAIN whole = 1 .. Len(whole)
      /\ \A x \in 1 .. Len(whole) : whole[x] = "retrieve" <=> x = Turn(m)
  BY AllStages
<1>2. /\ Len(ahead) = Len(whole) - i + 1
      /\ Len(behind) = IF i > Turn(m) THEN i - 2 ELSE i - 1
      /\ \A x \in 1 .. Len(behind) : behind[x] = whole[IF x < Turn(m) THEN x ELSE x + 1]
  BY DEF Progress
<1>3. ahead # <<>> /\ Head(ahead) = whole[i] /\ Head(ahead) \in StageNames /\ Tail(ahead) \in Seq(StageNames)
  BY NowAt
<1>a. i = Len(whole)
  OBVIOUS
<1> HIDE DEF whole
<1>l. PICK L \in 4 .. 7 : Len(whole) = L
  BY <1>1
<1>t. PICK T \in 1 .. 2 : Turn(m) = T
  BY <1>1
<1>4. i > T /\ Len(ahead) = 1 /\ Len(behind) = L - 2 /\ i = L
  BY <1>2, <1>a, <1>l, <1>t
<1>5. Tail(ahead) = <<>>
  <2>1. Len(Tail(ahead)) = 0
    BY <1>3, <1>4, HeadTailProperties
  <2> QED
    BY <1>3, <2>1, EmptySeq
<1>6. /\ all \in Seq(StageNames) /\ Len(all) = Len(behind) + 1
      /\ \A x \in 1 .. Len(behind) : all[x] = behind[x]
      /\ all[Len(behind) + 1] = Head(ahead)
  BY <1>3, AppendProperties
<1> HIDE DEF all
<1>7. /\ SubSeq(whole, 1, T - 1) \in Seq(StageNames) /\ Len(SubSeq(whole, 1, T - 1)) = T - 1
      /\ \A x \in 1 .. T - 1 : SubSeq(whole, 1, T - 1)[x] = whole[x]
  <2>1. \A x \in 1 .. T - 1 : whole[x] \in StageNames
    BY <1>1, <1>l, ElementOfSeq
  <2>2. /\ SubSeq(whole, 1, T - 1) \in Seq(StageNames)
        /\ Len(SubSeq(whole, 1, T - 1)) = IF 1 <= T - 1 THEN (T - 1) - 1 + 1 ELSE 0
        /\ \A x \in 1 .. (T - 1) - 1 + 1 : SubSeq(whole, 1, T - 1)[x] = whole[1 + x - 1]
    BY <2>1, SubSeqProperties
  <2>3. (T - 1) - 1 + 1 = T - 1 /\ \A x \in 1 .. T - 1 : 1 + x - 1 = x
    OBVIOUS
  <2> QED
    BY <2>2, <2>3
<1>8. /\ SubSeq(whole, T + 1, L) \in Seq(StageNames) /\ Len(SubSeq(whole, T + 1, L)) = L - T
      /\ \A x \in 1 .. L - T : SubSeq(whole, T + 1, L)[x] = whole[T + x]
  <2>1. \A x \in T + 1 .. L : whole[x] \in StageNames
    BY <1>1, <1>l, ElementOfSeq
  <2>2. /\ SubSeq(whole, T + 1, L) \in Seq(StageNames)
        /\ Len(SubSeq(whole, T + 1, L)) = IF T + 1 <= L THEN L - (T + 1) + 1 ELSE 0
        /\ \A x \in 1 .. L - (T + 1) + 1 : SubSeq(whole, T + 1, L)[x] = whole[(T + 1) + x - 1]
    BY <2>1, SubSeqProperties
  <2>3. L - (T + 1) + 1 = L - T /\ \A x \in 1 .. L - T : (T + 1) + x - 1 = T + x
    OBVIOUS
  <2> QED
    BY <2>2, <2>3
<1> DEFINE front == SubSeq(whole, 1, T - 1)
           rest == SubSeq(whole, T + 1, L)
<1>9. RemoveAt(whole, Turn(m)) = front \o rest
  BY <1>l, <1>t DEF RemoveAt
<1> HIDE DEF front, rest
<1>10. /\ front \o rest \in Seq(StageNames) /\ Len(front \o rest) = L - 1
       /\ \A x \in 1 .. L - 1 : (front \o rest)[x] = whole[IF x < T THEN x ELSE x + 1]
  <2>1. /\ front \in Seq(StageNames) /\ rest \in Seq(StageNames) /\ Len(front) = T - 1 /\ Len(rest) = L - T
        /\ \A x \in 1 .. T - 1 : front[x] = whole[x]
        /\ \A x \in 1 .. L - T : rest[x] = whole[T + x]
    BY <1>7, <1>8 DEF front, rest
  <2>2. /\ front \o rest \in Seq(StageNames) /\ Len(front \o rest) = Len(front) + Len(rest)
        /\ \A x \in 1 .. Len(front) + Len(rest) :
             (front \o rest)[x] = IF x <= Len(front) THEN front[x] ELSE rest[x - Len(front)]
    BY <2>1, ConcatProperties
  <2>3. Len(front) + Len(rest) = L - 1
    BY <2>1
  <2>4. ASSUME NEW x \in 1 .. L - 1 PROVE (front \o rest)[x] = whole[IF x < T THEN x ELSE x + 1]
    <3>1. CASE x < T
      BY <2>1, <2>2, <2>3, <3>1
    <3>2. CASE ~(x < T)
      <4>1. x - (T - 1) \in 1 .. L - T /\ T + (x - (T - 1)) = x + 1 /\ ~(x <= T - 1)
        BY <3>2
      <4>2. (front \o rest)[x] = rest[x - (T - 1)]
        BY <2>1, <2>2, <2>3, <4>1
      <4> QED
        BY <2>1, <3>2, <4>1, <4>2
    <3> QED
      BY <3>1, <3>2
  <2> QED
    BY <2>2, <2>3, <2>4
<1>11. all = front \o rest
  <2>1. Len(all) = L - 1
    BY <1>4, <1>6
  <2>2. ASSUME NEW x \in 1 .. L - 1 PROVE all[x] = (front \o rest)[x]
    <3>1. (front \o rest)[x] = whole[IF x < T THEN x ELSE x + 1]
      BY <1>10
    <3>2. CASE x \in 1 .. L - 2
      <4>1. x \in 1 .. Len(behind)
        BY <1>4, <3>2
      <4>2. behind[x] = whole[IF x < T THEN x ELSE x + 1]
        BY <1>2, <1>t, <4>1
      <4> QED
        BY <1>6, <3>1, <4>1, <4>2
    <3>3. CASE x = L - 1
      <4>1. x = Len(behind) + 1 /\ L = (IF x < T THEN x ELSE x + 1) /\ L = i
        BY <1>4, <3>3
      <4>2. whole[i] = whole[IF x < T THEN x ELSE x + 1]
        BY <4>1
      <4> QED
        BY <1>3, <1>6, <3>1, <4>1, <4>2
    <3>4. x \in 1 .. L - 2 \/ x = L - 1
      OBVIOUS
    <3> QED
      BY <3>2, <3>3, <3>4
  <2> QED
    BY <1>6, <1>10, <2>1, <2>2, SeqEqual
<1>12. Len(all) <= 7
  BY <1>4, <1>6
<1>13. T \in 1 .. Len(whole)
  BY <1>l
<1>14. Turn(m) \in DOMAIN whole /\ whole[Turn(m)] = "retrieve"
  BY <1>1, <1>t, <1>13
<1> QED
  BY <1>4, <1>t, <1>5, <1>9, <1>11, <1>12, <1>14 DEF whole, all

------------------------------------------------------------------------------
(***************************************************************************)
(* The steps of a run.                                                     *)
(***************************************************************************)
AllInv == Types /\ RunTypes /\ StoreInv /\ RunInv

\* A run whose locals and result stay, or whose search goes on.
LEMMA RunStays ==
  ASSUME NEW r \in Runs, RunFits(r),
         mode'[r] = mode[r], r \in grounded' <=> r \in grounded, todo'[r] = todo[r],
         completed'[r] = completed[r], chunks'[r] = chunks[r], verdict'[r] = verdict[r],
         ledger'[r] = ledger[r], outcome'[r] = outcome[r], cites'[r] = cites[r],
         op'[r] = op[r], doc'[r] = doc[r], known[r] \subseteq known'[r],
         at[r] \in Ended => at'[r] = at[r] /\ found'[r] = found[r] /\ kept'[r] = kept[r],
         at[r] \notin Ended /\ at'[r] = "done" => found'[r] # {} \/ About(r, kept[r])' = {}
  PROVE  RunFits(r)'
<1>1. Sources(r)' = Sources(r) /\ Relevant(r) \subseteq Relevant(r)'
  BY DEF Sources, Ids, Relevant
<1>2. GroundingFits(r)'
  BY <1>1 DEF RunFits, GroundingFits
<1>3. Whole(r)' <=> Whole(r)
  BY DEF Whole
<1>4. ASSUME NEW n \in 1 .. MaxExperts, NEW i \in 1 .. 7, StageAt(r, n, i) PROVE StageAt(r, n, i)'
  <2>1. at[r] \in Ended \/ (i = Turn(mode[r]) /\ r \in grounded)
    BY <1>4 DEF StageAt, Turn, Ended
  <2> QED
    BY <1>4, <2>1 DEF StageAt
<1>5. outcome[r] # "running" => at[r] \in Ended
  BY DEF RunFits
<1>6. outcome[r] = "running" => \E n \in 1 .. MaxExperts : \E i \in 1 .. 7 : StageAt(r, n, i)'
  BY <1>4 DEF RunFits
<1>7. Covered(r) => Covered(r)'
  BY DEF Covered, About
<1> QED
  BY <1>2, <1>3, <1>5, <1>6, <1>7 DEF RunFits, Ended

RunAside(r) ==
  /\ mode'[r] = mode[r] /\ (r \in grounded' <=> r \in grounded) /\ todo'[r] = todo[r]
  /\ completed'[r] = completed[r] /\ chunks'[r] = chunks[r] /\ verdict'[r] = verdict[r]
  /\ ledger'[r] = ledger[r] /\ outcome'[r] = outcome[r] /\ cites'[r] = cites[r]
  /\ op'[r] = op[r] /\ doc'[r] = doc[r] /\ known[r] \subseteq known'[r]
  /\ at[r] \in Ended => at'[r] = at[r] /\ found'[r] = found[r] /\ kept'[r] = kept[r]
  /\ at[r] \notin Ended /\ at'[r] = "done" => found'[r] # {} \/ About(r, kept[r])' = {}

LEMMA OneRun ==
  ASSUME RunInv, NEW r \in Runs, RunFits(r)', \A q \in Runs \ {r} : RunAside(q)
  PROVE  RunInv'
<1> SUFFICES ASSUME NEW q \in Runs \ {r} PROVE RunFits(q)'
  BY DEF RunInv
<1> QED
  BY RunStays DEF RunAside, RunInv

\* Beside the runs, the store takes a step.
LEMMA StoreStepKeepsAll ==
  ASSUME AllInv, NEW c \in Callers, StoreStep(c), UNCHANGED runVars
  PROVE  AllInv'
<1>1. Types' /\ StoreInv'
  BY StoreStepKeeps DEF AllInv
<1>2. RunTypes'
  BY DEF AllInv, RunTypes, runVars
<1>3. /\ UNCHANGED <<op, doc>> /\ at[c] \notin Ended
      /\ \A d \in Callers : known[d] \subseteq known'[d]
      /\ \A d \in Callers \ {c} : at'[d] = at[d] /\ found'[d] = found[d]
      /\ \A d \in Callers : at[d] \in Ended => kept'[d] = kept[d]
      /\ at'[c] = "done" /\ op[c] \in {"none", "search"} => SearchRank(c)
  <2>1. CASE CheckCollection(c) \/ CreateCollection(c) \/ BreakDown(c)
    BY <2>1 DEF CheckCollection, CreateCollection, BreakDown, AllInv, Types, Ended
  <2>2. CASE Upsert(c)
    BY <2>2 DEF Upsert, AllInv, Types, Ended
  <2>3. CASE Erase(c)
    BY <2>3 DEF Erase, AllInv, Types, Ended
  <2>4. CASE ListPage(c)
    BY <2>4 DEF ListPage, AllInv, Types, Ended
  <2>5. CASE SearchDense(c)
    BY <2>5 DEF SearchDense, AllInv, Types, Ended
  <2>6. CASE SearchPage(c)
    BY <2>6 DEF SearchPage, AllInv, Types, Ended
  <2>7. CASE SearchRank(c)
    BY <2>7 DEF SearchRank, AllInv, Types, Ended
  <2> QED
    BY <2>1, <2>2, <2>3, <2>4, <2>5, <2>6, <2>7 DEF StoreStep
<1>4. ASSUME NEW r \in Runs PROVE RunAside(r)
  <2>1. r \in Callers /\ op[r] \in {"none", "search"}
    BY Calling DEF AllInv, RunInv, RunFits
  <2>2. at[r] \notin Ended /\ at'[r] = "done" => found'[r] # {} \/ About(r, kept[r])' = {}
    <3> SUFFICES ASSUME at[r] \notin Ended, at'[r] = "done" PROVE found'[r] # {} \/ About(r, kept[r])' = {}
      OBVIOUS
    <3>1. r = c
      BY <1>3, <2>1 DEF Ended
    <3>2. SearchRank(r)
      BY <1>3, <2>1, <3>1
    <3> QED
      BY <2>1, <3>2, RankFinds DEF AllInv
  <2> QED
    BY <1>3, <2>1, <2>2 DEF RunAside, runVars
<1>5. RunInv'
  BY <1>4, RunStays DEF AllInv, RunInv, RunAside
<1> QED
  BY <1>1, <1>2, <1>5 DEF AllInv

LEMMA AskKeepsAll ==
  ASSUME AllInv, NEW c \in Requests, Ask(c), UNCHANGED runVars
  PROVE  AllInv'
<1>1. Types' /\ StoreInv'
  BY AskKeeps DEF AllInv
<1>2. RunTypes'
  BY DEF AllInv, RunTypes, runVars
<1>3. \A d \in Callers \ {c} : /\ op'[d] = op[d] /\ doc'[d] = doc[d] /\ known'[d] = known[d]
                               /\ at'[d] = at[d] /\ found'[d] = found[d] /\ kept'[d] = kept[d]
  BY DEF Ask, Enter, AllInv, Types
<1>4. \A r \in Runs : RunAside(r)
  BY <1>3, Calling DEF RunAside, Ended, runVars
<1>5. RunInv'
  BY <1>4, RunStays DEF AllInv, RunInv, RunAside
<1> QED
  BY <1>1, <1>2, <1>5 DEF AllInv

\* Beside the store, a run takes a step.
LEMMA StoreStays ==
  ASSUME Types, StoreInv, UNCHANGED storeVars
  PROVE  Types' /\ StoreInv'
<1>1. Types' /\ PointsFit'
  BY DEF Types, StoreInv, PointsFit, storeVars, callVars
<1>2. ASSUME NEW c \in Callers PROVE CallFits(c)'
  <2>1. CallFits(c)
    BY DEF StoreInv
  <2> QED
    BY <2>1 DEF CallFits, ReadingFits, ListingFits, SearchFits, Looking, About, storeVars, callVars
<1> QED
  BY <1>1, <1>2 DEF StoreInv

\* What ends with an exception had no result to lose.
LEMMA RefuseKeeps ==
  ASSUME AllInv, NEW r \in Runs, Refuse(r), at[r] \in Ended, at[r] # "failed" => found[r] = {}
  PROVE  AllInv'
<1>1. r \in Callers /\ CallFits(r) /\ RunFits(r)
  BY Calling DEF AllInv, StoreInv, RunInv
<1>2. /\ outcome'[r] = "refused" /\ todo'[r] = <<>> /\ completed'[r] = <<>> /\ chunks'[r] = {}
      /\ verdict'[r] = "unset" /\ known'[r] = {}
      /\ UNCHANGED <<created, points, unused, op, at, doc, want, cursor, found, scanned, kept, grounded, mode>>
  BY <1>1 DEF Refuse, callVars, AllInv, Types, RunTypes
<1>3. Types'
  <2>1. known' \in [Callers -> SUBSET Points]
    BY DEF Refuse, AllInv, Types
  <2> QED
    BY <1>2, <2>1 DEF AllInv, Types
<1>4. RunTypes'
  <2>1. <<>> \in Seq(StageNames) /\ 0 \in 0 .. 3 /\ "unset" \in Verdicts
        /\ "refused" \in {"none", "running", "refused", "answered"}
    BY EmptySeq DEF Verdicts
  <2>2. /\ todo' \in [Runs -> Seq(StageNames)] /\ completed' \in [Runs -> Seq(StageNames)]
    BY <2>1 DEF Refuse, AllInv, RunTypes
  <2>3. /\ searches' \in [Runs -> 0 .. 3] /\ chunks' \in [Runs -> SUBSET Points]
        /\ ledger' \in [Runs -> SUBSET Labels] /\ verdict' \in [Runs -> Verdicts]
    BY <2>1 DEF Refuse, AllInv, RunTypes
  <2>4. outcome' \in [Runs -> {"none", "running", "refused", "answered"}]
    BY <2>1 DEF Refuse, AllInv, RunTypes
  <2> QED
    BY <2>2, <2>3, <2>4 DEF Refuse, AllInv, RunTypes
<1>5. StoreInv'
  <2>1. scanned[r] = {} \/ at[r] = "failed"
    BY <1>1 DEF CallFits, ReadingFits, Ended
  <2>2. ReadingFits(r)'
    BY <1>1, <1>2, <2>1 DEF CallFits, ReadingFits, Looking, About
  <2>3. CallFits(r)'
    BY <1>1, <1>2, <2>2 DEF CallFits, ListingFits, SearchFits, About
  <2>4. \A d \in Callers \ {r} : Aside(d)
    BY <1>2 DEF Refuse, AllInv, Types, Aside
  <2> QED
    BY <1>1, <1>2, <2>3, <2>4, OneCall DEF AllInv
<1>6. RunFits(r)'
  <2>1. IsFiniteSet({}) /\ Cardinality({}) = 0 /\ 0 <= TopK
    BY FS_EmptySet, Limits
  <2>2. GroundingFits(r)'
    BY <1>2, <2>1 DEF GroundingFits
  <2> QED
    BY <1>1, <1>2, <2>2 DEF RunFits
<1>7. \A q \in Runs \ {r} : RunAside(q)
  BY <1>2, Calling DEF Refuse, AllInv, Types, RunTypes, RunAside, Ended
<1> QED
  BY <1>3, <1>4, <1>5, <1>6, <1>7, OneRun DEF AllInv

LEMMA RequestKeeps ==
  ASSUME AllInv, NEW r \in Runs, Request(r)
  PROVE  AllInv'
<1>1. r \in Callers /\ CallFits(r) /\ RunFits(r) /\ outcome[r] = "none"
  BY Calling DEF AllInv, StoreInv, RunInv, Request
<1>2. at[r] = "idle" /\ op[r] = "none" /\ found[r] = {} /\ verdict[r] = "unset" /\ chunks[r] = {}
      /\ completed[r] = <<>>
  BY <1>1 DEF RunFits, CallFits, ReadingFits
<1>3. CASE Refuse(r)
  BY <1>2, <1>3, RefuseKeeps DEF Ended
<1>4. ASSUME NEW m \in Modes, NEW n \in 2 .. MaxExperts, NEW d \in Docs \union {AnyDoc},
             outcome' = [outcome EXCEPT ![r] = "running"],
             mode' = [mode EXCEPT ![r] = m],
             todo' = [todo EXCEPT ![r] = Pipeline(m, n)],
             grounded' \in {grounded, grounded \union {r}},
             doc' = [doc EXCEPT ![r] = d],
             UNCHANGED <<created, points, unused, op, at, want, cursor, found, scanned, kept, known,
                         completed, searches, chunks, verdict, ledger, cites>>
      PROVE  AllInv'
  <2>1. n \in 1 .. MaxExperts
    OBVIOUS
  <2>2. Pipeline(m, n) \in Seq(StageNames) /\ Progress(m, n, 1, Pipeline(m, n), <<>>)
    BY <2>1, Starts
  <2>3. Types'
    BY <1>4 DEF AllInv, Types
  <2>4. RunTypes'
    BY <1>4, <2>2 DEF AllInv, RunTypes
  <2>5. /\ outcome'[r] = "running" /\ mode'[r] = m /\ todo'[r] = Pipeline(m, n) /\ doc'[r] = d
    BY <1>1, <1>4 DEF AllInv, Types, RunTypes
  <2>6. StoreInv'
    <3>1. CallFits(r)'
      BY <1>1, <1>2, <1>4 DEF CallFits, ReadingFits, ListingFits, SearchFits, Looking, About
    <3>2. \A e \in Callers \ {r} : Aside(e)
      BY <1>4 DEF AllInv, Types, Aside
    <3> QED
      BY <1>1, <1>4, <3>1, <3>2, OneCall DEF AllInv
  <2>7. RunFits(r)'
    <3>1. StageAt(r, n, 1)'
      <4>1. Turn(m) \in 1 .. 2 /\ ~(1 > Turn(m))
        BY DEF Turn
      <4> QED
        BY <1>2, <1>4, <2>2, <2>5, <4>1 DEF StageAt
    <3>2. 1 \in 1 .. 7
      OBVIOUS
    <3>3. \E k \in 1 .. MaxExperts : \E i \in 1 .. 7 : StageAt(r, k, i)'
      BY <2>1, <3>1, <3>2
    <3>4. GroundingFits(r)'
      BY <1>1, <1>2, <1>4 DEF RunFits, GroundingFits
    <3>5. Covered(r)'
      BY <1>2, <1>4 DEF Covered
    <3> QED
      BY <1>2, <1>4, <2>5, <3>3, <3>4, <3>5 DEF RunFits
  <2>8. \A q \in Runs \ {r} : RunAside(q)
    BY <1>4, Calling DEF AllInv, Types, RunTypes, RunAside, Ended
  <2> QED
    BY <2>3, <2>4, <2>6, <2>7, <2>8, OneRun DEF AllInv
<1> QED
  BY <1>3, <1>4 DEF Request

\* Where a running run is.
Here(r, n, i) ==
  /\ StageAt(r, n, i)
  /\ mode[r] \in Modes /\ r \in Callers /\ CallFits(r) /\ RunFits(r)
  /\ todo[r] \in Seq(StageNames) /\ completed[r] \in Seq(StageNames)
  /\ Progress(mode[r], n, i, todo[r], completed[r])
  /\ Stage(r) = Head(todo[r])
  /\ op[r] = "none" <=> at[r] = "idle"
  /\ op[r] = "none" => found[r] = {}
  /\ Turn(mode[r]) \in 1 .. 2

LEMMA Somewhere ==
  ASSUME AllInv, NEW r \in Runs, outcome[r] = "running"
  PROVE  \E n \in 1 .. MaxExperts : \E i \in 1 .. 7 : Here(r, n, i)
<1>1. RunFits(r) /\ r \in Callers /\ CallFits(r)
  BY Calling DEF AllInv, RunInv, StoreInv
<1>2. PICK n \in 1 .. MaxExperts, i \in 1 .. 7 : StageAt(r, n, i)
  BY <1>1 DEF RunFits
<1>3. mode[r] \in Modes /\ Stage(r) = Head(todo[r])
  BY <1>1 DEF RunFits, Stage
<1>4. todo[r] \in Seq(StageNames) /\ completed[r] \in Seq(StageNames)
  BY DEF AllInv, RunTypes
<1>5. Progress(mode[r], n, i, todo[r], completed[r])
  BY <1>2 DEF StageAt
<1>6. (op[r] = "none" <=> at[r] = "idle") /\ (op[r] = "none" => found[r] = {})
  BY <1>1 DEF CallFits, ReadingFits
<1>7. Turn(mode[r]) \in 1 .. 2
  BY DEF Turn
<1> QED
  BY <1>1, <1>2, <1>3, <1>4, <1>5, <1>6, <1>7 DEF Here

\* A run that goes on, and what that takes.
LEMMA GoesOn ==
  ASSUME AllInv, NEW r \in Runs, RunTypes', Types', StoreInv', \A q \in Runs \ {r} : RunAside(q),
         mode'[r] \in Modes, outcome'[r] = "running", op'[r] \in {"none", "search"}, GroundingFits(r)',
         Covered(r)', NEW n \in 1 .. MaxExperts, NEW i \in 1 .. 7, StageAt(r, n, i)'
  PROVE  AllInv'
<1>1. RunFits(r)'
  BY DEF RunFits
<1> QED
  BY <1>1, OneRun DEF AllInv

LEMMA SearchKeeps ==
  ASSUME AllInv, NEW r \in Runs, NEW n \in 0 .. 3, NEW k \in 1 .. TopK, Search(r, n, k)
  PROVE  Types' /\ StoreInv' /\ searches' \in [Runs -> 0 .. 3] /\ Covered(r)'
<1>1. r \in Callers /\ k \in 0 .. TopK /\ k # 0
  BY Calling
<1>2. IsFiniteSet(points)
  BY PointsAreFinite DEF AllInv, StoreInv
<1>3. /\ Enter(r, "search", doc[r], k)
      /\ known' = [known EXCEPT ![r] = known[r] \union points]
      /\ kept' = [kept EXCEPT ![r] = points]
      /\ searches' = [searches EXCEPT ![r] = n]
  BY DEF Search
<1>4. /\ known' = [known EXCEPT ![r] = known'[r]] /\ kept' = [kept EXCEPT ![r] = kept'[r]]
      /\ known'[r] \subseteq Points /\ points \subseteq known'[r] /\ points \subseteq Points /\ kept'[r] = points
      /\ doc[r] \in Docs \union {AnyDoc}
  BY <1>1, <1>2, <1>3 DEF AllInv, Types
<1>5. "search" \in {"ingest", "delete", "list", "search"}
  OBVIOUS
<1>6. Types' /\ StoreInv'
  BY <1>1, <1>2, <1>3, <1>4, <1>5, EnterKeeps DEF AllInv
<1>7. at'[r] = "checking"
  BY <1>1, <1>3 DEF Enter, AllInv, Types
<1> QED
  BY <1>3, <1>6, <1>7 DEF AllInv, RunTypes, Covered

LEMMA BeginKeeps ==
  ASSUME AllInv, NEW r \in Runs, BeginRetrieval(r)
  PROVE  AllInv'
<1>1. outcome[r] = "running" /\ Stage(r) = "retrieve" /\ at[r] = "idle"
  BY DEF BeginRetrieval, Stage
<1>h. PICK n \in 1 .. MaxExperts, i \in 1 .. 7 : Here(r, n, i)
  BY <1>1, Somewhere
<1>2. /\ StageAt(r, n, i)
      /\ mode[r] \in Modes /\ r \in Callers /\ CallFits(r) /\ RunFits(r)
      /\ todo[r] \in Seq(StageNames) /\ completed[r] \in Seq(StageNames)
      /\ Progress(mode[r], n, i, todo[r], completed[r])
      /\ Stage(r) = Head(todo[r])
      /\ op[r] = "none" <=> at[r] = "idle"
      /\ op[r] = "none" => found[r] = {}
      /\ Turn(mode[r]) \in 1 .. 2
  BY <1>h DEF Here
<1>3. i = Turn(mode[r]) /\ Tail(todo[r]) \in Seq(StageNames)
  BY <1>1, <1>2, NowAt
<1>4. found[r] = {} /\ op[r] = "none"
  BY <1>1, <1>2
<1>5. CASE r \notin grounded /\ todo' = [todo EXCEPT ![r] = Tail(@)]
           /\ UNCHANGED <<storeVars, mode, grounded, completed, searches, chunks, verdict, ledger, outcome, cites>>
  <2>1. Types' /\ StoreInv'
    BY <1>5, StoreStays DEF AllInv
  <2>2. RunTypes'
    BY <1>3, <1>5 DEF AllInv, RunTypes
  <2>3. todo'[r] = Tail(todo[r])
    BY <1>5 DEF AllInv, RunTypes
  <2>4. /\ i + 1 \in 1 .. 7 /\ i + 1 > Turn(mode[r])
        /\ Progress(mode[r], n, i + 1, Tail(todo[r]), completed[r])
    BY <1>2, <1>3, Retrieved
  <2>5. StageAt(r, n, i + 1)'
    BY <1>1, <1>2, <1>4, <1>5, <2>3, <2>4 DEF StageAt, storeVars, callVars
  <2>6. GroundingFits(r)' /\ Covered(r)'
    BY <1>1, <1>2, <1>5 DEF RunFits, GroundingFits, Relevant, Sources, Covered, storeVars, callVars
  <2>7. \A q \in Runs \ {r} : RunAside(q)
    BY <1>5 DEF AllInv, RunTypes, RunAside, Ended, storeVars, callVars
  <2> QED
    BY <1>1, <1>2, <1>4, <1>5, <2>1, <2>2, <2>4, <2>5, <2>6, <2>7, GoesOn DEF storeVars, callVars
<1>6. CASE r \in grounded /\ Refuse(r)
  BY <1>1, <1>4, <1>6, RefuseKeeps DEF Ended
<1>7. ASSUME r \in grounded, NEW k \in 1 .. (IF mode[r] = "adaptive" THEN 3 ELSE 1),
             Search(r, k - 1, FewerForTheFirst(k)),
             UNCHANGED <<mode, grounded, todo, completed, chunks, verdict, ledger, outcome, cites>>
      PROVE  AllInv'
  <2>1. k - 1 \in 0 .. 3 /\ FewerForTheFirst(k) \in 1 .. TopK
    BY Limits, <1>7 DEF FewerForTheFirst
  <2>2. Types' /\ StoreInv' /\ searches' \in [Runs -> 0 .. 3] /\ Covered(r)'
    BY <1>7, <2>1, SearchKeeps
  <2>3. RunTypes'
    BY <1>7, <2>2 DEF AllInv, RunTypes
  <2>4. /\ op'[r] = "search" /\ doc'[r] = doc[r] /\ known[r] \subseteq known'[r]
    BY <1>2, <1>7 DEF Search, Enter, AllInv, Types
  <2>5. StageAt(r, n, i)'
    BY <1>2, <1>3, <1>7 DEF StageAt
  <2>6. GroundingFits(r)'
    BY <1>2, <1>7, <2>4 DEF RunFits, GroundingFits, Relevant, Sources
  <2>7. \A q \in Runs \ {r} : RunAside(q)
    BY <1>7, Calling DEF Search, Enter, AllInv, Types, RunTypes, RunAside, Ended
  <2> QED
    BY <1>1, <1>2, <1>7, <2>2, <2>3, <2>4, <2>5, <2>6, <2>7, GoesOn
<1> QED
  BY <1>5, <1>6, <1>7 DEF BeginRetrieval

LEMMA TakeKeeps ==
  ASSUME AllInv, NEW r \in Runs, TakeResult(r)
  PROVE  AllInv'
<1>1. outcome[r] = "running" /\ Stage(r) = "retrieve" /\ at[r] = "done"
  BY DEF TakeResult, Stage
<1>h. PICK n \in 1 .. MaxExperts, i \in 1 .. 7 : Here(r, n, i)
  BY <1>1, Somewhere
<1>2. /\ StageAt(r, n, i)
      /\ mode[r] \in Modes /\ r \in Callers /\ CallFits(r) /\ RunFits(r)
      /\ todo[r] \in Seq(StageNames) /\ completed[r] \in Seq(StageNames)
      /\ Progress(mode[r], n, i, todo[r], completed[r])
      /\ Stage(r) = Head(todo[r])
      /\ op[r] = "none" <=> at[r] = "idle"
      /\ Turn(mode[r]) \in 1 .. 2
  BY <1>h DEF Here
<1>3. i = Turn(mode[r]) /\ Tail(todo[r]) \in Seq(StageNames)
  BY <1>1, <1>2, NowAt
<1>4. op[r] = "search" /\ r \in grounded /\ verdict[r] = "unset"
  BY <1>1, <1>2, <1>3 DEF RunFits, StageAt
<1>5. /\ IsFiniteSet(found[r]) /\ found[r] \subseteq Relevant(r) /\ scanned[r] = {}
      /\ found[r] \subseteq Points /\ Covered(r)
  BY <1>1, <1>2 DEF CallFits, ReadingFits, About, Relevant, AllInv, Types, RunFits
<1>6. chunks[r] \subseteq Relevant(r) /\ IsFiniteSet(chunks[r]) /\ Cardinality(chunks[r]) <= TopK
      /\ chunks[r] \subseteq Points
  BY <1>2 DEF RunFits, GroundingFits, AllInv, RunTypes
<1>7. PICK new \in Limited(found[r] \ chunks[r], TopK - Cardinality(chunks[r])) :
        chunks' = [chunks EXCEPT ![r] = chunks[r] \union new]
  BY DEF TakeResult
<1>8. Cardinality(chunks[r]) \in Nat /\ TopK \in Nat /\ TopK - Cardinality(chunks[r]) \in Nat
  BY <1>6, FS_CardinalityType, Limits
<1>9. /\ new \subseteq found[r] \ chunks[r] /\ IsFiniteSet(new) /\ Cardinality(new) \in Nat
      /\ Cardinality(new) <= TopK - Cardinality(chunks[r])
  <2>1. IsFiniteSet(found[r] \ chunks[r])
    BY <1>5, FS_Difference
  <2> QED
    BY <1>8, <2>1, LimitedTo
<1>10. /\ chunks'[r] = chunks[r] \union new
       /\ chunks'[r] \subseteq Relevant(r) /\ IsFiniteSet(chunks'[r]) /\ Cardinality(chunks'[r]) <= TopK
       /\ chunks' \in [Runs -> SUBSET Points]
  <2>1. chunks'[r] = chunks[r] \union new
    BY <1>7 DEF AllInv, RunTypes
  <2>2. /\ IsFiniteSet(chunks[r] \union new) /\ IsFiniteSet(chunks[r] \cap new)
        /\ Cardinality(chunks[r] \union new)
             = Cardinality(chunks[r]) + Cardinality(new) - Cardinality(chunks[r] \cap new)
    BY <1>6, <1>9, FS_Union, FS_Intersection
  <2>3. Cardinality(chunks[r] \cap new) \in Nat
    BY <2>2, FS_CardinalityType
  <2>4. Cardinality(chunks[r] \union new) <= TopK
    BY <1>8, <1>9, <2>2, <2>3
  <2>5. chunks[r] \union new \subseteq Relevant(r) /\ chunks[r] \union new \subseteq Points
    BY <1>5, <1>6, <1>9
  <2>6. chunks' \in [Runs -> SUBSET Points]
    BY <1>7, <2>5 DEF AllInv, RunTypes
  <2> QED
    BY <2>1, <2>2, <2>4, <2>5, <2>6
<1>11. chunks[r] # {} \/ found[r] # {} => chunks'[r] # {}
  <2>1. SUFFICES ASSUME found[r] # {}, chunks[r] = {} PROVE new # {}
    BY <1>10
  <2>2. IsFiniteSet(found[r]) /\ found[r] \ chunks[r] = found[r] /\ Cardinality(found[r]) # 0
        /\ Cardinality({}) = 0 /\ TopK # 0
    BY <1>5, <2>1, FS_EmptySet, Limits
  <2>3. TopK - Cardinality(chunks[r]) = TopK
    BY <1>8, <2>1, <2>2
  <2>4. new \in Limited(found[r], TopK)
    BY <1>7, <2>2, <2>3
  <2>5. Cardinality(new) = TopK \/ Cardinality(new) = Cardinality(found[r])
    BY <1>8, <2>2, <2>4, LimitedTo
  <2> QED
    BY <2>2, <2>5
<1>12. UNCHANGED <<mode, grounded, completed, verdict, ledger, outcome, cites>>
  BY DEF TakeResult
<1>13. CASE /\ todo' = [todo EXCEPT ![r] = Tail(@)]
            /\ found' = [found EXCEPT ![r] = {}]
            /\ searches' = [searches EXCEPT ![r] = 0]
            /\ UNCHANGED <<created, points, unused, op, at, doc, want, cursor, scanned, known, kept>>
  <2>1. Types'
    BY <1>13 DEF AllInv, Types
  <2>2. todo'[r] = Tail(todo[r]) /\ found'[r] = {}
    BY <1>2, <1>13 DEF AllInv, Types, RunTypes
  <2>3. StoreInv'
    <3>1. IsFiniteSet({}) /\ r \notin Requests
      BY FS_EmptySet, Calling
    <3>2. CallFits(r)'
      BY <1>1, <1>2, <1>4, <1>13, <2>2, <3>1 DEF CallFits, ReadingFits, ListingFits, SearchFits, Looking, About
    <3>3. \A d \in Callers \ {r} : Aside(d)
      BY <1>13 DEF AllInv, Types, Aside
    <3> QED
      BY <1>2, <1>13, <3>2, <3>3, OneCall DEF AllInv
  <2>4. RunTypes'
    <3>1. todo' \in [Runs -> Seq(StageNames)] /\ searches' \in [Runs -> 0 .. 3]
      BY <1>3, <1>13 DEF AllInv, RunTypes
    <3> QED
      BY <1>10, <1>12, <3>1 DEF AllInv, RunTypes
  <2>5. /\ i + 1 \in 1 .. 7 /\ i + 1 > Turn(mode[r])
        /\ Progress(mode[r], n, i + 1, Tail(todo[r]), completed[r])
    BY <1>2, <1>3, Retrieved
  <2>6. ~(i + 1 < Turn(mode[r])) /\ ~(i + 1 = Turn(mode[r])) /\ ~(i + 1 <= Turn(mode[r]))
    BY <1>3
  <2>7. StageAt(r, n, i + 1)'
    BY <1>1, <1>12, <1>13, <2>2, <2>5, <2>6 DEF StageAt
  <2>8. GroundingFits(r)'
    BY <1>4, <1>10, <1>12, <1>13 DEF GroundingFits, Relevant
  <2>9. \A q \in Runs \ {r} : RunAside(q)
    BY <1>7, <1>12, <1>13 DEF AllInv, Types, RunTypes, RunAside, Ended
  <2>10. Covered(r)'
    BY <1>1, <1>2, <1>5, <1>13, <1>11 DEF Covered, About, AllInv, Types
  <2> QED
    BY <1>1, <1>2, <1>4, <1>12, <1>13, <2>1, <2>3, <2>4, <2>5, <2>7, <2>8, <2>9, <2>10, GoesOn
<1>14. CASE searches[r] # 0 /\ Search(r, searches[r] - 1, 1) /\ UNCHANGED todo
  <2>1. searches[r] - 1 \in 0 .. 3 /\ 1 \in 1 .. TopK
    BY <1>14, Limits DEF AllInv, RunTypes
  <2>2. Types' /\ StoreInv' /\ searches' \in [Runs -> 0 .. 3] /\ Covered(r)'
    BY <1>14, <2>1, SearchKeeps
  <2>3. RunTypes'
    BY <1>10, <1>12, <1>14, <2>2 DEF AllInv, RunTypes
  <2>4. /\ op'[r] = "search" /\ doc'[r] = doc[r] /\ known[r] \subseteq known'[r]
    BY <1>2, <1>14 DEF Search, Enter, AllInv, Types
  <2>5. StageAt(r, n, i)'
    BY <1>2, <1>3, <1>4, <1>12, <1>14 DEF StageAt
  <2>6. GroundingFits(r)'
    BY <1>4, <1>10, <1>12, <2>4 DEF GroundingFits, Relevant
  <2>7. \A q \in Runs \ {r} : RunAside(q)
    BY <1>7, <1>12, <1>14, Calling DEF Search, Enter, AllInv, Types, RunTypes, RunAside, Ended
  <2> QED
    BY <1>1, <1>2, <1>12, <2>2, <2>3, <2>4, <2>5, <2>6, <2>7, GoesOn
<1> QED
  BY <1>13, <1>14 DEF TakeResult

LEMMA FailRetrievalKeeps ==
  ASSUME AllInv, NEW r \in Runs, FailRetrieval(r)
  PROVE  AllInv'
BY RefuseKeeps DEF FailRetrieval, Ended

\* Before and after the retrieval nothing of the store is left to look at.
LEMMA Working ==
  ASSUME NEW r \in Runs, NEW n \in 1 .. MaxExperts, NEW i \in 1 .. 7, Here(r, n, i), Stage(r) # "retrieve"
  PROVE  /\ i # Turn(mode[r]) /\ at[r] \in {"idle", "done"} /\ at[r] \in Ended /\ found[r] = {}
         /\ i > Turn(mode[r]) \/ i + 1 <= Turn(mode[r])
<1>1. /\ StageAt(r, n, i)
      /\ mode[r] \in Modes
      /\ todo[r] \in Seq(StageNames) /\ completed[r] \in Seq(StageNames)
      /\ Progress(mode[r], n, i, todo[r], completed[r])
      /\ Stage(r) = Head(todo[r])
      /\ op[r] = "none" <=> at[r] = "idle"
      /\ op[r] = "none" => found[r] = {}
  BY DEF Here
<1>2. i # Turn(mode[r])
  BY <1>1, NowAt
<1>3. PICK T \in 1 .. 2 : Turn(mode[r]) = T
  BY DEF Turn
<1>4. i < T \/ i > T
  BY <1>2, <1>3
<1>5. at[r] \in {"idle", "done"} /\ found[r] = {}
  BY <1>1, <1>3, <1>4 DEF StageAt
<1> QED
  BY <1>2, <1>3, <1>4, <1>5 DEF Ended

\* A stage that is answered, or skipped.
LEMMA AnswerAdvances ==
  ASSUME AllInv, NEW r \in Runs, NEW n \in 1 .. MaxExperts, NEW i \in 1 .. 7, Here(r, n, i),
         Stage(r) # "retrieve", Stage(r) # "writer", AnswerStage(r), UNCHANGED <<at, found, mode, grounded>>,
         i > Turn(mode[r]) \/ UNCHANGED verdict
  PROVE  i + 1 \in 1 .. 7 /\ StageAt(r, n, i + 1)'
<1>1. /\ StageAt(r, n, i)
      /\ mode[r] \in Modes
      /\ todo[r] \in Seq(StageNames) /\ completed[r] \in Seq(StageNames)
      /\ Progress(mode[r], n, i, todo[r], completed[r])
      /\ Stage(r) = Head(todo[r])
  BY DEF Here
<1>2. i # Turn(mode[r]) /\ i # Len(Pipeline(mode[r], n))
  <2>1. i # Turn(mode[r])
    BY <1>1, NowAt
  <2>2. Head(todo[r]) = "writer" <=> i = Len(Pipeline(mode[r], n))
    BY <1>1, WriterIsLast
  <2> QED
    BY <1>1, <2>1, <2>2
<1>3. i + 1 \in 1 .. 7 /\ Progress(mode[r], n, i + 1, Tail(todo[r]), Append(completed[r], Head(todo[r])))
  BY <1>1, <1>2, Answered
<1>4. todo'[r] = Tail(todo[r]) /\ completed'[r] = Append(completed[r], Head(todo[r]))
  BY DEF AnswerStage, AllInv, RunTypes
<1>5. PICK T \in 1 .. 2 : Turn(mode[r]) = T
  BY DEF Turn
<1>6. /\ i + 1 > T => i > T
      /\ i + 1 <= T => i < T /\ i <= T /\ ~(i > T)
  BY <1>2, <1>5
<1>7. /\ i + 1 > T => at[r] \in {"idle", "done"} /\ found[r] = {} /\ (r \in grounded => at[r] = "done")
      /\ i + 1 <= T => at[r] = "idle" /\ verdict'[r] = "unset"
  BY <1>1, <1>5, <1>6 DEF StageAt
<1>8. /\ i + 1 < T => i + 1 <= T
      /\ i + 1 = T => i + 1 <= T
  OBVIOUS
<1> QED
  BY <1>3, <1>4, <1>5, <1>7, <1>8 DEF StageAt

LEMMA AnswerTypes ==
  ASSUME AllInv, NEW r \in Runs, NEW n \in 1 .. MaxExperts, NEW i \in 1 .. 7, Here(r, n, i), AnswerStage(r)
  PROVE  todo' \in [Runs -> Seq(StageNames)] /\ completed' \in [Runs -> Seq(StageNames)]
<1>1. /\ mode[r] \in Modes
      /\ todo[r] \in Seq(StageNames) /\ completed[r] \in Seq(StageNames)
      /\ Progress(mode[r], n, i, todo[r], completed[r])
  BY DEF Here
<1>2. Tail(todo[r]) \in Seq(StageNames) /\ Append(completed[r], Head(todo[r])) \in Seq(StageNames)
  BY <1>1, NowAt
<1> QED
  BY <1>2 DEF AnswerStage, AllInv, RunTypes

LEMMA StageKeeps ==
  ASSUME AllInv, NEW r \in Runs, RunStage(r)
  PROVE  AllInv'
<1>1. /\ outcome[r] = "running" /\ Stage(r) # "retrieve" /\ Stage(r) # "writer"
      /\ AnswerStage(r)
      /\ UNCHANGED <<storeVars, mode, grounded, searches, chunks, verdict, ledger, outcome, cites>>
  BY DEF RunStage, Stage, WorkingStages
<1>2. PICK n \in 1 .. MaxExperts, i \in 1 .. 7 : Here(r, n, i)
  BY <1>1, Somewhere
<1>3. i + 1 \in 1 .. 7 /\ StageAt(r, n, i + 1)'
  BY <1>1, <1>2, AnswerAdvances DEF storeVars, callVars
<1>4. Types' /\ StoreInv'
  BY <1>1, StoreStays DEF AllInv
<1>5. RunTypes'
  BY <1>1, <1>2, AnswerTypes DEF AllInv, RunTypes
<1>6. mode[r] \in Modes /\ RunFits(r)
  BY <1>2 DEF Here
<1>7. GroundingFits(r)' /\ Covered(r)'
  BY <1>1, <1>6 DEF RunFits, GroundingFits, Relevant, Sources, Covered, About, storeVars, callVars
<1>8. \A q \in Runs \ {r} : RunAside(q)
  BY <1>1 DEF AnswerStage, AllInv, RunTypes, RunAside, Ended, storeVars, callVars
<1>9. op'[r] \in {"none", "search"} /\ outcome'[r] = "running" /\ mode'[r] \in Modes
  BY <1>1, <1>6 DEF RunFits, storeVars, callVars
<1> QED
  BY <1>3, <1>4, <1>5, <1>7, <1>8, <1>9, GoesOn

LEMMA FailStageKeeps ==
  ASSUME AllInv, NEW r \in Runs, FailStage(r)
  PROVE  AllInv'
<1>1. outcome[r] = "running" /\ Stage(r) # "retrieve"
  BY DEF FailStage, Stage
<1>2. PICK n \in 1 .. MaxExperts, i \in 1 .. 7 : Here(r, n, i)
  BY <1>1, Somewhere
<1>3. /\ i # Turn(mode[r]) /\ at[r] \in {"idle", "done"} /\ at[r] \in Ended /\ found[r] = {}
      /\ i > Turn(mode[r]) \/ i + 1 <= Turn(mode[r])
  BY <1>1, <1>2, Working
<1>4. CASE Refuse(r)
  BY <1>3, <1>4, RefuseKeeps
<1>5. CASE Stage(r) = "expert" /\ (todo[r][2] = "expert" \/ completed[r] # <<>>) /\ Skip(r)
  <2>1. /\ StageAt(r, n, i)
        /\ mode[r] \in Modes /\ RunFits(r)
        /\ todo[r] \in Seq(StageNames) /\ completed[r] \in Seq(StageNames)
        /\ Progress(mode[r], n, i, todo[r], completed[r])
        /\ Head(todo[r]) = "expert"
    BY <1>2, <1>5 DEF Here
  <2>2. n - 1 \in 1 .. MaxExperts /\ i > Turn(mode[r]) /\ Progress(mode[r], n - 1, i, Tail(todo[r]), completed[r])
    BY <1>5, <2>1, Skipped
  <2>3. /\ todo' = [todo EXCEPT ![r] = Tail(@)]
        /\ UNCHANGED <<storeVars, mode, grounded, completed, searches, chunks, verdict, ledger, outcome, cites>>
    BY <1>5 DEF Skip
  <2>4. todo'[r] = Tail(todo[r]) /\ UNCHANGED <<at, found, op, doc, known, kept>>
    BY <2>3 DEF AllInv, RunTypes, storeVars, callVars
  <2>5. Types' /\ StoreInv'
    BY <2>3, StoreStays DEF AllInv
  <2>6. Tail(todo[r]) \in Seq(StageNames)
    BY <2>1, NowAt
  <2>7. RunTypes'
    BY <2>3, <2>6 DEF AllInv, RunTypes
  <2>8. StageAt(r, n - 1, i)'
    BY <2>1, <2>2, <2>3, <2>4 DEF StageAt
  <2>9. GroundingFits(r)' /\ Covered(r)'
    BY <1>1, <2>1, <2>3, <2>4 DEF RunFits, GroundingFits, Relevant, Sources, Covered, About
  <2>10. \A q \in Runs \ {r} : RunAside(q)
    BY <2>3, <2>4 DEF AllInv, RunTypes, RunAside, Ended
  <2>11. op'[r] \in {"none", "search"} /\ outcome'[r] = "running" /\ mode'[r] \in Modes
    BY <1>1, <2>1, <2>3, <2>4 DEF RunFits
  <2> QED
    BY <2>2, <2>5, <2>7, <2>8, <2>9, <2>10, <2>11, GoesOn
<1> QED
  BY <1>4, <1>5 DEF FailStage

LEMMA VerifierKeeps ==
  ASSUME AllInv, NEW r \in Runs, RunVerifier(r)
  PROVE  AllInv'
<1>1. /\ outcome[r] = "running" /\ Stage(r) = "verifier" /\ Stage(r) # "retrieve" /\ Stage(r) # "writer"
      /\ AnswerStage(r)
      /\ UNCHANGED <<storeVars, mode, grounded, searches, chunks, outcome, cites>>
  BY DEF RunVerifier, Stage
<1>2. PICK n \in 1 .. MaxExperts, i \in 1 .. 7 : Here(r, n, i)
  BY <1>1, Somewhere
<1>3. mode[r] \in Modes /\ RunFits(r)
  BY <1>2 DEF Here
<1>4. i > Turn(mode[r])
  BY <1>1, <1>2, NowAt DEF Here
<1>5. i + 1 \in 1 .. 7 /\ StageAt(r, n, i + 1)'
  BY <1>1, <1>2, <1>4, AnswerAdvances DEF storeVars, callVars
<1>6. Types' /\ StoreInv'
  BY <1>1, StoreStays DEF AllInv
<1>7. \/ UNCHANGED <<verdict, ledger>>
      \/ \E wellFormed, saysPassed \in BOOLEAN, cited \in SUBSET Labels :
           /\ verdict' = [verdict EXCEPT ![r] = Verification(r, wellFormed, saysPassed, cited)]
           /\ ledger' = [ledger EXCEPT ![r] = IF verdict'[r] = "passed" THEN cited ELSE {}]
  BY DEF RunVerifier
<1>8. /\ verdict' \in [Runs -> Verdicts] /\ ledger' \in [Runs -> SUBSET Labels]
      /\ \A q \in Runs \ {r} : verdict'[q] = verdict[q] /\ ledger'[q] = ledger[q]
      /\ verdict'[r] = "passed" => /\ ledger'[r] \subseteq Sources(r)
                                   /\ ledger'[r] = {} => chunks[r] = {}
  <2>1. CASE UNCHANGED <<verdict, ledger>>
    BY <1>3, <2>1 DEF AllInv, RunTypes, RunFits, GroundingFits
  <2>2. ASSUME NEW wellFormed \in BOOLEAN, NEW saysPassed \in BOOLEAN,
               NEW cited \in SUBSET Labels,
               verdict' = [verdict EXCEPT ![r] = Verification(r, wellFormed, saysPassed, cited)],
               ledger' = [ledger EXCEPT ![r] = IF verdict'[r] = "passed" THEN cited ELSE {}]
        PROVE  <1>8!:
    <3> DEFINE word == Verification(r, wellFormed, saysPassed, cited)
    <3>1. word \in {"passed", "not passed"}
      BY DEF Verification
    <3>2. word = "passed" => cited \subseteq Sources(r) /\ (Sources(r) # {} => cited # {})
      BY DEF Verification
    <3>3. Sources(r) = {} => chunks[r] = {}
      BY DEF Sources, Ids
    <3> HIDE DEF word
    <3>5. verdict' = [verdict EXCEPT ![r] = word]
      BY <2>2 DEF word
    <3>6. verdict'[r] = word /\ verdict' \in [Runs -> Verdicts]
      BY <3>1, <3>5 DEF AllInv, RunTypes, Verdicts
    <3>7. ledger'[r] = (IF word = "passed" THEN cited ELSE {}) /\ ledger' \in [Runs -> SUBSET Labels]
      BY <2>2, <3>6 DEF AllInv, RunTypes
    <3>8. \A q \in Runs \ {r} : verdict'[q] = verdict[q] /\ ledger'[q] = ledger[q]
      BY <2>2, <3>5 DEF AllInv, RunTypes
    <3> QED
      BY <3>2, <3>3, <3>6, <3>7, <3>8
  <2> QED
    BY <1>7, <2>1, <2>2
<1>9. RunTypes'
  BY <1>1, <1>2, <1>8, AnswerTypes DEF AllInv, RunTypes
<1>10. GroundingFits(r)' /\ Covered(r)'
  BY <1>1, <1>3, <1>8 DEF RunFits, GroundingFits, Relevant, Sources, Covered, About, storeVars, callVars
<1>11. \A q \in Runs \ {r} : RunAside(q)
  BY <1>1, <1>8 DEF AnswerStage, AllInv, RunTypes, RunAside, Ended, storeVars, callVars
<1>12. op'[r] \in {"none", "search"} /\ outcome'[r] = "running" /\ mode'[r] \in Modes
  BY <1>1, <1>3 DEF RunFits, storeVars, callVars
<1> QED
  BY <1>5, <1>6, <1>9, <1>10, <1>11, <1>12, GoesOn

LEMMA WriterKeeps ==
  ASSUME AllInv, NEW r \in Runs, RunWriter(r)
  PROVE  AllInv'
<1>1. /\ outcome[r] = "running" /\ Stage(r) = "writer" /\ Stage(r) # "retrieve"
      /\ AnswerStage(r)
      /\ outcome' = [outcome EXCEPT ![r] = "answered"]
      /\ UNCHANGED <<storeVars, mode, grounded, searches, chunks, verdict, ledger>>
  BY DEF RunWriter, Stage
<1>2. PICK n \in 1 .. MaxExperts, i \in 1 .. 7 : Here(r, n, i)
  BY <1>1, Somewhere
<1>3. /\ StageAt(r, n, i)
      /\ mode[r] \in Modes /\ RunFits(r)
      /\ todo[r] \in Seq(StageNames) /\ completed[r] \in Seq(StageNames)
      /\ Progress(mode[r], n, i, todo[r], completed[r])
      /\ Stage(r) = Head(todo[r])
  BY <1>2 DEF Here
<1>4. at[r] \in Ended /\ found[r] = {}
  BY <1>1, <1>2, Working
<1>5. i = Len(Pipeline(mode[r], n))
  <2>1. Head(todo[r]) = "writer" <=> i = Len(Pipeline(mode[r], n))
    BY <1>3, WriterIsLast
  <2> QED
    BY <1>1, <1>3, <2>1
<1> DEFINE whole == Pipeline(mode[r], n)
           all == Append(completed[r], Head(todo[r]))
<1>6. /\ i > Turn(mode[r]) /\ Tail(todo[r]) = <<>> /\ Len(all) <= 7
      /\ Turn(mode[r]) \in DOMAIN whole /\ whole[Turn(mode[r])] = "retrieve"
      /\ all = RemoveAt(whole, Turn(mode[r]))
  BY <1>3, <1>5, Finished
<1>7. r \in grounded => at[r] = "done"
  BY <1>3, <1>6 DEF StageAt
<1>8. todo'[r] = <<>> /\ completed'[r] = all /\ outcome'[r] = "answered"
  BY <1>1, <1>6 DEF AnswerStage, AllInv, RunTypes
<1> HIDE DEF all
<1>9. Whole(r)'
  BY <1>1, <1>6, <1>8 DEF Whole
<1>10. PICK written \in SUBSET Labels :
         cites' = [cites EXCEPT ![r] = CleanFinalAnswer(r, written)]
  BY DEF RunWriter
<1>11. CleanFinalAnswer(r, written) \subseteq Labels
  BY DEF CleanFinalAnswer
<1>12. cites' \in [Runs -> SUBSET Labels]
       /\ \A q \in Runs \ {r} : cites'[q] = cites[q]
  BY <1>10, <1>11 DEF AllInv, RunTypes
<1>13. Types' /\ StoreInv'
  BY <1>1, StoreStays DEF AllInv
<1>14. RunTypes'
  <2>1. outcome' \in [Runs -> {"none", "running", "refused", "answered"}]
    BY <1>1 DEF AllInv, RunTypes
  <2> QED
    BY <1>1, <1>2, <1>12, <2>1, AnswerTypes DEF AllInv, RunTypes
<1>15. GroundingFits(r)' /\ Covered(r)'
  BY <1>1, <1>3 DEF RunFits, GroundingFits, Relevant, Sources, Covered, About, storeVars, callVars
<1>16. RunFits(r)'
  <2>1. UNCHANGED <<at, op, found, mode, grounded>>
    BY <1>1 DEF storeVars, callVars
  <2>2. Len(completed'[r]) <= 7
    BY <1>6, <1>8 DEF all
  <2> QED
    BY <1>3, <1>4, <1>7, <1>8, <1>9, <1>15, <2>1, <2>2 DEF RunFits
<1>17. \A q \in Runs \ {r} : RunAside(q)
  BY <1>1, <1>12 DEF AnswerStage, AllInv, RunTypes, RunAside, Ended, storeVars, callVars
<1> QED
  BY <1>13, <1>14, <1>16, <1>17, OneRun DEF AllInv

------------------------------------------------------------------------------
(***************************************************************************)
(* The specification.                                                      *)
(***************************************************************************)
LEMMA InitInv == Init => AllInv
<1> SUFFICES ASSUME Init PROVE AllInv
  OBVIOUS
<1>1. IsFiniteSet({}) /\ Cardinality({}) = 0 /\ 0 <= TopK /\ 0 <= ScanLimit
  BY FS_EmptySet, Limits
<1>2. PICK of \in [1 .. MaxId \ unused -> Docs] : points = {[id |-> i, doc |-> of[i]] : i \in DOMAIN of}
  BY DEF Init, StoreInit
<1>3. points \subseteq Points /\ unused \subseteq 1 .. MaxId /\ PointsFit
  BY <1>2 DEF Init, StoreInit, Points, PointsFit, OneEach
<1>4. Types
  BY <1>3, Calling DEF Init, StoreInit, Types, Ops, Awaits, Ended
<1>5. RunTypes
  <2>1. <<>> \in Seq(StageNames) /\ 0 \in 0 .. 3 /\ "unset" \in Verdicts
    BY EmptySeq DEF Verdicts
  <2> QED
    BY <2>1 DEF Init, RunTypes
<1>6. StoreInv
  <2>1. ASSUME NEW c \in Callers PROVE CallFits(c)
    BY <1>1 DEF Init, StoreInit, CallFits, ReadingFits, ListingFits, SearchFits, Looking, Ended
  <2> QED
    BY <1>3, <2>1 DEF StoreInv
<1>7. RunInv
  <2>1. ASSUME NEW r \in Runs PROVE RunFits(r)
    <3>1. GroundingFits(r)
      BY <1>1 DEF Init, GroundingFits
    <3>2. op[r] = "none" /\ at[r] = "idle" /\ found[r] = {}
      BY Calling DEF Init, StoreInit
    <3> QED
      BY <3>1, <3>2 DEF Init, RunFits, Ended
  <2> QED
    BY <2>1 DEF RunInv
<1> QED
  BY <1>4, <1>5, <1>6, <1>7 DEF AllInv

LEMMA NextInv == AllInv /\ [Next]_vars => AllInv'
<1> SUFFICES ASSUME AllInv, [Next]_vars PROVE AllInv'
  OBVIOUS
<1>1. CASE \E c \in Requests : Ask(c) /\ UNCHANGED runVars
  BY <1>1, AskKeepsAll
<1>2. CASE \E c \in Callers : StoreStep(c) /\ UNCHANGED runVars
  BY <1>2, StoreStepKeepsAll
<1>3. CASE \E r \in Runs : Request(r)
  BY <1>3, RequestKeeps
<1>4. CASE \E r \in Runs : RunStep(r)
  BY <1>4, BeginKeeps, TakeKeeps, FailRetrievalKeeps, StageKeeps, FailStageKeeps, VerifierKeeps, WriterKeeps
  DEF RunStep
<1>5. CASE UNCHANGED vars
  <2>1. Types' /\ StoreInv'
    BY <1>5, StoreStays DEF AllInv, vars
  <2>2. RunTypes'
    BY <1>5 DEF AllInv, RunTypes, vars, runVars
  <2>3. \A r \in Runs : RunAside(r)
    BY <1>5 DEF RunAside, Ended, vars, runVars, storeVars, callVars
  <2>4. RunInv'
    BY <2>3, RunStays DEF AllInv, RunInv, RunAside
  <2> QED
    BY <2>1, <2>2, <2>4 DEF AllInv
<1> QED
  BY <1>1, <1>2, <1>3, <1>4, <1>5 DEF Next

\* gateway/rag/store.py, gateway/agent_orchestration.py: every variable keeps its type,
\* no two points share an identifier, a search reads no more than LEXICAL_SCAN_LIMIT
\* points for its lexical ranking, a run keeps no more than TOP_K chunks, and has no
\* more stages before and behind it than its mode asks for.
THEOREM AgentTypeCorrect == Spec => []AgentTypeOK
<1>1. AllInv => AgentTypeOK
  <2> SUFFICES ASSUME AllInv PROVE AgentTypeOK
    OBVIOUS
  <2>1. StoreTypeOK
    <3>1. ASSUME NEW c \in Callers
          PROVE  /\ found[c] \union scanned[c] \union known[c] \union kept[c] \subseteq Points
                 /\ Cardinality(scanned[c]) <= ScanLimit
      BY DEF AllInv, Types, StoreInv, CallFits, ReadingFits
    <3>2. \A p, q \in points : p.id = q.id => p = q
      BY DEF AllInv, StoreInv, PointsFit, OneEach
    <3> QED
      BY <3>1, <3>2 DEF StoreTypeOK, AllInv, Types, Awaits
  <2>2. ASSUME NEW r \in Runs
        PROVE  /\ Len(todo[r]) + Len(completed[r]) <= 7
               /\ chunks[r] \subseteq Points /\ Cardinality(chunks[r]) <= TopK
    <3>1. RunFits(r) /\ chunks[r] \subseteq Points /\ Len(<<>>) = 0
      BY EmptySeq DEF AllInv, RunInv, RunTypes
    <3>a. Cardinality(chunks[r]) <= TopK
      BY <3>1 DEF RunFits, GroundingFits
    <3>2. CASE outcome[r] = "running"
      <4>1. PICK n \in 1 .. MaxExperts, i \in 1 .. 7 : Here(r, n, i)
        BY <3>2, Somewhere
      <4>2. /\ mode[r] \in Modes
            /\ todo[r] \in Seq(StageNames) /\ completed[r] \in Seq(StageNames)
            /\ Progress(mode[r], n, i, todo[r], completed[r])
        BY <4>1 DEF Here
      <4>3. Len(todo[r]) + Len(completed[r]) <= 7
        BY <4>2, NoMoreThanSeven
      <4> QED
        BY <3>1, <3>a, <4>3
    <3>3. CASE outcome[r] \in {"none", "refused"}
      <4>1. todo[r] = <<>> /\ completed[r] = <<>>
        BY <3>1, <3>3 DEF RunFits
      <4>2. Len(todo[r]) = 0 /\ Len(completed[r]) = 0
        BY <3>1, <4>1
      <4> QED
        BY <3>1, <3>a, <4>2
    <3>4. CASE outcome[r] = "answered"
      <4>1. todo[r] = <<>> /\ Len(completed[r]) <= 7 /\ Len(completed[r]) \in Nat
        BY <3>1, <3>4, LenProperties DEF RunFits, AllInv, RunTypes
      <4> QED
        BY <3>1, <3>a, <4>1
    <3> QED
      BY <3>2, <3>3, <3>4 DEF AllInv, RunTypes
  <2> QED
    BY <2>1, <2>2 DEF AgentTypeOK, AllInv, RunTypes
<1> QED
  BY <1>1, InitInv, NextInv, PTL DEF Spec

\* RagStore.list_documents: while other calls write, a listing page by page lists every
\* document with a chunk that was there all the time, and none that never was.
THEOREM ListingsMissNothingHolds == Spec => []ListingsMissNothing
<1>1. AllInv => ListingsMissNothing
  <2> SUFFICES ASSUME AllInv, NEW c \in Requests, op[c] = "list", at[c] = "done"
               PROVE  kept[c] \subseteq found[c] /\ found[c] \subseteq known[c]
    BY DEF ListingsMissNothing
  <2> QED
    BY Calling DEF AllInv, StoreInv, CallFits, ReadingFits, ListingFits, About
<1> QED
  BY <1>1, InitInv, NextInv, PTL DEF Spec

\* RagStore.search: at most top_k points, all of the document asked for and of the time
\* of the search, and fewer than that only if the document, or the reranker's limit,
\* is too small, whatever is ingested and deleted between its calls of Qdrant.
THEOREM ResultsAreOfTheTimeHolds == Spec => []ResultsAreOfTheTime
<1>1. AllInv => ResultsAreOfTheTime
  <2> SUFFICES ASSUME AllInv, NEW c \in Requests, op[c] = "search", at[c] = "done"
               PROVE  /\ found[c] \subseteq About(c, known[c])
                      /\ Cardinality(found[c]) <= want[c]
                      /\ Cardinality(found[c]) >= Min({want[c], RerankLimit, Cardinality(About(c, kept[c]))})
    BY DEF ResultsAreOfTheTime, About
  <2>1. c \in Callers /\ CallFits(c)
    BY Calling DEF AllInv, StoreInv
  <2>2. /\ found[c] \subseteq About(c, known[c]) /\ Cardinality(found[c]) <= want[c]
        /\ \/ Cardinality(found[c]) >= want[c]
           \/ Cardinality(found[c]) >= RerankLimit
           \/ Cardinality(found[c]) >= Cardinality(About(c, kept[c]))
        /\ IsFiniteSet(found[c]) /\ IsFiniteSet(kept[c])
    BY <2>1 DEF CallFits, ReadingFits, SearchFits
  <2>3. About(c, kept[c]) \subseteq kept[c]
    BY DEF About
  <2>4. Cardinality(found[c]) \in Nat /\ Cardinality(About(c, kept[c])) \in Nat
    BY <2>2, <2>3, Smaller, FS_CardinalityType
  <2>5. want[c] \in Nat /\ RerankLimit \in Nat
    BY <2>1, Limits DEF AllInv, Types
  <2> DEFINE bounds == {want[c], RerankLimit, Cardinality(About(c, kept[c]))}
  <2>6. bounds \in SUBSET Nat /\ bounds # {}
    BY <2>4, <2>5
  <2>7. Min(bounds) \in Nat /\ Min(bounds) <= want[c] /\ Min(bounds) <= RerankLimit
        /\ Min(bounds) <= Cardinality(About(c, kept[c]))
    <3>1. Min(bounds) \in bounds /\ \A y \in bounds : Min(bounds) <= y
      BY <2>6, LeastNatural
    <3> QED
      BY <2>6, <3>1
  <2> HIDE DEF bounds
  <2>8. Cardinality(found[c]) >= Min(bounds)
    BY <2>2, <2>4, <2>5, <2>7
  <2> QED
    BY <2>2, <2>8 DEF bounds
<1> QED
  BY <1>1, InitInv, NextInv, PTL DEF Spec

\* run_agent, _retrieve_grounding: an answer rests on at most TOP_K chunks of the document
\* asked for, of the time of the run.  With use_rag there is none after a search that
\* failed, and none without sources when a chunk of that document was there all through
\* the last search, whatever is ingested and deleted meanwhile.
THEOREM AnswersAreGroundedHolds == Spec => []AnswersAreGrounded
<1>1. AllInv => AnswersAreGrounded
  <2> SUFFICES ASSUME AllInv, NEW r \in Runs, outcome[r] = "answered"
               PROVE  /\ chunks[r] \subseteq Relevant(r) /\ Cardinality(chunks[r]) <= TopK
                      /\ r \in grounded => /\ at[r] = "done"
                                           /\ chunks[r] = {} => About(r, kept[r]) = {}
    BY DEF AnswersAreGrounded, About
  <2>1. RunFits(r)
    BY DEF AllInv, RunInv
  <2> QED
    BY <2>1 DEF RunFits, GroundingFits, Covered
<1> QED
  BY <1>1, InitInv, NextInv, PTL DEF Spec

\* _verification_from_stage: a verified answer has evidence, each label of it that of a
\* chunk of the document asked for, and some if there was any to be had.
THEOREM PassedMeansEvidenceHolds == Spec => []PassedMeansEvidence
<1>1. AllInv => PassedMeansEvidence
  <2> SUFFICES ASSUME AllInv, NEW r \in Runs, outcome[r] = "answered", verdict[r] = "passed"
               PROVE  /\ ledger[r] \subseteq Ids(Relevant(r))
                      /\ ledger[r] = {} => chunks[r] = {}
    BY DEF PassedMeansEvidence
  <2>1. GroundingFits(r)
    BY DEF AllInv, RunInv, RunFits
  <2>2. Sources(r) \subseteq Ids(Relevant(r))
    BY <2>1 DEF GroundingFits, Sources, Ids
  <2> QED
    BY <2>1, <2>2 DEF GroundingFits
<1> QED
  BY <1>1, InitInv, NextInv, PTL DEF Spec

\* _run_graph, _run_adaptive, _run_expert_ensemble: whatever fails, an answer has been
\* through every stage of its mode, but for experts, and never without all of them.
THEOREM AnswersAreWholeHolds == Spec => []AnswersAreWhole
<1>1. AllInv => AnswersAreWhole
  BY DEF AllInv, RunInv, RunFits, Whole, AnswersAreWhole
<1> QED
  BY <1>1, InitInv, NextInv, PTL DEF Spec

==============================================================================
