------------------------------- MODULE RagStore -------------------------------
(***************************************************************************)
(* The document store of the gateway (gateway/rag/store.py) behind the     *)
(* document endpoints (gateway/routes/documents.py): a collection of       *)
(* points in Qdrant, one for each chunk of a document.                     *)
(*                                                                         *)
(* Every call is a coroutine that awaits Qdrant, the embedding model or    *)
(* the reranker several times, and other calls run in between.  A point    *)
(* gets a fresh random identifier; what its text says, and how well it     *)
(* matches a query, is told apart from nothing, so that every selection a  *)
(* ranking may make is allowed.                                            *)
(***************************************************************************)
EXTENDS Naturals, FiniteSetsExt

CONSTANTS
  Requests,       \* bound: calls of the document endpoints, one each
  Runs,           \* agent runs, which search
  Docs,           \* document_id values
  AnyDoc,         \* no filter
  MaxCalls,       \* bound: calls and runs of one behaviour
  MaxId,          \* bound: point identifiers
  PageSize,       \* points of a scroll page, 256 in the code
  ScanLimit,      \* LEXICAL_SCAN_LIMIT
  Hybrid,         \* HYBRID_CANDIDATES
  RerankLimit,    \* RERANK_CANDIDATES
  TopK            \* TOP_K

ASSUME RagAssumption ==
  /\ Requests \cap Runs = {} /\ AnyDoc \notin Docs
  /\ {MaxCalls, MaxId, PageSize, ScanLimit, Hybrid, RerankLimit, TopK} \subseteq Nat \ {0}
  /\ RerankLimit <= Hybrid

VARIABLES
  created,        \* the collection exists
  points,         \* the points, records of an identifier and a document
  unused,         \* identifiers no point has had
  op,             \* op[c]: what c is doing
  at,             \* at[c]: which await of it c is at
  doc,            \* doc[c]: the document it is about, or AnyDoc
  want,           \* want[c]: top_k of a search
  cursor,         \* cursor[c]: the offset of the next page
  found,          \* found[c]: points selected so far, in the end the result
  scanned,        \* scanned[c]: points read for the lexical ranking
  known,          \* history: known[c]: points that were there since c began
  kept            \* history: kept[c]: those that have been there all the time

callVars == <<op, at, doc, want, cursor, found, scanned, kept>>
storeVars == <<created, points, unused, callVars, known>>

Callers == Requests \union Runs
Points == [id : 1 .. MaxId, doc : Docs]
Ops == {"none", "ingest", "delete", "list", "search"}
Ended == {"idle", "done", "failed"}

StoreTypeOK ==
  /\ created \in BOOLEAN
  /\ points \subseteq Points /\ unused \subseteq 1 .. MaxId
  /\ \A p, q \in points : p.id = q.id => p = q
  /\ op \in [Callers -> Ops]
  /\ at \in [Callers -> Ended \union {"checking", "creating", "working", "scrolling", "ranking"}]
  /\ doc \in [Callers -> Docs \union {AnyDoc}]
  /\ want \in [Callers -> 0 .. TopK]
  /\ cursor \in [Callers -> 1 .. MaxId]
  /\ \A c \in Callers : /\ found[c] \union scanned[c] \union known[c] \union kept[c] \subseteq Points
                        /\ Cardinality(scanned[c]) <= ScanLimit

\* The collection outlives the gateway: it holds what earlier calls have left.
StoreInit ==
  /\ created \in BOOLEAN
  /\ unused \in SUBSET (1 .. MaxId)
  /\ created = FALSE => unused = 1 .. MaxId
  /\ \E of \in [1 .. MaxId \ unused -> Docs] : points = {[id |-> i, doc |-> of[i]] : i \in DOMAIN of}
  /\ op = [c \in Callers |-> "none"]
  /\ at = [c \in Callers |-> "idle"]
  /\ doc = [c \in Callers |-> AnyDoc]
  /\ want = [c \in Callers |-> 0]
  /\ cursor = [c \in Callers |-> 1]
  /\ found = [c \in Callers |-> {}]
  /\ scanned = [c \in Callers |-> {}]
  /\ known = [c \in Callers |-> {}]
  /\ kept = [c \in Callers |-> {}]

------------------------------------------------------------------------------
Limited(S, limit) == {T \in SUBSET S : Cardinality(T) = IF Cardinality(S) < limit THEN Cardinality(S) ELSE limit}

Matching(c) == {p \in points : doc[c] \in {AnyDoc, p.doc}}

\* A call begins with a look for the collection.
Enter(c, o, d, k) ==
  /\ op' = [op EXCEPT ![c] = o]
  /\ at' = [at EXCEPT ![c] = "checking"]
  /\ doc' = [doc EXCEPT ![c] = d]
  /\ want' = [want EXCEPT ![c] = k]
  /\ cursor' = [cursor EXCEPT ![c] = 1]
  /\ found' = [found EXCEPT ![c] = {}]
  /\ scanned' = [scanned EXCEPT ![c] = {}]
  /\ UNCHANGED <<created, points, unused>>

\* ingest_document, delete_document, list_documents, search_documents; what
\* they refuse does not touch the store.
Ask(c) ==
  /\ op[c] = "none"
  /\ \/ /\ \E o \in {"ingest", "delete"}, d \in Docs : Enter(c, o, d, 0)
        /\ UNCHANGED <<known, kept>>
     \/ /\ \/ Enter(c, "list", AnyDoc, 0)
           \/ \E d \in Docs \union {AnyDoc}, k \in 1 .. TopK : Enter(c, "search", d, k)
        /\ known' = [known EXCEPT ![c] = points]
        /\ kept' = [kept EXCEPT ![c] = points]

\* ensure_collection: the look ...
CheckCollection(c) ==
  /\ at[c] = "checking"
  /\ at' = [at EXCEPT ![c] = IF created THEN "working" ELSE "creating"]
  /\ UNCHANGED <<created, points, unused, op, doc, want, cursor, found, scanned, known, kept>>

\* ... and the creation, which fails if another call was faster.
CreateCollection(c) ==
  /\ at[c] = "creating"
  /\ created' = TRUE
  /\ at' = [at EXCEPT ![c] = IF created THEN "failed" ELSE "working"]
  /\ UNCHANGED <<points, unused, op, doc, want, cursor, found, scanned, known, kept>>

\* Qdrant or the embedding model fails; the reranker's failure is no failure.
BreakDown(c) ==
  /\ at[c] \notin Ended \union {"ranking"}
  /\ at' = [at EXCEPT ![c] = "failed"]
  /\ UNCHANGED <<created, points, unused, op, doc, want, cursor, found, scanned, known, kept>>

Upsert_NumbersItsChunks(c) ==
  /\ op[c] = "ingest" /\ at[c] = "working"
  /\ \E n \in 1 .. MaxId : points' = points \union {[id |-> i, doc |-> doc[c]] : i \in 1 .. n}
  /\ at' = [at EXCEPT ![c] = "done"]
  /\ UNCHANGED <<created, unused, op, doc, want, cursor, found, scanned, known, kept>>

\* ingest_chunks, after the embedding: one upsert for all chunks.
Upsert(c) ==
  /\ op[c] = "ingest" /\ at[c] = "working"
  /\ \E ids \in SUBSET unused \ {{}} :
       LET new == {[id |-> i, doc |-> doc[c]] : i \in ids} IN
       /\ points' = points \union new
       /\ unused' = unused \ ids
       /\ known' = [d \in Callers |-> IF op[d] \in {"list", "search"} /\ at[d] \notin Ended
                                           THEN known[d] \union new ELSE known[d]]
  /\ at' = [at EXCEPT ![c] = "done"]
  /\ UNCHANGED <<created, op, doc, want, cursor, found, scanned, kept>>

Erase(c) ==
  /\ op[c] = "delete" /\ at[c] = "working"
  /\ points' = points \ Matching(c)
  /\ kept' = [d \in Callers |-> IF at[d] \in Ended THEN kept[d] ELSE kept[d] \ Matching(c)]
  /\ at' = [at EXCEPT ![c] = "done"]
  /\ UNCHANGED <<created, unused, op, doc, want, cursor, found, scanned, known>>

------------------------------------------------------------------------------
(***************************************************************************)
(* Scrolling: a page holds the matching points from the offset on, in the  *)
(* order of their identifiers, and comes with the identifier of the next   *)
(* one, if there is one.                                                   *)
(***************************************************************************)
From(c) == {p \in Matching(c) : p.id >= cursor[c]}

Page(c, size) == {p \in From(c) : Cardinality({q \in From(c) : q.id < p.id}) < size}

Offset(c, page) == Min({p.id : p \in From(c) \ page})

ListPage_FirstOnly(c) ==
  /\ op[c] = "list" /\ at[c] = "working"
  /\ found' = [found EXCEPT ![c] = Page(c, PageSize)]
  /\ at' = [at EXCEPT ![c] = "done"]
  /\ UNCHANGED <<created, points, unused, op, doc, want, cursor, scanned, known, kept>>

ListPage(c) ==
  /\ op[c] = "list" /\ at[c] = "working"
  /\ LET page == Page(c, PageSize) IN
     /\ found' = [found EXCEPT ![c] = @ \union page]
     /\ IF page = From(c)
        THEN at' = [at EXCEPT ![c] = "done"] /\ UNCHANGED cursor
        ELSE cursor' = [cursor EXCEPT ![c] = Offset(c, page)] /\ UNCHANGED at
  /\ UNCHANGED <<created, points, unused, op, doc, want, scanned, known, kept>>

CandidateLimit(c) == IF want[c] > Hybrid THEN want[c] ELSE Hybrid

SearchDense_NoFilter(c) ==
  /\ op[c] = "search" /\ at[c] = "working"
  /\ \E near \in Limited(points, CandidateLimit(c)) : found' = [found EXCEPT ![c] = near]
  /\ at' = [at EXCEPT ![c] = "scrolling"]
  /\ UNCHANGED <<created, points, unused, op, doc, want, cursor, scanned, known, kept>>

\* search: the nearest points, after the embedding of the query.
SearchDense(c) ==
  /\ op[c] = "search" /\ at[c] = "working"
  /\ \E near \in Limited(Matching(c), CandidateLimit(c)) : found' = [found EXCEPT ![c] = near]
  /\ at' = [at EXCEPT ![c] = "scrolling"]
  /\ UNCHANGED <<created, points, unused, op, doc, want, cursor, scanned, known, kept>>

\* _lexical_points
SearchPage(c) ==
  /\ at[c] = "scrolling"
  /\ LET room == ScanLimit - Cardinality(scanned[c])
         page == Page(c, IF PageSize < room THEN PageSize ELSE room)
     IN /\ scanned' = [scanned EXCEPT ![c] = @ \union page]
        /\ IF page = From(c) \/ Cardinality(scanned'[c]) >= ScanLimit
           THEN at' = [at EXCEPT ![c] = "ranking"] /\ UNCHANGED cursor
           ELSE cursor' = [cursor EXCEPT ![c] = Offset(c, page)] /\ UNCHANGED at
  /\ UNCHANGED <<created, points, unused, op, doc, want, found, known, kept>>

\* _bm25_candidates, which leaves out what has no word of the query, _rrf_fuse
\* and rerank, or the fused order if it fails.
SearchRank(c) ==
  /\ at[c] = "ranking"
  /\ \E lexical \in {S \in SUBSET scanned[c] : Cardinality(S) <= CandidateLimit(c)} :
     \E reranked \in Limited(found[c] \union lexical, RerankLimit) :
     \E best \in Limited(reranked, want[c]) : found' = [found EXCEPT ![c] = best]
  /\ scanned' = [scanned EXCEPT ![c] = {}]
  /\ at' = [at EXCEPT ![c] = "done"]
  /\ UNCHANGED <<created, points, unused, op, doc, want, cursor, known, kept>>

StoreStep(c) ==
  \/ CheckCollection(c) \/ CreateCollection(c) \/ BreakDown(c) \/ Upsert(c) \/ Erase(c)
  \/ ListPage(c) \/ SearchDense(c) \/ SearchPage(c) \/ SearchRank(c)

------------------------------------------------------------------------------
(***************************************************************************)
(* Properties.                                                             *)
(***************************************************************************)

\* list_documents scrolls while other calls write: a document with a chunk that was
\* there from the beginning of the listing to its end is listed, and nothing is
\* listed that was never there.
ListingsMissNothing ==
  \A c \in Requests : op[c] = "list" /\ at[c] = "done" =>
    /\ {p.doc : p \in kept[c]} \subseteq {p.doc : p \in found[c]}
    /\ found[c] \subseteq known[c]

\* search reads the collection two or more times: its result is at most top_k points
\* of the document asked for that were there while it ran, and it comes up short only
\* if that document had too few points, or the reranker's limit is too small.
ResultsAreOfTheTime ==
  \A c \in Requests : op[c] = "search" /\ at[c] = "done" =>
    LET relevant(S) == {p \in S : doc[c] \in {AnyDoc, p.doc}} IN
    /\ found[c] \subseteq relevant(known[c])
    /\ Cardinality(found[c]) <= want[c]
    /\ Cardinality(found[c]) >= Min({want[c], RerankLimit, Cardinality(relevant(kept[c]))})
==============================================================================
