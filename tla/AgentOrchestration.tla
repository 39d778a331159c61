-------------------------- MODULE AgentOrchestration --------------------------
(***************************************************************************)
(* The advanced agent endpoint (gateway/agent_orchestration.py) on the     *)
(* document store of module RagStore.                                      *)
(*                                                                         *)
(* A run is one coroutine that goes through the stages of its mode, each   *)
(* one a call of the model, and gathers its grounding by one to three      *)
(* searches.  Of what a model writes, only the source labels in it and the *)
(* verifier's verdict are told apart.  A label is the identifier of a      *)
(* point or an invented one: shaped like a numbered source, or not.        *)
(***************************************************************************)
EXTENDS RagStore, SequencesExt

CONSTANTS
  MaxExperts,     \* bound: experts of an ensemble, two to four (expert_models)
  Numbered,       \* a label like 7 or source-7 that names no point
  Lookalike       \* any other label that names no point

ASSUME AgentAssumption ==
  /\ MaxExperts \in 2 .. 4
  /\ Numbered # Lookalike /\ {Numbered, Lookalike} \cap (1 .. MaxId) = {}

VARIABLES
  mode,           \* mode[r]: mode of the request, or none
  grounded,       \* the runs with use_rag
  todo,           \* todo[r]: the stages r has still to go through
  completed,      \* completed[r]: the stages whose model has answered
  searches,       \* searches[r]: queries r has still to search for
  chunks,         \* chunks[r]: the points retrieved so far
  verdict,        \* verdict[r]: verification_passed of the run, if it has a verdict
  ledger,         \* ledger[r]: the labels in accepted_evidence, if passed
  outcome,        \* outcome[r]: none, running, refused or answered
  cites           \* cites[r]: the labels in the answer

runVars == <<mode, grounded, todo, completed, searches, chunks, verdict, ledger, outcome, cites>>
vars == <<storeVars, runVars>>

Modes == {"graph", "mixture_of_experts", "adaptive"}
Labels == 1 .. MaxId \union {Numbered, Lookalike}
Verdicts == {"unset", "passed", "not passed"}

Ids(S) == {p.id : p \in S}

\* run_agent, _run_graph, _run_expert_ensemble, _run_adaptive
Pipeline(m, experts) ==
  CASE m = "graph" -> <<"retrieve", "planner", "execution", "review", "verifier", "writer">>
    [] m = "mixture_of_experts" ->
         <<"retrieve">> \o [i \in 1 .. experts |-> "expert"] \o <<"verifier", "writer">>
    [] m = "adaptive" ->
         <<"intake", "retrieve", "candidate", "candidate", "candidate", "verifier", "writer">>

AgentTypeOK ==
  /\ StoreTypeOK
  /\ mode \in [Runs -> Modes \union {"none"}]
  /\ grounded \subseteq Runs
  /\ \A r \in Runs : Len(todo[r]) + Len(completed[r]) <= 7
  /\ searches \in [Runs -> 0 .. 3]
  /\ \A r \in Runs : chunks[r] \subseteq Points /\ Cardinality(chunks[r]) <= TopK
  /\ verdict \in [Runs -> Verdicts] /\ ledger \in [Runs -> SUBSET Labels]
  /\ outcome \in [Runs -> {"none", "running", "refused", "answered"}]
  /\ cites \in [Runs -> SUBSET Labels]

Begun == {c \in Requests : op[c] # "none"} \union {r \in Runs : outcome[r] # "none"}

Init ==
  /\ StoreInit
  /\ mode = [r \in Runs |-> "none"] /\ grounded = {}
  /\ todo = [r \in Runs |-> <<>>] /\ completed = [r \in Runs |-> <<>>]
  /\ searches = [r \in Runs |-> 0]
  /\ chunks = [r \in Runs |-> {}]
  /\ verdict = [r \in Runs |-> "unset"] /\ ledger = [r \in Runs |-> {}]
  /\ outcome = [r \in Runs |-> "none"]
  /\ cites = [r \in Runs |-> {}]

------------------------------------------------------------------------------
\* An exception ends the run, and its locals are gone.
Refuse(r) ==
  /\ outcome' = [outcome EXCEPT ![r] = "refused"]
  /\ todo' = [todo EXCEPT ![r] = <<>>]
  /\ completed' = [completed EXCEPT ![r] = <<>>]
  /\ searches' = [searches EXCEPT ![r] = 0]
  /\ chunks' = [chunks EXCEPT ![r] = {}]
  /\ verdict' = [verdict EXCEPT ![r] = "unset"]
  /\ ledger' = [ledger EXCEPT ![r] = {}]
  /\ known' = [known EXCEPT ![r] = {}]
  /\ UNCHANGED <<created, points, unused, callVars, mode, grounded, cites>>

\* A request with too much text, or models that are not approved, is refused.
Request(r) ==
  /\ outcome[r] = "none"
  /\ \/ Refuse(r)
     \/ /\ \E m \in Modes, n \in 2 .. MaxExperts, d \in Docs \union {AnyDoc} :
             /\ outcome' = [outcome EXCEPT ![r] = "running"]
             /\ mode' = [mode EXCEPT ![r] = m]
             /\ todo' = [todo EXCEPT ![r] = Pipeline(m, n)]
             /\ grounded' \in {grounded, grounded \union {r}}
             /\ doc' = [doc EXCEPT ![r] = d]
        /\ UNCHANGED <<created, points, unused, op, at, want, cursor, found, scanned, kept, known,
                       completed, searches, chunks, verdict, ledger, cites>>

Stage(r) == IF outcome[r] = "running" THEN Head(todo[r]) ELSE "none"

(***************************************************************************)
(* _retrieve_grounding                                                     *)
(***************************************************************************)
FewerForTheFirst(n) == IF TopK - (n - 1) > 1 THEN TopK - (n - 1) ELSE 1

Search(r, n, k) ==
  /\ Enter(r, "search", doc[r], k)
  /\ known' = [known EXCEPT ![r] = @ \union points]
  /\ kept' = [kept EXCEPT ![r] = points]
  /\ searches' = [searches EXCEPT ![r] = n]

\* RAG is switched off or there is no text to search for: refused.  The intake
\* may have added up to two queries to the question.
BeginRetrieval(r) ==
  /\ Stage(r) = "retrieve" /\ at[r] = "idle"
  /\ \/ /\ r \notin grounded
        /\ todo' = [todo EXCEPT ![r] = Tail(@)]
        /\ UNCHANGED <<storeVars, mode, grounded, completed, searches, chunks, verdict, ledger, outcome, cites>>
     \/ /\ r \in grounded
        /\ \E n \in 1 .. (IF mode[r] = "adaptive" THEN 3 ELSE 1) : Search(r, n - 1, FewerForTheFirst(n))
        /\ UNCHANGED <<mode, grounded, todo, completed, chunks, verdict, ledger, outcome, cites>>
     \/ r \in grounded /\ Refuse(r)

\* The new points of a result are kept as long as there is room; an expansion
\* brings one point.
TakeResult(r) ==
  /\ Stage(r) = "retrieve" /\ at[r] = "done"
  /\ \E new \in Limited(found[r] \ chunks[r], TopK - Cardinality(chunks[r])) :
       chunks' = [chunks EXCEPT ![r] = @ \union new]
  /\ IF searches[r] = 0 \/ Cardinality(chunks'[r]) >= TopK
     THEN /\ todo' = [todo EXCEPT ![r] = Tail(@)]
          /\ found' = [found EXCEPT ![r] = {}]
          /\ searches' = [searches EXCEPT ![r] = 0]
          /\ UNCHANGED <<created, points, unused, op, at, doc, want, cursor, scanned, known, kept>>
     ELSE Search(r, searches[r] - 1, 1) /\ UNCHANGED todo
  /\ UNCHANGED <<mode, grounded, completed, verdict, ledger, outcome, cites>>

FailRetrieval_GoesOn(r) ==
  /\ Stage(r) = "retrieve" /\ at[r] = "failed"
  /\ todo' = [todo EXCEPT ![r] = Tail(@)]
  /\ UNCHANGED <<storeVars, mode, grounded, completed, searches, chunks, verdict, ledger, outcome, cites>>

\* A search that fails ends the run: no answer without its grounding.
FailRetrieval(r) ==
  /\ Stage(r) = "retrieve" /\ at[r] = "failed"
  /\ Refuse(r)

------------------------------------------------------------------------------
(***************************************************************************)
(* The stages: calls of the model by _run_stage, which fail or answer.     *)
(***************************************************************************)
Sources(r) == Ids(chunks[r])

AnswerStage(r) ==
  /\ completed' = [completed EXCEPT ![r] = Append(@, Head(todo[r]))]
  /\ todo' = [todo EXCEPT ![r] = Tail(@)]

WorkingStages == {"intake", "planner", "execution", "review", "candidate", "expert"}

RunStage(r) ==
  /\ Stage(r) \in WorkingStages
  /\ AnswerStage(r)
  /\ UNCHANGED <<storeVars, mode, grounded, searches, chunks, verdict, ledger, outcome, cites>>

Skip(r) ==
  /\ todo' = [todo EXCEPT ![r] = Tail(@)]
  /\ UNCHANGED <<storeVars, mode, grounded, completed, searches, chunks, verdict, ledger, outcome, cites>>

FailStage_SkipsTheLast(r) ==
  \/ Stage(r) = "expert" /\ Skip(r)
  \/ Stage(r) \notin {"none", "retrieve", "expert"} /\ Refuse(r)

\* An expert that fails with an HTTPException is skipped, unless it was the last one and
\* none answered; any other exception ends the run.
FailStage(r) ==
  /\ Stage(r) \notin {"none", "retrieve"}
  /\ \/ Stage(r) = "expert" /\ (todo[r][2] = "expert" \/ completed[r] # <<>>) /\ Skip(r)
     \/ Refuse(r)

Verification_IgnoresLabels(r, wellFormed, saysPassed, cited) ==
  IF wellFormed /\ saysPassed /\ (Sources(r) # {} => cited # {})
  THEN "passed" ELSE "not passed"

\* _verification_from_stage: what the verifier says counts only in the form asked
\* for, with labels of the grounding only, and with one if there are any.
Verification(r, wellFormed, saysPassed, cited) ==
  IF wellFormed /\ saysPassed /\ cited \subseteq Sources(r) /\ (Sources(r) # {} => cited # {})
  THEN "passed" ELSE "not passed"

\* Only the adaptive mode reads the verdict.
RunVerifier(r) ==
  /\ Stage(r) = "verifier"
  /\ AnswerStage(r)
  /\ \E wellFormed, saysPassed \in BOOLEAN, cited \in SUBSET Labels :
       IF mode[r] # "adaptive" THEN UNCHANGED <<verdict, ledger>>
       ELSE /\ verdict' = [verdict EXCEPT ![r] = Verification(r, wellFormed, saysPassed, cited)]
            /\ ledger' = [ledger EXCEPT ![r] = IF verdict'[r] = "passed" THEN cited ELSE {}]
  /\ UNCHANGED <<storeVars, mode, grounded, searches, chunks, outcome, cites>>

\* _clean_final_answer takes out what is numbered and was not supplied by retrieval.  Any
\* other label stays: it may be prose, and it may be a point retrieval did not supply.
CleanFinalAnswer(r, written) == {label \in written : label \in Sources(r) \/ label # Numbered}

RunWriter(r) ==
  /\ Stage(r) = "writer"
  /\ AnswerStage(r)
  /\ outcome' = [outcome EXCEPT ![r] = "answered"]
  /\ \E written \in SUBSET Labels :
       cites' = [cites EXCEPT ![r] = CleanFinalAnswer(r, written)]
  /\ UNCHANGED <<storeVars, mode, grounded, searches, chunks, verdict, ledger>>

RunStep(r) ==
  \/ BeginRetrieval(r) \/ TakeResult(r) \/ FailRetrieval(r)
  \/ RunStage(r) \/ FailStage(r) \/ RunVerifier(r) \/ RunWriter(r)

------------------------------------------------------------------------------
Next ==
  \/ Cardinality(Begun) < MaxCalls /\ \E c \in Requests : Ask(c) /\ UNCHANGED runVars
  \/ \E c \in Callers : StoreStep(c) /\ UNCHANGED runVars
  \/ Cardinality(Begun) < MaxCalls /\ \E r \in Runs : Request(r)
  \/ \E r \in Runs : RunStep(r)

Spec == Init /\ [][Next]_vars

------------------------------------------------------------------------------
(***************************************************************************)
(* Properties.                                                             *)
(***************************************************************************)
Relevant(r) == {p \in known[r] : doc[r] \in {AnyDoc, p.doc}}

\* run_agent, _retrieve_grounding: `keeping source identity stable through all
\* deliberation', while documents come and go.  The sources an answer names were chunks of
\* the document asked for while the run searched, at most TOP_K.  With use_rag there is no
\* answer of a run whose search has failed, and none without sources if a chunk of that
\* document was there from the beginning of the last search to its end.
AnswersAreGrounded ==
  \A r \in Runs : outcome[r] = "answered" =>
    /\ chunks[r] \subseteq Relevant(r) /\ Cardinality(chunks[r]) <= TopK
    /\ r \in grounded => /\ at[r] = "done"
                         /\ chunks[r] = {} => ~\E p \in kept[r] : doc[r] \in {AnyDoc, p.doc}

\* _clean_final_answer: `Remove private markup and citations that were not supplied by
\* retrieval.'  A point that an answer cites is one of its sources.
CitationsAreSupplied ==
  \A r \in Runs : outcome[r] = "answered" => cites[r] \cap (1 .. MaxId) \subseteq Sources(r)

\* _verification_from_stage: `fail closed'.  A verified answer rests on evidence whose
\* every label is a chunk of the document asked for, and on some if there was any.
PassedMeansEvidence ==
  \A r \in Runs : outcome[r] = "answered" /\ verdict[r] = "passed" =>
    /\ ledger[r] \subseteq Ids(Relevant(r))
    /\ ledger[r] = {} => chunks[r] = {}

\* _run_graph, _run_adaptive, _run_expert_ensemble: an answer has been through every stage
\* of its mode; only experts may have failed, and never all of them.
AnswersAreWhole ==
  \A r \in Runs : outcome[r] = "answered" =>
    \E n \in 1 .. MaxExperts : \E i \in DOMAIN Pipeline(mode[r], n) :
      /\ Pipeline(mode[r], n)[i] = "retrieve"
      /\ completed[r] = RemoveAt(Pipeline(mode[r], n), i)
==============================================================================
