------------------------------- MODULE ChatProxy -------------------------------
(***************************************************************************)
(* The gateway's calls to Ollama (gateway/client.py): chat completions,    *)
(* streamed or not, and embeddings, on one HTTP client whose pool has a    *)
(* limited number of connections.                                          *)
(*                                                                         *)
(* A stream is opened up to its first line before the caller gets a        *)
(* generator, so that a failure is still a status code.  The generator     *)
(* runs only when its reader asks for the next event; its connection is    *)
(* given back by its finally clause, or by the error paths of the opening. *)
(* Ollama answers in any way at any step.  A line is told apart as blank   *)
(* or no JSON (skipped), no object, silent, with something to say, done.   *)
(***************************************************************************)
EXTENDS Naturals, SequencesExt, FiniteSets

CONSTANTS
  Streams,        \* streamed chat completions
  Posts,          \* other calls: chat completions and embeddings
  Slots           \* connections of the pool

ASSUME ProxyAssumption == Streams \cap Posts = {} /\ Slots \in Nat \ {0}

VARIABLES
  phase,          \* phase[c]: how far call c is
  held,           \* the calls that hold a connection
  first,          \* first[s]: the first line of s, until the generator has handled it
  event,          \* event[s]: the event the reader of s got last, or none
  withUsage,      \* the streams with stream_options.include_usage
  unsent,         \* unsent[s]: chunks the SSE generator has still to yield
  wire            \* wire[s]: the chunks the client of s has got

vars == <<phase, held, first, event, withUsage, unsent, wire>>
outputVars == <<withUsage, unsent, wire>>

Calls == Streams \union Posts
Lines == {"silent", "words", "done"}
Terminal == {"done", "error"}

\* A "ready" generator has not begun; a "dropped" one has no reader and is not closed yet.
Phases == {"new", "queued", "opening", "reading first", "ready", "running",
           "refused", "answered", "closed", "broken", "left", "dropped"}
Chunks == {"delta", "finish", "usage", "[DONE]", "error"}

ProxyTypeOK ==
  /\ phase \in [Calls -> Phases]
  /\ held \subseteq Calls /\ Cardinality(held) <= Slots
  /\ first \in [Streams -> Lines \union {"none"}]
  /\ event \in [Streams -> Terminal \union {"none", "delta"}]
  /\ withUsage \subseteq Streams
  /\ unsent \in [Streams -> {<<>>, <<"delta">>, <<"error">>, <<"[DONE]">>, <<"usage", "[DONE]">>,
                             <<"finish", "[DONE]">>, <<"finish", "usage", "[DONE]">>}]
  /\ \A s \in Streams : \A i \in DOMAIN wire[s] : wire[s][i] \in Chunks

Init ==
  /\ phase = [c \in Calls |-> "new"]
  /\ held = {}
  /\ first = [s \in Streams |-> "none"]
  /\ event = [s \in Streams |-> "none"]
  /\ withUsage \in SUBSET Streams
  /\ unsent = [s \in Streams |-> <<>>]
  /\ wire = [s \in Streams |-> <<>>]

------------------------------------------------------------------------------
(***************************************************************************)
(* The connection of a call.                                               *)
(***************************************************************************)
Move(c, from, to) == phase[c] = from /\ phase' = [phase EXCEPT ![c] = to]

\* A body that cannot be built is refused before anything is sent.
Begin(c) ==
  /\ Move(c, "new", "queued") \/ Move(c, "new", "refused")
  /\ UNCHANGED <<held, first, event, outputVars>>

Connect_Unlimited(c) ==
  /\ Move(c, "queued", "opening")
  /\ held' = held \union {c}
  /\ UNCHANGED <<first, event, outputVars>>

\* The pool has a connection.
Connect(c) ==
  /\ Cardinality(held) < Slots
  /\ Move(c, "queued", "opening")
  /\ held' = held \union {c}
  /\ UNCHANGED <<first, event, outputVars>>

\* No connection within the timeout, if there is one.
GiveUp(c) ==
  /\ Move(c, "queued", "refused")
  /\ UNCHANGED <<held, first, event, outputVars>>

\* proxy_non_streaming, proxy_embeddings: the answer, or one of the refusals
\* (timeout, connect error, an error status, no JSON, not what was asked for).
Post(c) ==
  /\ c \in Posts
  /\ Move(c, "opening", "answered") \/ Move(c, "opening", "refused")
  /\ held' = held \ {c}
  /\ UNCHANGED <<first, event, outputVars>>

\* client.stream and _raise_for_ollama_stream_error.
OpenStream(s) ==
  /\ s \in Streams
  /\ \/ Move(s, "opening", "reading first") /\ UNCHANGED held
     \/ Move(s, "opening", "refused") /\ held' = held \ {s}
  /\ UNCHANGED <<first, event, outputVars>>

ReadFirst_ErrorKeepsConnection(s) ==
  /\ \/ \E line \in Lines : /\ Move(s, "reading first", "ready")
                            /\ first' = [first EXCEPT ![s] = line]
     \/ Move(s, "reading first", "refused") /\ UNCHANGED first
  /\ UNCHANGED <<held, event, outputVars>>

\* The first line that is not blank; without one, or if it is no object, the
\* connection is given back and the call refused.
ReadFirst(s) ==
  /\ \/ /\ \E line \in Lines : first' = [first EXCEPT ![s] = line]
        /\ Move(s, "reading first", "ready")
        /\ UNCHANGED held
     \/ /\ Move(s, "reading first", "refused")
        /\ held' = held \ {s}
        /\ UNCHANGED first
  /\ UNCHANGED <<event, outputVars>>

------------------------------------------------------------------------------
(***************************************************************************)
(* The generator of a stream; the SSE generator asks it for an event when  *)
(* it has yielded all chunks of the last one.                              *)
(***************************************************************************)
ChunksOf_ErrorIsNoEnd(s, ev) ==
  CASE ev = "delta" -> <<"delta">>
    [] ev = "error" -> <<"error", "[DONE]">>
    [] ev = "done" -> <<"finish", "[DONE]">>

ChunksOf(s, ev) ==
  CASE ev = "delta" -> <<"delta">>
    [] ev = "error" -> <<"error">>
    [] ev = "done" -> IF s \in withUsage THEN <<"finish", "usage", "[DONE]">>
                                         ELSE <<"finish", "[DONE]">>

Asked(s) == unsent[s] = <<>>

Yield(s, ev) ==
  /\ event' = [event EXCEPT ![s] = ev]
  /\ unsent' = [unsent EXCEPT ![s] = ChunksOf(s, ev)]
  /\ UNCHANGED <<held, withUsage, wire>>

\* The delta with the role.
Start(s) ==
  /\ Asked(s) /\ Move(s, "ready", "running")
  /\ Yield(s, "delta")
  /\ UNCHANGED first

\* The first line is handled like every other one.
HandleFirst(s) ==
  /\ phase[s] = "running" /\ Asked(s) /\ first[s] # "none"
  /\ first' = [first EXCEPT ![s] = "none"]
  /\ CASE first[s] = "silent" -> UNCHANGED <<held, event, outputVars>>
       [] first[s] = "words" -> Yield(s, "delta")
       [] first[s] = "done" -> Yield(s, "done")
  /\ UNCHANGED phase

\* A later line, its end, a timeout or a connect error: the last three and a
\* line that is no object end the stream with an error event.
ReadLine_AfterDone(s) ==
  /\ phase[s] = "running" /\ Asked(s) /\ first[s] = "none"
  /\ Yield(s, "delta") \/ Yield(s, "done") \/ Yield(s, "error")
  /\ UNCHANGED <<phase, first>>

ReadLine(s) ==
  /\ phase[s] = "running" /\ Asked(s) /\ first[s] = "none"
  /\ event[s] \notin Terminal
  /\ Yield(s, "delta") \/ Yield(s, "done") \/ Yield(s, "error")
  /\ UNCHANGED <<phase, first>>

\* Any other exception of httpx passes through the generator to its reader.
BreakOff(s) ==
  /\ Asked(s) /\ event[s] \notin Terminal /\ first[s] = "none"
  /\ Move(s, "running", "broken")
  /\ held' = held \ {s}
  /\ UNCHANGED <<first, event, outputVars>>

End_KeepsConnection(s) ==
  /\ Asked(s) /\ event[s] \in Terminal
  /\ Move(s, "running", "closed")
  /\ UNCHANGED <<held, first, event, outputVars>>

\* Asked once more after its terminal event, the generator ends.
End(s) ==
  /\ Asked(s) /\ event[s] \in Terminal
  /\ Move(s, "running", "closed")
  /\ held' = held \ {s}
  /\ UNCHANGED <<first, event, outputVars>>

\* A chunk goes out; a delta after a delta is not told apart.
SendChunk(s) ==
  /\ unsent[s] # <<>> /\ phase[s] = "running"
  /\ LET chunk == Head(unsent[s]) IN
     wire' = IF chunk = "delta" /\ wire[s] = <<"delta">> THEN wire
             ELSE [wire EXCEPT ![s] = Append(@, chunk)]
  /\ unsent' = [unsent EXCEPT ![s] = Tail(@)]
  /\ UNCHANGED <<phase, held, first, event, withUsage>>

(***************************************************************************)
(* The reader leaves: a cancelled turn, a client that is gone.  What is    *)
(* cancelled while it waits for Ollama gives its connection back.  A       *)
(* generator that waits for its reader is only dropped, begun or not.      *)
(***************************************************************************)
Leave(s) ==
  /\ \/ Move(s, "queued", "left") /\ UNCHANGED held
     \/ \E from \in {"opening", "reading first", "running"} : Move(s, from, "left") /\ held' = held \ {s}
     \/ \E from \in {"ready", "running"} : Move(s, from, "dropped") /\ UNCHANGED held
  /\ unsent' = [unsent EXCEPT ![s] = <<>>]
  /\ UNCHANGED <<first, event, withUsage, wire>>

\* A dropped generator is freed some time, and the event loop closes it, so that its
\* finally clause runs; of one that has not begun it closes the stream context of httpx.
Collect(s) ==
  /\ Move(s, "dropped", "left")
  /\ held' = held \ {s}
  /\ UNCHANGED <<first, event, outputVars>>

------------------------------------------------------------------------------
Read(s) ==
  \/ OpenStream(s) \/ ReadFirst(s) \/ Start(s) \/ HandleFirst(s)
  \/ ReadLine(s) \/ BreakOff(s) \/ End(s) \/ SendChunk(s)

Next ==
  \/ \E c \in Calls : Begin(c) \/ Connect(c) \/ GiveUp(c)
  \/ \E c \in Posts : Post(c)
  \/ \E s \in Streams : Read(s) \/ Leave(s) \/ Collect(s)

Spec == Init /\ [][Next]_vars

\* The pool serves its queue in order, a reader goes on reading, Ollama answers
\* and every answer ends, and what is dropped is collected.
FairSpec ==
  /\ Spec
  /\ \A c \in Calls : SF_vars(Connect(c))
  /\ \A c \in Posts : WF_vars(Post(c))
  /\ \A s \in Streams : /\ WF_vars(Read(s)) /\ WF_vars(Collect(s))
                         /\ SF_vars(ReadLine(s) /\ event'[s] \in Terminal)

------------------------------------------------------------------------------
(***************************************************************************)
(* Properties.                                                             *)
(***************************************************************************)

\* proxy_streaming over proxy_streaming_events: what the client of a stream has
\* got is always the beginning of one of two stories: deltas, the finish chunk, the
\* usage if it was asked for, [DONE]; or deltas and an error.
WireIsWellFormed ==
  \A s \in Streams :
    \E story \in {<<"delta", "error">>,
                   IF s \in withUsage THEN <<"delta", "finish", "usage", "[DONE]">>
                                      ELSE <<"delta", "finish", "[DONE]">>} :
      IsPrefix(wire[s], story)

\* The error paths of proxy_streaming_events and its generator's finally clause:
\* a connection is held by a call in progress and by a stream that its reader dropped and
\* that is not collected yet, and by nothing else, whatever Ollama has answered.
ConnectionsHaveOwners ==
  held = {c \in Calls : phase[c] \in {"opening", "reading first", "ready", "running", "dropped"}}

\* The shared client: whatever fails and whoever leaves, no call keeps another one from
\* its connection for ever.
CallsGetTheirTurn ==
  \A c \in Calls : phase[c] = "queued" ~> phase[c] # "queued"

(***************************************************************************)
(* The proxy implements the event stream it promises.                      *)
(***************************************************************************)
StatusOf(s) ==
  IF phase[s] \in {"refused", "broken"} THEN phase[s]
  ELSE IF event[s] \in Terminal THEN event[s]
  ELSE IF phase[s] \in {"left", "dropped"} THEN "left"
  ELSE IF event[s] = "delta" THEN "delta"
  ELSE "asked"

Promise == INSTANCE EventStream WITH status <- [s \in Streams |-> StatusOf(s)]

\* Chat route and conversation: every step of the proxy is a step of EventStream.
KeepsItsPromise == Promise!Spec
==============================================================================
