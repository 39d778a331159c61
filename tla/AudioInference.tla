---------------------------- MODULE AudioInference ----------------------------
(***************************************************************************)
(* Speech inference in the gateway (gateway/audio.py) and the two HTTP     *)
(* endpoints on it (gateway/routes/audio.py).                              *)
(*                                                                         *)
(* A call runs on the event loop: it waits for the one permit of its model *)
(* family, hands the work to a thread and waits for the thread.  A call    *)
(* that is cancelled leaves at once, its thread does not: it goes on       *)
(* without an owner.  Threads share the model caches and their load locks. *)
(*                                                                         *)
(* Calls are the HTTP requests and the turns of conversations, each with   *)
(* at most one call of either family.  asyncio.Semaphore is a line whose   *)
(* head holds the permit; a family has one cache key.                      *)
(***************************************************************************)
EXTENDS Naturals, SequencesExt, FiniteSets

CONSTANTS
  Requests,       \* HTTP requests to the audio endpoints
  Turns,          \* the other calls: turns of conversations
  Warm,           \* the thread that loads the models at the start
  Nobody          \* no thread

ASSUME AudioAssumption ==
  /\ Requests \cap Turns = {}
  /\ Warm \notin Requests \union Turns /\ Nobody \notin Requests \union Turns \union {Warm}

VARIABLES
  line,           \* line[f]: the calls at the semaphore of family f
  thread,         \* thread[f][t]: how far the thread of t in family f is
  cached,         \* the families whose model is in the cache
  loader,         \* loader[f]: the thread that holds the load lock of f
  files,          \* the calls whose temporary file exists
  request         \* request[r]: how far HTTP request r is

inferenceVars == <<line, thread, cached, loader, files>>
audioVars == <<inferenceVars, request>>

Families == {"whisper", "chatterbox"}
Calls == Requests \union Turns
Threads == Calls \union {Warm}
Running == {"queued", "unlocked", "loading", "inferring"}
Returned == {"done", "failed"}

AudioTypeOK ==
  /\ \A f \in Families : /\ \A i \in DOMAIN line[f] : line[f][i] \in Calls
                         /\ \A i, j \in DOMAIN line[f] : line[f][i] = line[f][j] => i = j
  /\ thread \in [Families -> [Threads -> {"none"} \union Running \union Returned]]
  /\ cached \subseteq Families
  /\ loader \in [Families -> Threads \union {Nobody}]
  /\ files \subseteq Calls
  /\ request \in [Requests -> {"none", "uploading", "listening", "speaking", "answered"}]

\* lifespan may have started the warm-up.
AudioInit ==
  /\ line = [f \in Families |-> <<>>]
  /\ \E warming \in SUBSET {"whisper"} :
       thread = [f \in Families |-> [t \in Threads |->
                   IF t = Warm /\ f \in warming THEN "queued" ELSE "none"]]
  /\ cached = {} /\ files = {}
  /\ loader = [f \in Families |-> Nobody]
  /\ request = [r \in Requests |-> "none"]

------------------------------------------------------------------------------
(***************************************************************************)
(* The coroutine's side of a call.                                         *)
(***************************************************************************)
In(f, t) == \E i \in DOMAIN line[f] : line[f][i] = t

Join(f, t) == line' = [line EXCEPT ![f] = Append(@, t)]

\* `async with' is left, by return, exception or cancellation.
Without(f, t) ==
  IF In(f, t) THEN RemoveAt(line[f], CHOOSE i \in DOMAIN line[f] : line[f][i] = t)
              ELSE line[f]

\* With the permit: asyncio.to_thread.
Submit(f, t) ==
  /\ line[f] # <<>> /\ Head(line[f]) = t
  /\ thread[f][t] = "none"
  /\ thread' = [thread EXCEPT ![f][t] = "queued"]
  /\ UNCHANGED <<line, cached, loader, files>>

\* The thread has returned, the coroutine goes on.
Return(f, t) ==
  /\ In(f, t) /\ thread[f][t] \in Returned
  /\ line' = [line EXCEPT ![f] = Without(f, t)]
  /\ thread' = [thread EXCEPT ![f][t] = "none"]
  /\ files' = IF f = "whisper" THEN files \ {t} ELSE files
  /\ UNCHANGED <<cached, loader>>

(***************************************************************************)
(* The task of the call is cancelled: whatever it waits for, it leaves the *)
(* line and unlinks its file.  Work the pool has not begun is dropped, a   *)
(* thread that runs is left alone.                                         *)
(***************************************************************************)
Abandon_FileLeft(t) ==
  /\ line' = [f \in Families |-> Without(f, t)]
  /\ thread' = [f \in Families |->
       IF thread[f][t] \in {"queued"} \union Returned
       THEN [thread[f] EXCEPT ![t] = "none"] ELSE thread[f]]
  /\ UNCHANGED <<files, cached, loader>>

Abandon_KeepsPermit(t) ==
  /\ files' = files \ {t}
  /\ thread' = [f \in Families |-> [thread[f] EXCEPT ![t] = "none"]]
  /\ UNCHANGED <<line, cached, loader>>

Abandon(t) ==
  /\ line' = [f \in Families |-> Without(f, t)]
  /\ files' = files \ {t}
  /\ thread' = [f \in Families |->
       IF thread[f][t] \in {"queued"} \union Returned
       THEN [thread[f] EXCEPT ![t] = "none"] ELSE thread[f]]
  /\ UNCHANGED <<cached, loader>>

(***************************************************************************)
(* The thread's side: run_transcription, run_synthesis, warm_audio_models. *)
(* A result stays for the call that waits for it, if one still does.       *)
(***************************************************************************)
Moved(f, t, to) == thread' = [thread EXCEPT ![f][t] = to]

\* The warm-up loads one family after the other, whatever comes of it.
Finished(f, t, how) ==
  IF t = Warm
  THEN thread' = [thread EXCEPT !["whisper"][t] = "done",
                                !["chatterbox"][t] = IF f = "whisper" THEN "queued" ELSE "done"]
  ELSE Moved(f, t, IF In(f, t) THEN how ELSE "none")

HasModel(f, t) == IF t = Warm THEN Finished(f, t, "done") ELSE Moved(f, t, "inferring")

\* The look at the cache without the lock.
Look(f, t) ==
  /\ thread[f][t] = "queued"
  /\ IF f \in cached THEN HasModel(f, t) ELSE Moved(f, t, "unlocked")
  /\ UNCHANGED <<line, cached, loader, files>>

LookAgain_Skipped(f, t) ==
  /\ thread[f][t] = "unlocked" /\ loader[f] = Nobody
  /\ loader' = [loader EXCEPT ![f] = t]
  /\ Moved(f, t, "loading")
  /\ UNCHANGED <<line, cached, files>>

\* The look at the cache with the lock; a hit gives the lock back.
LookAgain(f, t) ==
  /\ thread[f][t] = "unlocked" /\ loader[f] = Nobody
  /\ IF f \in cached
     THEN HasModel(f, t) /\ UNCHANGED loader
     ELSE Moved(f, t, "loading") /\ loader' = [loader EXCEPT ![f] = t]
  /\ UNCHANGED <<line, cached, files>>

\* The model is loaded and cached, or loading raises; either frees the lock.
Load(f, t) ==
  /\ thread[f][t] = "loading"
  /\ loader' = [loader EXCEPT ![f] = Nobody]
  /\ \/ cached' = cached \union {f} /\ HasModel(f, t)
     \/ UNCHANGED cached /\ Finished(f, t, "failed")
  /\ UNCHANGED <<line, files>>

\* Whisper reads the temporary file, which may be gone under an orphan.
Infer(f, t) ==
  /\ thread[f][t] = "inferring"
  /\ \/ (f = "whisper" => t \in files) /\ Finished(f, t, "done")
     \/ Finished(f, t, "failed")
  /\ UNCHANGED <<line, cached, loader, files>>

ThreadStep(f, t) == Look(f, t) \/ LookAgain(f, t) \/ Load(f, t) \/ Infer(f, t)

------------------------------------------------------------------------------
(***************************************************************************)
(* The HTTP endpoints, whose handlers nothing cancels: the body-size       *)
(* middleware hides the disconnect.                                        *)
(***************************************************************************)
Answered(r) == request' = [request EXCEPT ![r] = "answered"]

\* audio_transcriptions: refused, or the upload goes to a temporary file.
AskTranscription(r) ==
  /\ request[r] = "none"
  /\ \/ Answered(r) /\ UNCHANGED files
     \/ request' = [request EXCEPT ![r] = "uploading"] /\ files' = files \union {r}
  /\ UNCHANGED <<line, thread, cached, loader>>

\* _read_upload_to_tempfile: an empty, too large or broken upload is unlinked.
Upload(r) ==
  /\ request[r] = "uploading"
  /\ \/ Answered(r) /\ files' = files \ {r} /\ UNCHANGED line
     \/ /\ request' = [request EXCEPT ![r] = "listening"]
        /\ Join("whisper", r) /\ UNCHANGED files
  /\ UNCHANGED <<thread, cached, loader>>

AskSpeech(r) ==
  /\ request[r] = "none"
  /\ \/ Answered(r) /\ UNCHANGED line
     \/ request' = [request EXCEPT ![r] = "speaking"] /\ Join("chatterbox", r)
  /\ UNCHANGED <<thread, cached, loader, files>>

AnswerRequest(r) ==
  /\ \E f \in Families : Return(f, r)
  /\ Answered(r)

RequestStep(r) ==
  \/ Upload(r) \/ AnswerRequest(r)
  \/ \E f \in Families : Submit(f, r) /\ UNCHANGED request

AudioStep ==
  \/ \E r \in Requests : AskTranscription(r) \/ AskSpeech(r) \/ RequestStep(r)
  \/ \E f \in Families, t \in Threads : ThreadStep(f, t) /\ UNCHANGED request

\* The loop runs every ready task, and the pool every thread; models return.
AudioFairness ==
  /\ \A r \in Requests : WF_audioVars(RequestStep(r))
  /\ \A f \in Families, t \in Threads :
       WF_audioVars(ThreadStep(f, t) /\ UNCHANGED request)

------------------------------------------------------------------------------
(***************************************************************************)
(* Properties.                                                             *)
(***************************************************************************)

\* _load_whisper_model and _load_chatterbox_model: with threads of live calls,
\* of cancelled ones and of the warm-up at the same cache, no model is loaded
\* by two threads at once or again once it is there.
ModelsLoadOnce ==
  \A f \in Families : \A t, u \in Threads :
    thread[f][t] = "loading" => f \notin cached /\ (thread[f][u] = "loading" => t = u)

\* transcribe_with_whisper and its twin, _inference_semaphore: a cancelled call
\* takes nothing from the others.  A call that waits for Whisper has its file, a
\* file has such a call or an upload; and where the threads of two calls use one
\* model at once, at most one of the calls still waits: the others are orphans.
OrphansTakeNothing ==
  /\ files = {t \in Calls : In("whisper", t)} \union {r \in Requests : request[r] = "uploading"}
  /\ \A f \in Families : \A t, u \in Calls :
       thread[f][t] = "inferring" /\ thread[f][u] = "inferring" /\ In(f, t) /\ In(f, u) => t = u
==============================================================================
