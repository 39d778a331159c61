# Local-AI-API in TLA+

Local-AI-API is a self-hosted AI stack: a gateway in front of a local model, a
repo-ops service in which agents change disposable Git workspaces, and a lab
controller that hands out long-running jobs to workers. This directory holds
TLA+ models of the parts whose correctness depends on order, failure or time,
TLC configurations that check them on small instances, and proofs about them
that TLAPS checks for all instances.

1. [The system and its components](#1-the-system-and-its-components)
2. [The modules](#2-the-modules)
3. [Runs: what is checked, with which bounds](#3-runs)
4. [Proofs](#4-proofs)
5. [Where code and documents differ](#5-where-code-and-documents-differ)
6. [What is not modelled](#6-what-is-not-modelled)
7. [Plan](#7-plan)

To check everything: `tlc -config X.cfg M` for every row of section 3, and
`tlapm M.tla` for the eight modules `*Proofs`.

## 1. The system and its components

### Lab controller (`src/lab_controller/database.py`, `main.py`)

*State.* A SQLite file with tables `jobs`, `job_attempts`, `workers` and
`events` (append-only). Nothing is kept in memory.
*Operations.* `create_job`, `register_worker`, `claim_next_job` (two
transactions: reap, then lease), `heartbeat_attempt`, `complete_attempt`,
`reap_expired_leases`, each a `BEGIN IMMEDIATE` transaction of its own; the
reaper loop of `main.py` calls the last one every five seconds and at startup.
*Interaction.* HTTP requests of operators (submit) and workers (the rest), on a
thread pool: any number of methods run at once and SQLite takes their
transactions one at a time.
*Hard.* The clock is read before the transaction waits for the database lock;
times are compared as texts; leases end while requests are on their way; a claim
is two transactions; submissions are retried; the process may be killed anywhere.
*Correct if* a job has at most one active attempt and a worker at most one job,
late requests of a former holder change nothing, retry budgets hold, a key keeps
its meaning, jobs are served by priority and age, the log tells what happened.

### Repo-ops lab worker (`src/lab_controller/repo_ops_worker.py`)

*State.* A process with a polling main thread and, while it prepares a
workspace, a heartbeat thread; directories in the workspace root that outlive it.
*Operations.* `run_forever`, `run_once`, `_HeartbeatMonitor`,
`_prepare_workspace`, the HTTP client (15 second timeout, no retry).
*Interaction.* The controller by HTTP; repo-ops by creating a workspace named
after job and attempt.
*Hard.* A request its client has given up on may still be served; the join of
the heartbeat thread may time out; a crash at any step leaves lease and directory.
*Correct if* what the ledger says was done was done, one worker makes one
workspace, a worker whose heartbeat failed does not complete, orphans are
bounded by the retry budget, and every job ends.

### Repo-ops workspaces and the lifecycle sweeper (`src/repo_ops/core.py`, `lifecycle.py`)

*State.* One directory per live workspace, one JSON lifecycle record per task,
archive directories with signed manifests, a tombstone log.
*Operations.* `create_workspace`, `_touch_activity`, `renew_workspace_lease`,
`pause_workspace`, `archive_workspace`, `mark_review_ready`,
`restore_workspace`, `cleanup_workspaces`.
*Interaction.* The MCP service, the lab worker and the sweeper are separate
processes on the same files, without a lock.
*Hard.* Load, change and save are three steps; an archive, a removal and a save
are three steps; a sweep that raises ends the sweeper process.
*Correct if* no task loses both its worktree and its archive, and every stale
workspace is archived in the end. That an ended record is never revived by a late
save would be a fourth criterion; without a lock the code does not meet it, and no
property claims it. What is claimed is that the work survives such a save.

### Autonomous runs (`src/repo_ops/autonomy.py`, `core.py`)

*State.* One JSON record per run: state, budgets, evaluations, stop reason.
*Operations.* start, status (applies the budgets), pause, resume, stop, progress,
evaluate. *Hard.* `evaluate_workspace` keeps a loaded record across checks of up
to ten minutes each and the archive of a candidate, and saves it at the end;
evaluations are cut off and repeated. *Correct if* a candidate has passed on the
very version archived, and plateaus end a run. That the runtime limit ends a run,
too, is modelled (`Status`) but claimed by no property: an evaluation saves over it
(section 5).

### Preview and verification queues (`src/repo_ops/preview_worker.py`, `core.py`)

*State.* A file per queued job and per result, named after the task (previews)
or a fresh identifier (checks). *Hard.* The worker removes a job by name after
serving it; a waiting service times out; results are written in place.
*Correct if* every request is served or reported failed, and a check's evidence
is that of its own request.

### Candidate promotion and sandbox release (`src/agent_learning/promotion.py`, `src/scripts/sandbox_release.py`)

*State.* The user's checkout (branches, the one checked out, uncommitted
changes), rollback tags, `promotions.jsonl`, candidate manifests, `release.json`,
main of origin.
*Operations.* verify, promote (check, build in a worktree of its own, check, tag,
fast-forward, audit), stage, approve (promote, push, record).
*Interaction.* Every step is a git command in a checkout in which its user and
other invocations work, too; nothing is locked.
*Hard.* A kill or a failure between any two commands; the checkout changes
between the last look at it and the merge; two promotions of one candidate.
*Correct if* every revision promoted can be undone by its rollback tag, the
audit names what was merged and nothing else, no revision of the user is lost,
what is called published is on origin.

### Speech conversation and audio inference (`src/gateway/routes/conversation.py`, `src/gateway/audio.py`)

*State.* Per connection: audio buffer, configuration, the running response task,
message history. Process-wide: loaded models, their load locks, one inference
semaphore per model family; temporary files.
*Operations.* The control frames (start, audio, commit, clear, cancel, close), the
response task of a turn (transcribe, stream, synthesize), two HTTP endpoints,
the warm-up thread.
*Hard.* Cancelling a task does not stop its thread: semaphore and temporary file
are given back while the thread still uses them; a client may be told of a
cancellation before or after the last event of the turn; models are loaded by
whichever thread comes first.
*Correct if* one turn runs at a time and ends once for its client, the history
is what the client was told, a model is loaded once, a cancelled call takes
nothing from another one, and every turn and request is answered.

### Chat proxy and streaming (`src/gateway/client.py`, `src/gateway/routes/chat.py`)

*State.* One HTTP client with a pool of connections; per stream: its first line,
the terminal event, the chunks on their way out.
*Hard.* A stream is opened and read up to its first line before there is a
generator to clean up after it; Ollama may fail at any line; a reader may leave
at any await. *Correct if* a stream delivers deltas and then one terminal event,
or breaks off; what goes over the wire is a well-formed beginning of an SSE
answer; connections come back, and every call gets one.

### RAG store and chunker (`src/gateway/rag`, `src/gateway/routes/documents.py`)

*State.* A Qdrant collection, one point per chunk. *Operations.* ingest, delete,
list, search, each several awaits long. *Hard.* Calls write while others scroll;
two first calls create the collection. *Correct if* a listing misses no document
that was there all the time, and a search returns points of its own time and
document only.

### Agent orchestration (`src/gateway/agent_orchestration.py`)

*State.* That of one coroutine: stages still to do, sources, verdict.
*Hard.* A stage, a search or the form of the verifier's answer fails; documents
go while the run deliberates on them. *Correct if* no answer is called verified
without evidence, none is given without the grounding asked for, none skips
a stage of its mode, and none cites what retrieval did not supply (it may, section 5).

### Others

Job schema (`lab_controller/models.py`: validation), learning records and
candidates (append-only data), repo-ops MCP tools and UI audit (wrappers),
gateway application, authentication and MCP server (request plumbing),
evaluation runners, installers and scripts, the Agent Zero overlay (display).
`PROJECT.json` lists them all with their status and reason.

## 2. The modules

| module | models | extends or instantiates |
| --- | --- | --- |
| `IsoTime` | `_iso_now`, `_iso_after`: timestamps, the order of time and the order of their texts | |
| `JobLedger` | what the controller promises: submit, claim, start, finish, lose | |
| `LabController` | `ControllerDatabase`, the reaper loop, restarts | `IsoTime`, instance of `JobLedger` |
| `MCLabController` | constants, symmetry and view for TLC | `LabController` |
| `LabControllerProofs` | the order of timestamps, the tables, the log, what no step does, the refinement | `LabController` |
| `LabWorker` | the worker's threads and requests, against the ledger | `JobLedger` |
| `MCLabWorker` | constants for TLC | `LabWorker` |
| `LabWorkerProofs` | that the ledger is true and jobs go as drawn | `LabWorker` |
| `RepoWorkspaces` | the workspace calls of `RepoOpsManager` in several processes, and the sweeper | |
| `MCRepoWorkspaces` | constants for TLC | `RepoWorkspaces` |
| `RepoWorkspacesProofs` | that work is kept, archives have their time and expiries are buried | `RepoWorkspaces` |
| `AutonomousRun` | one autonomous run with its evaluations and previews, and the worker behind the two file queues | |
| `MCAutonomousRun` | constants for TLC | `AutonomousRun` |
| `AutonomousRunProofs` | plateaus, candidates, the preview shown | `AutonomousRun` |
| `AudioInference` | calls, threads, models and files of `audio.py`, and its HTTP endpoints | |
| `Conversation` | the receive loop and the response task of a connection | `AudioInference` |
| `MCConversation` | the turns of each connection, for TLC | `Conversation` |
| `ConversationProofs` | inference and its orphans, the turns, the history | `Conversation` |
| `EventStream` | what a stream of completion events promises its reader | |
| `ChatProxy` | `client.py`: the pool, the opening of a stream, its generator, the SSE chunks | instance of `EventStream` |
| `ChatProxyProofs` | types, ownership of connections, the wire, the refinement | `ChatProxy` |
| `RagStore` | the calls of `rag/store.py`, await by await | |
| `AgentOrchestration` | a run of the advanced agent on the store | `RagStore` |
| `MCAgentOrchestration` | symmetry for TLC | `AgentOrchestration` |
| `AgentProofs` | the answers of the store and of the agents | `AgentOrchestration` |
| `Promotion` | `promote`, `stage`, `approve`, the user beside them | |
| `MCPromotion` | symmetry for TLC | `Promotion` |
| `PromotionProofs` | types, rollback tags, audit and publication, that nothing is lost | `Promotion` |

The controller and its workers are composed through the ledger. `LabController`
is checked to implement `JobLedger` (property `ImplementsLedger`, with a
refinement mapping that forgets clocks, leases, logs and worker rows), and
`LabWorker` runs the worker's protocol against `JobLedger` itself. A worker then
sees every behaviour the controller can show, and the state of eleven table
columns does not multiply with that of the threads. The chat proxy and the
conversation are composed in the same way: `ChatProxy` implements `EventStream`,
and `Conversation` takes the stream of a turn to be one. `Conversation` and
`AgentOrchestration` extend the modules of what they share (models and permits;
the collection), so that their runs interleave with other users of it.

### LabController

One action per transaction. `jobs`, `attempts`, `workers` and `events` are the
tables (a row that does not exist is in state `absent`); the column
`fence_token` is kept although it always equals the attempt number, since the
code computes it (`NextFence`) and compares it (`ActiveAttempt`).

| action | code |
| --- | --- |
| `SubmitJob` | `create_job`; a repeated key reads only, so it is no step |
| `RegisterWorker` | `register_worker`; a busy or draining worker keeps its state |
| `ReaperTurn` | `reap_expired_leases`, from the loop or at startup |
| `BeginClaim`, `ClaimJob`, `ClaimNothing` | `claim_next_job`: reap, read the clock again, lease or not; `claims` holds those in between |
| `Heartbeat`, `Complete` | `heartbeat_attempt`, `complete_attempt` with `_active_attempt` and the lease test |
| `Restart` | the process is killed and comes back: open claims are forgotten |
| `Tick` | the wall clock shows its next instant |

A method reads the clock before its transaction has the lock. `now` ranges over
all readings of at most `MaxWait` seconds ago (SQLite's `timeout=5.0`), but not
before what the caller must have known: a claim's second reading follows its
reaping, a heartbeat follows the answer to its claim (`known_at`, an auxiliary
variable). The lease end is computed from a second reading, `issued`.

Timestamps are texts in the code, compared as texts in SQL and in Python. Since
`isoformat()` leaves the fraction out on a whole second and `.` sorts before
`Z`, text order is not time order. `IsoTime` models an instant as second and
fraction and the text order by `FractionRank`; `TextLess` is what every guard
uses, while `Earlier` is what the properties speak of.

### LabWorker

`pc` is the main thread (`polling`, `claiming`, `starting`, `preparing`,
`stopping`, `reporting`, `down`), `monitor` the heartbeat thread, `claim` the
attempt in hand. A request that is answered in time is one step together with
the controller's step. One that is not fails at the worker (`GiveUp`,
`MonitorFails`, `Crash`, a join that times out in `Stopped`) and its request may
stay in `late`, from where the controller may serve it at any later time, or
find nothing it may do. The set `ready` holds attempts whose workspace is
complete and `leftover` those that left a directory behind without being complete.
The lease clock is abstracted: `LeasesEnd` may take any hold away at any time,
which includes every time it does.

### RepoWorkspaces

`record` is the JSON lifecycle file of each task, `worktree` its directory
(`partial` while it is cloned or removed; `version` counts edits), `archives` the
archive directories made for it, `tombstones` the log of expiries, `autonomy` the
tasks with an autonomous-run record. `proc[p]` is the call process `p` is in, with
the record it has loaded (`payload`); `sweep` is the list the sweeper's
`cleanup_workspaces` works through. Time is in days.

| action | code |
| --- | --- |
| `Edit`, `RenewWorkspaceLease`, `PauseWorkspace`, `StartAutonomousRun` | the service's calls up to the load and change of the record (`_touch_activity` and its callers) |
| `Save` | `_save_lifecycle`, the end of every call that changes a record |
| `CreateWorkspace`, `Cloned` | `create_workspace`: only the directory is asked for; clone; `_create_lifecycle` |
| `RestoreWorkspace`, `Extract` | `restore_workspace`: check the archive, create a workspace under a new identifier, unpack or tidy up |
| `ArchiveWorkspace`, `MarkReviewReady`, then `WriteTree`, `WriteManifest`, `BeginRemoval`, `EndRemoval` | `archive_workspace`: guard, report, tar, manifest, `rmtree`, save |
| `ArchiveRaises` | the worktree has gone or is damaged when the call comes to it |
| `BeginSweep`, `SweepArchives`, `SweepExpires`, `ArchiveRemoved`, `Bury` | `cleanup_workspaces`: the list, and for each task an archive, or `rmtree`, tombstone and save |
| `SweepRaises` | a call of the sweep raises at once: nothing catches it, the process ends and is restarted |
| `Fail` | a process is killed or a command fails between two steps, or a write leaves half a file |
| `NextDay` | the clock |

Each process does one call at a time: the service's tools never await and
so block its event loop, the sweeper is a loop. The calls of different processes
interleave freely, for the code has no lock. `NextDay` waits for the calls in
progress: they take minutes, since every command has a timeout, and the times to
live are days.

The auxiliary variable `created` holds the tasks that were given a complete
worktree as their first one. `create_workspace` may be called again with the
identifier of an archived task; it then writes over the record, and the archive
is orphaned. The properties on kept work speak of first workspaces only.

### AutonomousRun

`run` is the run record (state, start, scores, and `stagnant` for
`non_improving_evaluations`), `workspace` the task's workspace as far as the run
is concerned, `queue` and `results` the directories of the checks, `previewJob`
and `preview` the two files of the previews. A file is `half` written between the
opening, which empties it, and the writing. `call` is what the service is in the
middle of, and for an evaluation the record it has in hand (`payload`) and the
results so far (`evidence`); `worker` is what the worker is at.

| action | code |
| --- | --- |
| `StartAutonomousRun`, `PauseAutonomousRun`, `ResumeAutonomousRun`, `StopAutonomousRun`, `RecordAutonomousProgress`, `AutonomousStatus` | the calls of these names: save the record, then apply the budgets (`Status`); `SaveAndReport` may be cut off in between or in the middle of the file |
| `EvaluateWorkspace`, `Conclude` | `evaluate_workspace` before and after its checks |
| `QueueJob`, `CollectResult`, `CheckRaises` | `run_check`: queue, poll, and raise on an unreadable result or after 600 seconds |
| `ArchiveCandidate`, `SaveCandidate` | `mark_review_ready` in an evaluation, and the save of the record kept since its start |
| `PreviewWorkspace`, `OpenPreviewJob`, `WritePreviewJob` | `preview_workspace`: unlink the old result, open the job, write it |
| `WorkerLists`, `WorkerTakes`, `WorkerOpens`, `WorkerWrites`, `WorkerUnlinks` | `preview_worker.main`: rounds over the checks and the previews found, copy or serve the workspace, write the result, remove the job by its name |
| `Edit`, `ArchiveWorkspace`, `CreateWorkspace` | the workspace calls of `RepoWorkspaces` as seen from here |
| `ServiceFails`, `WorkerFails`, `Tick` | a crash or a failed command on either side; time |

An evaluation is one call and the service does one at a time, so no other call
sees the run between `EvaluateWorkspace` and its end; the clock, the worker and
crashes go on. The worker's verdict on a check is free: passed, failed, or
`invalid` (it could not copy the workspace, and its answer is then refused).
Identifiers of checks are random in the code: `Fresh` takes one that nothing
refers to.

### AudioInference and Conversation

A call is a coroutine at the semaphore of a family (`line[f]`: its head holds the
permit) with a thread (`thread[f][t]`: `queued`, `unlocked` before the load lock,
`loading`, `inferring`, `done` or `failed`). A cancelled call leaves the line and
its thread goes on as an orphan, whose result nobody reads: it goes back to `none`.
`files` are the temporary files.

| action | code |
| --- | --- |
| `Submit`, `Return` | `async with _inference_semaphore`, `asyncio.to_thread`, and the way out |
| `Abandon` | `CancelledError` at any await: permit and file are given back, a running thread is not stopped |
| `Look`, `LookAgain`, `Load`, `Infer` | `_load_whisper_model`, `_load_chatterbox_model` (look, lock, look again), `run_transcription`, `run_synthesis`; for `Warm`, `warm_audio_models` |
| `AskTranscription`, `Upload`, `AskSpeech`, `AnswerRequest` | the endpoints of `routes/audio.py` |
| `StartSession`, `HandleStart`, `HandleClear`, `HandleBinary`, `HandleCommit`, `HandleCancel`, `HandleClose` | the frames of `audio_conversation`; a refused one changes nothing and is no step |
| `TellCancelled` | the send of `response.cancelled`, an await after the cancellation itself |
| `ClientGoes`, `ReceiveDisconnect`, `BeginFinally`, `EndFinally` | the end of a connection |
| `BeginTurn`, `RunInference`, `Transcribed`, `RememberQuestion`, `OpenStream`, `ReadStream`, `RememberAnswer`, `Synthesized`, `CompleteTurn`, `EndTurn` | `_run_turn_task` and `_process_turn`, from await to await |
| `Unwind` | the cancelled task at the await it is at; one that has not begun runs nothing at all, not even its `finally` |

The events of a turn the properties tell apart are `transcript`,
`textCompleted` and its endings; others only take their step. Of the sends of a
handler only that of `response.cancelled` is a step of its own, since it is the
only one something can overtake.

### ChatProxy and EventStream

`phase` is how far a call is, `held` the calls with a connection, `first` the line
read before the generator began, `event` the last event the generator has
yielded, `unsent` the chunks `proxy_streaming` has still to yield for it, and
`wire` what the client got.

| action | code |
| --- | --- |
| `Begin`, `Connect`, `GiveUp` | `_build_ollama_body`; the pool of `httpx.AsyncClient` |
| `Post` | `proxy_non_streaming`, `proxy_embeddings` from the connection to the answer or refusal |
| `OpenStream`, `ReadFirst` | `proxy_streaming_events` up to the first line, with its error paths |
| `Start`, `HandleFirst`, `ReadLine`, `End`, `BreakOff` | its generator; every exit goes through `finally` |
| `SendChunk` | the generator of `proxy_streaming`: finish, usage if asked for, `[DONE]`, or an error event |
| `Leave` | the reader is cancelled or gone |
| `Collect` | a generator without a reader is freed and closed |

A timeout, a failed connection, the end of the lines and a line that is no object
end a stream with an error event; any other exception of the HTTP library passes
through and breaks the stream off without one (`BreakOff`, `EventStream!Break`).
A reader that is cancelled while it waits for Ollama gives the connection back on
the way out. A generator that waits for its reader, begun or not, is only `dropped`:
its `finally` clause runs when the generator is freed and the event loop closes it
(`Collect`); of one that has not begun, no code runs, and the loop closes
the stream context of httpx that belongs to it. Until then its connection is out of
the pool. The conversation can drop an unbegun one, since a frame is sent
between opening and reading (`conversation.py:214`).

### RagStore and AgentOrchestration

A call does `op[c]` and is at await `at[c]`. A point is an identifier and a
document; what a ranking selects is free within its limits. The collection
outlives the gateway: it may hold anything in the beginning, or not exist.

| action | code |
| --- | --- |
| `Ask` | the endpoints of `routes/documents.py`, up to the store |
| `CheckCollection`, `CreateCollection` | `ensure_collection`; the slower of two creators fails |
| `Upsert`, `Erase`, `ListPage` | `ingest_chunks`, `delete_document`, a page of `list_documents` |
| `SearchDense`, `SearchPage`, `SearchRank` | `search`: nearest points, pages of `_lexical_points`, fusion, reranking and cut |
| `BreakDown` | Qdrant or the embedding model fails |
| `Request` | `run_agent` up to its first await, with the stages of the mode (`Pipeline`) |
| `BeginRetrieval`, `TakeResult`, `FailRetrieval` | `_retrieve_grounding`; its searches are those of the store, interleaved with all other calls |
| `RunStage`, `FailStage`, `RunVerifier`, `RunWriter` | the stages; an expert that fails with an `HTTPException` is skipped unless none has answered, any other failure ends the run |
| `Refuse` | an exception ends the run |

`known` and `kept` are history: the points that were there at some time, or all
the time, since a call began (for a run: since its last search began). Of a model's
text only its source labels count, and it may have any: the
identifiers of points, existing, former or future, whatever this run has retrieved;
and two invented ones, one `Numbered` as the citations `_clean_final_answer`
removes, one a `Lookalike` that nothing can tell from prose.
`ledger` is what the verifier accepted before `_bounded` cuts it.

### Promotion

A revision is known by `past`, its ancestors; `tip`, `head`, `dirty`, `tags`,
`remote` are the repository, `manifest`, `audit`, `release` the files, `pc[i]` the
command invocation `i` is at. One action per git command.

| action | code |
| --- | --- |
| `Begin` | `_load_candidate`, `_verify_manifest` |
| `CheckBranch`, `CheckClean`, `CheckHead` | `_verify_source`, three times (`round`) |
| `Reread`, `Build` | the manifest again; worktree, patch, `_rerun_checks`, commit |
| `Tag`, `Merge`, `Audit`, `Leave` | tag, `merge --ff-only` of whatever is checked out, `_append_audit`, the `finally` clause |
| `Push`, `Record` | `approve` after the promotion |
| `Stage`, `Staged` | `stage` |
| `Raise`, `Kill` | a command fails; the process is killed |
| `Commit`, `Switch`, `Edit`, `Rollback`, `PushElsewhere`, `Evaluate`, `Expire` | what the user, other clones, evaluation and time do |

`disturbed` is history: the user has changed branches, or undone a promotion,
while an invocation ran. Then the merge may hit another branch, and the audit and
`release.json` speak of a promotion that main does not have; `AuditIsTrue` and
`PublishedIsPushed` say so by their exception, while `NothingIsLost` and
`PromotionsAreReversible` hold even then. A rollback tag left by a failed
promotion makes every retry of that candidate fail (`Tag`), and an approval whose
push failed cannot be repeated, for the base is no longer the head.

## 3. Runs

| run | instance | properties |
| --- | --- | --- |
| `lab_contention` | 2 keys, 2 workers, 2 specifications (retries 2 and 1, priorities 50 and 60), 2 instants per second, lease 1 s, no lock wait, 1 claim in progress, 3 seconds | `OneActiveAttempt`, `RetryBudget`, `ClaimsInOrder`, `ImplementsLedger` |
| `lab_stale` | 1 key, 2 workers, lease 2 s, readings of up to 1 s ago, 6 seconds | `TypeOK`, `EventLogTellsTheStory`, `LateWorkersChangeNothing`, `LeaseErrorIsBounded` |
| `worker` | 1 key, 2 workers, 2 specifications (retries 2 and 1), 2 late requests, 2 crashes | `LedgerIsTrue`, `LifecycleAsDrawn`, `EveryJobEnds` |
| `workspaces` | 1 task and 1 restored one, service and sweeper, 1 edit, 1 fault, times to live of 1 day, 2 days | `WorkIsKept`, `ExpiriesAreBuried`, `RemovalKeepsTheWork` |
| `workspaces_swept` | 2 tasks, service and sweeper, no edits, no faults | `SweptUnlessBlocked` |
| `autonomy` | 2 checks, 2 evaluations, 1 non-improving one allowed, 1 edit, 2 jobs at once, 1 fault, no previews | `PlateausEndTheRun`, `CandidatesHavePassed` |
| `previews` | 2 previews, 1 evaluation, 1 fault | `PreviewsAreServed` |
| `conversation` | 1 connection of 2 turns, 1 HTTP request, the warm-up, of which 2 in all; history of 2, audio of 1 frame | `SpeechTypeOK`, `ModelsLoadOnce`, `OrphansTakeNothing`, `TurnsEndOnce`, `HistoryWasHeard`, `AllAreAnswered` |
| `chat_stream` | 2 streams, 1 other call, 2 connections | `ProxyTypeOK`, `WireIsWellFormed`, `ConnectionsHaveOwners`, `CallsGetTheirTurn`, `KeepsItsPromise` |
| `agents` | 2 calls on documents and 1 run, of which 2 in all; 2 documents, 2 point identifiers, pages of 1 point, limits of 2, 2 experts | `AgentTypeOK`, `ListingsMissNothing`, `ResultsAreOfTheTime`, `AnswersAreGrounded`, `PassedMeansEvidence`, `AnswersAreWhole` |
| `agent_citations` (finds a violation) | as `agents` | `CitationsAreSupplied` |
| `promotion` | 2 invocations, 2 candidates, 3 revisions, 2 moves of others | `PromotionTypeOK`, `PromotionsAreReversible`, `AuditIsTrue`, `PublishedIsPushed`, `NothingIsLost` |

Some properties gather what belongs together: `LedgerIsTrue` also says that two
workers never work under one number and that the directories of a job stay
within its budget; `LifecycleAsDrawn` that a worker whose heartbeat failed does
not complete; `EveryJobEnds` that no worker is shut out for ever;
`LateWorkersChangeNothing` that a key keeps its meaning; `RemovalKeepsTheWork`
that archives have their time; `PreviewsAreServed` that a preview shown answers
the last request.

*Bounds of the controller runs.* Two keys are what it takes for a worker to hold
the wrong one, for a reaping of several attempts and for an order of claims; two
workers for a late and a current holder; a retry budget of two for a lost
attempt, its successor, and an expiry; two instants per second for a whole
second and another one, the only distinction text order makes; three seconds for
a lease of one second to be granted, missed, granted again and missed again.
`lab_contention` takes readings without wait and `lab_stale` adds the wait on
one key, since the state of both together is out of reach; the proofs of section
4 cover both at once.

*Bounds of `worker`.* One job is enough for what can go wrong between workers: a
claim nobody knows of, the same job under two numbers, a worker that comes back to a
job it has lost. Two late requests are one of either worker, or an old claim and an old
report; two crashes one of either worker, or two of one. That requests of one job
say nothing about another is part of `LedgerIsTrueHolds`, which is proved for any jobs.

*Bounds of the workspace runs.* Two tasks are what it takes for one to stop the
sweep before the other, or for one to be restored from the other; one client and
the sweeper for two uncoordinated processes (the code never asks which process
it is in, but for the autonomy switch); times to live of one day and two days
for a worktree or an archive to become due, and one that does not; one edit to
tell work before a tar from work after it; one fault to leave any call halfway,
where everything that follows has to live with what it left. `MaxArchives` lets
no task be made again that has an archive, and does not limit the archives two
processes make of one task at once. In the runs on liveness a fault could only
add blocking tasks, which `SweptUnlessBlocked` excepts anyway, so they have none.

*Bounds of the autonomous runs.* Two checks are what an evaluation of the
manifest has; two evaluations a plateau of one, or a result of the first found by
the second; one edit a version before and one after; two jobs at once the one that
was abandoned and the one that is waited for. One tick is past the runtime limit. Previews
and evaluations share only the rounds of the worker, so `autonomy` has no
previews and `previews` no edits and one evaluation.

*Bounds of `conversation`.* Two turns are what it takes for one to be cancelled
while the next begins, with the thread of the first still at the model; a turn and
a request, two turns, or either with the warm-up, for calls that compete for a
permit, a load lock or a model. The run keeps to two calls in
all; a third would join a line in which only the head and the orphans matter. A
history of two entries is cut in the second turn. The endpoints share nothing with a
connection but the models, so one request stands for them.

*Bounds of `chat_stream`.* Three calls on two connections: one waits, a dropped
stream keeps one connection, and two dropped ones both, until they are collected. Runs of deltas are one
delta, since what follows a delta does not depend on their number.

*Bounds of `agents`.* Pages of one point, so that a scroll of two points takes
three steps with writes in between; two identifiers, so that one document is
ingested while another is deleted; any collection to begin with; every limit both
reached and not reached by the number of points. `TopK` stands for the limit of a
grounding and for the `top_k` of a request, which the code bounds by itself (20 in
`documents.py`); the proofs are for any limit. Two calls at once: a run and a
writer, a listing and a writer, or two creators of the collection.

*Bounds of `promotion`.* Two invocations promote two candidates, or one of them
twice; three revisions are the first one, and two of promotions, or of a promotion
and of the user; two moves let the user switch away and do something there, or
commit after something was staged. The revisions bound what is committed in all,
so runs of two promotions and a commit are not reached; the proofs cover them.

*View and symmetry.* `LiveView` hides columns that no guard and no property
reads any more in the state at hand: `next_run_at` of a job that is not queued
(written again before it is queued again), `created_at` of a job that has ended,
lease end and `known_at` of an attempt that has ended. Two states of one view
have the same successors up to the view, and every property has the same value
in both: `LateWorkersChangeNothing` compares hidden columns, which never change on
a step of the code, and its mutant shows that what TLC sees suffices to find a
change. Workers and keys, the calls and documents of `agents`, the invocations and
candidates of `promotion` are interchangeable in all properties of their runs; no
run with a liveness property uses symmetry.

*Fairness* (`LabWorker!Fairness`, used by `worker`):
- weak fairness of a worker's own steps: `run_forever` is a `while True` that
  survives every exception, HTTP requests time out after 15 seconds, Git calls
  after at most 300, joins after 17;
- weak fairness of `Restart`: compose restarts the service `unless-stopped`;
- strong fairness of `Granted`: a worker that polls for ever, and again and again
  finds a job the controller could give it, gets one at last. It excludes only a
  controller that fails every single claim of a worker for ever;
- weak fairness of the loss of an abandoned hold: the reaper turns every five
  seconds, and a lease nobody renews ends. No fairness is assumed of the
  heartbeat thread, of late requests, of crashes, or of the loss of a lease that
  is in use.

*Fairness* (`RepoWorkspaces!Fairness`, used by `workspaces_swept`): weak fairness of
the steps of a call that has begun
(`Proceed`; commands have timeouts) and of the sweeper, which sleeps and comes
round in a `while True` and is restarted `unless-stopped`. None is assumed of the
client's calls or of the clock.

*Fairness* (`AutonomousRun!Fairness`, used by `previews`): weak fairness of the
steps of a call that has begun and of the worker's loop, which compose restarts.
None is assumed of clients, clock or crashes.

*Fairness* (`Conversation!FairSpec` with `AudioFairness`): weak fairness of the
receive loop, of each turn, request and thread. An event loop runs every task that
is ready, and the default executor every thread. It assumes that models and the
chat stream end in time: inference has no time limit in the code, and the stream
has one only where `request_timeout_seconds` is not 0. Nothing is assumed of the
client.

*Fairness* (`ChatProxy!FairSpec`): strong fairness of `Connect`, for the pool
serves those who wait in the order of their coming; weak fairness of `Post` and
`Read`: Ollama answers and a reader that is there goes on reading; weak fairness of
`Collect`: nothing refers to a dropped generator any more, CPython frees it, and
asyncio closes the asynchronous generators it is told of; strong fairness of
the terminal event, for an answer is a finite number of deltas. No failure, no
leaving and no success is assumed.

`agent_citations` is the one run that is meant to fail: section 5 says what it shows.
Each property of the others has a mutant in `PROJECT.json`: a plausible slip in a mapped
definition (a dropped guard, an off-by-one, a forgotten row) that the run finds.

## 4. Proofs

Every safety property of the passing runs, invariant, action property or refinement, is
proved for every value of the constants its module's assumptions allow, in eight
modules. Each follows the same plan: the property is not inductive, an invariant
that is gets stated in named parts, `tlc` checked it on the run's instance first,
and there is a lemma per action and part; the theorems then take a few lines.

Theorems that state a run's property:

| module | theorems |
| --- | --- |
| `LabControllerProofs` | `TypeCorrect`, `OneActiveAttemptHolds`, `RetryBudgetHolds`, `EventLogTellsTheStoryHolds` (invariants); `LateWorkersChangeNothingHolds`, `LeaseErrorIsBoundedHolds`, `ClaimsInOrderHolds` (action properties); `ImplementsLedgerHolds` (refinement of `JobLedger`) |
| `LabWorkerProofs` | `LedgerIsTrueHolds`; `LifecycleAsDrawnHolds` (action property) |
| `RepoWorkspacesProofs` | `ExpiriesAreBuriedHolds`; for one service beside the sweeper `WorkIsKeptHolds`, `RemovalKeepsTheWorkHolds` (action property) |
| `AutonomousRunProofs` | `PlateausEndTheRunHolds`; `CandidatesHavePassedHolds` (action property) |
| `PromotionProofs` | `PromotionTypeCorrect`, `PromotionsAreReversibleHolds`, `AuditIsTrueHolds`, `PublishedIsPushedHolds`; `NothingIsLostHolds` (action property) |
| `ConversationProofs` | `SpeechTypeCorrect`, `ModelsLoadOnceHolds`, `OrphansTakeNothingHolds`, `TurnsEndOnceHolds`, `HistoryWasHeardHolds` |
| `ChatProxyProofs` | `ProxyTypeCorrect`, `ConnectionsHaveOwnersHolds`, `WireIsWellFormedHolds`; `KeepsItsPromiseHolds` (refinement of `EventStream`) |
| `AgentProofs` | `AgentTypeCorrect`, `ListingsMissNothingHolds`, `ResultsAreOfTheTimeHolds`, `AnswersAreGroundedHolds`, `PassedMeansEvidenceHolds`, `AnswersAreWholeHolds` |

### Lab controller

*Assumptions* (`ControllerAssumption`, `MicrosAssumption`): budgets are between
1 and the limit of the column's CHECK, lease length and limit are positive, a
second has at least two instants, `None` is neither a worker nor a
specification.

*Tables.* That a claim finds a free place for its attempt depends on the attempts
of its job being numbered 1 to `attempt_count`, with all but the latest ended.
`IInv` adds to types and properties

- `JobRows`: what a job's state says of its counter and budget;
- `AttemptRows`: the attempts of a job are exactly those up to its counter, the
  fence token of an attempt is its number, all but the latest are lost, and the
  latest is in the state the job's state tells;
- `WorkerRows`: busy workers and active attempts correspond one to one.

No lemma about it looks at the times: the safety of the tables depends neither on
clocks nor on leases, only the loss of a hold does. That is why stale readings and
text comparison (section 5) do no harm to them.

*Times.* Text order is a strict total order (`TextOrderIsTotal`), agrees with the
order of time across seconds, disagrees only on the whole second, and so errs by
less than a second (`TextOrderErrsByLessThanASecond`). The bound on the lease error
follows from that and the guards of the transactions.

*Ledger.* Every transaction is a step of `JobLedger`, several of its losses at once
(a reaping of several leases is one step of the code), or a stutter; `IInv` gives
the holder that the refinement mapping reads off the attempts.

*Log.* `Story` says of every attempt where the log has its lease, start and end
(`Places`, at most one of each and in this order), that numbers only grow, and how
many events the current attempt may still cause (`Owed`), which bounds the log.

### Lab worker

*Assumptions* (`LedgerAssumption`, `WorkerAssumption`): `None` is neither worker nor
specification, budgets are positive, the bounds are numbers.

*Argument.* It is about numbers. A hold gets a number of its own; a worker that
drops a claim never gets its number again; so a request still on its way speaks for
an attempt nobody works on, or for one whose worker waits for its answer.
`WorkInv` consists of `JobFits` (the ledger's row), `AttemptFits` (which attempts may have a
workspace, and what was reported of them), `ClaimFits` (what a worker has in hand
at each place of its main thread), `RequestFits` (the above, about `late`) and
`DirectoriesFit`. `LedgerIsTrue` and `LifecycleAsDrawn` follow, the bound
on directories by counting the numbers given out.

### Workspaces

*Assumptions* (`WorkspacesAssumption`): tasks are positive numbers, in the order
the sweep takes them, times to live are positive, the sweeper is no client.

*Archives* (`ArchiveInv`, any number of clients): a record, an entry of the sweep's
list or a call that refers to an archive agrees with it about its age
(`ReferencesFit`, `SweepFits`, `CallFits`), and tombstones are of archives that are
gone, one of each (`TombstonesFit`). From it follow `ExpiriesAreBuried` and
`ArchivesHaveTheirTime`, the half of `RemovalKeepsTheWork` about archives.

*Work* (`WorkInv`, one client). The sweeper takes an archive away from a list it made
before, and a late save of another process may bring an old record back.
What saves the work is that an archive made today is *fresh*: no list has it, and
whatever refers to it says that it is of today, so no sweep of today takes it, and
`NextDay` waits for calls. `SweeperFits` and `ServiceFits` say that a process which is past its tar
stands beside a fresh archive of what it found, or beside the worktree;
`LiveFits` that a task without a worktree whose record is, or is about to become,
live has a fresh archive; `MadeFits` that a task was made if it has a record.

*One client.* `WorkIsKeptHolds` and `RemovalKeepsTheWorkHolds` assume that
`Clients` has one element: beside the sweeper there is one service with calls on a task.
The deployment is like that. The service's tools never await, so its process does
one call at a time, and the lab worker only creates workspaces under names of its own
(`repo_ops_worker.py:302`), which nobody else creates. With two services on one
task `tlc` finds `RemovalKeepsTheWork` violated: one extracts a restored workspace
that the other has been editing and archives meanwhile. Nothing in
the code would stop a second service.

### Autonomous runs

*Assumptions* (`RunAssumption`): at least one check, job identifiers and limits are
positive numbers, bounds are numbers.

*Argument.* `CountersFit` ties the counter of a record, saved or in hand, to its scores (`Counted`).
`FreshResults` and `Evidence` follow a check from its queue to the verdict: stale
jobs and results may lie about, yet the result the call in progress waits for is
about the workspace as it is, for its identifier is new and no edit comes
between. `CandidateFits` carries that to the save after the archive. `PreviewsFit`
does the same for the preview's two files; `ShownPreviewIsTheLast` is the safety
part of `PreviewsAreServed`.

### Promotion

*Assumptions* (`PromotionAssumption`): there may be at least one revision, and the
user is not a candidate.

*Argument.* That the branches hold reversible revisions only does not follow from
itself: a merge takes the revision an invocation made long before, on a base it
read from a manifest longer ago. `ReversibleInv` adds to the types `Closed` (the
ancestors of a revision, and theirs, are revisions), `Anchored` (whatever is the
tip of a branch or of origin, a base, a tag or the `from` of an invocation can be
undone back to the first revision) and `Prepared` (the revision an invocation has
made is a child of its `from` by its candidate, and at the merge the tag names
`from`). A promotion takes nothing away since it only ever moves a branch forward:
`NothingIsLost` follows from `Closed` and the guards of `Merge` and `Push`.

For the records `RecordsInv` adds `Transitive`, `FirstToMerge` (a candidate has one
invocation at the merge, because tags are made once, so at most one revision of
it lands), `Audited` (what has landed is in the audit, or its
invocation is on its way there or broken off) and `OnMain` (while the user stays
out of the way, the branch an invocation has found checked out is still main).

### Conversation and audio inference

*Assumptions* (`AudioAssumption`, `ConversationAssumption`): the calls, the warm-up
and `Nobody` are different things; a history has room for a question and its answer
(at least two entries, the limit in `gateway/models.py:350`).

*Argument.* `AudioInv`: a call is once in the line it waits in, and just as long as its
request or turn is at that place (`LinesFit`); a thread belongs to the head of its line or
to a turn that is over (`ThreadsFit`); who loads holds the lock, and the model is
not there yet (`LoadsFit`); files are those of the calls in a line (`FilesFit`).
`TurnInv`: the turn in progress is the last of its connection (`TurnsFit`), what its
client was told fits the await it is at (`StoryFits`), and so does what is
remembered of it (`HistoryFits`).

### Chat proxy

*Assumption* (`ProxyAssumption`): streams are not other calls, the pool has a place.

*Argument.* `ProxyInv` adds the types of phases and events and `EventFitsPhase`: a
stream has an event only while or after its generator runs. Under it an action
changes the status of its own stream by a step of `EventStream` or not at all, and
that of no other one (`OneStatus`, `SameStatus`). `WireInv` says that what was sent
and what is still to be sent together are the chunks of the events so far, and
`PoolInv` counts the connections.

### Agents and the store

*Assumptions* (`RagAssumption`, `AgentAssumption`): limits are positive, reranking
returns at most what it is given, two to four experts (the limits in
`gateway/models.py`), the two invented labels are no identifiers.

*Argument.* `StoreInv` relates what a call has read to the history variables: it is
part of what was `known`, and what was `kept` all the time is in it as far as the
offset goes (`ListingFits`), or as the limits of the rankings allow (`SearchFits`). An identifier is
used once (`PointsFit`). `RunInv` says at which stage of its pipeline a run is
(`StageAt`: what is still to do and what was completed are the two parts of one
pipeline), and which sources, labels and verdict it has there (`GroundingFits`). A
grounded run past its retrieval has finished its last search, and has a source
if a chunk it could use was there throughout (`Covered`): a search that may return
something of the document asked for does (`RankFinds`). About the text of an answer
there is no theorem, since what it cites need not be among its sources (section 5).
That a malformed answer of the verifier does not pass is one early return in the
code and one conjunct of `Verification`; no property restates it.

### What is checked by TLC only

- Liveness under fairness: `EveryJobEnds`, `SweptUnlessBlocked`, `AllAreAnswered`,
  `CallsGetTheirTurn`, and that previews are served at all (`PreviewsAreServed`). It
  needs ENABLED and induction over the steps of a loop, which the provers here do not do.
- `WorkIsKept` and the first half of `RemovalKeepsTheWork` with more than one
  service are not claimed.
- That the constants of a deployment are within the assumptions above is not
  proved; TLC evaluates each assumption on the instances of section 3.

## 5. Where code and documents differ

Each of these came up while a property was written. The first has a run of its own,
which TLC ends with a violation; the others show as a bound or an exception
of a property that holds with it.

- **An answer may cite what retrieval did not supply.** `_clean_final_answer` says it
  removes "citations that were not supplied by retrieval"
  (`agent_orchestration.py:277`), and `tests/test_agents.py:188` tries it on `source-1`
  and `2`. A label that retrieval did not supply is removed only if it is all digits or
  begins with `source-` or `source_`, but points are named by UUIDs (`store.py:104`).
  So the identifier of a point of an earlier turn, of another document or of
  a deleted chunk stays in the answer. In the run `agent_citations`, which checks
  `CitationsAreSupplied`, a writer cites a point although nothing was retrieved; it
  happens with `use_rag` and without. The `sources` returned beside the text are right
  (`AnswersAreGrounded`).
- **A lease can be reaped before it ends.** On a whole second the reaper's reading
  sorts after every fractional time of that second (`database.py:512`): an attempt
  whose lease ends at 10:00:05.9 is marked lost at 10:00:05 sharp, where
  `docs/lab-controller-v0.1.md` says a *missed* lease becomes lost. The error stays
  below a second (`LeaseErrorIsBounded`, `TextOrderErrsByLessThanASecond`).
- **An attempt can complete without having started.** The lifecycle diagram of that
  document has no arrow from `leased` to `succeeded` or `failed`; `complete_attempt`
  accepts it, and `JobLedger` therefore allows it. The only client in the repository
  never does so (`LifecycleAsDrawn`, with late requests and crashes).
- **A run past its limit becomes review-ready.** `docs/autonomous-workspaces.md`
  calls 24 hours a fixed hard limit. An evaluation does not look at the clock; the
  report in the candidate's archive does and saves the run as paused, and the
  evaluation then saves its own record over it (`core.py:804`). No property here
  claims that limit; that of plateaus and the evidence of a candidate hold.
- **One autonomous task stops the cleanup of all later ones.** `docs/repo-ops.md`
  has the lifecycle companion archive inactive ordinary workspaces after seven days.
  To archive a task it writes a report, which asks for the status of the task's
  autonomous run, and that raises where `REPO_OPS_AUTONOMY_ENABLED` is not set;
  compose does not set it for the companion. The process ends, is restarted, and
  stops at the same task again. `SweptUnlessBlocked` names it as an exception, with
  a worktree or archive that a crash or another process removed under a record
  that still names it.
- **A preview asked for again while its job is in the queue may stay unserved**, or
  show the old result: both requests have the same file names (`overtaken` in
  `PreviewsAreServed`).
- **A promotion merges into whatever is checked out** when it comes to the merge
  (`disturbed` in `AuditIsTrue` and `PublishedIsPushed`).

## 6. What is not modelled

- Read-only endpoints, health and status: they change nothing.
- Field validation, formats of identifiers and digests, log and error texts.
- `database.migrate`: it reads the applied versions before its transactions, so of
  two processes that migrate at once the slower fails on a statement or a key, rolls
  back and raises; compose runs one controller.
- The chunker, the extraction of text from files and the alias tables of
  `normalize.py`: pure functions without a protocol. What a ranking selects is free
  within its limits.
- The retrieval the chat route puts before a completion: a search of `RagStore` whose
  result becomes part of a prompt.
- Prompts, profiles, token limits, audio formats, the splitting of an answer for
  synthesis: none of it decides what happens next.
- The sends of a handler other than that of `response.cancelled`, and a slow client:
  each is awaited by the one task that could overtake it.
- Liveness of agent runs and promotions: the first has no loop and waits for models
  only, the second is run by hand and ends at its first failure.
- Disk and SQLite corruption; the wall clock is assumed not to be set back.
- In `RepoWorkspaces`, the content of a report, of the checks recorded for a task
  and of a signature: a manifest is there or it is not. What quarantine and the
  policy checks refuse is not an edit of the model.
- The worker's clone, checkout and policy checks are one step with three
  outcomes (success, failure, failure with a leftover directory).
- The components marked `not_modelled` in `PROJECT.json`, each with its reason.

## 7. Plan

What is left, in this order:

1. Proofs: what the abstract specifications promise by themselves (a job of
   `JobLedger` ends once, a stream of `EventStream` ends with one terminal event), so
   that the controller and the proxy inherit it by their refinements; the exact
   exception of a second service on one task, in place of the hypothesis that there is
   one.
2. `ControllerMigration`: interrupted and parallel migrations.
3. `ChatProxy` and `Conversation` in one state space, with the frame between opening
   and reading a stream.
4. `Chunker` against a reference definition; the lock and gates of the evaluation
   scheduler.
