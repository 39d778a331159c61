----------------------------- MODULE Conversation -----------------------------
(***************************************************************************)
(* The speech conversation WebSocket (gateway/routes/conversation.py) on   *)
(* the inference of module AudioInference.                                 *)
(*                                                                         *)
(* A connection is two tasks of one event loop: the receive loop, which    *)
(* handles one frame at a time, and the response task of the turn in       *)
(* progress.  They share the ConversationState and the socket.  Steps run  *)
(* from one await to the next; a cancelled task goes no further than the   *)
(* await it is at.  The chat stream of a turn is taken for what module     *)
(* EventStream promises.                                                   *)
(***************************************************************************)
EXTENDS AudioInference

CONSTANTS
  Sessions,       \* connections
  MaxTurns,       \* bound: turns of a connection
  MaxCalls,       \* bound: turns, HTTP requests and warm-up threads in all
  MaxHistory,     \* config.max_history_messages
  MaxAudio        \* settings.max_request_body_bytes, in frames

ASSUME ConversationAssumption ==
  /\ MaxTurns \in Nat \ {0} /\ MaxCalls \in Nat /\ MaxHistory \in Nat \ {0, 1} /\ MaxAudio \in Nat \ {0}
  /\ Turns = Sessions \X (1 .. MaxTurns)

VARIABLES
  conn,           \* conn[s]: how far audio_conversation is
  gone,           \* the connections whose client has gone away
  telling,        \* telling[s]: the turn of a response.cancelled on its way out, or 0
  collecting,     \* the connections with state.collecting_audio
  audio,          \* audio[s]: the length of state.audio_buffer
  history,        \* history[s]: state.history, of entries <<role, turn>>
  task,           \* task[s]: the turn of state.response_task, or 0
  step,           \* step[k]: where the response task of turn k is
  cancelling,     \* the turns whose task was cancelled
  sent            \* sent[k]: the events of turn k its client has received

sessionVars == <<conn, gone, telling, collecting, audio>>
turnVars == <<history, task, step, cancelling, sent>>
vars == <<audioVars, sessionVars, turnVars>>

Steps == {"unused", "created", "listening", "heard", "thinking", "streaming", "told",
          "speaking", "sounded", "last", "over"}
\* The events the properties tell apart; the others only take their step.
Endings == {"completed", "error", "cancelled"}
Events == {"transcript", "textCompleted"} \union Endings

SpeechTypeOK ==
  /\ AudioTypeOK
  /\ conn \in [Sessions -> {"new", "open", "closing", "ending", "closed"}]
  /\ gone \subseteq Sessions /\ collecting \subseteq Sessions
  /\ telling \in [Sessions -> 0 .. MaxTurns]
  /\ audio \in [Sessions -> 0 .. MaxAudio]
  /\ \A s \in Sessions : /\ Len(history[s]) <= MaxHistory
                         /\ \A i \in DOMAIN history[s] :
                              history[s][i] \in {"user", "assistant"} \X (1 .. MaxTurns)
  /\ task \in [Sessions -> 0 .. MaxTurns]
  /\ step \in [Turns -> Steps]
  /\ cancelling \subseteq Turns
  /\ \A k \in Turns : \A i \in DOMAIN sent[k] : sent[k][i] \in Events

Init ==
  /\ AudioInit
  /\ conn = [s \in Sessions |-> "new"] /\ gone = {}
  /\ telling = [s \in Sessions |-> 0]
  /\ collecting = {} /\ audio = [s \in Sessions |-> 0]
  /\ history = [s \in Sessions |-> <<>>]
  /\ task = [s \in Sessions |-> 0]
  /\ step = [k \in Turns |-> "unused"]
  /\ cancelling = {}
  /\ sent = [k \in Turns |-> <<>>]

------------------------------------------------------------------------------
(***************************************************************************)
(* The receive loop.                                                       *)
(***************************************************************************)
Current(s) == <<s, task[s]>>

\* _response_is_active
Active(s) == task[s] # 0 /\ step[Current(s)] # "over"

Started(s) == {n \in 1 .. MaxTurns : step[<<s, n>>] # "unused"}

Receiving(s) == conn[s] = "open" /\ s \notin gone /\ telling[s] = 0

\* The first frame: session.created, or an error and the close.
StartSession(s) ==
  /\ conn[s] = "new" /\ s \notin gone
  /\ conn' \in {[conn EXCEPT ![s] = c] : c \in {"open", "closed"}}
  /\ UNCHANGED <<audioVars, gone, telling, collecting, audio, turnVars>>

(***************************************************************************)
(* A frame the state refuses, a ping and an unknown frame change nothing.  *)
(* The one send at the end of a handler is left out: the loop reads no     *)
(* frame until it is done, and if it raises that is ReceiveDisconnect.     *)
(***************************************************************************)
HandleStart(s) ==
  /\ Receiving(s) /\ ~Active(s) /\ s \notin collecting
  /\ collecting' = collecting \union {s}
  /\ audio' = [audio EXCEPT ![s] = 0]
  /\ UNCHANGED <<audioVars, conn, gone, telling, turnVars>>

HandleClear(s) ==
  /\ Receiving(s)
  /\ collecting' = collecting \ {s}
  /\ audio' = [audio EXCEPT ![s] = 0]
  /\ UNCHANGED <<audioVars, conn, gone, telling, turnVars>>

HandleBinary(s) ==
  /\ Receiving(s) /\ ~Active(s) /\ s \in collecting
  /\ IF audio[s] + 1 > MaxAudio
     THEN collecting' = collecting \ {s} /\ audio' = [audio EXCEPT ![s] = 0]
     ELSE audio' = [audio EXCEPT ![s] = @ + 1] /\ UNCHANGED collecting
  /\ UNCHANGED <<audioVars, conn, gone, telling, turnVars>>

\* Without audio the recording just ends.
HandleCommit(s) ==
  /\ Receiving(s) /\ ~Active(s) /\ s \in collecting
  /\ collecting' = collecting \ {s}
  /\ audio' = [audio EXCEPT ![s] = 0]
  /\ IF audio[s] = 0 THEN UNCHANGED <<task, step>>
     ELSE LET n == Cardinality(Started(s)) + 1 IN
          /\ n <= MaxTurns
          /\ task' = [task EXCEPT ![s] = n]
          /\ step' = [step EXCEPT ![<<s, n>>] = "created"]
  /\ UNCHANGED <<audioVars, conn, gone, telling, history, cancelling, sent>>

HandleCancel_ForgetsTask(s) ==
  /\ Receiving(s) /\ Active(s)
  /\ task' = [task EXCEPT ![s] = 0]
  /\ UNCHANGED <<audioVars, sessionVars, history, step, cancelling, sent>>

\* response.cancel: the task is cancelled first and the client told later.
HandleCancel(s) ==
  /\ Receiving(s) /\ Active(s)
  /\ cancelling' = cancelling \union {Current(s)}
  /\ telling' = [telling EXCEPT ![s] = task[s]]
  /\ UNCHANGED <<audioVars, conn, gone, collecting, audio, history, task, step, sent>>

Told(k, ev) == sent[k] # <<>> /\ sent[k][Len(sent[k])] = ev

\* response.cancelled goes out, or the send raises as the client is gone.
TellCancelled(s) ==
  /\ conn[s] = "open" /\ telling[s] # 0
  /\ telling' = [telling EXCEPT ![s] = 0]
  /\ LET k == <<s, telling[s]>> IN
     IF s \in gone
     THEN conn' \in {conn, [conn EXCEPT ![s] = "closing"]} /\ UNCHANGED sent
     ELSE /\ sent' = IF Told(k, "cancelled") THEN sent
                    ELSE [sent EXCEPT ![k] = Append(@, "cancelled")]
          /\ UNCHANGED conn
  /\ UNCHANGED <<audioVars, gone, collecting, audio, history, task, step, cancelling>>

\* session.close; from here on every send of the turn raises.
HandleClose(s) ==
  /\ Receiving(s)
  /\ conn' = [conn EXCEPT ![s] = "closing"]
  /\ UNCHANGED <<audioVars, gone, telling, collecting, audio, turnVars>>

ClientGoes(s) ==
  /\ conn[s] \in {"new", "open"} /\ s \notin gone
  /\ gone' = gone \union {s}
  /\ UNCHANGED <<audioVars, conn, telling, collecting, audio, turnVars>>

ReceiveDisconnect(s) ==
  /\ s \in gone /\ telling[s] = 0
  /\ \/ conn[s] = "new" /\ conn' = [conn EXCEPT ![s] = "closed"]
     \/ conn[s] = "open" /\ conn' = [conn EXCEPT ![s] = "closing"]
  /\ UNCHANGED <<audioVars, gone, telling, collecting, audio, turnVars>>

\* The finally clause: cancel the task and wait for it.
BeginFinally(s) ==
  /\ conn[s] = "closing"
  /\ conn' = [conn EXCEPT ![s] = "ending"]
  /\ cancelling' = IF Active(s) THEN cancelling \union {Current(s)} ELSE cancelling
  /\ UNCHANGED <<audioVars, gone, telling, collecting, audio, history, task, step, sent>>

\* The ConversationState goes with the connection.
EndFinally(s) ==
  /\ conn[s] = "ending" /\ ~Active(s)
  /\ conn' = [conn EXCEPT ![s] = "closed"]
  /\ history' = [history EXCEPT ![s] = <<>>]
  /\ task' = [task EXCEPT ![s] = 0]
  /\ telling' = [telling EXCEPT ![s] = 0]
  /\ collecting' = collecting \ {s}
  /\ audio' = [audio EXCEPT ![s] = 0]
  /\ UNCHANGED <<audioVars, gone, step, cancelling, sent>>

LoopStep(s) == TellCancelled(s) \/ ReceiveDisconnect(s) \/ BeginFinally(s) \/ EndFinally(s)

------------------------------------------------------------------------------
(***************************************************************************)
(* The response task (_run_turn_task, _process_turn).                      *)
(***************************************************************************)
At(k, where) == step[k] = where /\ k \notin cancelling

\* Send and go on at next.  A send on a closed socket raises, which ends the
\* turn without another word; one to a client that is gone may.
Send(k, next) ==
  \/ /\ conn[k[1]] = "open"
     /\ step' = [step EXCEPT ![k] = next]
  \/ /\ conn[k[1]] # "open" \/ k[1] \in gone
     /\ step' = [step EXCEPT ![k] = "last"]

Say(k, ev, next) ==
  /\ Send(k, next)
  /\ sent' = IF conn[k[1]] = "open" /\ k[1] \notin gone
             THEN [sent EXCEPT ![k] = Append(@, ev)] ELSE sent

Trim_OneTooMany(h) ==
  IF Len(h) > MaxHistory + 1 THEN SubSeq(h, Len(h) - MaxHistory + 1, Len(h)) ELSE h

\* _trim_history
Trim(h) == IF Len(h) > MaxHistory THEN SubSeq(h, Len(h) - MaxHistory + 1, Len(h)) ELSE h

Remember(k, role) ==
  history' = [history EXCEPT ![k[1]] = Trim(Append(@, <<role, k[2]>>))]

\* The audio goes to a temporary file, the call to the line for Whisper.
BeginTurn(k) ==
  /\ At(k, "created")
  /\ \/ /\ files' = files \union {k} /\ Join("whisper", k)
        /\ step' = [step EXCEPT ![k] = "listening"]
        /\ UNCHANGED <<thread, cached, loader, sent>>
     \/ Say(k, "error", "last") /\ UNCHANGED inferenceVars
  /\ UNCHANGED <<request, sessionVars, history, task, cancelling>>

\* The turn has the permit of f and hands the work to a thread.
RunInference(k) ==
  /\ \/ At(k, "listening") /\ Submit("whisper", k)
     \/ At(k, "speaking") /\ Submit("chatterbox", k)
  /\ UNCHANGED <<request, sessionVars, turnVars>>

Transcribed(k) ==
  /\ At(k, "listening") /\ Return("whisper", k)
  /\ \/ thread["whisper"][k] = "done" /\ Say(k, "transcript", "heard")
     \/ Say(k, "error", "last")
  /\ UNCHANGED <<request, sessionVars, history, task, cancelling>>

RememberQuestion(k) ==
  /\ At(k, "heard")
  /\ Remember(k, "user")
  /\ step' = [step EXCEPT ![k] = "thinking"]
  /\ UNCHANGED <<audioVars, sessionVars, task, cancelling, sent>>

\* _chat_messages_for_turn, whose retrieval cannot fail, and the open stream.
OpenStream(k) ==
  /\ At(k, "thinking")
  /\ \/ Send(k, "streaming") /\ UNCHANGED sent
     \/ Say(k, "error", "last")
  /\ UNCHANGED <<audioVars, sessionVars, history, task, cancelling>>

ReadStream_RemembersFirst(k) ==
  /\ At(k, "streaming")
  /\ Remember(k, "assistant")
  /\ Say(k, "textCompleted", "told")
  /\ UNCHANGED <<audioVars, sessionVars, task, cancelling>>

\* A delta; the end of the stream, with or without a text to say; an error event
\* or an exception of the generator.
ReadStream(k) ==
  /\ At(k, "streaming")
  /\ \/ Send(k, "streaming") /\ UNCHANGED sent
     \/ Say(k, "textCompleted", "told")
     \/ Say(k, "error", "last")
  /\ UNCHANGED <<audioVars, sessionVars, history, task, cancelling>>

\* The answer is remembered, response.audio.started sent, the call in the line
\* for Chatterbox.
RememberAnswer(k) ==
  /\ At(k, "told")
  /\ Remember(k, "assistant")
  /\ Send(k, "speaking")
  /\ IF step'[k] = "speaking" THEN Join("chatterbox", k) ELSE UNCHANGED line
  /\ UNCHANGED <<thread, cached, loader, files, request, sessionVars, task, cancelling, sent>>

Synthesized(k) ==
  /\ At(k, "speaking") /\ Return("chatterbox", k)
  /\ \/ thread["chatterbox"][k] = "done" /\ Send(k, "sounded") /\ UNCHANGED sent
     \/ thread["chatterbox"][k] = "failed" /\ Say(k, "error", "last")
  /\ UNCHANGED <<request, sessionVars, history, task, cancelling>>

\* response.audio.completed, told apart from nothing, and response.completed.
CompleteTurn(k) ==
  /\ At(k, "sounded")
  /\ Say(k, "completed", "last")
  /\ UNCHANGED <<audioVars, sessionVars, history, task, cancelling>>

\* The finally clause of _run_turn_task.
Forget(k) == task' = IF task[k[1]] = k[2] THEN [task EXCEPT ![k[1]] = 0] ELSE task

EndTurn(k) ==
  /\ At(k, "last")
  /\ step' = [step EXCEPT ![k] = "over"]
  /\ Forget(k)
  /\ UNCHANGED <<audioVars, sessionVars, history, cancelling, sent>>

\* CancelledError at whatever the task awaits; one that has not begun never
\* runs, not even its finally clause.
Unwind(k) ==
  /\ k \in cancelling
  /\ Abandon(k)
  /\ step' = [step EXCEPT ![k] = "over"]
  /\ cancelling' = cancelling \ {k}
  /\ IF step[k] = "created" THEN UNCHANGED task ELSE Forget(k)
  /\ UNCHANGED <<request, sessionVars, history, sent>>

TurnStep(k) ==
  \/ BeginTurn(k) \/ RunInference(k) \/ Transcribed(k) \/ RememberQuestion(k)
  \/ OpenStream(k) \/ ReadStream(k) \/ RememberAnswer(k)
  \/ Synthesized(k) \/ CompleteTurn(k) \/ EndTurn(k) \/ Unwind(k)

------------------------------------------------------------------------------
Begun == Cardinality({r \in Requests : request[r] # "none"}
                    \union {k \in Turns : step[k] # "unused"}
                    \union {w \in {Warm} : thread["whisper"][w] # "none"})

Step ==
  \/ AudioStep /\ UNCHANGED <<sessionVars, turnVars>>
  \/ \E s \in Sessions :
       \/ StartSession(s) \/ HandleStart(s) \/ HandleClear(s)
       \/ HandleBinary(s) \/ HandleCommit(s) \/ HandleCancel(s) \/ HandleClose(s)
       \/ ClientGoes(s) \/ LoopStep(s)
  \/ \E k \in Turns : TurnStep(k)

Next == Step /\ Begun' <= MaxCalls

Spec == Init /\ [][Next]_vars

\* The loop runs both tasks of a connection; models and the stream end in time.
FairSpec ==
  /\ Spec /\ AudioFairness
  /\ \A s \in Sessions : WF_vars(LoopStep(s))
  /\ \A k \in Turns : WF_vars(TurnStep(k))

------------------------------------------------------------------------------
(***************************************************************************)
(* Properties.                                                             *)
(***************************************************************************)
After(k, endings, allowed) ==
  \A i, j \in DOMAIN sent[k] : i < j /\ sent[k][i] \in endings => sent[k][j] \in allowed

\* _run_turn_task against _handle_control_frame: a turn ends once for its client.
\* Nothing of it follows response.cancelled, only that follows an error or
\* response.completed; and no two turns of a connection are in progress at once.
TurnsEndOnce ==
  /\ \A k \in Turns : /\ After(k, {"cancelled"}, {})
                      /\ After(k, Endings, {"cancelled"})
  /\ \A s \in Sessions : \A m, n \in Started(s) :
       step[<<s, m>>] # "over" /\ step[<<s, n>>] # "over" => m = n

\* state.history: what the model will be told was said in the conversation is
\* what its client has been told was said, in the order in which it was.
HistoryWasHeard ==
  \A s \in Sessions : \A i \in DOMAIN history[s] :
    LET entry == history[s][i]
        heard == IF entry[1] = "user" THEN "transcript" ELSE "textCompleted"
    IN /\ \/ s \in gone
          \/ \E j \in DOMAIN sent[<<s, entry[2]>>] : sent[<<s, entry[2]>>][j] = heard
       /\ \A j \in DOMAIN history[s] : i < j =>
            \/ entry[2] < history[s][j][2]
            \/ entry[2] = history[s][j][2] /\ entry[1] = "user" /\ history[s][j][1] = "assistant"

\* _process_turn: every committed turn ends for its client, with response.completed,
\* an error or response.cancelled, unless the connection ends; every request to
\* the audio endpoints is answered, whatever the conversations do.
AllAreAnswered ==
  /\ \A k \in Turns :
       step[k] # "unused" ~>
         \/ \E i \in DOMAIN sent[k] : sent[k][i] \in Endings
         \/ conn[k[1]] = "closed"
  /\ \A r \in Requests : request[r] # "none" ~> request[r] = "answered"
==============================================================================
