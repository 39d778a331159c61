--------------------------- MODULE ChatProxyProofs ---------------------------
(***************************************************************************)
(* For any number of streams, other calls and connections: a connection    *)
(* always has its owner, the proxy implements EventStream, and what a      *)
(* client has got is always the beginning of a well-formed answer.         *)
(*                                                                         *)
(* The refinement needs to know how the event a reader got last goes with  *)
(* the phase of its stream: nothing before the generator has begun, a      *)
(* delta at least afterwards, and only a delta while the first line has    *)
(* still to be handled.  The chunks on the wire need more: what is sent    *)
(* and what is still to be sent together are the chunks of the events      *)
(* (Sending), and a stopped stream has some beginning of them.             *)
(***************************************************************************)
EXTENDS ChatProxy, FiniteSetTheorems, SequenceTheorems, TLAPS

Shape ==
  /\ phase \in [Calls -> Phases] /\ held \subseteq Calls
  /\ first \in [Streams -> Lines \union {"none"}]
  /\ event \in [Streams -> Terminal \union {"none", "delta"}]

EventFitsPhase ==
  \A s \in Streams :
    /\ phase[s] \in {"new", "queued", "opening", "reading first", "ready", "refused"} => event[s] = "none"
    /\ phase[s] = "running" => event[s] # "none"
    /\ phase[s] = "running" /\ first[s] # "none" => event[s] = "delta"

ProxyInv == Shape /\ EventFitsPhase /\ ConnectionsHaveOwners

Owning == {"opening", "reading first", "ready", "running", "dropped"}

LEMMA StreamsAreCalls == \A s \in Streams : s \in Calls
BY DEF Calls

LEMMA InitProxy == Init => ProxyInv
<1> SUFFICES ASSUME Init PROVE ProxyInv
  OBVIOUS
<1>1. /\ phase = [c \in Calls |-> "new"] /\ held = {}
      /\ first = [s \in Streams |-> "none"] /\ event = [s \in Streams |-> "none"]
  BY DEF Init
<1>2. Shape
  BY <1>1 DEF Shape, Phases
<1>3. EventFitsPhase
  BY <1>1, StreamsAreCalls DEF EventFitsPhase
<1>4. ConnectionsHaveOwners
  BY <1>1 DEF ConnectionsHaveOwners
<1> QED
  BY <1>2, <1>3, <1>4 DEF ProxyInv

------------------------------------------------------------------------------
(***************************************************************************)
(* What a step does to phase, held, first and event of its call.           *)
(***************************************************************************)
\* A call moves from one phase to another, and keeps or loses its connection with it.
LEMMA MoveKeeps ==
  ASSUME ProxyInv, NEW c \in Calls, NEW from, NEW to \in Phases, Move(c, from, to),
         held' = IF to \in Owning THEN held \union {c} ELSE held \ {c},
         UNCHANGED <<first, event>>,
         c \in Streams =>
           /\ to \in {"new", "queued", "opening", "reading first", "ready", "refused"} => event[c] = "none"
           /\ to # "running"
  PROVE  ProxyInv'
<1> USE DEF ProxyInv, Move
<1>1. Shape'
  BY DEF Shape
<1>2. EventFitsPhase'
  BY StreamsAreCalls DEF Shape, EventFitsPhase
<1>3. ConnectionsHaveOwners'
  BY DEF Shape, ConnectionsHaveOwners, Owning
<1> QED
  BY <1>1, <1>2, <1>3

\* A running stream yields an event, or starts to run with its first.
LEMMA YieldKeeps ==
  ASSUME ProxyInv, NEW s \in Streams, NEW ev \in Terminal \union {"delta"},
         phase[s] \in {"ready", "running"}, phase' = [phase EXCEPT ![s] = "running"],
         event' = [event EXCEPT ![s] = ev], UNCHANGED held,
         first' \in {first, [first EXCEPT ![s] = "none"]},
         ev = "delta" \/ first'[s] = "none"
  PROVE  ProxyInv'
<1> USE StreamsAreCalls DEF ProxyInv
<1>1. Shape'
  BY DEF Shape, Phases
<1>2. EventFitsPhase'
  BY DEF Shape, EventFitsPhase, Terminal
<1>3. ConnectionsHaveOwners'
  BY DEF Shape, ConnectionsHaveOwners
<1> QED
  BY <1>1, <1>2, <1>3

LEMMA NextProxy ==
  ASSUME ProxyInv, [Next]_vars
  PROVE  ProxyInv'
<1> USE StreamsAreCalls, ProxyAssumption DEF Phases, Owning
<1>1. ASSUME NEW c \in Calls, Begin(c) PROVE ProxyInv'
  <2>1. c \notin held /\ (c \in Streams => event[c] = "none")
    BY <1>1 DEF Begin, Move, ProxyInv, ConnectionsHaveOwners, EventFitsPhase
  <2>2. \E to \in {"queued", "refused"} : Move(c, "new", to)
    BY <1>1 DEF Begin
  <2> QED
    BY <1>1, <2>1, <2>2, MoveKeeps DEF Begin
<1>2. ASSUME NEW c \in Calls, Connect(c) PROVE ProxyInv'
  BY <1>2, MoveKeeps DEF Connect, Move, ProxyInv, EventFitsPhase
<1>3. ASSUME NEW c \in Calls, GiveUp(c) PROVE ProxyInv'
  <2>1. c \notin held /\ (c \in Streams => event[c] = "none")
    BY <1>3 DEF GiveUp, Move, ProxyInv, ConnectionsHaveOwners, EventFitsPhase
  <2> QED
    BY <1>3, <2>1, MoveKeeps DEF GiveUp
<1>4. ASSUME NEW c \in Posts, Post(c) PROVE ProxyInv'
  BY <1>4, MoveKeeps DEF Post, Move, Calls
<1>5. ASSUME NEW s \in Streams, OpenStream(s) PROVE ProxyInv'
  <2>1. s \in held /\ event[s] = "none"
    BY <1>5 DEF OpenStream, Move, ProxyInv, ConnectionsHaveOwners, EventFitsPhase
  <2> QED
    BY <1>5, <2>1, MoveKeeps DEF OpenStream
<1>6. ASSUME NEW s \in Streams, ReadFirst(s) PROVE ProxyInv'
  <2>1. CASE Move(s, "reading first", "refused") /\ held' = held \ {s} /\ UNCHANGED first
    BY <1>6, <2>1, MoveKeeps DEF ReadFirst, Move, ProxyInv, EventFitsPhase
  <2>2. CASE Move(s, "reading first", "ready") /\ UNCHANGED held
             /\ \E line \in Lines : first' = [first EXCEPT ![s] = line]
    <3>1. Shape'
      BY <1>6, <2>2 DEF ReadFirst, Move, ProxyInv, Shape
    <3>2. EventFitsPhase'
      BY <1>6, <2>2 DEF ReadFirst, Move, ProxyInv, Shape, EventFitsPhase
    <3>3. ConnectionsHaveOwners'
      BY <1>6, <2>2 DEF ReadFirst, Move, ProxyInv, Shape, ConnectionsHaveOwners
    <3> QED
      BY <3>1, <3>2, <3>3 DEF ProxyInv
  <2> QED
    BY <1>6, <2>1, <2>2 DEF ReadFirst
<1>7. ASSUME NEW s \in Streams, Start(s) PROVE ProxyInv'
  BY <1>7, YieldKeeps DEF Start, Move, Yield
<1>8. ASSUME NEW s \in Streams, HandleFirst(s) PROVE ProxyInv'
  <2>1. phase[s] = "running" /\ UNCHANGED <<phase, held>> /\ first' = [first EXCEPT ![s] = "none"]
    BY <1>8 DEF HandleFirst, Yield, Lines, ProxyInv, Shape
  <2>2. phase' = [phase EXCEPT ![s] = "running"] /\ first'[s] = "none"
    BY <2>1 DEF ProxyInv, Shape
  <2>3. \E ev \in Terminal \union {"delta"} : event' = [event EXCEPT ![s] = ev]
    <3>1. CASE first[s] = "silent"
      <4>1. event[s] = "delta" /\ event' = event
        BY <1>8, <2>1, <3>1 DEF HandleFirst, ProxyInv, EventFitsPhase
      <4> QED
        BY <4>1 DEF ProxyInv, Shape
    <3>2. CASE first[s] = "words"
      BY <1>8, <3>2 DEF HandleFirst, Yield, Terminal
    <3>3. CASE first[s] = "done"
      BY <1>8, <3>3 DEF HandleFirst, Yield, Terminal
    <3> QED
      BY <1>8, <3>1, <3>2, <3>3 DEF HandleFirst, Lines, ProxyInv, Shape
  <2> QED
    BY <2>1, <2>2, <2>3, YieldKeeps
<1>9. ASSUME NEW s \in Streams, ReadLine(s) PROVE ProxyInv'
  <2>1. phase' = [phase EXCEPT ![s] = "running"]
    BY <1>9 DEF ReadLine, ProxyInv, Shape
  <2> QED
    BY <1>9, <2>1, YieldKeeps DEF ReadLine, Yield, Terminal
<1>10. ASSUME NEW s \in Streams, BreakOff(s) PROVE ProxyInv'
  BY <1>10, MoveKeeps DEF BreakOff, Move
<1>11. ASSUME NEW s \in Streams, End(s) PROVE ProxyInv'
  BY <1>11, MoveKeeps DEF End, Move
<1>12. ASSUME NEW s \in Streams, SendChunk(s) PROVE ProxyInv'
  BY <1>12 DEF SendChunk, ProxyInv, Shape, EventFitsPhase, ConnectionsHaveOwners
<1>13. ASSUME NEW s \in Streams, Leave(s) PROVE ProxyInv'
  <2>1. (phase[s] \in {"ready", "running"} => s \in held) /\ (phase[s] = "queued" => s \notin held)
    BY DEF ProxyInv, ConnectionsHaveOwners
  <2>2. ASSUME NEW from \in {"ready", "running"}, Move(s, from, "dropped"), UNCHANGED held PROVE ProxyInv'
    <3>1. held' = held \union {s} /\ UNCHANGED <<first, event>>
      BY <1>13, <2>1, <2>2 DEF Leave, Move
    <3> QED
      BY <2>2, <3>1, MoveKeeps
  <2>3. CASE Move(s, "queued", "left") /\ UNCHANGED held
    <3>1. held' = held \ {s} /\ UNCHANGED <<first, event>>
      BY <1>13, <2>1, <2>3 DEF Leave, Move
    <3> QED
      BY <2>3, <3>1, MoveKeeps
  <2>4. CASE held' = held \ {s} /\ \E from \in {"running", "opening", "reading first"} : Move(s, from, "left")
    BY <1>13, <2>4, MoveKeeps DEF Leave
  <2> QED
    BY <1>13, <2>2, <2>3, <2>4 DEF Leave
<1>14. ASSUME NEW s \in Streams, Collect(s) PROVE ProxyInv'
  BY <1>14, MoveKeeps DEF Collect
<1>15. CASE UNCHANGED vars
  BY <1>15 DEF vars, ProxyInv, Shape, EventFitsPhase, ConnectionsHaveOwners
<1> QED
  BY <1>1, <1>2, <1>3, <1>4, <1>5, <1>6, <1>7, <1>8, <1>9, <1>10, <1>11, <1>12, <1>13, <1>14, <1>15 DEF Next, Read

\* A connection is held by calls in progress and by streams that were dropped and are not
\* collected yet, for any size of the pool and whatever Ollama answers.
THEOREM ConnectionsHaveOwnersHolds == Spec => []ConnectionsHaveOwners
<1>1. ProxyInv => ConnectionsHaveOwners
  BY DEF ProxyInv
<1> QED
  BY <1>1, InitProxy, NextProxy, PTL DEF Spec

------------------------------------------------------------------------------
(***************************************************************************)
(* The refinement.                                                         *)
(***************************************************************************)
LEMMA InitRefines == Init => Promise!Init
BY StreamsAreCalls DEF Init, Promise!Init, StatusOf, Terminal

\* Nothing but phase and event of a stream is seen in its status.
LEMMA SameStatus ==
  ASSUME NEW s \in Streams, phase'[s] = phase[s], event'[s] = event[s]
  PROVE  StatusOf(s)' = StatusOf(s)
BY DEF StatusOf

\* A step of one stream is a step of its status, or a stutter.
LEMMA OneStatus ==
  ASSUME NEW s \in Streams, \A t \in Streams \ {s} : phase'[t] = phase[t] /\ event'[t] = event[t],
         \/ StatusOf(s)' = StatusOf(s)
         \/ StatusOf(s) = "asked" /\ StatusOf(s)' \in {"refused", "delta", "left"}
         \/ StatusOf(s) = "delta" /\ StatusOf(s)' \in {"done", "error", "broken", "left"}
  PROVE  [Promise!Next]_([t \in Streams |-> StatusOf(t)])
<1> DEFINE status == [t \in Streams |-> StatusOf(t)]
<1>1. \A t \in Streams \ {s} : StatusOf(t)' = StatusOf(t)
  BY SameStatus
<1>2. CASE StatusOf(s)' = StatusOf(s)
  BY <1>1, <1>2
<1>3. CASE StatusOf(s)' # StatusOf(s)
  <2>1. status' = [status EXCEPT ![s] = StatusOf(s)'] /\ status[s] = StatusOf(s)
    BY <1>1
  <2> QED
    BY <1>3, <2>1 DEF Promise!Next, Promise!To, Promise!Refuse, Promise!Open, Promise!Done, Promise!Fail,
                      Promise!Break, Promise!Leave
<1> QED
  BY <1>2, <1>3

LEMMA StepRefines ==
  ASSUME ProxyInv, [Next]_vars
  PROVE  [Promise!Next]_([t \in Streams |-> StatusOf(t)])
<1> USE StreamsAreCalls DEF ProxyInv, Shape
<1>1. ASSUME NEW s \in Streams, NEW from, NEW to, Move(s, from, to), UNCHANGED event,
             \/ event[s] = "none" /\ from \in {"new", "queued", "opening", "reading first", "ready"}
                                 /\ to \in {"queued", "opening", "reading first", "ready", "refused", "left", "dropped"}
             \/ event[s] # "none" /\ from = "running" /\ to \in {"left", "dropped"}
             \/ from = "dropped" /\ to = "left"
             \/ event[s] = "delta" /\ from = "running" /\ to = "broken"
             \/ event[s] \in Terminal /\ from = "running" /\ to = "closed"
      PROVE  [Promise!Next]_([t \in Streams |-> StatusOf(t)])
  <2>1. phase[s] = from /\ phase'[s] = to /\ event'[s] = event[s]
    BY <1>1 DEF Move
  <2>2. \A t \in Streams \ {s} : phase'[t] = phase[t] /\ event'[t] = event[t]
    BY <1>1 DEF Move
  <2>3. \/ StatusOf(s)' = StatusOf(s)
        \/ StatusOf(s) = "asked" /\ StatusOf(s)' \in {"refused", "left"}
        \/ StatusOf(s) = "delta" /\ StatusOf(s)' \in {"broken", "left"}
    BY <1>1, <2>1 DEF StatusOf, Terminal
  <2> QED
    BY <2>2, <2>3, OneStatus
<1>2. ASSUME NEW s \in Streams, NEW ev \in Terminal \union {"delta"},
             phase[s] \in {"ready", "running"}, phase' = [phase EXCEPT ![s] = "running"],
             event' = [event EXCEPT ![s] = ev],
             \/ phase[s] = "ready" /\ ev = "delta"
             \/ phase[s] = "running" /\ event[s] = "delta"
      PROVE  [Promise!Next]_([t \in Streams |-> StatusOf(t)])
  <2>1. phase'[s] = "running" /\ event'[s] = ev /\ (phase[s] = "ready" => event[s] = "none")
    BY <1>2 DEF EventFitsPhase
  <2>2. \A t \in Streams \ {s} : phase'[t] = phase[t] /\ event'[t] = event[t]
    BY <1>2
  <2>3. \/ StatusOf(s)' = StatusOf(s)
        \/ StatusOf(s) = "asked" /\ StatusOf(s)' = "delta"
        \/ StatusOf(s) = "delta" /\ StatusOf(s)' \in {"done", "error"}
    BY <1>2, <2>1 DEF StatusOf, Terminal
  <2> QED
    BY <2>2, <2>3, OneStatus
<1>3. ASSUME NEW s \in Streams, phase[s] \in {"new", "queued", "opening", "reading first", "ready"}
      PROVE  event[s] = "none"
  BY <1>3 DEF EventFitsPhase
<1>4. ASSUME NEW s \in Streams, phase[s] = "running", event[s] \notin Terminal
      PROVE  event[s] = "delta"
  BY <1>4 DEF EventFitsPhase
<1>5. ASSUME NEW c \in Calls, Begin(c) \/ Connect(c) \/ GiveUp(c) \/ (c \in Posts /\ Post(c))
      PROVE  [Promise!Next]_([t \in Streams |-> StatusOf(t)])
  <2>1. CASE c \in Streams
    <3>1. PICK from \in {"new", "queued"}, to \in {"queued", "opening", "refused"} : Move(c, from, to)
      BY <1>5, <2>1, ProxyAssumption DEF Begin, Connect, GiveUp
    <3>2. UNCHANGED event
      BY <1>5 DEF Begin, Connect, GiveUp, Post
    <3> QED
      BY <1>1, <1>3, <2>1, <3>1, <3>2 DEF Move
  <2>2. CASE c \notin Streams
    <3>1. \A t \in Streams : phase'[t] = phase[t] /\ event'[t] = event[t]
      BY <1>5, <2>2 DEF Begin, Connect, GiveUp, Post, Move
    <3> QED
      BY <3>1, SameStatus
  <2> QED
    BY <2>1, <2>2
<1>6. ASSUME NEW s \in Streams, OpenStream(s) \/ ReadFirst(s)
      PROVE  [Promise!Next]_([t \in Streams |-> StatusOf(t)])
  <2>1. UNCHANGED event /\ \E from \in {"opening", "reading first"}, to \in {"reading first", "ready", "refused"} :
                              Move(s, from, to)
    BY <1>6 DEF OpenStream, ReadFirst
  <2> QED
    BY <1>1, <1>3, <2>1 DEF Move
<1>7. ASSUME NEW s \in Streams, Start(s)
      PROVE  [Promise!Next]_([t \in Streams |-> StatusOf(t)])
  BY <1>2, <1>7 DEF Start, Move, Yield
<1>8. ASSUME NEW s \in Streams, HandleFirst(s)
      PROVE  [Promise!Next]_([t \in Streams |-> StatusOf(t)])
  <2>1. phase' = phase /\ phase[s] = "running" /\ event[s] = "delta"
    BY <1>8 DEF HandleFirst, EventFitsPhase
  <2>2. phase' = [phase EXCEPT ![s] = "running"]
    BY <2>1
  <2>3. CASE first[s] = "silent"
    BY <1>8, <2>1, <2>3, SameStatus DEF HandleFirst
  <2>4. CASE first[s] = "words"
    BY <1>2, <1>8, <2>1, <2>2, <2>4 DEF HandleFirst, Yield
  <2>5. CASE first[s] = "done"
    BY <1>2, <1>8, <2>1, <2>2, <2>5 DEF HandleFirst, Yield, Terminal
  <2> QED
    BY <1>8, <2>3, <2>4, <2>5 DEF HandleFirst, Lines
<1>9. ASSUME NEW s \in Streams, ReadLine(s)
      PROVE  [Promise!Next]_([t \in Streams |-> StatusOf(t)])
  <2>1. phase' = [phase EXCEPT ![s] = "running"] /\ phase[s] = "running" /\ event[s] = "delta"
    BY <1>4, <1>9 DEF ReadLine
  <2> QED
    BY <1>2, <1>9, <2>1 DEF ReadLine, Yield, Terminal
<1>10. ASSUME NEW s \in Streams, BreakOff(s) \/ End(s)
      PROVE  [Promise!Next]_([t \in Streams |-> StatusOf(t)])
  <2>1. CASE BreakOff(s)
    <3>1. UNCHANGED event /\ Move(s, "running", "broken") /\ phase[s] = "running" /\ event[s] \notin Terminal
      BY <2>1 DEF BreakOff, Move
    <3>2. event[s] = "delta"
      BY <1>4, <3>1
    <3> QED
      BY <1>1, <3>1, <3>2
  <2>2. CASE End(s)
    <3>1. UNCHANGED event /\ Move(s, "running", "closed") /\ phase[s] = "running" /\ event[s] \in Terminal
      BY <2>2 DEF End, Move
    <3> QED
      BY <1>1, <3>1
  <2> QED
    BY <1>10, <2>1, <2>2
<1>11. ASSUME NEW s \in Streams, Leave(s)
      PROVE  [Promise!Next]_([t \in Streams |-> StatusOf(t)])
  <2>1. /\ UNCHANGED event
        /\ \/ \E to \in {"left", "dropped"} : Move(s, "running", to)
           \/ \E from \in {"queued", "opening", "reading first", "ready"}, to \in {"left", "dropped"} :
                Move(s, from, to)
    BY <1>11 DEF Leave
  <2>2. ASSUME NEW to \in {"left", "dropped"}, Move(s, "running", to)
        PROVE  [Promise!Next]_([t \in Streams |-> StatusOf(t)])
    BY <1>1, <2>1, <2>2 DEF Move, EventFitsPhase
  <2>3. ASSUME NEW from \in {"queued", "opening", "reading first", "ready"}, NEW to \in {"left", "dropped"},
               Move(s, from, to)
        PROVE  [Promise!Next]_([t \in Streams |-> StatusOf(t)])
    BY <1>1, <1>3, <2>1, <2>3 DEF Move
  <2> QED
    BY <2>1, <2>2, <2>3
<1>12. ASSUME NEW s \in Streams, Collect(s)
       PROVE  [Promise!Next]_([t \in Streams |-> StatusOf(t)])
  BY <1>1, <1>12 DEF Collect
<1>13. CASE UNCHANGED vars \/ \E s \in Streams : SendChunk(s)
  BY <1>13, SameStatus DEF vars, SendChunk
<1> QED
  BY <1>5, <1>6, <1>7, <1>8, <1>9, <1>10, <1>11, <1>12, <1>13 DEF Next, Read, Calls

\* The proxy keeps its promise: every stream is refused, or delivers deltas and then one
\* terminal event or an exception, for any number of streams and calls at once.
THEOREM KeepsItsPromiseHolds == Spec => KeepsItsPromise
<1>1. Init => Promise!Init
  BY InitRefines
<1>2. ProxyInv /\ [Next]_vars => [Promise!Next]_([s \in Streams |-> StatusOf(s)])
  BY StepRefines
<1>3. Spec => []ProxyInv
  BY InitProxy, NextProxy, PTL DEF Spec
<1> QED
  BY <1>1, <1>2, <1>3, PTL DEF Spec, KeepsItsPromise, Promise!Spec

------------------------------------------------------------------------------
(***************************************************************************)
(* What is on the wire, and the size of the pool.                          *)
(***************************************************************************)

\* What is on the wire of a running stream and what is still to be sent, after this event.
Sending(s) ==
  \/ /\ event[s] = "delta"
     /\ \/ wire[s] \in {<<>>, <<"delta">>} /\ unsent[s] = <<"delta">>
        \/ wire[s] = <<"delta">> /\ unsent[s] = <<>>
  \/ /\ event[s] = "error"
     /\ \/ wire[s] = <<"delta">> /\ unsent[s] = <<"error">>
        \/ wire[s] = <<"delta", "error">> /\ unsent[s] = <<>>
  \/ /\ event[s] = "done" /\ s \in withUsage
     /\ \/ wire[s] = <<"delta">> /\ unsent[s] = <<"finish", "usage", "[DONE]">>
        \/ wire[s] = <<"delta", "finish">> /\ unsent[s] = <<"usage", "[DONE]">>
        \/ wire[s] = <<"delta", "finish", "usage">> /\ unsent[s] = <<"[DONE]">>
        \/ wire[s] = <<"delta", "finish", "usage", "[DONE]">> /\ unsent[s] = <<>>
  \/ /\ event[s] = "done" /\ s \notin withUsage
     /\ \/ wire[s] = <<"delta">> /\ unsent[s] = <<"finish", "[DONE]">>
        \/ wire[s] = <<"delta", "finish">> /\ unsent[s] = <<"[DONE]">>
        \/ wire[s] = <<"delta", "finish", "[DONE]">> /\ unsent[s] = <<>>

\* What a client may have got when its stream stops.
Beginnings(s) ==
  {<<>>, <<"delta">>, <<"delta", "error">>, <<"delta", "finish">>}
    \union IF s \in withUsage THEN {<<"delta", "finish", "usage">>,
                                    <<"delta", "finish", "usage", "[DONE]">>}
                              ELSE {<<"delta", "finish", "[DONE]">>}

WireFits(s) ==
  /\ event[s] = "none" => wire[s] = <<>>
  /\ phase[s] = "running" => Sending(s)
  /\ phase[s] # "running" => unsent[s] = <<>>
  /\ wire[s] \in Beginnings(s)

WireInv ==
  /\ DOMAIN wire = Streams /\ unsent = [s \in Streams |-> unsent[s]] /\ withUsage \subseteq Streams
  /\ \A s \in Streams : WireFits(s)

PoolInv == IsFiniteSet(held) /\ Cardinality(held) <= Slots

\* A stream whose event, phase and chunks a step leaves alone.
LEMMA WireStays ==
  ASSUME NEW s \in Streams, WireFits(s), UNCHANGED withUsage,
         event'[s] = event[s], wire'[s] = wire[s], unsent'[s] = unsent[s],
         phase'[s] = phase[s] \/ (phase'[s] # "running" /\ unsent[s] = <<>>)
  PROVE  WireFits(s)'
BY DEF WireFits, Sending, Beginnings

\* A running stream without a chunk to send gets the chunks of its next event.
LEMMA WireOfYield ==
  ASSUME ProxyInv, WireInv, NEW s \in Streams, Asked(s), phase[s] \in {"ready", "running"},
         phase'[s] = "running", NEW ev \in {"delta", "done", "error"}, Yield(s, ev),
         \/ ev = "delta" /\ event[s] \in {"none", "delta"}
         \/ event[s] = "delta" /\ phase[s] = "running"
  PROVE  WireFits(s)'
<1>1. /\ event'[s] = ev /\ unsent'[s] = ChunksOf(s, ev) /\ wire'[s] = wire[s] /\ withUsage' = withUsage
      /\ unsent[s] = <<>> /\ WireFits(s)
  BY DEF Yield, Asked, ProxyInv, Shape, WireInv
<1>2. event[s] = "none" => wire[s] = <<>>
  BY <1>1 DEF WireFits
<1>3. event[s] = "delta" /\ phase[s] = "running" => wire[s] = <<"delta">>
  BY <1>1 DEF WireFits, Sending
<1>4. phase[s] = "ready" => event[s] = "none"
  BY DEF ProxyInv, EventFitsPhase
<1>5. CASE ev = "delta"
  BY <1>1, <1>2, <1>3, <1>4, <1>5 DEF WireFits, Sending, Beginnings, ChunksOf
<1>6. CASE ev = "error"
  BY <1>1, <1>3, <1>4, <1>6 DEF WireFits, Sending, Beginnings, ChunksOf
<1>7. CASE ev = "done"
  BY <1>1, <1>3, <1>4, <1>7 DEF WireFits, Sending, Beginnings, ChunksOf
<1> QED
  BY <1>5, <1>6, <1>7

\* Append, as the prover needs it: a sequence one longer than another one, which it repeats.
LEMMA OneLonger ==
  ASSUME NEW S, NEW s \in Seq(S), NEW t \in Seq(S), NEW e \in S,
         Len(t) = Len(s) + 1, \A i \in 1 .. Len(s) : t[i] = s[i], t[Len(s) + 1] = e
  PROVE  Append(s, e) = t
<1>1. Len(s) \in Nat
  BY LenProperties
<1>2. Append(s, e) \in Seq(S) /\ Len(Append(s, e)) = Len(t)
  BY AppendProperties
<1>3. ASSUME NEW i \in 1 .. Len(t) PROVE Append(s, e)[i] = t[i]
  <2>1. i \in 1 .. Len(s) \/ i = Len(s) + 1
    BY <1>1, <1>3
  <2>2. CASE i \in 1 .. Len(s)
    BY <2>2, AppendProperties
  <2>3. CASE i = Len(s) + 1
    BY <2>3, AppendProperties
  <2> QED
    BY <2>1, <2>2, <2>3
<1> QED
  BY <1>2, <1>3, SeqEqual

LEMMA AppendToNone ==
  ASSUME NEW S, NEW a \in S PROVE Append(<<>>, a) = <<a>>
<1> DEFINE s == <<>>
<1> DEFINE t == <<a>>
<1>1. s \in Seq(S) /\ t \in Seq(S)
  OBVIOUS
<1>2. Len(s) = 0 /\ Len(t) = 1 /\ t[1] = a
  OBVIOUS
<1> HIDE DEF s, t
<1>3. Len(t) = Len(s) + 1 /\ t[Len(s) + 1] = a /\ \A i \in 1 .. Len(s) : t[i] = s[i]
  BY <1>2
<1>4. Append(s, a) = t
  BY <1>1, <1>3, OneLonger
<1> QED
  BY <1>4 DEF s, t

LEMMA AppendToOne ==
  ASSUME NEW S, NEW a \in S, NEW b \in S PROVE Append(<<a>>, b) = <<a, b>>
<1> DEFINE s == <<a>>
<1> DEFINE t == <<a, b>>
<1>1. s \in Seq(S) /\ t \in Seq(S)
  OBVIOUS
<1>2. Len(s) = 1 /\ Len(t) = 2 /\ t[1] = a /\ t[2] = b /\ s[1] = a
  OBVIOUS
<1> HIDE DEF s, t
<1>3. Len(t) = Len(s) + 1 /\ t[Len(s) + 1] = b /\ \A i \in 1 .. Len(s) : t[i] = s[i]
  BY <1>2
<1>4. Append(s, b) = t
  BY <1>1, <1>3, OneLonger
<1> QED
  BY <1>4 DEF s, t

LEMMA AppendToTwo ==
  ASSUME NEW S, NEW a \in S, NEW b \in S, NEW c \in S PROVE Append(<<a, b>>, c) = <<a, b, c>>
<1> DEFINE s == <<a, b>>
<1> DEFINE t == <<a, b, c>>
<1>1. s \in Seq(S) /\ t \in Seq(S)
  OBVIOUS
<1>2. Len(s) = 2 /\ Len(t) = 3 /\ t[1] = a /\ t[2] = b /\ t[3] = c /\ s[1] = a /\ s[2] = b
  OBVIOUS
<1> HIDE DEF s, t
<1>3. Len(t) = Len(s) + 1 /\ t[Len(s) + 1] = c /\ \A i \in 1 .. Len(s) : t[i] = s[i]
  BY <1>2
<1>4. Append(s, c) = t
  BY <1>1, <1>3, OneLonger
<1> QED
  BY <1>4 DEF s, t

LEMMA AppendToThree ==
  ASSUME NEW S, NEW a \in S, NEW b \in S, NEW c \in S, NEW d \in S PROVE Append(<<a, b, c>>, d) = <<a, b, c, d>>
<1> DEFINE s == <<a, b, c>>
<1> DEFINE t == <<a, b, c, d>>
<1>1. s \in Seq(S) /\ t \in Seq(S)
  OBVIOUS
<1>2. Len(s) = 3 /\ Len(t) = 4 /\ t[1] = a /\ t[2] = b /\ t[3] = c /\ t[4] = d /\ s[1] = a /\ s[2] = b /\ s[3] = c
  OBVIOUS
<1> HIDE DEF s, t
<1>3. Len(t) = Len(s) + 1 /\ t[Len(s) + 1] = d /\ \A i \in 1 .. Len(s) : t[i] = s[i]
  BY <1>2
<1>4. Append(s, d) = t
  BY <1>1, <1>3, OneLonger
<1> QED
  BY <1>4 DEF s, t

\* Every chunk that a client can get, at its place.
LEMMA ChunkGoesOut ==
  /\ Append(<<>>, "delta") = <<"delta">>
  /\ Append(<<"delta">>, "error") = <<"delta", "error">>
  /\ Append(<<"delta">>, "finish") = <<"delta", "finish">>
  /\ Append(<<"delta", "finish">>, "usage") = <<"delta", "finish", "usage">>
  /\ Append(<<"delta", "finish">>, "[DONE]") = <<"delta", "finish", "[DONE]">>
  /\ Append(<<"delta", "finish", "usage">>, "[DONE]") = <<"delta", "finish", "usage", "[DONE]">>
<1>1. "delta" \in Chunks /\ "finish" \in Chunks /\ "usage" \in Chunks /\ "[DONE]" \in Chunks /\ "error" \in Chunks
  BY DEF Chunks
<1>2. Append(<<>>, "delta") = <<"delta">>
  BY <1>1, AppendToNone
<1>3. Append(<<"delta">>, "error") = <<"delta", "error">>
  BY <1>1, AppendToOne
<1>4. Append(<<"delta">>, "finish") = <<"delta", "finish">>
  BY <1>1, AppendToOne
<1>5. Append(<<"delta", "finish">>, "usage") = <<"delta", "finish", "usage">>
  BY <1>1, AppendToTwo
<1>6. Append(<<"delta", "finish">>, "[DONE]") = <<"delta", "finish", "[DONE]">>
  BY <1>1, AppendToTwo
<1>7. Append(<<"delta", "finish", "usage">>, "[DONE]") = <<"delta", "finish", "usage", "[DONE]">>
  BY <1>1, AppendToThree
<1> QED
  BY <1>2, <1>3, <1>4, <1>5, <1>6, <1>7

\* The next chunk goes out.
LEMMA WireOfSend ==
  ASSUME ProxyInv, WireInv, NEW s \in Streams, SendChunk(s)
  PROVE  WireFits(s)'
<1>1. /\ WireFits(s) /\ phase[s] = "running" /\ event[s] # "none" /\ unsent[s] # <<>>
      /\ UNCHANGED <<phase, event, withUsage>>
  BY DEF SendChunk, ProxyInv, EventFitsPhase, WireInv
<1>2. /\ unsent'[s] = Tail(unsent[s])
      /\ wire'[s] = IF Head(unsent[s]) = "delta" /\ wire[s] = <<"delta">> THEN wire[s]
                    ELSE Append(wire[s], Head(unsent[s]))
  BY DEF SendChunk, WireInv
<1>3. event[s] \in {"delta", "done", "error"} /\ Sending(s)
  BY <1>1 DEF ProxyInv, Shape, Terminal, WireFits
<1>4. CASE event[s] = "delta"
  <2>1. /\ Head(<<"delta">>) = "delta" /\ Tail(<<"delta">>) = <<>>
        /\ <<"delta">> # <<>>
    OBVIOUS
  <2>2. wire'[s] = <<"delta">> /\ unsent'[s] = <<>>
    BY <1>1, <1>2, <1>3, <1>4, <2>1, ChunkGoesOut DEF Sending
  <2> QED
    BY <1>1, <1>4, <2>2 DEF WireFits, Sending, Beginnings
<1>5. CASE event[s] = "error"
  <2>1. /\ Head(<<"error">>) = "error" /\ Tail(<<"error">>) = <<>>
    OBVIOUS
  <2>2. wire'[s] = <<"delta", "error">> /\ unsent'[s] = <<>>
    BY <1>1, <1>2, <1>3, <1>5, <2>1, ChunkGoesOut DEF Sending
  <2> QED
    BY <1>1, <1>5, <2>2 DEF WireFits, Sending, Beginnings
<1>6. CASE event[s] = "done"
  <2> DEFINE chunk == Head(unsent[s])
  <2>1. /\ Head(<<"finish", "usage", "[DONE]">>) = "finish"
        /\ Tail(<<"finish", "usage", "[DONE]">>) = <<"usage", "[DONE]">>
        /\ Head(<<"usage", "[DONE]">>) = "usage" /\ Tail(<<"usage", "[DONE]">>) = <<"[DONE]">>
        /\ Head(<<"[DONE]">>) = "[DONE]" /\ Tail(<<"[DONE]">>) = <<>>
        /\ Head(<<"finish", "[DONE]">>) = "finish" /\ Tail(<<"finish", "[DONE]">>) = <<"[DONE]">>
    OBVIOUS
  <2>3. chunk # "delta"
    BY <1>1, <1>3, <1>6, <2>1 DEF Sending
  <2>4. wire'[s] = Append(wire[s], chunk) /\ unsent'[s] = Tail(unsent[s])
    BY <1>2, <2>3
  <2>5. CASE s \in withUsage
    <3>1. Sending(s)' /\ wire'[s] \in Beginnings(s)
      BY <1>1, <1>3, <1>6, <2>1, <2>4, <2>5, ChunkGoesOut DEF Sending, Beginnings
    <3> QED
      BY <1>1, <3>1 DEF WireFits, Beginnings
  <2>6. CASE s \notin withUsage
    <3>1. Sending(s)' /\ wire'[s] \in Beginnings(s)
      BY <1>1, <1>3, <1>6, <2>1, <2>4, <2>6, ChunkGoesOut DEF Sending, Beginnings
    <3> QED
      BY <1>1, <3>1 DEF WireFits, Beginnings
  <2> QED
    BY <2>5, <2>6
<1> QED
  BY <1>3, <1>4, <1>5, <1>6

LEMMA NextWire ==
  ASSUME ProxyInv, WireInv, [Next]_vars
  PROVE  WireInv'
<1> USE StreamsAreCalls
<1>1. ASSUME UNCHANGED <<event, outputVars>>, NEW c, NEW from, NEW to, Move(c, from, to), to # "running",
             c \in Streams /\ from = "running" => Asked(c)
      PROVE  WireInv'
  <2>1. \A s \in Streams : phase'[s] = phase[s] \/ (phase'[s] # "running" /\ unsent[s] = <<>>)
    BY <1>1 DEF Move, Asked, ProxyInv, Shape, WireInv, WireFits
  <2> QED
    BY <1>1, <2>1, WireStays DEF WireInv, outputVars
<1>2. ASSUME NEW s \in Streams, WireFits(s)', UNCHANGED withUsage,
             DOMAIN wire' = Streams, unsent' = [t \in Streams |-> unsent'[t]],
             \A t \in Streams \ {s} : /\ phase'[t] = phase[t] /\ event'[t] = event[t]
                                      /\ wire'[t] = wire[t] /\ unsent'[t] = unsent[t]
      PROVE  WireInv'
  BY <1>2, WireStays DEF WireInv
<1>3. ASSUME NEW s \in Streams, NEW ev \in {"delta", "done", "error"}, Yield(s, ev), Asked(s),
             phase[s] \in {"ready", "running"}, phase' = [phase EXCEPT ![s] = "running"],
             \/ ev = "delta" /\ event[s] \in {"none", "delta"}
             \/ event[s] = "delta" /\ phase[s] = "running"
      PROVE  WireInv'
  <2>1. phase'[s] = "running" /\ \A t \in Streams \ {s} : phase'[t] = phase[t]
    BY <1>3 DEF ProxyInv, Shape
  <2>2. WireFits(s)'
    BY <1>3, <2>1, WireOfYield
  <2>3. \A t \in Streams \ {s} : event'[t] = event[t] /\ wire'[t] = wire[t] /\ unsent'[t] = unsent[t]
    BY <1>3 DEF Yield, ProxyInv, Shape, WireInv
  <2> QED
    BY <1>2, <1>3, <2>1, <2>2, <2>3 DEF Yield, WireInv
<1>4. ASSUME NEW c \in Calls, Begin(c) \/ Connect(c) \/ GiveUp(c) \/ Post(c) \/ OpenStream(c) \/ ReadFirst(c)
      PROVE  WireInv'
  <2>1. UNCHANGED <<event, outputVars>>
        /\ \E from \in {"new", "queued", "opening", "reading first"},
              to \in {"queued", "refused", "opening", "answered", "reading first", "ready"} : Move(c, from, to)
    BY <1>4 DEF Begin, Connect, GiveUp, Post, OpenStream, ReadFirst
  <2> QED
    BY <1>1, <2>1
<1>5. ASSUME NEW s \in Streams, BreakOff(s) \/ End(s) \/ Collect(s) PROVE WireInv'
  BY <1>1, <1>5 DEF BreakOff, End, Collect
<1>6. ASSUME NEW s \in Streams, Start(s) PROVE WireInv'
  <2>1. event[s] = "none"
    BY <1>6 DEF Start, Move, ProxyInv, EventFitsPhase
  <2> QED
    BY <1>3, <1>6, <2>1 DEF Start, Move
<1>7. ASSUME NEW s \in Streams, HandleFirst(s) PROVE WireInv'
  <2>1. event[s] = "delta" /\ phase[s] = "running" /\ phase' = [phase EXCEPT ![s] = "running"] /\ Asked(s)
        /\ UNCHANGED phase /\ first[s] \in Lines
    BY <1>7 DEF HandleFirst, ProxyInv, Shape, EventFitsPhase
  <2>2. CASE first[s] = "silent"
    BY <1>7, <2>1, <2>2, WireStays DEF HandleFirst, WireInv, outputVars
  <2>3. CASE first[s] = "words"
    BY <1>3, <1>7, <2>1, <2>3 DEF HandleFirst
  <2>4. CASE first[s] = "done"
    BY <1>3, <1>7, <2>1, <2>4 DEF HandleFirst
  <2> QED
    BY <2>1, <2>2, <2>3, <2>4 DEF Lines
<1>8. ASSUME NEW s \in Streams, ReadLine(s) PROVE WireInv'
  <2>1. event[s] = "delta" /\ phase[s] = "running" /\ phase' = [phase EXCEPT ![s] = "running"] /\ Asked(s)
    BY <1>8 DEF ReadLine, ProxyInv, Shape, EventFitsPhase
  <2> QED
    BY <1>3, <1>8, <2>1 DEF ReadLine
<1>9. ASSUME NEW s \in Streams, SendChunk(s) PROVE WireInv'
  BY <1>2, <1>9, WireOfSend DEF SendChunk, WireInv
<1>10. ASSUME NEW s \in Streams, Leave(s) PROVE WireInv'
  <2>1. /\ phase'[s] # "running" /\ unsent'[s] = <<>> /\ UNCHANGED <<event, withUsage, wire>>
        /\ \A t \in Streams \ {s} : phase'[t] = phase[t] /\ unsent'[t] = unsent[t]
        /\ unsent' = [t \in Streams |-> unsent'[t]]
    BY <1>10 DEF Leave, Move, ProxyInv, Shape, WireInv
  <2>2. WireFits(s)'
    BY <2>1 DEF WireInv, WireFits, Beginnings
  <2> QED
    BY <1>2, <2>1, <2>2 DEF WireInv
<1>11. CASE UNCHANGED vars
  BY <1>11, WireStays DEF vars, outputVars, WireInv
<1> QED
  BY <1>4, <1>5, <1>6, <1>7, <1>8, <1>9, <1>10, <1>11 DEF Next, Read, Calls

LEMMA InitWire == Init => WireInv
<1> SUFFICES ASSUME Init PROVE WireInv
  OBVIOUS
<1>1. /\ wire = [s \in Streams |-> <<>>] /\ unsent = [s \in Streams |-> <<>>]
      /\ event = [s \in Streams |-> "none"] /\ phase = [c \in Calls |-> "new"] /\ withUsage \in SUBSET Streams
  BY DEF Init
<1>2. \A s \in Streams : wire[s] = <<>> /\ unsent[s] = <<>> /\ phase[s] = "new"
  BY <1>1, StreamsAreCalls
<1> QED
  BY <1>1, <1>2 DEF WireInv, WireFits, Beginnings

\* The proxy never holds more connections than the pool has.
LEMMA NextPool ==
  ASSUME ProxyInv, PoolInv, [Next]_vars
  PROVE  PoolInv'
<1>1. CASE held' = held
  BY <1>1 DEF PoolInv
<1>2. ASSUME NEW c, held' = held \ {c} PROVE PoolInv'
  <2>1. IsFiniteSet(held \ {c}) /\ Cardinality(held \ {c}) <= Cardinality(held)
    BY FS_RemoveElement, FS_CardinalityType DEF PoolInv
  <2>2. Cardinality(held \ {c}) \in Nat /\ Cardinality(held) \in Nat /\ Slots \in Nat
    BY <2>1, FS_CardinalityType, ProxyAssumption DEF PoolInv
  <2> QED
    BY <1>2, <2>1, <2>2 DEF PoolInv
<1>3. ASSUME NEW c \in Calls, Connect(c) PROVE PoolInv'
  <2>1. held' = held \union {c} /\ Cardinality(held) < Slots /\ Cardinality(held) \in Nat /\ Slots \in Nat
    BY <1>3, FS_CardinalityType, ProxyAssumption DEF Connect, PoolInv
  <2>2. IsFiniteSet(held') /\ Cardinality(held') \in {Cardinality(held), Cardinality(held) + 1}
    BY <2>1, FS_AddElement DEF PoolInv
  <2> QED
    BY <2>1, <2>2 DEF PoolInv
<1>4. ASSUME NEW c \in Calls, Begin(c) \/ GiveUp(c) \/ Post(c) PROVE PoolInv'
  BY <1>1, <1>2, <1>4 DEF Begin, GiveUp, Post
<1>5. ASSUME NEW s \in Streams, OpenStream(s) \/ ReadFirst(s) PROVE PoolInv'
  BY <1>1, <1>2, <1>5 DEF OpenStream, ReadFirst
<1>6. ASSUME NEW s \in Streams, Start(s) \/ ReadLine(s) \/ SendChunk(s) PROVE PoolInv'
  BY <1>1, <1>6 DEF Start, ReadLine, SendChunk, Yield
<1>7. ASSUME NEW s \in Streams, HandleFirst(s) PROVE PoolInv'
  <2>1. first[s] \in Lines
    BY <1>7 DEF HandleFirst, ProxyInv, Shape
  <2> QED
    BY <1>1, <1>7, <2>1 DEF HandleFirst, Yield, Lines
<1>8. ASSUME NEW s \in Streams, BreakOff(s) \/ End(s) \/ Leave(s) \/ Collect(s) PROVE PoolInv'
  BY <1>1, <1>2, <1>8 DEF BreakOff, End, Leave, Collect
<1>9. CASE UNCHANGED vars
  BY <1>1, <1>9 DEF vars
<1> QED
  BY <1>3, <1>4, <1>5, <1>6, <1>7, <1>8, <1>9 DEF Next, Read, Calls

LEMMA InitPool == Init => PoolInv
BY FS_EmptySet, ProxyAssumption DEF Init, PoolInv

LEMMA ProxyTyped ==
  ASSUME ProxyInv, WireInv, PoolInv
  PROVE  ProxyTypeOK
<1>1. unsent \in [Streams -> {<<>>, <<"delta">>, <<"error">>, <<"[DONE]">>, <<"usage", "[DONE]">>,
                              <<"finish", "[DONE]">>, <<"finish", "usage", "[DONE]">>}]
  <2>1. ASSUME NEW s \in Streams
        PROVE  unsent[s] \in {<<>>, <<"delta">>, <<"error">>, <<"[DONE]">>, <<"usage", "[DONE]">>,
                              <<"finish", "[DONE]">>, <<"finish", "usage", "[DONE]">>}
    <3>1. WireFits(s)
      BY DEF WireInv
    <3>2. CASE phase[s] # "running"
      BY <3>1, <3>2 DEF WireFits
    <3>3. CASE phase[s] = "running"
      <4>1. event[s] \in {"delta", "done", "error"} /\ Sending(s)
        BY <3>1, <3>3 DEF WireFits, ProxyInv, Shape, EventFitsPhase, Terminal
      <4> QED
        BY <4>1 DEF Sending
    <3> QED
      BY <3>2, <3>3
  <2> QED
    BY <2>1 DEF WireInv
<1>2. ASSUME NEW s \in Streams, NEW i \in DOMAIN wire[s] PROVE wire[s][i] \in Chunks
  <2>1. wire[s] \in Beginnings(s)
    BY DEF WireInv, WireFits
  <2> QED
    BY <1>2, <2>1 DEF Beginnings, Chunks
<1> QED
  BY <1>1, <1>2 DEF ProxyTypeOK, ProxyInv, Shape, PoolInv, WireInv

LEMMA WireTellsAStory ==
  ASSUME WireInv, NEW s \in Streams
  PROVE  \E story \in {<<"delta", "error">>,
                       IF s \in withUsage THEN <<"delta", "finish", "usage", "[DONE]">>
                                          ELSE <<"delta", "finish", "[DONE]">>} :
           IsPrefix(wire[s], story)
<1>1. wire[s] \in Beginnings(s)
  BY DEF WireInv, WireFits
<1>2. CASE wire[s] \in {<<>>, <<"delta">>, <<"delta", "error">>}
  <2>1. IsPrefix(<<>>, <<"delta", "error">>) /\ IsPrefix(<<"delta">>, <<"delta", "error">>)
        /\ IsPrefix(<<"delta", "error">>, <<"delta", "error">>)
    BY DEF IsPrefix
  <2> QED
    BY <1>2, <2>1
<1>3. CASE s \in withUsage /\ wire[s] \in {<<"delta", "finish">>, <<"delta", "finish", "usage">>,
                                           <<"delta", "finish", "usage", "[DONE]">>}
  <2> DEFINE story == <<"delta", "finish", "usage", "[DONE]">>
  <2>1. IsPrefix(<<"delta", "finish">>, story) /\ IsPrefix(<<"delta", "finish", "usage">>, story)
        /\ IsPrefix(story, story)
    BY DEF IsPrefix
  <2> QED
    BY <1>3, <2>1
<1>4. CASE s \notin withUsage /\ wire[s] \in {<<"delta", "finish">>, <<"delta", "finish", "[DONE]">>}
  <2> DEFINE story == <<"delta", "finish", "[DONE]">>
  <2>1. IsPrefix(<<"delta", "finish">>, story) /\ IsPrefix(story, story)
    BY DEF IsPrefix
  <2> QED
    BY <1>4, <2>1
<1> QED
  BY <1>1, <1>2, <1>3, <1>4 DEF Beginnings

\* The proxy's variables have their types, and its pool of connections its limit.
THEOREM ProxyTypeCorrect == Spec => []ProxyTypeOK
BY InitProxy, NextProxy, InitWire, NextWire, InitPool, NextPool, ProxyTyped, PTL DEF Spec

\* proxy_streaming: what the client of a stream has got is at every moment the beginning
\* of an orderly stream, complete up to [DONE], or of one that ends with an error.
THEOREM WireIsWellFormedHolds == Spec => []WireIsWellFormed
<1>1. WireInv => WireIsWellFormed
  BY WireTellsAStory DEF WireIsWellFormed
<1> QED
  BY <1>1, InitProxy, NextProxy, InitWire, NextWire, PTL DEF Spec
==============================================================================
