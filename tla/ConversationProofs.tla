-------------------------- MODULE ConversationProofs --------------------------
(***************************************************************************)
(* For any number of connections, turns, requests and frames: speech       *)
(* inference has an owner for each of its parts, and a turn of a           *)
(* conversation tells its client one story.                                *)
(*                                                                         *)
(* Two invariants, one on top of the other.  AudioInv says where a call    *)
(* waits, whose thread runs and who holds a load lock; it leans on the     *)
(* place a turn is at (step).  TurnInv says which turn is the last of a    *)
(* connection (TurnsFit), what the client of a turn was told at each step  *)
(* (StoryFits), and what is remembered of it (HistoryFits).                *)
(***************************************************************************)
EXTENDS Conversation, FiniteSetTheorems, SequenceTheorems, TLAPS

\* The types, with lines, histories and stories as sequences.
AudioTypes ==
  /\ line \in [Families -> Seq(Calls)]
  /\ thread \in [Families -> [Threads -> {"none"} \union Running \union Returned]]
  /\ cached \subseteq Families /\ files \subseteq Calls
  /\ loader \in [Families -> Threads \union {Nobody}]
  /\ request \in [Requests -> {"none", "uploading", "listening", "speaking", "answered"}]

Entries == {"user", "assistant"} \X (1 .. MaxTurns)

TalkTypes ==
  /\ conn \in [Sessions -> {"new", "open", "closing", "ending", "closed"}]
  /\ gone \subseteq Sessions /\ collecting \subseteq Sessions /\ cancelling \subseteq Turns
  /\ telling \in [Sessions -> 0 .. MaxTurns] /\ task \in [Sessions -> 0 .. MaxTurns]
  /\ audio \in [Sessions -> 0 .. MaxAudio]
  /\ history \in [Sessions -> Seq(Entries)]
  /\ \A s \in Sessions : Len(history[s]) <= MaxHistory
  /\ step \in [Turns -> Steps]
  /\ sent \in [Turns -> Seq(Events)]

Distinct(q) == \A i, j \in DOMAIN q : q[i] = q[j] => i = j

\* A call is once in the line it waits in, and it waits there just as long as its
\* request or turn does.
LinesFit ==
  /\ \A f \in Families : Distinct(line[f])
  /\ \A r \in Requests : /\ In("whisper", r) <=> request[r] = "listening"
                         /\ In("chatterbox", r) <=> request[r] = "speaking"
  /\ \A k \in Turns : /\ In("whisper", k) => step[k] = "listening"
                      /\ In("chatterbox", k) => step[k] = "speaking"

\* A thread belongs to the call at the head of the line, or to none: only a turn that
\* is over leaves one behind.
ThreadsFit ==
  /\ \A f \in Families : \A t \in Calls : thread[f][t] # "none" /\ In(f, t) => Head(line[f]) = t
  /\ \A f \in Families : \A r \in Requests : thread[f][r] # "none" => In(f, r)
  /\ \A k \in Turns : /\ thread["whisper"][k] # "none" => step[k] \in {"listening", "over"}
                      /\ thread["chatterbox"][k] # "none" => step[k] \in {"speaking", "over"}

\* The thread that loads a model has the lock, and the model is not there yet; the
\* warm-up comes to Chatterbox when it is done with Whisper.
LoadsFit ==
  /\ \A f \in Families : \A t \in Threads : thread[f][t] = "loading" <=> loader[f] = t
  /\ \A f \in Families : loader[f] # Nobody => f \notin cached
  /\ thread["chatterbox"][Warm] # "none" => thread["whisper"][Warm] = "done"

FilesFit == files = {t \in Calls : In("whisper", t)} \union {r \in Requests : request[r] = "uploading"}

AudioInv == LinesFit /\ ThreadsFit /\ LoadsFit /\ FilesFit

\* A turn whose task was cancelled, or is no more.
Stopped(k) == k \in cancelling \/ step[k] = "over"

Tells(k, ev) == \E i \in DOMAIN sent[k] : sent[k][i] = ev

\* The turns of a connection come one after the other; one in progress is the last,
\* and the task of the state.
TurnsFit ==
  \A s \in Sessions :
    /\ \E m \in 0 .. MaxTurns : Started(s) = 1 .. m
    /\ task[s] # 0 => Started(s) = 1 .. task[s]
    /\ \A n \in 1 .. MaxTurns : step[<<s, n>>] \notin {"unused", "over"} => task[s] = n

\* A client waits for response.cancelled only of a turn whose task was cancelled.
TellingFits == \A s \in Sessions : telling[s] # 0 => Stopped(<<s, telling[s]>>)

\* What a client was told of a turn fits how far the turn is.
StoryFits ==
  /\ \A k \in Turns : /\ After(k, {"cancelled"}, {})
                      /\ After(k, Endings, {"cancelled"})
                      /\ Tells(k, "cancelled") => Stopped(k)
                      /\ Tells(k, "completed") \/ Tells(k, "error") => step[k] \in {"last", "over"}
                      /\ k \in cancelling => step[k] \notin {"unused", "over"}
  /\ TellingFits

\* What is remembered of a turn fits what its client was told, and how far it is.
HistoryFits ==
  /\ \A s \in Sessions : \A i \in DOMAIN history[s] :
       step[<<s, history[s][i][2]>>] # "unused"
  /\ \A k \in Turns :
       /\ step[k] \in {"created", "listening", "heard"} =>
            \A i \in DOMAIN history[k[1]] : history[k[1]][i][2] # k[2]
       /\ step[k] \in {"thinking", "streaming", "told"} =>
            \A i \in DOMAIN history[k[1]] :
              history[k[1]][i][2] = k[2] => history[k[1]][i][1] = "user"
       /\ step[k] = "heard" => k[1] \in gone \/ Tells(k, "transcript")
       /\ step[k] = "told" => k[1] \in gone \/ Tells(k, "textCompleted")

------------------------------------------------------------------------------
(***************************************************************************)
(* Sequences.                                                              *)
(***************************************************************************)
Has(q, t) == \E i \in DOMAIN q : q[i] = t

\* A call joins a line it is not in.
LEMMA Joined ==
  ASSUME NEW S, NEW q \in Seq(S), NEW t \in S, Distinct(q), ~Has(q, t)
  PROVE  /\ Append(q, t) \in Seq(S) /\ Distinct(Append(q, t))
         /\ \A u : Has(Append(q, t), u) <=> Has(q, u) \/ u = t
         /\ q # <<>> => Head(Append(q, t)) = Head(q)
<1> DEFINE r == Append(q, t)
<1>1. /\ r \in Seq(S) /\ Len(r) = Len(q) + 1 /\ r[Len(q) + 1] = t
      /\ \A i \in 1 .. Len(q) : r[i] = q[i]
  BY AppendProperties
<1>2. DOMAIN q = 1 .. Len(q) /\ DOMAIN r = 1 .. Len(r) /\ Len(q) \in Nat /\ Len(r) \in Nat
  BY <1>1, LenProperties
<1>3. q # <<>> => Head(r) = Head(q)
  BY HeadTailAppend
<1> HIDE DEF r
<1>4. \A i \in DOMAIN r : i \in DOMAIN q \/ i = Len(q) + 1
  BY <1>1, <1>2
<1>5. Distinct(r)
  BY <1>1, <1>2, <1>4 DEF Distinct, Has
<1>6. Len(q) + 1 \in DOMAIN r /\ \A i \in DOMAIN q : i \in DOMAIN r
  BY <1>1, <1>2
<1>7. ASSUME NEW u PROVE Has(r, u) <=> Has(q, u) \/ u = t
  BY <1>1, <1>2, <1>4, <1>6 DEF Has
<1> QED
  BY <1>1, <1>3, <1>5, <1>7 DEF r

\* A sequence without its element at i.
LEMMA Removed ==
  ASSUME NEW S, NEW q \in Seq(S), NEW i \in DOMAIN q
  PROVE  /\ RemoveAt(q, i) \in Seq(S)
         /\ DOMAIN RemoveAt(q, i) = 1 .. Len(q) - 1
         /\ \A j \in 1 .. Len(q) - 1 : RemoveAt(q, i)[j] = IF j < i THEN q[j] ELSE q[j + 1]
<1> DEFINE low == SubSeq(q, 1, i - 1)
<1> DEFINE high == SubSeq(q, i + 1, Len(q))
<1>1. DOMAIN q = 1 .. Len(q) /\ Len(q) \in Nat /\ i \in 1 .. Len(q) /\ \A j \in 1 .. Len(q) : q[j] \in S
  BY LenProperties, ElementOfSeq
<1>2. /\ low \in Seq(S) /\ Len(low) = i - 1
      /\ \A j \in 1 .. i - 1 : low[j] = q[j]
  <2>1. 1 \in Int /\ i - 1 \in Int /\ \A j \in 1 .. i - 1 : q[j] \in S
    BY <1>1
  <2>2. /\ low \in Seq(S) /\ Len(low) = IF 1 <= i - 1 THEN (i - 1) - 1 + 1 ELSE 0
        /\ \A j \in 1 .. (i - 1) - 1 + 1 : low[j] = q[1 + j - 1]
    BY <2>1, SubSeqProperties
  <2> HIDE DEF low
  <2> QED
    BY <2>2, <1>1
<1>3. /\ high \in Seq(S) /\ Len(high) = Len(q) - i
      /\ \A j \in 1 .. Len(q) - i : high[j] = q[i + j]
  <2>1. i + 1 \in Int /\ Len(q) \in Int /\ \A j \in i + 1 .. Len(q) : q[j] \in S
    BY <1>1
  <2>2. /\ high \in Seq(S) /\ Len(high) = IF i + 1 <= Len(q) THEN Len(q) - (i + 1) + 1 ELSE 0
        /\ \A j \in 1 .. Len(q) - (i + 1) + 1 : high[j] = q[(i + 1) + j - 1]
    BY <2>1, SubSeqProperties
  <2> HIDE DEF high
  <2>3. Len(high) = Len(q) - i
    <3>1. CASE i + 1 <= Len(q)
      BY <1>1, <2>2, <3>1
    <3>2. CASE i = Len(q)
      BY <1>1, <2>2, <3>2
    <3> QED
      BY <1>1, <3>1, <3>2
  <2>4. ASSUME NEW j \in 1 .. Len(q) - i PROVE high[j] = q[i + j]
    <3>1. j \in 1 .. Len(q) - (i + 1) + 1 /\ (i + 1) + j - 1 = i + j
      BY <1>1, <2>4
    <3> QED
      BY <3>1, <2>2
  <2> QED
    BY <2>2, <2>3, <2>4
<1>4. RemoveAt(q, i) = low \o high
  BY DEF RemoveAt
<1> HIDE DEF low, high
<1>5. /\ low \o high \in Seq(S) /\ Len(low \o high) = Len(low) + Len(high)
      /\ \A j \in 1 .. Len(low) + Len(high) :
           (low \o high)[j] = IF j <= Len(low) THEN low[j] ELSE high[j - Len(low)]
  BY <1>2, <1>3, ConcatProperties
<1>6. Len(low) + Len(high) = Len(q) - 1
  BY <1>1, <1>2, <1>3
<1>7. DOMAIN (low \o high) = 1 .. Len(q) - 1
  BY <1>5, <1>6, LenProperties
<1>8. ASSUME NEW j \in 1 .. Len(q) - 1 PROVE (low \o high)[j] = IF j < i THEN q[j] ELSE q[j + 1]
  <2>1. (low \o high)[j] = IF j <= Len(low) THEN low[j] ELSE high[j - Len(low)]
    BY <1>5, <1>6
  <2>2. CASE j < i
    <3>1. j \in 1 .. i - 1 /\ j <= Len(low)
      BY <1>1, <1>2, <2>2
    <3> QED
      BY <2>1, <2>2, <3>1, <1>2
  <2>3. CASE ~(j < i)
    <3>1. j - Len(low) \in 1 .. Len(q) - i /\ i + (j - Len(low)) = j + 1 /\ ~(j <= Len(low))
      BY <1>1, <1>2, <1>8, <2>3
    <3> QED
      BY <2>1, <2>3, <3>1, <1>3
  <2> QED
    BY <2>2, <2>3
<1> QED
  BY <1>4, <1>5, <1>7, <1>8

\* A call leaves the line of f.
LEMMA LeftLine ==
  ASSUME NEW S, NEW f \in Families, line[f] \in Seq(S), Distinct(line[f]), NEW t
  PROVE  /\ Without(f, t) \in Seq(S) /\ Distinct(Without(f, t))
         /\ \A u : Has(Without(f, t), u) <=> In(f, u) /\ u # t
         /\ \A u : u # t /\ In(f, u) /\ Head(line[f]) = u => Head(Without(f, t)) = u
<1> DEFINE q == line[f]
<1>1. DOMAIN q = 1 .. Len(q) /\ Len(q) \in Nat
  BY LenProperties
<1>2. CASE ~In(f, t)
  BY <1>2 DEF Without, In, Has
<1>3. CASE In(f, t)
  <2> DEFINE i == CHOOSE j \in DOMAIN line[f] : line[f][j] = t
  <2> DEFINE r == Without(f, t)
  <2>1. i \in DOMAIN q /\ q[i] = t
    BY <1>3 DEF In
  <2>2. r = RemoveAt(q, i)
    BY <1>3 DEF Without
  <2> HIDE DEF i
  <2>3. /\ r \in Seq(S) /\ DOMAIN r = 1 .. Len(q) - 1
        /\ \A j \in 1 .. Len(q) - 1 : r[j] = IF j < i THEN q[j] ELSE q[j + 1]
    BY <2>1, <2>2, Removed
  <2> HIDE DEF r
  <2>4. Distinct(r)
    <3>1. ASSUME NEW m \in DOMAIN r, NEW n \in DOMAIN r, r[m] = r[n] PROVE m = n
      <4> DEFINE a == IF m < i THEN m ELSE m + 1
      <4> DEFINE b == IF n < i THEN n ELSE n + 1
      <4>1. m \in 1 .. Len(q) - 1 /\ n \in 1 .. Len(q) - 1 /\ i \in 1 .. Len(q)
        BY <1>1, <2>1, <2>3
      <4>2. a \in DOMAIN q /\ b \in DOMAIN q
        BY <1>1, <4>1
      <4>3. q[a] = r[m] /\ q[b] = r[n]
        BY <2>3, <4>1
      <4>4. a = b
        BY <3>1, <4>2, <4>3 DEF Distinct
      <4> QED
        BY <1>1, <4>1, <4>4
    <3> QED
      BY <3>1 DEF Distinct
  <2>5. ASSUME NEW u, Has(r, u) PROVE In(f, u) /\ u # t
    <3>1. PICK j \in DOMAIN r : r[j] = u
      BY <2>5 DEF Has
    <3>2. j \in 1 .. Len(q) - 1 /\ i \in 1 .. Len(q)
      BY <1>1, <2>1, <2>3
    <3>3. CASE j < i
      <4>1. j \in DOMAIN q /\ q[j] = u /\ j # i
        BY <1>1, <2>3, <3>1, <3>2, <3>3
      <4> QED
        BY <2>1, <4>1 DEF In, Distinct
    <3>4. CASE ~(j < i)
      <4>1. j + 1 \in DOMAIN q /\ q[j + 1] = u /\ j + 1 # i
        BY <1>1, <2>3, <3>1, <3>2, <3>4
      <4> QED
        BY <2>1, <4>1 DEF In, Distinct
    <3> QED
      BY <3>3, <3>4
  <2>6. ASSUME NEW u, In(f, u), u # t PROVE Has(r, u)
    <3>1. PICK j \in DOMAIN q : q[j] = u
      BY <2>6 DEF In
    <3>2. j \in 1 .. Len(q) /\ i \in 1 .. Len(q) /\ j # i
      BY <1>1, <2>1, <2>6, <3>1
    <3>3. CASE j < i
      <4>1. j \in 1 .. Len(q) - 1 /\ r[j] = u
        BY <1>1, <2>3, <3>1, <3>2, <3>3
      <4> QED
        BY <2>3, <4>1 DEF Has
    <3>4. CASE j > i
      <4>1. j - 1 \in 1 .. Len(q) - 1 /\ ~(j - 1 < i) /\ (j - 1) + 1 = j
        BY <1>1, <3>2, <3>4
      <4>2. r[j - 1] = u
        BY <2>3, <3>1, <4>1
      <4> QED
        BY <2>3, <4>1, <4>2 DEF Has
    <3> QED
      BY <1>1, <3>2, <3>3, <3>4
  <2>7. ASSUME NEW u, u # t, Head(q) = u PROVE Head(r) = u
    <3>1. 1 \in DOMAIN q /\ q[1] = u /\ i # 1 /\ i \in 1 .. Len(q)
      BY <1>1, <2>1, <2>7
    <3>2. 1 \in 1 .. Len(q) - 1 /\ 1 < i
      BY <1>1, <3>1
    <3>3. r[1] = u /\ r # <<>>
      BY <2>3, <3>1, <3>2
    <3> QED
      BY <3>3
  <2> QED
    BY <2>3, <2>4, <2>5, <2>6, <2>7 DEF r
<1> QED
  BY <1>2, <1>3

------------------------------------------------------------------------------
(***************************************************************************)
(* Speech inference.                                                       *)
(***************************************************************************)
LEMMA TurnsAreCalls ==
  /\ \A k \in Turns : k \in Calls /\ k \in Threads /\ k \notin Requests /\ k # Warm /\ k # Nobody
  /\ \A r \in Requests : r \in Calls /\ r \in Threads /\ r \notin Turns /\ r # Warm /\ r # Nobody
  /\ \A t \in Calls : t \in Threads /\ t # Warm /\ t # Nobody /\ (t \in Requests \/ t \in Turns)
  /\ Warm \in Threads /\ Warm \notin Calls /\ Warm # Nobody
  /\ "whisper" \in Families /\ "chatterbox" \in Families
BY AudioAssumption DEF Calls, Threads, Families

LEMMA JoinLine ==
  ASSUME AudioTypes, LinesFit, NEW f \in Families, NEW t \in Calls, ~In(f, t), Join(f, t)
  PROVE  /\ line' \in [Families -> Seq(Calls)] /\ \A g \in Families : Distinct(line'[g])
         /\ \A g \in Families : \A u : In(g, u)' <=> In(g, u) \/ (g = f /\ u = t)
         /\ \A g \in Families : \A u : In(g, u) => Head(line'[g]) = Head(line[g])
<1>1. /\ line'[f] = Append(line[f], t) /\ \A g \in Families \ {f} : line'[g] = line[g]
      /\ DOMAIN line' = Families /\ line' = [g \in Families |-> line'[g]] /\ line[f] \in Seq(Calls)
  BY DEF AudioTypes, Join
<1>2. ~Has(line[f], t) /\ Distinct(line[f])
  BY DEF Has, In, LinesFit
<1>3. /\ line'[f] \in Seq(Calls) /\ Distinct(line'[f])
      /\ \A u : Has(line'[f], u) <=> Has(line[f], u) \/ u = t
      /\ line[f] # <<>> => Head(line'[f]) = Head(line[f])
  BY <1>1, <1>2, Joined
<1>4. \A u : In(f, u) => line[f] # <<>>
  BY DEF In
<1>5. line' \in [Families -> Seq(Calls)] /\ \A g \in Families : Distinct(line'[g])
  BY <1>1, <1>3 DEF AudioTypes, LinesFit
<1>6. ASSUME NEW g \in Families, NEW u PROVE In(g, u)' <=> In(g, u) \/ (g = f /\ u = t)
  BY <1>1, <1>3 DEF In, Has
<1>7. ASSUME NEW g \in Families, NEW u, In(g, u) PROVE Head(line'[g]) = Head(line[g])
  BY <1>1, <1>3, <1>4, <1>7
<1> QED
  BY <1>5, <1>6, <1>7

\* t leaves the lines of some families.
LEMMA LeaveLine ==
  ASSUME AudioTypes, LinesFit, NEW t, NEW F \in SUBSET Families,
         line' = [g \in Families |-> IF g \in F THEN Without(g, t) ELSE line[g]]
  PROVE  /\ line' \in [Families -> Seq(Calls)] /\ \A g \in Families : Distinct(line'[g])
         /\ \A g \in Families : \A u : In(g, u)' <=> In(g, u) /\ ~(g \in F /\ u = t)
         /\ \A g \in Families : \A u : u # t /\ In(g, u) /\ Head(line[g]) = u => Head(line'[g]) = u
<1>1. ASSUME NEW g \in Families
      PROVE  /\ line'[g] \in Seq(Calls) /\ Distinct(line'[g])
             /\ \A u : In(g, u)' <=> In(g, u) /\ ~(g \in F /\ u = t)
             /\ \A u : u # t /\ In(g, u) /\ Head(line[g]) = u => Head(line'[g]) = u
  <2>1. line[g] \in Seq(Calls) /\ Distinct(line[g])
    BY DEF AudioTypes, LinesFit
  <2>2. CASE g \in F
    <3>1. line'[g] = Without(g, t)
      BY <2>2
    <3>2. /\ Without(g, t) \in Seq(Calls) /\ Distinct(Without(g, t))
          /\ \A u : Has(Without(g, t), u) <=> In(g, u) /\ u # t
          /\ \A u : u # t /\ In(g, u) /\ Head(line[g]) = u => Head(Without(g, t)) = u
      BY <2>1, LeftLine
    <3>3. \A u : In(g, u)' <=> Has(line'[g], u)
      BY DEF In, Has
    <3> QED
      BY <2>2, <3>1, <3>2, <3>3
  <2>3. CASE g \notin F
    <3>1. line'[g] = line[g]
      BY <2>3
    <3>2. \A u : In(g, u)' <=> In(g, u)
      BY <3>1 DEF In
    <3> QED
      BY <2>1, <2>3, <3>1, <3>2
  <2> QED
    BY <2>2, <2>3
<1>2. line' \in [Families -> Seq(Calls)]
  BY <1>1
<1> QED
  BY <1>1, <1>2

\* Nothing happens to the calls.
LEMMA AudioStays ==
  ASSUME AudioTypes, AudioInv, UNCHANGED audioVars,
         \A k \in Turns : \/ step'[k] = step[k]
                          \/ /\ step[k] \notin {"listening", "speaking", "over"}
                             /\ step'[k] \notin {"listening", "speaking"}
  PROVE  AudioTypes' /\ AudioInv'
<1>1. \A f \in Families : \A t : In(f, t)' <=> In(f, t)
  BY DEF audioVars, inferenceVars, In
<1>2. UNCHANGED <<line, thread, cached, loader, files, request>>
  BY DEF audioVars, inferenceVars
<1>3. AudioTypes'
  BY <1>2 DEF AudioTypes
<1>4. LinesFit'
  BY <1>1, <1>2, TurnsAreCalls DEF AudioInv, LinesFit
<1>5. ThreadsFit'
  BY <1>1, <1>2, TurnsAreCalls DEF AudioInv, ThreadsFit
<1>6. LoadsFit'
  BY <1>2 DEF AudioInv, LoadsFit
<1>7. FilesFit'
  BY <1>1, <1>2, TurnsAreCalls DEF AudioInv, FilesFit
<1> QED
  BY <1>3, <1>4, <1>5, <1>6, <1>7 DEF AudioInv

\* The work of a call is handed to a thread.
LEMMA SubmitKeeps ==
  ASSUME AudioTypes, AudioInv, NEW f \in Families, NEW t \in Calls, Submit(f, t), UNCHANGED <<request, step>>
  PROVE  AudioTypes' /\ AudioInv'
<1>1. /\ UNCHANGED <<line, cached, loader, files, request, step>>
      /\ thread[f][t] = "none" /\ line[f] # <<>> /\ Head(line[f]) = t
      /\ thread' = [thread EXCEPT ![f][t] = "queued"]
  BY DEF Submit
<1>2. \A g \in Families : \A u : In(g, u)' <=> In(g, u)
  BY <1>1 DEF In
<1>3. In(f, t)
  BY <1>1, LenProperties DEF In, AudioTypes
<1>4. \A g \in Families, u \in Threads :
        thread'[g][u] = IF g = f /\ u = t THEN "queued" ELSE thread[g][u]
  BY <1>1, TurnsAreCalls DEF AudioTypes
<1>5. AudioTypes'
  <2>1. thread' \in [Families -> [Threads -> {"none"} \union Running \union Returned]]
    BY <1>1, TurnsAreCalls DEF AudioTypes, Running
  <2> QED
    BY <1>1, <2>1 DEF AudioTypes
<1>6. LinesFit'
  BY <1>1, <1>2, TurnsAreCalls DEF AudioInv, LinesFit
<1>7. ThreadsFit'
  <2>1. \A g \in Families, u \in Calls : thread'[g][u] # "none" /\ In(g, u)' => Head(line'[g]) = u
    BY <1>1, <1>2, <1>4, TurnsAreCalls DEF AudioInv, ThreadsFit
  <2>2. \A g \in Families, r \in Requests : thread'[g][r] # "none" => In(g, r)'
    BY <1>2, <1>3, <1>4, TurnsAreCalls DEF AudioInv, ThreadsFit
  <2>3. ASSUME NEW k \in Turns
        PROVE  /\ thread'["whisper"][k] # "none" => step'[k] \in {"listening", "over"}
               /\ thread'["chatterbox"][k] # "none" => step'[k] \in {"speaking", "over"}
    BY <1>1, <1>3, <1>4, TurnsAreCalls DEF AudioInv, ThreadsFit, LinesFit, Families
  <2> QED
    BY <2>1, <2>2, <2>3 DEF ThreadsFit
<1>8. LoadsFit'
  BY <1>1, <1>4, TurnsAreCalls DEF AudioInv, LoadsFit
<1>9. FilesFit'
  BY <1>1, <1>2, TurnsAreCalls DEF AudioInv, FilesFit
<1> QED
  BY <1>5, <1>6, <1>7, <1>8, <1>9 DEF AudioInv

\* A call gets its result and leaves the line; a turn leaves the place it waited at.
LEMMA ReturnKeeps ==
  ASSUME AudioTypes, AudioInv, NEW f \in Families, NEW t \in Calls, Return(f, t),
         \/ t \in Requests /\ request' = [request EXCEPT ![t] = "answered"] /\ UNCHANGED step
         \/ /\ t \in Turns /\ step'[t] \notin {"listening", "speaking"} /\ UNCHANGED request
            /\ \A k \in Turns \ {t} : step'[k] = step[k]
  PROVE  AudioTypes' /\ AudioInv'
<1>1. /\ UNCHANGED <<cached, loader>> /\ In(f, t) /\ thread[f][t] \in Returned
      /\ line' = [line EXCEPT ![f] = Without(f, t)]
      /\ thread' = [thread EXCEPT ![f][t] = "none"]
      /\ files' = IF f = "whisper" THEN files \ {t} ELSE files
  BY DEF Return
<1>2. /\ line' \in [Families -> Seq(Calls)] /\ \A g \in Families : Distinct(line'[g])
      /\ \A g \in Families : \A u : In(g, u)' <=> In(g, u) /\ ~(g = f /\ u = t)
      /\ \A g \in Families : \A u : u # t /\ In(g, u) /\ Head(line[g]) = u => Head(line'[g]) = u
  <2>1. PICK F \in SUBSET Families : \A g \in Families : g \in F <=> g = f
    <3>1. {f} \in SUBSET Families
      OBVIOUS
    <3> QED
      BY <3>1
  <2>2. line' = [g \in Families |-> IF g \in F THEN Without(g, t) ELSE line[g]]
    BY <1>1, <2>1 DEF AudioTypes
  <2>3. LinesFit
    BY DEF AudioInv
  <2>4. /\ line' \in [Families -> Seq(Calls)] /\ \A g \in Families : Distinct(line'[g])
        /\ \A g \in Families : \A u : In(g, u)' <=> In(g, u) /\ ~(g \in F /\ u = t)
        /\ \A g \in Families : \A u : u # t /\ In(g, u) /\ Head(line[g]) = u => Head(line'[g]) = u
    BY <2>2, <2>3, LeaveLine
  <2> QED
    BY <2>1, <2>4
<1>3. \A g \in Families, u \in Threads :
        thread'[g][u] = IF g = f /\ u = t THEN "none" ELSE thread[g][u]
  BY <1>1, TurnsAreCalls DEF AudioTypes
<1>4. \A g \in Families : In(g, t) => g = f
  <2>1. "whisper" # "chatterbox" /\ "listening" # "speaking"
    OBVIOUS
  <2> QED
    BY <1>1, <2>1, TurnsAreCalls DEF AudioInv, LinesFit, Families
<1>5. \A u \in Calls \ {t} : /\ u \in Requests => request'[u] = request[u]
                             /\ u \in Turns => step'[u] = step[u]
  BY TurnsAreCalls DEF AudioTypes
<1>6. t \in Requests => request'[t] = "answered"
  BY TurnsAreCalls DEF AudioTypes
<1>7. AudioTypes'
  <2>1. thread' \in [Families -> [Threads -> {"none"} \union Running \union Returned]]
    BY <1>1, TurnsAreCalls DEF AudioTypes
  <2>2. request' \in [Requests -> {"none", "uploading", "listening", "speaking", "answered"}]
    BY DEF AudioTypes
  <2> QED
    BY <1>1, <1>2, <2>1, <2>2 DEF AudioTypes
<1>8. LinesFit'
  <2>1. ASSUME NEW r \in Requests
        PROVE  /\ In("whisper", r)' <=> request'[r] = "listening"
               /\ In("chatterbox", r)' <=> request'[r] = "speaking"
    BY <1>1, <1>2, <1>4, <1>5, <1>6, TurnsAreCalls DEF AudioInv, LinesFit
  <2>2. ASSUME NEW k \in Turns
        PROVE  /\ In("whisper", k)' => step'[k] = "listening"
               /\ In("chatterbox", k)' => step'[k] = "speaking"
    BY <1>2, <1>4, <1>5, TurnsAreCalls DEF AudioInv, LinesFit
  <2> QED
    BY <1>2, <2>1, <2>2 DEF LinesFit
<1>9. ThreadsFit'
  <2>1. \A g \in Families, u \in Calls : thread'[g][u] # "none" /\ In(g, u)' => Head(line'[g]) = u
    <3>1. ASSUME NEW g \in Families, NEW u \in Calls, thread'[g][u] # "none", In(g, u)'
          PROVE  In(g, u) /\ u # t /\ thread[g][u] # "none"
      BY <1>2, <1>3, <1>4, <3>1, TurnsAreCalls
    <3> QED
      BY <1>2, <3>1 DEF AudioInv, ThreadsFit
  <2>2. \A g \in Families, r \in Requests : thread'[g][r] # "none" => In(g, r)'
    BY <1>2, <1>3, TurnsAreCalls DEF AudioInv, ThreadsFit
  <2>3. ASSUME NEW k \in Turns
        PROVE  /\ thread'["whisper"][k] # "none" => step'[k] \in {"listening", "over"}
               /\ thread'["chatterbox"][k] # "none" => step'[k] \in {"speaking", "over"}
    <3>1. CASE k # t
      BY <1>3, <1>5, <3>1, TurnsAreCalls DEF AudioInv, ThreadsFit
    <3>2. CASE k = t /\ f = "whisper"
      <4>1. step[t] = "listening" /\ thread["chatterbox"][t] = "none"
        BY <1>1, <3>2, TurnsAreCalls DEF AudioInv, ThreadsFit, LinesFit
      <4> QED
        BY <1>3, <3>2, <4>1, TurnsAreCalls
    <3>3. CASE k = t /\ f = "chatterbox"
      <4>1. step[t] = "speaking" /\ thread["whisper"][t] = "none"
        BY <1>1, <3>3, TurnsAreCalls DEF AudioInv, ThreadsFit, LinesFit
      <4> QED
        BY <1>3, <3>3, <4>1, TurnsAreCalls
    <3> QED
      BY <3>1, <3>2, <3>3 DEF Families
  <2> QED
    BY <2>1, <2>2, <2>3 DEF ThreadsFit
<1>10. LoadsFit'
  BY <1>1, <1>3, TurnsAreCalls DEF AudioInv, LoadsFit, Returned
<1>11. FilesFit'
  <2>1. CASE f = "whisper"
    <3>1. t \in Requests => request[t] = "listening"
      BY <1>1, <2>1, TurnsAreCalls DEF AudioInv, LinesFit
    <3> QED
      BY <1>1, <1>2, <1>5, <1>6, <2>1, <3>1, TurnsAreCalls DEF AudioInv, FilesFit
  <2>2. CASE f = "chatterbox"
    <3>1. t \in Requests => request[t] = "speaking"
      BY <1>1, <2>2, TurnsAreCalls DEF AudioInv, LinesFit
    <3> QED
      BY <1>1, <1>2, <1>5, <1>6, <2>2, <3>1, TurnsAreCalls DEF AudioInv, FilesFit
  <2> QED
    BY <2>1, <2>2 DEF Families
<1> QED
  BY <1>7, <1>8, <1>9, <1>10, <1>11 DEF AudioInv

\* A cancelled turn leaves, and is over; its thread may go on.
LEMMA AbandonKeeps ==
  ASSUME AudioTypes, AudioInv, NEW t \in Turns, Abandon(t), UNCHANGED request,
         step'[t] = "over", \A k \in Turns \ {t} : step'[k] = step[k]
  PROVE  AudioTypes' /\ AudioInv'
<1>1. /\ UNCHANGED <<cached, loader>> /\ files' = files \ {t}
      /\ line' = [f \in Families |-> Without(f, t)]
      /\ thread' = [f \in Families |-> IF thread[f][t] \in {"queued"} \union Returned
                                       THEN [thread[f] EXCEPT ![t] = "none"] ELSE thread[f]]
  BY DEF Abandon
<1>2. /\ line' \in [Families -> Seq(Calls)] /\ \A g \in Families : Distinct(line'[g])
      /\ \A g \in Families : \A u : In(g, u)' <=> In(g, u) /\ u # t
      /\ \A g \in Families : \A u : u # t /\ In(g, u) /\ Head(line[g]) = u => Head(line'[g]) = u
  <2>1. line' = [g \in Families |-> IF g \in Families THEN Without(g, t) ELSE line[g]]
    BY <1>1
  <2>2. Families \in SUBSET Families /\ LinesFit
    BY DEF AudioInv
  <2> QED
    BY <2>1, <2>2, LeaveLine
<1>3. \A g \in Families, u \in Threads :
        thread'[g][u] = IF u = t /\ thread[g][t] \in {"queued"} \union Returned THEN "none" ELSE thread[g][u]
  BY <1>1, TurnsAreCalls DEF AudioTypes
<1>4. AudioTypes'
  <2>1. thread' \in [Families -> [Threads -> {"none"} \union Running \union Returned]]
    BY <1>1, TurnsAreCalls DEF AudioTypes
  <2> QED
    BY <1>1, <1>2, <2>1 DEF AudioTypes
<1>5. LinesFit'
  BY <1>2, TurnsAreCalls DEF AudioInv, LinesFit
<1>6. ThreadsFit'
  <2>1. \A g \in Families, u \in Calls : thread'[g][u] # "none" /\ In(g, u)' => Head(line'[g]) = u
    BY <1>2, <1>3, TurnsAreCalls DEF AudioInv, ThreadsFit
  <2>2. \A g \in Families, r \in Requests : thread'[g][r] # "none" => In(g, r)'
    BY <1>2, <1>3, TurnsAreCalls DEF AudioInv, ThreadsFit
  <2>3. ASSUME NEW k \in Turns
        PROVE  /\ thread'["whisper"][k] # "none" => step'[k] \in {"listening", "over"}
               /\ thread'["chatterbox"][k] # "none" => step'[k] \in {"speaking", "over"}
    BY <1>3, TurnsAreCalls DEF AudioInv, ThreadsFit
  <2> QED
    BY <2>1, <2>2, <2>3 DEF ThreadsFit
<1>7. LoadsFit'
  BY <1>1, <1>3, TurnsAreCalls DEF AudioInv, LoadsFit, Returned
<1>8. FilesFit'
  BY <1>1, <1>2, TurnsAreCalls DEF AudioInv, FilesFit
<1> QED
  BY <1>4, <1>5, <1>6, <1>7, <1>8 DEF AudioInv

\* The thread of t goes on to a place; when the warm-up is done with Whisper, it comes to
\* Chatterbox.
Turned(f, t, to) ==
  \A g \in Families, u \in Threads :
    thread'[g][u] = IF g = f /\ u = t THEN to
                    ELSE IF t = Warm /\ u = Warm /\ f = "whisper" /\ g = "chatterbox" /\ to = "done"
                    THEN "queued" ELSE thread[g][u]

LEMMA ThreadTurns ==
  ASSUME AudioTypes, AudioInv, NEW f \in Families, NEW t \in Threads, ThreadStep(f, t)
  PROVE  /\ UNCHANGED <<line, files>> /\ thread[f][t] \in Running
         /\ thread' \in [Families -> [Threads -> {"none"} \union Running \union Returned]]
         /\ \E to \in {"none"} \union Running \union Returned :
              /\ Turned(f, t, to)
              /\ \/ UNCHANGED <<cached, loader>> /\ thread[f][t] # "loading" /\ to # "loading"
                 \/ /\ UNCHANGED cached /\ f \notin cached /\ to = "loading"
                    /\ loader[f] = Nobody /\ loader' = [loader EXCEPT ![f] = t]
                 \/ /\ thread[f][t] = "loading" /\ to # "loading"
                    /\ cached' \in {cached, cached \union {f}} /\ loader' = [loader EXCEPT ![f] = Nobody]
<1> USE DEF Running, Returned
<1> DEFINE Types == thread' \in [Families -> [Threads -> {"none"} \union Running \union Returned]]
<1> DEFINE Places == {"none"} \union Running \union Returned
<1>1. ASSUME NEW to \in Places, Moved(f, t, to), t # Warm \/ to # "done"
      PROVE  Types /\ Turned(f, t, to)
  BY <1>1 DEF Moved, Turned, AudioTypes
<1>2. ASSUME NEW how \in {"done", "failed"}, Finished(f, t, how), thread[f][t] # "none"
      PROVE  Types /\ \E to \in Places : to # "loading" /\ Turned(f, t, to)
  <2>1. CASE t = Warm
    <3>1. thread' = [thread EXCEPT !["whisper"][t] = "done",
                                   !["chatterbox"][t] = IF f = "whisper" THEN "queued" ELSE "done"]
      BY <1>2, <2>1 DEF Finished
    <3>2. \A g \in Families, u \in Threads :
            thread'[g][u] = IF u # t THEN thread[g][u]
                            ELSE IF g = "whisper" THEN "done" ELSE IF f = "whisper" THEN "queued" ELSE "done"
      BY <3>1 DEF AudioTypes, Families
    <3>3. Types
      BY <3>1 DEF AudioTypes, Families
    <3>4. f = "chatterbox" => thread["whisper"][t] = "done"
      BY <1>2, <2>1 DEF AudioInv, LoadsFit
    <3>5. Turned(f, t, "done")
      BY <2>1, <3>2, <3>4 DEF Turned, Families
    <3> QED
      BY <3>3, <3>5
  <2>2. CASE t # Warm
    <3>1. Moved(f, t, IF In(f, t) THEN how ELSE "none")
      BY <1>2, <2>2 DEF Finished
    <3>2. CASE In(f, t)
      <4>1. Moved(f, t, how)
        BY <3>1, <3>2
      <4> QED
        BY <1>1, <2>2, <4>1
    <3>3. CASE ~In(f, t)
      <4>1. Moved(f, t, "none")
        BY <3>1, <3>3
      <4> QED
        BY <1>1, <2>2, <4>1
    <3> QED
      BY <3>2, <3>3
  <2> QED
    BY <2>1, <2>2
<1>3. ASSUME HasModel(f, t), thread[f][t] # "none"
      PROVE  Types /\ \E to \in Places : to # "loading" /\ Turned(f, t, to)
  <2>1. CASE t = Warm
    BY <1>2, <1>3, <2>1 DEF HasModel
  <2>2. CASE t # Warm
    <3>1. Moved(f, t, "inferring")
      BY <1>3, <2>2 DEF HasModel
    <3> QED
      BY <1>1, <3>1
  <2> QED
    BY <2>1, <2>2
<1>4. CASE Look(f, t)
  <2>1. UNCHANGED <<line, cached, loader, files>> /\ thread[f][t] = "queued"
    BY <1>4 DEF Look
  <2>2. CASE f \in cached
    BY <1>3, <1>4, <2>1, <2>2 DEF Look
  <2>3. CASE f \notin cached
    <3>1. Moved(f, t, "unlocked")
      BY <1>4, <2>3 DEF Look
    <3> QED
      BY <1>1, <2>1, <3>1
  <2> QED
    BY <2>2, <2>3
<1>5. CASE LookAgain(f, t)
  <2>1. UNCHANGED <<line, cached, files>> /\ thread[f][t] = "unlocked" /\ loader[f] = Nobody
    BY <1>5 DEF LookAgain
  <2>2. CASE f \in cached
    <3>1. HasModel(f, t) /\ UNCHANGED loader
      BY <1>5, <2>2 DEF LookAgain
    <3> QED
      BY <1>3, <2>1, <3>1
  <2>3. CASE f \notin cached
    <3>1. Moved(f, t, "loading") /\ loader' = [loader EXCEPT ![f] = t]
      BY <1>5, <2>3 DEF LookAgain
    <3>2. Types /\ Turned(f, t, "loading")
      BY <1>1, <3>1
    <3> QED
      BY <2>1, <2>3, <3>1, <3>2
  <2> QED
    BY <2>2, <2>3
<1>6. CASE Load(f, t)
  <2>1. /\ UNCHANGED <<line, files>> /\ thread[f][t] = "loading" /\ loader' = [loader EXCEPT ![f] = Nobody]
        /\ cached' \in {cached, cached \union {f}}
    BY <1>6 DEF Load
  <2>2. HasModel(f, t) \/ Finished(f, t, "failed")
    BY <1>6 DEF Load
  <2>3. Types /\ \E to \in Places : to # "loading" /\ Turned(f, t, to)
    <3>1. CASE HasModel(f, t)
      BY <1>3, <2>1, <3>1
    <3>2. CASE Finished(f, t, "failed")
      BY <1>2, <2>1, <3>2
    <3> QED
      BY <2>2, <3>1, <3>2
  <2> QED
    BY <2>1, <2>3
<1>7. CASE Infer(f, t)
  <2>1. UNCHANGED <<line, cached, loader, files>> /\ thread[f][t] = "inferring"
    BY <1>7 DEF Infer
  <2>2. Finished(f, t, "done") \/ Finished(f, t, "failed")
    BY <1>7 DEF Infer
  <2>3. Types /\ \E to \in Places : to # "loading" /\ Turned(f, t, to)
    <3>1. CASE Finished(f, t, "done")
      BY <1>2, <2>1, <3>1
    <3>2. CASE Finished(f, t, "failed")
      BY <1>2, <2>1, <3>2
    <3> QED
      BY <2>2, <3>1, <3>2
  <2> QED
    BY <2>1, <2>3
<1> QED
  BY <1>4, <1>5, <1>6, <1>7 DEF ThreadStep

LEMMA ThreadKeeps ==
  ASSUME AudioTypes, AudioInv, NEW f \in Families, NEW t \in Threads, ThreadStep(f, t),
         UNCHANGED <<request, step>>
  PROVE  AudioTypes' /\ AudioInv'
<1>1. /\ UNCHANGED <<line, files>> /\ thread[f][t] \in Running
      /\ thread' \in [Families -> [Threads -> {"none"} \union Running \union Returned]]
  BY ThreadTurns
<1>2. PICK to \in {"none"} \union Running \union Returned :
        /\ Turned(f, t, to)
        /\ \/ UNCHANGED <<cached, loader>> /\ thread[f][t] # "loading" /\ to # "loading"
           \/ /\ UNCHANGED cached /\ f \notin cached /\ to = "loading"
              /\ loader[f] = Nobody /\ loader' = [loader EXCEPT ![f] = t]
           \/ /\ thread[f][t] = "loading" /\ to # "loading"
              /\ cached' \in {cached, cached \union {f}} /\ loader' = [loader EXCEPT ![f] = Nobody]
  BY ThreadTurns
<1>3. \A g \in Families : \A u : In(g, u)' <=> In(g, u)
  BY <1>1 DEF In
<1>4. AudioTypes'
  <2>1. cached' \subseteq Families /\ loader' \in [Families -> Threads \union {Nobody}]
    BY <1>2 DEF AudioTypes
  <2> QED
    BY <1>1, <2>1 DEF AudioTypes
<1>5. LinesFit'
  <2>1. \A g \in Families : Distinct(line'[g])
    BY <1>1 DEF AudioInv, LinesFit
  <2>2. UNCHANGED <<request, step>>
    OBVIOUS
  <2> QED
    BY <1>3, <2>1, <2>2, TurnsAreCalls DEF AudioInv, LinesFit
<1>6. ThreadsFit'
  <2>1. \A g \in Families, u \in Calls : thread'[g][u] # "none" => thread[g][u] # "none"
    BY <1>1, <1>2, TurnsAreCalls DEF Turned, Running
  <2> QED
    BY <1>1, <1>3, <2>1, TurnsAreCalls DEF AudioInv, ThreadsFit
<1>7. LoadsFit'
  <2>1. f = "whisper" /\ t = Warm => thread["chatterbox"][Warm] = "none"
    BY <1>1 DEF AudioInv, LoadsFit, Running
  <2>2. \A g \in Families \ {f} : loader'[g] = loader[g] /\ (g \in cached' <=> g \in cached)
    BY <1>2 DEF AudioTypes
  <2>3. \A g \in Families \ {f}, u \in Threads : thread'[g][u] = "loading" <=> loader'[g] = u
    BY <1>2, <2>1, <2>2 DEF AudioInv, LoadsFit, Turned
  <2>4. \A u \in Threads \ {t} : thread'[f][u] = thread[f][u]
    BY <1>2 DEF Turned
  <2>5. thread'[f][t] = to
    BY <1>2 DEF Turned
  <2>6. (\A u \in Threads : thread'[f][u] = "loading" <=> loader'[f] = u) /\ (loader'[f] # Nobody => f \notin cached')
    <3>1. CASE UNCHANGED <<cached, loader>> /\ thread[f][t] # "loading" /\ to # "loading"
      BY <2>4, <2>5, <3>1 DEF AudioInv, LoadsFit
    <3>2. CASE /\ UNCHANGED cached /\ f \notin cached /\ to = "loading"
               /\ loader[f] = Nobody /\ loader' = [loader EXCEPT ![f] = t]
      <4>1. loader'[f] = t
        BY <3>2 DEF AudioTypes
      <4> QED
        BY <2>4, <2>5, <3>2, <4>1, TurnsAreCalls, AudioAssumption DEF AudioInv, LoadsFit, Threads, Calls
    <3>3. CASE /\ thread[f][t] = "loading" /\ to # "loading"
               /\ cached' \in {cached, cached \union {f}} /\ loader' = [loader EXCEPT ![f] = Nobody]
      <4>1. loader'[f] = Nobody /\ loader[f] = t
        BY <3>3 DEF AudioTypes, AudioInv, LoadsFit
      <4> QED
        BY <2>4, <2>5, <3>3, <4>1, AudioAssumption DEF AudioInv, LoadsFit, Threads, Calls
    <3> QED
      BY <1>2, <3>1, <3>2, <3>3
  <2>7. thread'["chatterbox"][Warm] # "none" => thread'["whisper"][Warm] = "done"
    <3>1. CASE t # Warm
      BY <1>2, <3>1, TurnsAreCalls DEF Turned, AudioInv, LoadsFit
    <3>2. CASE t = Warm /\ f = "whisper"
      BY <1>2, <2>1, <3>2, TurnsAreCalls DEF Turned
    <3>3. CASE t = Warm /\ f = "chatterbox"
      BY <1>1, <1>2, <3>3, TurnsAreCalls DEF Turned, AudioInv, LoadsFit, Running
    <3> QED
      BY <3>1, <3>2, <3>3 DEF Families
  <2>8. \A g \in Families : loader'[g] # Nobody => g \notin cached'
    BY <2>2, <2>6 DEF AudioInv, LoadsFit
  <2> QED
    BY <2>3, <2>6, <2>7, <2>8 DEF LoadsFit
<1>8. FilesFit'
  BY <1>1, <1>3, TurnsAreCalls DEF AudioInv, FilesFit
<1> QED
  BY <1>4, <1>5, <1>6, <1>7, <1>8 DEF AudioInv

WaitsAt(f) == IF f = "whisper" THEN "listening" ELSE "speaking"

\* A call joins a line.
LEMMA JoinKeeps ==
  ASSUME AudioTypes, AudioInv, NEW f \in Families, NEW t \in Calls, Join(f, t),
         UNCHANGED <<thread, cached, loader>>,
         \/ /\ t \in Requests /\ request[t] = (IF f = "whisper" THEN "uploading" ELSE "none")
            /\ request' = [request EXCEPT ![t] = WaitsAt(f)] /\ UNCHANGED <<files, step>>
         \/ /\ t \in Turns /\ step[t] \notin {"listening", "speaking", "over"} /\ step'[t] = WaitsAt(f)
            /\ (\A k \in Turns \ {t} : step'[k] = step[k]) /\ UNCHANGED request
            /\ files' = IF f = "whisper" THEN files \union {t} ELSE files
  PROVE  AudioTypes' /\ AudioInv'
<1>1. \A g \in Families : ~In(g, t) /\ thread[g][t] = "none"
  <2>1. CASE t \in Requests
    <3>1. ~In("whisper", t) /\ ~In("chatterbox", t)
      BY <2>1, TurnsAreCalls DEF AudioInv, LinesFit
    <3> QED
      BY <2>1, <3>1, TurnsAreCalls DEF AudioInv, ThreadsFit, Families
  <2>2. CASE t \in Turns
    BY <2>2, TurnsAreCalls DEF AudioInv, LinesFit, ThreadsFit, Families
  <2> QED
    BY <2>1, <2>2, TurnsAreCalls
<1>2. /\ line' \in [Families -> Seq(Calls)] /\ \A g \in Families : Distinct(line'[g])
      /\ \A g \in Families : \A u : In(g, u)' <=> In(g, u) \/ (g = f /\ u = t)
      /\ \A g \in Families : \A u : In(g, u) => Head(line'[g]) = Head(line[g])
  BY <1>1, JoinLine DEF AudioInv
<1>3. \A u \in Calls \ {t} : /\ u \in Requests => request'[u] = request[u]
                             /\ u \in Turns => step'[u] = step[u]
  BY TurnsAreCalls DEF AudioTypes
<1>4. /\ t \in Requests => request'[t] = WaitsAt(f)
      /\ t \in Turns => step'[t] = WaitsAt(f)
  BY TurnsAreCalls DEF AudioTypes
<1>5. AudioTypes'
  <2>1. request' \in [Requests -> {"none", "uploading", "listening", "speaking", "answered"}]
    BY DEF AudioTypes, WaitsAt
  <2>2. files' \subseteq Calls
    BY DEF AudioTypes
  <2> QED
    BY <1>2, <2>1, <2>2 DEF AudioTypes
<1>6. LinesFit'
  <2>1. ASSUME NEW r \in Requests
        PROVE  /\ In("whisper", r)' <=> request'[r] = "listening"
               /\ In("chatterbox", r)' <=> request'[r] = "speaking"
    <3>1. CASE r # t
      BY <1>2, <1>3, <3>1, TurnsAreCalls DEF AudioInv, LinesFit
    <3>2. CASE r = t
      BY <1>1, <1>2, <1>4, <3>2, TurnsAreCalls DEF WaitsAt, Families
    <3> QED
      BY <3>1, <3>2
  <2>2. ASSUME NEW k \in Turns
        PROVE  /\ In("whisper", k)' => step'[k] = "listening"
               /\ In("chatterbox", k)' => step'[k] = "speaking"
    <3>1. CASE k # t
      BY <1>2, <1>3, <3>1, TurnsAreCalls DEF AudioInv, LinesFit
    <3>2. CASE k = t
      BY <1>1, <1>2, <1>4, <3>2, TurnsAreCalls DEF WaitsAt, Families
    <3> QED
      BY <3>1, <3>2
  <2> QED
    BY <1>2, <2>1, <2>2 DEF LinesFit
<1>7. ThreadsFit'
  <2>1. \A g \in Families, u \in Calls : thread'[g][u] # "none" /\ In(g, u)' => Head(line'[g]) = u
    BY <1>1, <1>2 DEF AudioInv, ThreadsFit
  <2>2. \A g \in Families, r \in Requests : thread'[g][r] # "none" => In(g, r)'
    BY <1>2, TurnsAreCalls DEF AudioInv, ThreadsFit
  <2>3. ASSUME NEW k \in Turns
        PROVE  /\ thread'["whisper"][k] # "none" => step'[k] \in {"listening", "over"}
               /\ thread'["chatterbox"][k] # "none" => step'[k] \in {"speaking", "over"}
    BY <1>1, <1>3, TurnsAreCalls DEF AudioInv, ThreadsFit
  <2> QED
    BY <2>1, <2>2, <2>3 DEF ThreadsFit
<1>8. LoadsFit'
  BY DEF AudioInv, LoadsFit
<1>9. FilesFit'
  <2>1. CASE t \in Requests
    BY <1>1, <1>2, <1>3, <1>4, <2>1, TurnsAreCalls DEF AudioInv, FilesFit, WaitsAt, Families
  <2>2. CASE t \in Turns
    BY <1>1, <1>2, <1>3, <1>4, <2>2, TurnsAreCalls DEF AudioInv, FilesFit, WaitsAt, Families
  <2> QED
    BY <2>1, <2>2, TurnsAreCalls
<1> QED
  BY <1>5, <1>6, <1>7, <1>8, <1>9 DEF AudioInv

\* An upload begins, or is refused; a request is refused.
LEMMA UploadKeeps ==
  ASSUME AudioTypes, AudioInv, NEW r \in Requests, UNCHANGED <<line, thread, cached, loader, step>>,
         \/ /\ request[r] \in {"none", "uploading"} /\ request' = [request EXCEPT ![r] = "answered"]
            /\ files' = files \ {r}
         \/ /\ request[r] = "none" /\ request' = [request EXCEPT ![r] = "uploading"]
            /\ files' = files \union {r}
  PROVE  AudioTypes' /\ AudioInv'
<1>1. \A g \in Families : \A u : In(g, u)' <=> In(g, u)
  BY DEF In
<1>2. ~In("whisper", r) /\ ~In("chatterbox", r)
  BY DEF AudioInv, LinesFit
<1>3. \A q \in Requests : q # r => request'[q] = request[q]
  BY DEF AudioTypes
<1>4. AudioTypes'
  BY TurnsAreCalls DEF AudioTypes
<1>5. LinesFit'
  <2>1. ASSUME NEW q \in Requests
        PROVE  /\ In("whisper", q)' <=> request'[q] = "listening"
               /\ In("chatterbox", q)' <=> request'[q] = "speaking"
    <3>1. CASE q = r
      BY <1>1, <1>2, <3>1, TurnsAreCalls DEF AudioTypes
    <3>2. CASE q # r
      BY <1>1, <1>3, <3>2, TurnsAreCalls DEF AudioInv, LinesFit
    <3> QED
      BY <3>1, <3>2
  <2> QED
    BY <1>1, <2>1, TurnsAreCalls DEF AudioInv, LinesFit
<1>6. ThreadsFit'
  BY <1>1, TurnsAreCalls DEF AudioInv, ThreadsFit
<1>7. LoadsFit'
  BY DEF AudioInv, LoadsFit
<1>8. FilesFit'
  BY <1>1, <1>2, <1>3, TurnsAreCalls DEF AudioInv, FilesFit, AudioTypes
<1> QED
  BY <1>4, <1>5, <1>6, <1>7, <1>8 DEF AudioInv

------------------------------------------------------------------------------
(***************************************************************************)
(* The steps of a turn.                                                    *)
(***************************************************************************)
LEMMA TurnNames ==
  /\ \A s \in Sessions, n \in 1 .. MaxTurns : <<s, n>> \in Turns
  /\ \A k \in Turns : k[1] \in Sessions /\ k[2] \in 1 .. MaxTurns /\ k = <<k[1], k[2]>>
  /\ MaxTurns \in Nat \ {0} /\ MaxHistory \in Nat \ {0, 1} /\ MaxAudio \in Nat \ {0}
  /\ 0 \in 0 .. MaxTurns /\ 0 \in 0 .. MaxAudio
BY ConversationAssumption

\* A turn goes on at next, or ends.
LEMMA Sends ==
  ASSUME TalkTypes, NEW k \in Turns, NEW next \in Steps, Send(k, next)
  PROVE  /\ step' \in [Turns -> Steps] /\ step'[k] \in {next, "last"}
         /\ \A j \in Turns \ {k} : step'[j] = step[j]
         /\ conn[k[1]] # "open" => step'[k] = "last"
BY DEF Send, TalkTypes, Steps

\* A committed turn is the next one of its connection.
LEMMA NextTurn ==
  ASSUME TalkTypes, NEW s \in Sessions, NEW m \in 0 .. MaxTurns, Started(s) = 1 .. m
  PROVE  Cardinality(Started(s)) = m /\ \A n \in 1 .. MaxTurns : step[<<s, n>>] = "unused" <=> n > m
<1>1. Cardinality(1 .. m) = m
  <2>1. 1 \in Int /\ m \in Int
    BY TurnNames
  <2>2. Cardinality(1 .. m) = IF 1 > m THEN 0 ELSE m - 1 + 1
    BY <2>1, FS_Interval
  <2> QED
    BY <2>2, TurnNames
<1>2. \A n \in 1 .. MaxTurns : n \in 1 .. m <=> ~(n > m)
  BY TurnNames
<1> QED
  BY <1>1, <1>2 DEF Started

LEMMA Commits ==
  ASSUME TalkTypes, TurnsFit, NEW s \in Sessions, HandleCommit(s)
  PROVE  /\ Receiving(s) /\ ~Active(s) /\ s \in collecting
         /\ collecting' = collecting \ {s} /\ audio' = [audio EXCEPT ![s] = 0]
         /\ UNCHANGED <<audioVars, conn, gone, telling, history, cancelling, sent>>
         /\ \/ UNCHANGED <<task, step>>
            \/ \E n \in 1 .. MaxTurns :
                 /\ step[<<s, n>>] = "unused" /\ Started(s) = 1 .. n - 1
                 /\ task' = [task EXCEPT ![s] = n] /\ step' = [step EXCEPT ![<<s, n>>] = "created"]
<1>1. /\ Receiving(s) /\ ~Active(s) /\ s \in collecting
      /\ collecting' = collecting \ {s} /\ audio' = [audio EXCEPT ![s] = 0]
      /\ UNCHANGED <<audioVars, conn, gone, telling, history, cancelling, sent>>
  BY DEF HandleCommit
<1>2. CASE audio[s] = 0
  BY <1>1, <1>2 DEF HandleCommit
<1>3. CASE audio[s] # 0
  <2>1. PICK m \in 0 .. MaxTurns : Started(s) = 1 .. m
    BY DEF TurnsFit
  <2>2. Cardinality(Started(s)) = m /\ \A n \in 1 .. MaxTurns : step[<<s, n>>] = "unused" <=> n > m
    BY <2>1, NextTurn
  <2>3. /\ m + 1 <= MaxTurns /\ task' = [task EXCEPT ![s] = m + 1]
        /\ step' = [step EXCEPT ![<<s, m + 1>>] = "created"]
    BY <1>3, <2>2 DEF HandleCommit
  <2>4. m + 1 \in 1 .. MaxTurns /\ (m + 1) - 1 = m /\ m + 1 > m
    BY <2>3, TurnNames
  <2> QED
    BY <1>1, <2>1, <2>2, <2>3, <2>4
<1> QED
  BY <1>2, <1>3

LEMMA NextAudio ==
  ASSUME AudioTypes, TalkTypes, AudioInv, TurnsFit, [Next]_vars
  PROVE  AudioTypes' /\ AudioInv'
<1> USE TurnsAreCalls
<1>1. CASE UNCHANGED vars
  BY <1>1, AudioStays DEF vars, turnVars
<1>2. ASSUME UNCHANGED <<audioVars, step>> PROVE AudioTypes' /\ AudioInv'
  BY <1>2, AudioStays
<1>3. ASSUME NEW s \in Sessions, HandleCommit(s) PROVE AudioTypes' /\ AudioInv'
  <2>1. UNCHANGED audioVars
    BY <1>3, Commits
  <2>2. CASE UNCHANGED <<task, step>>
    BY <1>2, <2>1, <2>2
  <2>3. CASE ~UNCHANGED <<task, step>>
    <3>1. PICK n \in 1 .. MaxTurns : step[<<s, n>>] = "unused" /\ step' = [step EXCEPT ![<<s, n>>] = "created"]
      BY <1>3, <2>3, Commits
    <3>2. \A k \in Turns : step'[k] = step[k] \/ (step[k] = "unused" /\ step'[k] = "created")
      BY <3>1 DEF TalkTypes
    <3> QED
      BY <2>1, <3>2, AudioStays
  <2> QED
    BY <2>2, <2>3
<1>4. ASSUME NEW s \in Sessions,
             \/ StartSession(s) \/ HandleStart(s) \/ HandleClear(s)
             \/ HandleBinary(s) \/ HandleCancel(s) \/ HandleClose(s)
             \/ ClientGoes(s) \/ LoopStep(s)
      PROVE  AudioTypes' /\ AudioInv'
  <2>1. UNCHANGED <<audioVars, step>>
    BY <1>4 DEF StartSession, HandleStart, HandleClear, HandleBinary, HandleCancel, HandleClose, ClientGoes,
                LoopStep, TellCancelled, ReceiveDisconnect, BeginFinally, EndFinally, turnVars
  <2> QED
    BY <1>2, <2>1
<1>5. ASSUME AudioStep, UNCHANGED <<sessionVars, turnVars>> PROVE AudioTypes' /\ AudioInv'
  <2>1. UNCHANGED step
    BY <1>5 DEF turnVars
  <2>2. ASSUME NEW f \in Families, NEW t \in Threads, ThreadStep(f, t), UNCHANGED request
        PROVE  AudioTypes' /\ AudioInv'
    BY <2>1, <2>2, ThreadKeeps
  <2>3. ASSUME NEW r \in Requests, AskTranscription(r) PROVE AudioTypes' /\ AudioInv'
    <3>1. request[r] = "none" /\ UNCHANGED <<line, thread, cached, loader>> /\ r \notin files
      BY <2>3 DEF AskTranscription, AudioInv, FilesFit, LinesFit
    <3> QED
      BY <2>1, <2>3, <3>1, UploadKeeps DEF AskTranscription, Answered
  <2>4. ASSUME NEW r \in Requests, AskSpeech(r) PROVE AudioTypes' /\ AudioInv'
    <3>1. request[r] = "none" /\ UNCHANGED <<thread, cached, loader, files>> /\ r \notin files
      BY <2>4 DEF AskSpeech, AudioInv, FilesFit, LinesFit
    <3>2. CASE Answered(r) /\ UNCHANGED line
      BY <2>1, <3>1, <3>2, UploadKeeps DEF Answered
    <3>3. CASE request' = [request EXCEPT ![r] = "speaking"] /\ Join("chatterbox", r)
      <4>1. PICK f \in Families : f = "chatterbox"
        OBVIOUS
      <4> QED
        BY <2>1, <3>1, <3>3, <4>1, JoinKeeps DEF WaitsAt
    <3> QED
      BY <2>4, <3>2, <3>3 DEF AskSpeech
  <2>5. ASSUME NEW r \in Requests, Upload(r) PROVE AudioTypes' /\ AudioInv'
    <3>1. request[r] = "uploading" /\ UNCHANGED <<thread, cached, loader>>
      BY <2>5 DEF Upload
    <3>2. CASE Answered(r) /\ files' = files \ {r} /\ UNCHANGED line
      BY <2>1, <3>1, <3>2, UploadKeeps DEF Answered
    <3>3. CASE request' = [request EXCEPT ![r] = "listening"] /\ Join("whisper", r) /\ UNCHANGED files
      <4>1. PICK f \in Families : f = "whisper"
        OBVIOUS
      <4> QED
        BY <2>1, <3>1, <3>3, <4>1, JoinKeeps DEF WaitsAt
    <3> QED
      BY <2>5, <3>2, <3>3 DEF Upload
  <2>6. ASSUME NEW r \in Requests, AnswerRequest(r) PROVE AudioTypes' /\ AudioInv'
    BY <2>1, <2>6, ReturnKeeps DEF AnswerRequest, Answered
  <2>7. ASSUME NEW r \in Requests, NEW f \in Families, Submit(f, r), UNCHANGED request
        PROVE  AudioTypes' /\ AudioInv'
    BY <2>1, <2>7, SubmitKeeps
  <2> QED
    BY <1>5, <2>2, <2>3, <2>4, <2>5, <2>6, <2>7 DEF AudioStep, RequestStep
<1>6. ASSUME NEW k \in Turns, NEW next \in Steps, Send(k, next), UNCHANGED audioVars,
             step[k] \notin {"listening", "speaking", "over"}, next \notin {"listening", "speaking"}
      PROVE  AudioTypes' /\ AudioInv'
  <2>1. \A j \in Turns : step'[j] = step[j] \/ (step[j] \notin {"listening", "speaking", "over"}
                                                /\ step'[j] \notin {"listening", "speaking"})
    BY <1>6, Sends
  <2> QED
    BY <1>6, <2>1, AudioStays
<1>7. ASSUME NEW k \in Turns, BeginTurn(k) PROVE AudioTypes' /\ AudioInv'
  <2>1. step[k] = "created" /\ UNCHANGED request
    BY <1>7 DEF BeginTurn, At
  <2>2. CASE /\ files' = files \union {k} /\ Join("whisper", k) /\ step' = [step EXCEPT ![k] = "listening"]
             /\ UNCHANGED <<thread, cached, loader>>
    <3>1. PICK f \in Families : f = "whisper"
      OBVIOUS
    <3>2. step'[k] = "listening" /\ \A j \in Turns \ {k} : step'[j] = step[j]
      BY <2>2 DEF TalkTypes
    <3> QED
      BY <2>1, <2>2, <3>1, <3>2, JoinKeeps DEF WaitsAt
  <2>3. CASE Say(k, "error", "last") /\ UNCHANGED inferenceVars
    <3>1. Send(k, "last") /\ "last" \in Steps /\ UNCHANGED audioVars
      BY <2>1, <2>3 DEF Say, Steps, audioVars
    <3> QED
      BY <1>6, <2>1, <3>1
  <2> QED
    BY <1>7, <2>2, <2>3 DEF BeginTurn
<1>8. ASSUME NEW k \in Turns, RunInference(k) PROVE AudioTypes' /\ AudioInv'
  <2>1. Submit("whisper", k) \/ Submit("chatterbox", k)
    BY <1>8 DEF RunInference
  <2>2. UNCHANGED <<request, step>>
    BY <1>8 DEF RunInference, turnVars
  <2> QED
    BY <2>1, <2>2, SubmitKeeps
<1>9. ASSUME NEW k \in Turns, Transcribed(k) PROVE AudioTypes' /\ AudioInv'
  <2>1. PICK next \in Steps : next \in {"heard", "last"} /\ Send(k, next)
    BY <1>9 DEF Transcribed, Say, Steps
  <2>2. step'[k] \notin {"listening", "speaking"} /\ \A j \in Turns \ {k} : step'[j] = step[j]
    BY <2>1, Sends
  <2>3. Return("whisper", k) /\ UNCHANGED request
    BY <1>9 DEF Transcribed
  <2> QED
    BY <2>2, <2>3, ReturnKeeps
<1>10. ASSUME NEW k \in Turns, Synthesized(k) PROVE AudioTypes' /\ AudioInv'
  <2>1. PICK next \in Steps : next \in {"sounded", "last"} /\ Send(k, next)
    BY <1>10 DEF Synthesized, Say, Steps
  <2>2. step'[k] \notin {"listening", "speaking"} /\ \A j \in Turns \ {k} : step'[j] = step[j]
    BY <2>1, Sends
  <2>3. Return("chatterbox", k) /\ UNCHANGED request
    BY <1>10 DEF Synthesized
  <2> QED
    BY <2>2, <2>3, ReturnKeeps
<1>11. ASSUME NEW k \in Turns, OpenStream(k) \/ ReadStream(k) \/ CompleteTurn(k) PROVE AudioTypes' /\ AudioInv'
  <2>1. UNCHANGED audioVars /\ step[k] \in {"thinking", "streaming", "sounded"}
    BY <1>11 DEF OpenStream, ReadStream, CompleteTurn, At
  <2>2. PICK next \in Steps : next \in {"streaming", "told", "last"} /\ Send(k, next)
    BY <1>11 DEF OpenStream, ReadStream, CompleteTurn, Say, Steps
  <2> QED
    BY <1>6, <2>1, <2>2
<1>12. ASSUME NEW k \in Turns, RememberQuestion(k) \/ EndTurn(k) PROVE AudioTypes' /\ AudioInv'
  <2>1. /\ UNCHANGED audioVars /\ step[k] \in {"heard", "last"} /\ step'[k] \in {"thinking", "over"}
        /\ \A j \in Turns \ {k} : step'[j] = step[j]
    BY <1>12 DEF RememberQuestion, EndTurn, At, TalkTypes
  <2> QED
    BY <2>1, AudioStays
<1>13. ASSUME NEW k \in Turns, RememberAnswer(k) PROVE AudioTypes' /\ AudioInv'
  <2>1. /\ Send(k, "speaking") /\ step[k] = "told" /\ UNCHANGED <<thread, cached, loader, files, request>>
        /\ IF step'[k] = "speaking" THEN Join("chatterbox", k) ELSE UNCHANGED line
    BY <1>13 DEF RememberAnswer, At
  <2>2. "speaking" \in Steps
    BY DEF Steps
  <2>3. step'[k] \in {"speaking", "last"} /\ \A j \in Turns \ {k} : step'[j] = step[j]
    BY <2>1, <2>2, Sends
  <2>4. CASE step'[k] = "speaking"
    <3>1. PICK f \in Families : f = "chatterbox"
      OBVIOUS
    <3> QED
      BY <2>1, <2>3, <2>4, <3>1, JoinKeeps DEF WaitsAt
  <2>5. CASE step'[k] = "last"
    <3>1. UNCHANGED audioVars
      BY <2>1, <2>5 DEF audioVars, inferenceVars
    <3> QED
      BY <2>1, <2>3, <2>5, <3>1, AudioStays
  <2> QED
    BY <2>3, <2>4, <2>5
<1>14. ASSUME NEW k \in Turns, Unwind(k) PROVE AudioTypes' /\ AudioInv'
  <2>1. Abandon(k) /\ UNCHANGED request /\ step'[k] = "over" /\ \A j \in Turns \ {k} : step'[j] = step[j]
    BY <1>14 DEF Unwind, TalkTypes
  <2> QED
    BY <2>1, AbandonKeeps
<1> QED
  BY <1>1, <1>3, <1>4, <1>5, <1>7, <1>8, <1>9, <1>10, <1>11, <1>12, <1>13, <1>14 DEF Next, Step, TurnStep

------------------------------------------------------------------------------
(***************************************************************************)
(* What is told and remembered.                                            *)
(***************************************************************************)
LEMMA Appended ==
  ASSUME NEW S, NEW q \in Seq(S), NEW e \in S
  PROVE  /\ Append(q, e) \in Seq(S) /\ DOMAIN q = 1 .. Len(q) /\ Len(q) \in Nat
         /\ DOMAIN Append(q, e) = 1 .. Len(q) + 1
         /\ Append(q, e)[Len(q) + 1] = e /\ \A i \in 1 .. Len(q) : Append(q, e)[i] = q[i]
BY AppendProperties, LenProperties

\* A history after one more entry: some end of the longer one.
LEMMA Trimmed ==
  ASSUME NEW h \in Seq(Entries), NEW e \in Entries
  PROVE  /\ Trim(Append(h, e)) \in Seq(Entries) /\ Len(Trim(Append(h, e))) <= MaxHistory
         /\ \E d \in Nat : \A i \in DOMAIN Trim(Append(h, e)) :
              /\ i \in Nat /\ i + d \in 1 .. Len(h) + 1
              /\ Trim(Append(h, e))[i] = IF i + d \in DOMAIN h THEN h[i + d] ELSE e
<1> DEFINE r == Append(h, e)
<1> DEFINE d == Len(r) - MaxHistory
<1>1. /\ r \in Seq(Entries) /\ DOMAIN h = 1 .. Len(h) /\ Len(h) \in Nat /\ Len(r) = Len(h) + 1
      /\ DOMAIN r = 1 .. Len(h) + 1 /\ r[Len(h) + 1] = e /\ \A i \in 1 .. Len(h) : r[i] = h[i]
      /\ \A i \in 1 .. Len(h) + 1 : r[i] \in Entries
  BY Appended, AppendProperties, ElementOfSeq
<1> HIDE DEF r
<1>2. \A i \in 1 .. Len(h) + 1 : r[i] = IF i \in DOMAIN h THEN h[i] ELSE e
  BY <1>1
<1>3. CASE Len(r) <= MaxHistory
  <2>1. Trim(r) = r
    BY <1>1, <1>3, TurnNames DEF Trim
  <2>2. \A i \in DOMAIN Trim(r) : i \in Nat /\ i + 0 \in 1 .. Len(h) + 1 /\ i + 0 = i
    BY <1>1, <2>1
  <2>3. \A i \in DOMAIN Trim(r) : Trim(r)[i] = IF i + 0 \in DOMAIN h THEN h[i + 0] ELSE e
    BY <1>1, <1>2, <2>1, <2>2
  <2> QED
    BY <1>1, <1>3, <2>1, <2>2, <2>3 DEF r
<1>4. CASE Len(r) > MaxHistory
  <2>1. d \in Nat /\ d + MaxHistory = Len(r) /\ d + 1 \in Int /\ Len(r) \in Int
    BY <1>1, <1>4, TurnNames
  <2>2. Trim(r) = SubSeq(r, d + 1, Len(r))
    BY <1>4 DEF Trim
  <2> HIDE DEF d
  <2>3. \A i \in d + 1 .. Len(r) : r[i] \in Entries
    BY <1>1, <2>1
  <2>4. /\ Trim(r) \in Seq(Entries)
        /\ Len(Trim(r)) = IF d + 1 <= Len(r) THEN Len(r) - (d + 1) + 1 ELSE 0
        /\ \A i \in 1 .. Len(r) - (d + 1) + 1 : Trim(r)[i] = r[(d + 1) + i - 1]
    BY <2>1, <2>2, <2>3, SubSeqProperties
  <2>5. Len(Trim(r)) = MaxHistory /\ DOMAIN Trim(r) = 1 .. MaxHistory
    BY <2>1, <2>4, TurnNames, LenProperties
  <2>6. ASSUME NEW i \in DOMAIN Trim(r)
        PROVE  i \in Nat /\ i + d \in 1 .. Len(h) + 1 /\ Trim(r)[i] = IF i + d \in DOMAIN h THEN h[i + d] ELSE e
    <3>1. i \in 1 .. MaxHistory /\ i \in Nat /\ MaxHistory \in Nat
      BY <2>5, <2>6, TurnNames
    <3>2. i \in 1 .. Len(r) - (d + 1) + 1 /\ (d + 1) + i - 1 = i + d /\ i + d \in 1 .. Len(h) + 1
      BY <1>1, <2>1, <3>1
    <3>3. Trim(r)[i] = r[i + d]
      BY <2>4, <3>2
    <3> QED
      BY <1>2, <3>1, <3>2, <3>3
  <2>7. Trim(r) \in Seq(Entries) /\ Len(Trim(r)) <= MaxHistory
    BY <2>4, <2>5, TurnNames
  <2> QED
    BY <2>1, <2>6, <2>7 DEF r
<1>5. Len(r) <= MaxHistory \/ Len(r) > MaxHistory
  BY <1>1, TurnNames
<1> QED
  BY <1>3, <1>4, <1>5

LEMMA Speaks ==
  ASSUME TalkTypes, NEW k \in Turns, NEW next \in Steps, NEW ev \in Events, Say(k, ev, next)
  PROVE  /\ Send(k, next) /\ sent' \in [Turns -> Seq(Events)]
         /\ sent' = sent \/ sent' = [sent EXCEPT ![k] = Append(@, ev)]
         /\ k[1] \notin gone /\ step'[k] # "last" => sent' = [sent EXCEPT ![k] = Append(@, ev)]
<1>1. Send(k, next) /\ (sent' = sent \/ sent' = [sent EXCEPT ![k] = Append(@, ev)])
  BY DEF Say
<1>2. Append(sent[k], ev) \in Seq(Events)
  BY AppendProperties DEF TalkTypes
<1>3. k[1] \notin gone /\ step'[k] # "last" => sent' = [sent EXCEPT ![k] = Append(@, ev)]
  BY Sends, <1>1 DEF Say
<1> QED
  BY <1>1, <1>2, <1>3 DEF TalkTypes

LEMMA NextTalk ==
  ASSUME TalkTypes, TurnsFit, [Next]_vars
  PROVE  TalkTypes'
<1> USE DEF TalkTypes
<1>1. CASE UNCHANGED vars \/ UNCHANGED <<sessionVars, turnVars>>
  BY <1>1 DEF vars, sessionVars, turnVars
<1>2. ASSUME NEW s \in Sessions, StartSession(s) \/ HandleClose(s) \/ ClientGoes(s) \/ ReceiveDisconnect(s)
      PROVE  TalkTypes'
  BY <1>2 DEF StartSession, HandleClose, ClientGoes, ReceiveDisconnect, turnVars
<1>3. ASSUME NEW s \in Sessions, HandleStart(s) \/ HandleClear(s) PROVE TalkTypes'
  BY <1>3, TurnNames DEF HandleStart, HandleClear, turnVars
<1>4. ASSUME NEW s \in Sessions, HandleBinary(s) PROVE TalkTypes'
  <2>1. CASE audio[s] + 1 > MaxAudio
    BY <1>4, <2>1, TurnNames DEF HandleBinary, turnVars
  <2>2. CASE ~(audio[s] + 1 > MaxAudio)
    <3>1. audio' = [audio EXCEPT ![s] = audio[s] + 1] /\ audio[s] + 1 \in 0 .. MaxAudio
      BY <1>4, <2>2, TurnNames DEF HandleBinary
    <3>2. audio' \in [Sessions -> 0 .. MaxAudio]
      BY <3>1
    <3> QED
      BY <1>4, <2>2, <3>2 DEF HandleBinary, turnVars
  <2> QED
    BY <2>1, <2>2
<1>5. ASSUME NEW s \in Sessions, HandleCommit(s) PROVE TalkTypes'
  <2>1. /\ collecting' = collecting \ {s} /\ audio' = [audio EXCEPT ![s] = 0]
        /\ UNCHANGED <<conn, gone, telling, history, cancelling, sent>>
    BY <1>5, Commits
  <2>2. step' \in [Turns -> Steps] /\ task' \in [Sessions -> 0 .. MaxTurns]
    <3>1. CASE UNCHANGED <<task, step>>
      BY <3>1
    <3>2. CASE ~UNCHANGED <<task, step>>
      <4>1. PICK n \in 1 .. MaxTurns : /\ task' = [task EXCEPT ![s] = n]
                                       /\ step' = [step EXCEPT ![<<s, n>>] = "created"]
        BY <1>5, <3>2, Commits
      <4> QED
        BY <4>1, TurnNames DEF Steps
    <3> QED
      BY <3>1, <3>2
  <2>3. audio' \in [Sessions -> 0 .. MaxAudio]
    BY <2>1, TurnNames
  <2> QED
    BY <2>1, <2>2, <2>3
<1>6. ASSUME NEW s \in Sessions, HandleCancel(s) \/ BeginFinally(s) PROVE TalkTypes'
  <2>1. Active(s) => Current(s) \in Turns
    BY TurnNames DEF Active, Current
  <2> QED
    BY <1>6, <2>1 DEF HandleCancel, BeginFinally
<1>7. ASSUME NEW s \in Sessions, TellCancelled(s) PROVE TalkTypes'
  <2>1. telling[s] # 0 /\ <<s, telling[s]>> \in Turns
    BY <1>7, TurnNames DEF TellCancelled
  <2>2. Append(sent[<<s, telling[s]>>], "cancelled") \in Seq(Events)
    <3>1. "cancelled" \in Events /\ sent[<<s, telling[s]>>] \in Seq(Events)
      BY <2>1 DEF Events, Endings
    <3> QED
      BY <3>1, AppendProperties
  <2>3. sent' \in [Turns -> Seq(Events)]
    BY <1>7, <2>1, <2>2 DEF TellCancelled
  <2>4. /\ telling' = [telling EXCEPT ![s] = 0] /\ conn' \in {conn, [conn EXCEPT ![s] = "closing"]}
        /\ UNCHANGED <<gone, collecting, audio, history, task, step, cancelling>>
    BY <1>7 DEF TellCancelled
  <2> QED
    BY <2>3, <2>4, TurnNames
<1>8. ASSUME NEW s \in Sessions, EndFinally(s) PROVE TalkTypes'
  <2>1. /\ conn' = [conn EXCEPT ![s] = "closed"] /\ history' = [history EXCEPT ![s] = <<>>]
        /\ task' = [task EXCEPT ![s] = 0] /\ telling' = [telling EXCEPT ![s] = 0]
        /\ collecting' = collecting \ {s} /\ audio' = [audio EXCEPT ![s] = 0]
        /\ UNCHANGED <<gone, step, cancelling, sent>>
    BY <1>8 DEF EndFinally
  <2>2. history' \in [Sessions -> Seq(Entries)] /\ \A t \in Sessions : Len(history'[t]) <= MaxHistory
    <3>1. <<>> \in Seq(Entries) /\ Len(<<>>) <= MaxHistory
      BY TurnNames
    <3> QED
      BY <2>1, <3>1
  <2> QED
    BY <2>1, <2>2, TurnNames
<1>9. ASSUME NEW k \in Turns, NEW next \in Steps, Send(k, next), UNCHANGED sent,
             UNCHANGED <<sessionVars, history, task, cancelling>>
      PROVE  TalkTypes'
  BY <1>9, Sends DEF sessionVars
<1>10. ASSUME NEW k \in Turns, NEW next \in Steps, NEW ev \in Events, Say(k, ev, next),
              UNCHANGED <<sessionVars, history, task, cancelling>>
      PROVE  TalkTypes'
  <2>1. Send(k, next) /\ sent' \in [Turns -> Seq(Events)]
    BY <1>10, Speaks
  <2>2. step' \in [Turns -> Steps]
    BY <2>1, Sends
  <2> QED
    BY <1>10, <2>1, <2>2 DEF sessionVars
<1>11. ASSUME NEW k \in Turns,
              BeginTurn(k) \/ Transcribed(k) \/ OpenStream(k) \/ ReadStream(k) \/ Synthesized(k) \/ CompleteTurn(k)
       PROVE  TalkTypes'
  <2>1. UNCHANGED <<sessionVars, history, task, cancelling>>
    BY <1>11 DEF BeginTurn, Transcribed, OpenStream, ReadStream, Synthesized, CompleteTurn
  <2>2. \/ \E next \in Steps : Send(k, next) /\ UNCHANGED sent
        \/ \E next \in Steps, ev \in Events : Say(k, ev, next)
        \/ step' = [step EXCEPT ![k] = "listening"] /\ UNCHANGED sent
    BY <1>11 DEF BeginTurn, Transcribed, OpenStream, ReadStream, Synthesized, CompleteTurn, Steps, Events, Endings
  <2>3. CASE step' = [step EXCEPT ![k] = "listening"] /\ UNCHANGED sent
    BY <2>1, <2>3 DEF sessionVars, Steps
  <2> QED
    BY <1>9, <1>10, <2>1, <2>2, <2>3
<1>12. ASSUME NEW k \in Turns, RunInference(k) PROVE TalkTypes'
  BY <1>1, <1>12 DEF RunInference
<1>13. ASSUME NEW k \in Turns, NEW role \in {"user", "assistant"}, Remember(k, role)
       PROVE  history' \in [Sessions -> Seq(Entries)] /\ \A t \in Sessions : Len(history'[t]) <= MaxHistory
  <2>1. k[1] \in Sessions /\ <<role, k[2]>> \in Entries /\ history[k[1]] \in Seq(Entries)
    BY TurnNames DEF Entries
  <2>2. /\ Trim(Append(history[k[1]], <<role, k[2]>>)) \in Seq(Entries)
        /\ Len(Trim(Append(history[k[1]], <<role, k[2]>>))) <= MaxHistory
    BY <2>1, Trimmed
  <2> QED
    BY <1>13, <2>1, <2>2 DEF Remember
<1>14. ASSUME NEW k \in Turns, RememberQuestion(k) PROVE TalkTypes'
  <2>1. history' \in [Sessions -> Seq(Entries)] /\ \A t \in Sessions : Len(history'[t]) <= MaxHistory
    BY <1>13, <1>14 DEF RememberQuestion
  <2> QED
    BY <1>14, <2>1 DEF RememberQuestion, sessionVars, Steps
<1>15. ASSUME NEW k \in Turns, RememberAnswer(k) PROVE TalkTypes'
  <2>1. history' \in [Sessions -> Seq(Entries)] /\ \A t \in Sessions : Len(history'[t]) <= MaxHistory
    BY <1>13, <1>15 DEF RememberAnswer
  <2>2. step' \in [Turns -> Steps]
    BY <1>15, Sends DEF RememberAnswer, Steps
  <2> QED
    BY <1>15, <2>1, <2>2 DEF RememberAnswer, sessionVars
<1>16. ASSUME NEW k \in Turns, EndTurn(k) \/ Unwind(k) PROVE TalkTypes'
  <2>1. /\ step' = [step EXCEPT ![k] = "over"] /\ cancelling' \subseteq cancelling
        /\ task' \in {task, [task EXCEPT ![k[1]] = 0]} /\ UNCHANGED <<sessionVars, history, sent>>
    BY <1>16 DEF EndTurn, Unwind, Forget
  <2> QED
    BY <2>1, TurnNames DEF sessionVars, Steps
<1> QED
  BY <1>1, <1>2, <1>3, <1>4, <1>5, <1>6, <1>7, <1>8, <1>11, <1>12, <1>14, <1>15, <1>16
  DEF Next, Step, TurnStep, LoopStep

------------------------------------------------------------------------------
(***************************************************************************)
(* One turn at a time.                                                     *)
(***************************************************************************)
\* A turn goes on, or is over; only a turn that is over is forgotten.
LEMMA TurnGoesOn ==
  ASSUME TalkTypes, TurnsFit, NEW k \in Turns, step[k] \notin {"unused", "over"},
         step'[k] # "unused", \A j \in Turns \ {k} : step'[j] = step[j],
         task' = task \/ (step'[k] = "over" /\ Forget(k))
  PROVE  TurnsFit'
<1>1. /\ k[1] \in Sessions /\ k[2] \in 1 .. MaxTurns /\ k = <<k[1], k[2]>>
      /\ \A s \in Sessions, n \in 1 .. MaxTurns : <<s, n>> \in Turns
  BY TurnNames
<1>2. \A s \in Sessions, n \in 1 .. MaxTurns :
        /\ step'[<<s, n>>] # "unused" <=> step[<<s, n>>] # "unused"
        /\ step'[<<s, n>>] \notin {"unused", "over"} => step[<<s, n>>] \notin {"unused", "over"}
  BY <1>1
<1>3. \A s \in Sessions : Started(s)' = Started(s)
  BY <1>2 DEF Started
<1>4. task[k[1]] = k[2]
  BY <1>1 DEF TurnsFit
<1>5. \A s \in Sessions : /\ task'[s] # 0 => task'[s] = task[s]
                          /\ task'[s] = task[s] \/ (s = k[1] /\ step'[k] = "over")
  BY DEF Forget, TalkTypes
<1>6. ASSUME NEW s \in Sessions, NEW n \in 1 .. MaxTurns, step'[<<s, n>>] \notin {"unused", "over"}
      PROVE  task'[s] = n
  <2>1. step[<<s, n>>] \notin {"unused", "over"}
    BY <1>2, <1>6
  <2>2. task[s] = n
    BY <2>1 DEF TurnsFit
  <2>3. ~(s = k[1] /\ step'[k] = "over")
    BY <1>1, <1>4, <1>6, <2>2
  <2> QED
    BY <1>5, <2>2, <2>3
<1> QED
  BY <1>3, <1>5, <1>6 DEF TurnsFit

LEMMA NextTurns ==
  ASSUME TalkTypes, TurnsFit, StoryFits, [Next]_vars
  PROVE  TurnsFit'
<1>1. ASSUME UNCHANGED <<step, task>> PROVE TurnsFit'
  BY <1>1 DEF TurnsFit, Started
<1>2. ASSUME NEW k \in Turns, NEW next \in Steps, Send(k, next), step[k] \notin {"unused", "over"},
             next # "unused", UNCHANGED task
      PROVE  TurnsFit'
  <2>1. step'[k] # "unused" /\ \A j \in Turns \ {k} : step'[j] = step[j]
    BY <1>2, Sends
  <2> QED
    BY <1>2, <2>1, TurnGoesOn
<1>3. ASSUME NEW k \in Turns, NEW next, step' = [step EXCEPT ![k] = next], step[k] \notin {"unused", "over"},
             next # "unused", task' = task \/ (next = "over" /\ Forget(k))
      PROVE  TurnsFit'
  <2>1. step'[k] = next /\ \A j \in Turns \ {k} : step'[j] = step[j]
    BY <1>3 DEF TalkTypes
  <2> QED
    BY <1>3, <2>1, TurnGoesOn
<1>4. CASE UNCHANGED vars \/ UNCHANGED <<sessionVars, turnVars>>
  BY <1>1, <1>4 DEF vars, turnVars
<1>5. ASSUME NEW s \in Sessions,
             \/ StartSession(s) \/ HandleStart(s) \/ HandleClear(s) \/ HandleBinary(s) \/ HandleCancel(s)
             \/ HandleClose(s) \/ ClientGoes(s) \/ TellCancelled(s) \/ ReceiveDisconnect(s) \/ BeginFinally(s)
      PROVE  TurnsFit'
  <2>1. UNCHANGED <<step, task>>
    BY <1>5 DEF StartSession, HandleStart, HandleClear, HandleBinary, HandleCancel, HandleClose, ClientGoes,
                TellCancelled, ReceiveDisconnect, BeginFinally, turnVars
  <2> QED
    BY <1>1, <2>1
<1>6. ASSUME NEW s \in Sessions, HandleCommit(s) PROVE TurnsFit'
  <2>1. CASE UNCHANGED <<task, step>>
    BY <1>1, <2>1
  <2>2. CASE ~UNCHANGED <<task, step>>
    <3>1. PICK n \in 1 .. MaxTurns :
            /\ step[<<s, n>>] = "unused" /\ Started(s) = 1 .. n - 1
            /\ task' = [task EXCEPT ![s] = n] /\ step' = [step EXCEPT ![<<s, n>>] = "created"]
      BY <1>6, <2>2, Commits
    <3>2. ~Active(s)
      BY <1>6, Commits
    <3>3. /\ <<s, n>> \in Turns /\ step'[<<s, n>>] = "created" /\ task'[s] = n
          /\ \A j \in Turns : j # <<s, n>> => step'[j] = step[j]
          /\ \A t \in Sessions : t # s => task'[t] = task[t]
      BY <3>1, TurnNames DEF TalkTypes
    <3>4. \A t \in Sessions, m \in 1 .. MaxTurns :
            <<t, m>> \in Turns /\ (<<t, m>> = <<s, n>> <=> t = s /\ m = n)
      BY TurnNames
    <3>5. ASSUME NEW t \in Sessions, t # s
          PROVE  /\ \E m \in 0 .. MaxTurns : Started(t)' = 1 .. m
                 /\ task'[t] # 0 => Started(t)' = 1 .. task'[t]
                 /\ \A m \in 1 .. MaxTurns : step'[<<t, m>>] \notin {"unused", "over"} => task'[t] = m
      <4>1. \A m \in 1 .. MaxTurns : step'[<<t, m>>] = step[<<t, m>>]
        BY <3>3, <3>4, <3>5
      <4>2. Started(t)' = Started(t)
        BY <4>1 DEF Started
      <4>3. task'[t] = task[t]
        BY <3>3, <3>5
      <4>4. \E m \in 0 .. MaxTurns : Started(t)' = 1 .. m
        BY <4>2 DEF TurnsFit
      <4>5. task'[t] # 0 => Started(t)' = 1 .. task'[t]
        BY <4>2, <4>3 DEF TurnsFit
      <4>6. \A m \in 1 .. MaxTurns : step'[<<t, m>>] \notin {"unused", "over"} => task'[t] = m
        BY <4>1, <4>3 DEF TurnsFit
      <4> QED
        BY <4>4, <4>5, <4>6
    <3>6. Started(s)' = 1 .. n
      <4>1. Started(s)' = Started(s) \union {n}
        <5>1. \A m \in 1 .. MaxTurns : m # n => step'[<<s, m>>] = step[<<s, m>>]
          BY <3>3, <3>4
        <5> QED
          BY <3>3, <5>1 DEF Started
      <4>2. (1 .. n - 1) \union {n} = 1 .. n
        BY TurnNames
      <4> QED
        BY <3>1, <4>1, <4>2
    <3>7. ASSUME NEW m \in 1 .. MaxTurns, step'[<<s, m>>] \notin {"unused", "over"} PROVE m = n
      <4>1. CASE m # n
        <5>1. step[<<s, m>>] \notin {"unused", "over"}
          BY <3>3, <3>4, <3>7, <4>1
        <5>2. task[s] = m /\ m # 0
          BY <5>1, TurnNames DEF TurnsFit
        <5> QED
          BY <3>2, <5>1, <5>2 DEF Active, Current
      <4> QED
        BY <4>1
    <3>8. n \in 0 .. MaxTurns
      BY TurnNames
    <3>9. ASSUME NEW t \in Sessions
          PROVE  /\ \E m \in 0 .. MaxTurns : Started(t)' = 1 .. m
                 /\ task'[t] # 0 => Started(t)' = 1 .. task'[t]
                 /\ \A m \in 1 .. MaxTurns : step'[<<t, m>>] \notin {"unused", "over"} => task'[t] = m
      BY <3>3, <3>5, <3>6, <3>7, <3>8
    <3> QED
      BY <3>9 DEF TurnsFit
  <2> QED
    BY <2>1, <2>2
<1>7. ASSUME NEW s \in Sessions, EndFinally(s) PROVE TurnsFit'
  <2>1. UNCHANGED step /\ task' = [task EXCEPT ![s] = 0] /\ ~Active(s)
    BY <1>7 DEF EndFinally
  <2>2. \A t \in Sessions : task'[t] = task[t] \/ (t = s /\ task'[t] = 0)
    BY <2>1 DEF TalkTypes
  <2>3. \A n \in 1 .. MaxTurns : step[<<s, n>>] \in {"unused", "over"}
    <3>1. ASSUME NEW n \in 1 .. MaxTurns, step[<<s, n>>] \notin {"unused", "over"} PROVE FALSE
      <4>1. task[s] = n /\ n # 0
        BY <3>1, TurnNames DEF TurnsFit
      <4> QED
        BY <2>1, <3>1, <4>1 DEF Active, Current
    <3> QED
      BY <3>1
  <2> QED
    BY <2>1, <2>2, <2>3 DEF TurnsFit, Started
<1>8. ASSUME NEW k \in Turns,
             \/ BeginTurn(k) \/ Transcribed(k) \/ OpenStream(k) \/ ReadStream(k) \/ RememberAnswer(k)
             \/ Synthesized(k) \/ CompleteTurn(k)
      PROVE  TurnsFit'
  <2>1. UNCHANGED task /\ step[k] \notin {"unused", "over"}
    BY <1>8 DEF BeginTurn, Transcribed, OpenStream, ReadStream, RememberAnswer, Synthesized, CompleteTurn, At
  <2>2. \/ \E next \in Steps : next # "unused" /\ Send(k, next)
        \/ step' = [step EXCEPT ![k] = "listening"]
    BY <1>8 DEF BeginTurn, Transcribed, OpenStream, ReadStream, RememberAnswer, Synthesized, CompleteTurn, Steps, Say
  <2> QED
    BY <1>2, <1>3, <2>1, <2>2
<1>9. ASSUME NEW k \in Turns, RunInference(k) PROVE TurnsFit'
  BY <1>1, <1>9 DEF RunInference, turnVars
<1>10. ASSUME NEW k \in Turns, RememberQuestion(k) PROVE TurnsFit'
  <2>1. UNCHANGED task /\ step[k] \notin {"unused", "over"} /\ step' = [step EXCEPT ![k] = "thinking"]
    BY <1>10 DEF RememberQuestion, At
  <2> QED
    BY <1>3, <2>1
<1>11. ASSUME NEW k \in Turns, EndTurn(k) \/ Unwind(k) PROVE TurnsFit'
  <2>1. step[k] \notin {"unused", "over"} /\ step' = [step EXCEPT ![k] = "over"]
    BY <1>11 DEF EndTurn, Unwind, At, StoryFits
  <2>2. UNCHANGED task \/ Forget(k)
    BY <1>11 DEF EndTurn, Unwind
  <2> QED
    BY <1>3, <2>1, <2>2
<1> QED
  BY <1>4, <1>5, <1>6, <1>7, <1>8, <1>9, <1>10, <1>11 DEF Next, Step, TurnStep, LoopStep

------------------------------------------------------------------------------
(***************************************************************************)
(* One story for the client of a turn.                                     *)
(***************************************************************************)
\* One more event for the client of turn k.
LEMMA OneMoreEvent ==
  ASSUME TalkTypes, NEW k \in Turns, NEW ev \in Events, sent' = [sent EXCEPT ![k] = Append(@, ev)]
  PROVE  /\ DOMAIN sent[k] = 1 .. Len(sent[k]) /\ Len(sent[k]) \in Nat
         /\ DOMAIN sent'[k] = 1 .. Len(sent[k]) + 1
         /\ sent'[k][Len(sent[k]) + 1] = ev /\ \A i \in 1 .. Len(sent[k]) : sent'[k][i] = sent[k][i]
         /\ \A j \in Turns \ {k} : sent'[j] = sent[j]
         /\ \A e : Tells(k, e)' <=> Tells(k, e) \/ e = ev
<1>1. /\ DOMAIN sent[k] = 1 .. Len(sent[k]) /\ Len(sent[k]) \in Nat
      /\ DOMAIN sent'[k] = 1 .. Len(sent[k]) + 1
      /\ sent'[k][Len(sent[k]) + 1] = ev /\ \A i \in 1 .. Len(sent[k]) : sent'[k][i] = sent[k][i]
  <2>1. sent'[k] = Append(sent[k], ev) /\ sent[k] \in Seq(Events)
    BY DEF TalkTypes
  <2> QED
    BY <2>1, Appended
<1>2. \A j \in Turns \ {k} : sent'[j] = sent[j]
  BY DEF TalkTypes
<1>3. /\ \A i \in 1 .. Len(sent[k]) : i \in 1 .. Len(sent[k]) + 1
      /\ \A i \in 1 .. Len(sent[k]) + 1 : i \in 1 .. Len(sent[k]) \/ i = Len(sent[k]) + 1
      /\ Len(sent[k]) + 1 \in 1 .. Len(sent[k]) + 1
  BY <1>1
<1>4. ASSUME NEW e PROVE Tells(k, e)' <=> Tells(k, e) \/ e = ev
  BY <1>1, <1>3 DEF Tells
<1> QED
  BY <1>1, <1>2, <1>4

\* It may come after all of the others.
LEMMA StoryGoesOn ==
  ASSUME TalkTypes, NEW k \in Turns, NEW ev \in Events, sent' = [sent EXCEPT ![k] = Append(@, ev)],
         NEW endings, NEW allowed, After(k, endings, allowed),
         ev \in allowed \/ \A i \in DOMAIN sent[k] : sent[k][i] \notin endings
  PROVE  After(k, endings, allowed)'
<1>1. /\ DOMAIN sent[k] = 1 .. Len(sent[k]) /\ Len(sent[k]) \in Nat
      /\ DOMAIN sent'[k] = 1 .. Len(sent[k]) + 1
      /\ sent'[k][Len(sent[k]) + 1] = ev /\ \A i \in 1 .. Len(sent[k]) : sent'[k][i] = sent[k][i]
  BY OneMoreEvent
<1>2. ASSUME NEW i \in DOMAIN sent'[k], NEW j \in DOMAIN sent'[k], i < j, sent'[k][i] \in endings
      PROVE  sent'[k][j] \in allowed
  <2>1. i \in 1 .. Len(sent[k]) /\ (j \in 1 .. Len(sent[k]) \/ j = Len(sent[k]) + 1)
    BY <1>1, <1>2
  <2>2. sent[k][i] \in endings
    BY <1>1, <1>2, <2>1
  <2>3. CASE j \in 1 .. Len(sent[k])
    BY <1>1, <1>2, <2>1, <2>2, <2>3 DEF After
  <2>4. CASE j = Len(sent[k]) + 1
    BY <1>1, <2>1, <2>2, <2>4
  <2> QED
    BY <2>1, <2>3, <2>4
<1> QED
  BY <1>2 DEF After

\* A turn that is not over and not cancelled goes on, and may tell its client of it.
LEMMA StoryOfTurn ==
  ASSUME TalkTypes, StoryFits, NEW k \in Turns, At(k, step[k]), step[k] \notin {"unused", "over"},
         step'[k] # "unused", \A j \in Turns \ {k} : step'[j] = step[j],
         UNCHANGED <<telling, cancelling>>,
         \/ sent' = sent /\ (step[k] = "last" => step'[k] \in {"last", "over"})
         \/ /\ step[k] # "last"
            /\ \E ev \in Events \ {"cancelled"} :
                 /\ sent' = [sent EXCEPT ![k] = Append(@, ev)]
                 /\ ev \in {"completed", "error"} => step'[k] = "last"
  PROVE  StoryFits'
<1>1. \A j \in Turns : Stopped(j) => Stopped(j)'
  BY DEF Stopped
<1>2. \A s \in Sessions : telling[s] # 0 => <<s, telling[s]>> \in Turns /\ Stopped(<<s, telling[s]>>)
  BY TurnNames DEF StoryFits, TellingFits, TalkTypes
<1>3. k \notin cancelling /\ ~Stopped(k) /\ ~Tells(k, "cancelled")
  BY DEF At, Stopped, StoryFits
<1>4. \A j \in Turns : j \in cancelling => step'[j] \notin {"unused", "over"}
  BY <1>3 DEF StoryFits
<1>5. TellingFits'
  BY <1>1, <1>2 DEF TellingFits, Stopped
<1>6. CASE sent' = sent
  <2>1. \A j \in Turns : \A ev : Tells(j, ev)' <=> Tells(j, ev)
    BY <1>6 DEF Tells
  <2>2. \A j \in Turns : After(j, {"cancelled"}, {})' /\ After(j, Endings, {"cancelled"})'
    BY <1>6 DEF StoryFits, After
  <2>3. ASSUME step[k] # "last" PROVE ~Tells(k, "completed") /\ ~Tells(k, "error")
    BY <2>3 DEF StoryFits
  <2>4. step[k] = "last" => step'[k] \in {"last", "over"}
    BY <1>6
  <2>5. \A j \in Turns : Tells(j, "completed") \/ Tells(j, "error") => step'[j] \in {"last", "over"}
    BY <2>3, <2>4 DEF StoryFits
  <2>6. \A j \in Turns : Tells(j, "cancelled") => Stopped(j)'
    BY <1>1 DEF StoryFits
  <2> QED
    BY <1>4, <1>5, <2>1, <2>2, <2>5, <2>6 DEF StoryFits
<1>7. CASE sent' # sent
  <2>1. step[k] # "last" /\ ~Tells(k, "completed") /\ ~Tells(k, "error")
    BY <1>7 DEF StoryFits
  <2>2. PICK ev \in Events \ {"cancelled"} : /\ sent' = [sent EXCEPT ![k] = Append(@, ev)]
                                             /\ ev \in {"completed", "error"} => step'[k] = "last"
    BY <1>7
  <2>3. /\ \A e : Tells(k, e)' <=> Tells(k, e) \/ e = ev
        /\ \A j \in Turns \ {k} : sent'[j] = sent[j]
    BY <2>2, OneMoreEvent
  <2>4. \A j \in Turns \ {k} : \A e : Tells(j, e)' <=> Tells(j, e)
    BY <2>3 DEF Tells
  <2>5. \A i \in DOMAIN sent[k] : sent[k][i] \notin Endings /\ sent[k][i] \notin {"cancelled"}
    BY <1>3, <2>1 DEF Tells, Endings
  <2>6. After(k, {"cancelled"}, {})' /\ After(k, Endings, {"cancelled"})'
    BY <2>2, <2>5, StoryGoesOn DEF StoryFits
  <2>7. \A j \in Turns \ {k} : After(j, {"cancelled"}, {})' /\ After(j, Endings, {"cancelled"})'
    BY <2>3 DEF StoryFits, After
  <2>8. \A j \in Turns : Tells(j, "cancelled")' => Stopped(j)'
    <3>1. ~Tells(k, "cancelled")'
      BY <1>3, <2>2, <2>3
    <3> QED
      BY <1>1, <2>4, <3>1 DEF StoryFits
  <2>9. \A j \in Turns : (Tells(j, "completed") \/ Tells(j, "error"))' => step'[j] \in {"last", "over"}
    <3>1. (Tells(k, "completed") \/ Tells(k, "error"))' => step'[k] = "last"
      BY <2>1, <2>2, <2>3
    <3> QED
      BY <2>4, <3>1 DEF StoryFits
  <2> QED
    BY <1>4, <1>5, <2>6, <2>7, <2>8, <2>9 DEF StoryFits
<1> QED
  BY <1>6, <1>7

\* Tasks are cancelled, and clients will be told of it.
LEMMA StoryOfCancel ==
  ASSUME TalkTypes, StoryFits, UNCHANGED <<step, sent>>, cancelling \subseteq cancelling', cancelling' \subseteq Turns,
         \A k \in cancelling' \ cancelling : step[k] \notin {"unused", "over"},
         \A s \in Sessions : telling'[s] \in {0, telling[s]} \/ (telling'[s] # 0 /\ <<s, telling'[s]>> \in cancelling')
  PROVE  StoryFits'
<1>1. \A k \in Turns : Stopped(k) => Stopped(k)'
  BY DEF Stopped
<1>2. \A k \in Turns : \A e : Tells(k, e)' <=> Tells(k, e)
  BY DEF Tells
<1>3. \A k \in Turns : After(k, {"cancelled"}, {})' /\ After(k, Endings, {"cancelled"})'
  BY DEF StoryFits, After
<1>4. TellingFits'
  <2>1. ASSUME NEW s \in Sessions, telling'[s] # 0, telling'[s] = telling[s]
        PROVE  <<s, telling'[s]>> \in cancelling' \/ step'[<<s, telling'[s]>>] = "over"
    <3>1. <<s, telling[s]>> \in Turns /\ Stopped(<<s, telling[s]>>)
      BY <2>1, TurnNames DEF StoryFits, TellingFits, TalkTypes
    <3> QED
      BY <2>1, <3>1 DEF Stopped
  <2>2. ASSUME NEW s \in Sessions, telling'[s] # 0, telling'[s] # telling[s]
        PROVE  <<s, telling'[s]>> \in cancelling' \/ step'[<<s, telling'[s]>>] = "over"
    BY <2>2
  <2> QED
    BY <2>1, <2>2 DEF TellingFits, Stopped
<1>5. \A k \in Turns : k \in cancelling' => step'[k] \notin {"unused", "over"}
  BY DEF StoryFits
<1> QED
  BY <1>1, <1>2, <1>3, <1>4, <1>5 DEF StoryFits


LEMMA NextStory ==
  ASSUME TalkTypes, TurnsFit, StoryFits, [Next]_vars
  PROVE  StoryFits'
<1>1. CASE UNCHANGED vars \/ UNCHANGED <<sessionVars, turnVars>>
  <2>1. UNCHANGED <<step, sent, cancelling, telling>>
    BY <1>1 DEF vars, sessionVars, turnVars
  <2>2. cancelling' \subseteq Turns
    BY <2>1 DEF TalkTypes
  <2> QED
    BY <2>1, <2>2, StoryOfCancel
<1>2. ASSUME NEW s \in Sessions,
             \/ StartSession(s) \/ HandleStart(s) \/ HandleClear(s) \/ HandleBinary(s)
             \/ HandleClose(s) \/ ClientGoes(s) \/ ReceiveDisconnect(s) \/ EndFinally(s)
      PROVE  StoryFits'
  <2>1. UNCHANGED <<step, sent, cancelling>> /\ (telling' = telling \/ telling' = [telling EXCEPT ![s] = 0])
    BY <1>2 DEF StartSession, HandleStart, HandleClear, HandleBinary, HandleClose, ClientGoes,
                ReceiveDisconnect, EndFinally, turnVars
  <2>2. cancelling' \subseteq Turns /\ \A t \in Sessions : telling'[t] \in {0, telling[t]}
    BY <2>1 DEF TalkTypes
  <2> QED
    BY <2>1, <2>2, StoryOfCancel
<1>3. ASSUME NEW s \in Sessions, Active(s)
      PROVE  /\ Current(s) \in Turns /\ task[s] \in 1 .. MaxTurns
             /\ step[Current(s)] \notin {"unused", "over"}
  <2>1. task[s] # 0 /\ task[s] \in 1 .. MaxTurns /\ Started(s) = 1 .. task[s] /\ step[Current(s)] # "over"
    BY <1>3, TurnNames DEF Active, TurnsFit, TalkTypes
  <2>2. task[s] \in Started(s)
    BY <2>1, TurnNames
  <2> QED
    BY <2>1, <2>2, TurnNames DEF Started, Current
<1>4. ASSUME NEW s \in Sessions, HandleCancel(s) PROVE StoryFits'
  <2>1. /\ UNCHANGED <<step, sent>> /\ cancelling' = cancelling \union {Current(s)}
        /\ telling' = [telling EXCEPT ![s] = task[s]] /\ Active(s)
    BY <1>4 DEF HandleCancel
  <2>2. cancelling' \subseteq Turns /\ \A k \in cancelling' \ cancelling : step[k] \notin {"unused", "over"}
    BY <1>3, <2>1 DEF TalkTypes
  <2>3. \A t \in Sessions : telling'[t] = telling[t] \/ (telling'[t] = task[s] /\ t = s)
    BY <2>1 DEF TalkTypes
  <2>4. <<s, task[s]>> \in cancelling' /\ task[s] # 0
    BY <2>1 DEF Current, Active
  <2>5. \A t \in Sessions : telling'[t] \in {0, telling[t]} \/ (telling'[t] # 0 /\ <<t, telling'[t]>> \in cancelling')
    BY <2>3, <2>4
  <2> QED
    BY <2>1, <2>2, <2>5, StoryOfCancel
<1>5. ASSUME NEW s \in Sessions, BeginFinally(s) PROVE StoryFits'
  <2>1. /\ UNCHANGED <<step, sent, telling>>
        /\ cancelling' = IF Active(s) THEN cancelling \union {Current(s)} ELSE cancelling
    BY <1>5 DEF BeginFinally
  <2>2. cancelling' \subseteq Turns /\ \A k \in cancelling' \ cancelling : step[k] \notin {"unused", "over"}
    BY <1>3, <2>1 DEF TalkTypes
  <2> QED
    BY <2>1, <2>2, StoryOfCancel
<1>6. ASSUME NEW s \in Sessions, HandleCommit(s) PROVE StoryFits'
  <2>1. UNCHANGED <<telling, cancelling, sent>>
    BY <1>6, Commits
  <2>2. CASE UNCHANGED <<task, step>>
    <3>1. cancelling' \subseteq Turns
      BY <2>1 DEF TalkTypes
    <3> QED
      BY <2>1, <2>2, <3>1, StoryOfCancel
  <2>3. CASE ~UNCHANGED <<task, step>>
    <3>1. PICK n \in 1 .. MaxTurns : step[<<s, n>>] = "unused" /\ step' = [step EXCEPT ![<<s, n>>] = "created"]
      BY <1>6, <2>3, Commits
    <3>2. \A k \in Turns : step'[k] = step[k] \/ (step[k] = "unused" /\ step'[k] = "created")
      BY <3>1 DEF TalkTypes
    <3>3. \A k \in Turns : Stopped(k) => Stopped(k)'
      BY <2>1, <3>2 DEF Stopped
    <3>4. \A k \in Turns : \A e : Tells(k, e)' <=> Tells(k, e)
      BY <2>1 DEF Tells
    <3>5. \A k \in Turns : After(k, {"cancelled"}, {})' /\ After(k, Endings, {"cancelled"})'
      BY <2>1 DEF StoryFits, After
    <3>6. TellingFits'
      <4>1. \A t \in Sessions : telling[t] # 0 => <<t, telling[t]>> \in Turns /\ Stopped(<<t, telling[t]>>)
        BY TurnNames DEF StoryFits, TellingFits, TalkTypes
      <4> QED
        BY <2>1, <3>3, <4>1 DEF TellingFits, Stopped
    <3>7. \A k \in Turns : k \in cancelling' => step'[k] \notin {"unused", "over"}
      BY <2>1, <3>2 DEF StoryFits
    <3>8. \A k \in Turns : Tells(k, "completed") \/ Tells(k, "error") => step'[k] \in {"last", "over"}
      BY <3>2 DEF StoryFits
    <3>9. \A k \in Turns : Tells(k, "cancelled") => Stopped(k)'
      BY <3>3 DEF StoryFits
    <3> QED
      BY <3>4, <3>5, <3>6, <3>7, <3>8, <3>9 DEF StoryFits
  <2> QED
    BY <2>2, <2>3
<1>7. ASSUME NEW s \in Sessions, TellCancelled(s) PROVE StoryFits'
  <2>0. PICK k \in Turns : k = <<s, telling[s]>>
    BY <1>7, TurnNames DEF TellCancelled, TalkTypes
  <2>1. /\ telling[s] # 0 /\ telling' = [telling EXCEPT ![s] = 0] /\ UNCHANGED <<step, cancelling>>
        /\ sent' = sent \/ (~Told(k, "cancelled") /\ sent' = [sent EXCEPT ![k] = Append(@, "cancelled")])
    BY <1>7, <2>0 DEF TellCancelled
  <2>2. k \in Turns /\ Stopped(k)
    BY <2>0, <2>1 DEF StoryFits, TellingFits
  <2>3. cancelling' \subseteq Turns /\ \A t \in Sessions : telling'[t] \in {0, telling[t]}
    BY <2>1 DEF TalkTypes
  <2>4. CASE sent' = sent
    BY <2>1, <2>3, <2>4, StoryOfCancel
  <2>5. CASE ~Told(k, "cancelled") /\ sent' = [sent EXCEPT ![k] = Append(@, "cancelled")]
    <3>1. "cancelled" \in Events
      BY DEF Events, Endings
    <3>2. /\ DOMAIN sent[k] = 1 .. Len(sent[k]) /\ Len(sent[k]) \in Nat
          /\ \A j \in Turns \ {k} : sent'[j] = sent[j]
          /\ \A e : Tells(k, e)' <=> Tells(k, e) \/ e = "cancelled"
      BY <2>2, <2>5, <3>1, OneMoreEvent
    <3>3. ASSUME NEW i \in DOMAIN sent[k], sent[k][i] = "cancelled" PROVE FALSE
      <4>1. i \in 1 .. Len(sent[k]) /\ Len(sent[k]) \in DOMAIN sent[k]
        BY <3>2, <3>3
      <4>2. ~(i < Len(sent[k]))
        BY <2>2, <3>3, <4>1 DEF StoryFits, After
      <4>3. i = Len(sent[k])
        BY <3>2, <4>1, <4>2
      <4>4. sent[k] # <<>>
        BY <4>1, <3>2
      <4> QED
        BY <2>5, <3>3, <4>3, <4>4 DEF Told
    <3>4. After(k, {"cancelled"}, {})' /\ After(k, Endings, {"cancelled"})'
      <4>1. After(k, {"cancelled"}, {})'
        BY <2>2, <2>5, <3>1, <3>3, StoryGoesOn DEF StoryFits
      <4>2. After(k, Endings, {"cancelled"})'
        BY <2>2, <2>5, <3>1, StoryGoesOn DEF StoryFits
      <4> QED
        BY <4>1, <4>2
    <3>5. \A j \in Turns \ {k} : After(j, {"cancelled"}, {})' /\ After(j, Endings, {"cancelled"})'
      BY <3>2 DEF StoryFits, After
    <3>6. \A j \in Turns : Stopped(j)' <=> Stopped(j)
      BY <2>1 DEF Stopped
    <3>7. \A j \in Turns \ {k} : \A e : Tells(j, e)' <=> Tells(j, e)
      BY <3>2 DEF Tells
    <3>8. \A j \in Turns : Tells(j, "cancelled")' => Stopped(j)'
      BY <2>2, <3>6, <3>7 DEF StoryFits
    <3>9. \A j \in Turns : (Tells(j, "completed") \/ Tells(j, "error"))' => step'[j] \in {"last", "over"}
      <4>1. \A j \in Turns : (Tells(j, "completed")' => Tells(j, "completed")) /\ (Tells(j, "error")' => Tells(j, "error"))
        BY <3>2, <3>7
      <4> QED
        BY <2>1, <4>1 DEF StoryFits
    <3>10. TellingFits'
      <4>1. \A t \in Sessions : telling'[t] # 0 => telling'[t] = telling[t] /\ Stopped(<<t, telling[t]>>)
        BY <2>3 DEF StoryFits, TellingFits
      <4> QED
        BY <2>1, <4>1 DEF TellingFits, Stopped
    <3>11. \A j \in Turns : j \in cancelling' => step'[j] \notin {"unused", "over"}
      BY <2>1 DEF StoryFits
    <3> QED
      BY <3>4, <3>5, <3>8, <3>9, <3>10, <3>11 DEF StoryFits
  <2> QED
    BY <2>1, <2>4, <2>5
<1>8. ASSUME NEW k \in Turns, Unwind(k) PROVE StoryFits'
  <2>1. /\ cancelling' = cancelling \ {k} /\ UNCHANGED <<telling, sent>>
        /\ step'[k] = "over" /\ \A j \in Turns \ {k} : step'[j] = step[j]
    BY <1>8 DEF Unwind, TalkTypes, sessionVars
  <2>2. \A j \in Turns : Stopped(j) => Stopped(j)'
    BY <2>1 DEF Stopped
  <2>3. \A j \in Turns : \A e : Tells(j, e)' <=> Tells(j, e)
    BY <2>1 DEF Tells
  <2>4. \A j \in Turns : After(j, {"cancelled"}, {})' /\ After(j, Endings, {"cancelled"})'
    BY <2>1 DEF StoryFits, After
  <2>5. TellingFits'
    <3>1. \A t \in Sessions : telling[t] # 0 => <<t, telling[t]>> \in Turns /\ Stopped(<<t, telling[t]>>)
      BY TurnNames DEF StoryFits, TellingFits, TalkTypes
    <3> QED
      BY <2>1, <2>2, <3>1 DEF TellingFits, Stopped
  <2>6. \A j \in Turns : j \in cancelling' => step'[j] \notin {"unused", "over"}
    BY <2>1 DEF StoryFits
  <2>7. \A j \in Turns : Tells(j, "completed") \/ Tells(j, "error") => step'[j] \in {"last", "over"}
    BY <2>1 DEF StoryFits
  <2>8. \A j \in Turns : Tells(j, "cancelled") => Stopped(j)'
    BY <2>2 DEF StoryFits
  <2> QED
    BY <2>3, <2>4, <2>5, <2>6, <2>7, <2>8 DEF StoryFits
<1>9. ASSUME NEW k \in Turns, RunInference(k) PROVE StoryFits'
  <2>1. UNCHANGED <<step, sent, cancelling, telling>>
    BY <1>9 DEF RunInference, sessionVars, turnVars
  <2>2. cancelling' \subseteq Turns
    BY <2>1 DEF TalkTypes
  <2> QED
    BY <2>1, <2>2, StoryOfCancel
\* A turn that tells its client nothing, or no more than that it goes on.
<1>10. ASSUME NEW k \in Turns, At(k, step[k]), step[k] \notin {"unused", "last", "over"},
              UNCHANGED <<telling, cancelling>>,
              NEW next \in Steps \ {"unused"}, Send(k, next), UNCHANGED sent
       PROVE  StoryFits'
  <2>1. step'[k] # "unused" /\ \A j \in Turns \ {k} : step'[j] = step[j]
    BY <1>10, Sends
  <2> QED
    BY <1>10, <2>1, StoryOfTurn
<1>11. ASSUME NEW k \in Turns, At(k, step[k]), step[k] \notin {"unused", "last", "over"},
              UNCHANGED <<telling, cancelling>>,
              NEW next \in Steps \ {"unused"}, NEW ev \in Events \ {"cancelled"}, Say(k, ev, next),
              ev \in {"completed", "error"} => next = "last"
       PROVE  StoryFits'
  <2>1. Send(k, next) /\ (sent' = sent \/ sent' = [sent EXCEPT ![k] = Append(@, ev)])
    BY <1>11, Speaks
  <2>2. step'[k] \in {next, "last"} /\ \A j \in Turns \ {k} : step'[j] = step[j]
    BY <2>1, Sends
  <2> QED
    BY <1>11, <2>1, <2>2, StoryOfTurn
<1>12. ASSUME NEW k \in Turns, NEW next \in Steps \ {"unused"}, step' = [step EXCEPT ![k] = next],
              At(k, step[k]), step[k] \notin {"unused", "over"}, step[k] = "last" => next = "over",
              UNCHANGED <<telling, cancelling, sent>>
       PROVE  StoryFits'
  <2>1. step'[k] = next /\ \A j \in Turns \ {k} : step'[j] = step[j]
    BY <1>12 DEF TalkTypes
  <2> QED
    BY <1>12, <2>1, StoryOfTurn
<1>13. ASSUME NEW k \in Turns, BeginTurn(k) PROVE StoryFits'
  <2>1. step[k] = "created" /\ At(k, step[k]) /\ UNCHANGED <<telling, cancelling>>
    BY <1>13 DEF BeginTurn, At, sessionVars
  <2>2. \/ step' = [step EXCEPT ![k] = "listening"] /\ UNCHANGED sent
        \/ Say(k, "error", "last")
    BY <1>13 DEF BeginTurn
  <2>3. "listening" \in Steps \ {"unused"} /\ "last" \in Steps \ {"unused"} /\ "error" \in Events \ {"cancelled"}
    BY DEF Steps, Events, Endings
  <2> QED
    BY <1>11, <1>12, <2>1, <2>2, <2>3
<1>14. ASSUME NEW k \in Turns, Transcribed(k) \/ OpenStream(k) \/ ReadStream(k) \/ Synthesized(k) \/ CompleteTurn(k)
       PROVE  StoryFits'
  <2>1. step[k] \notin {"unused", "last", "over"} /\ At(k, step[k]) /\ UNCHANGED <<telling, cancelling>>
    BY <1>14 DEF Transcribed, OpenStream, ReadStream, Synthesized, CompleteTurn, At, sessionVars
  <2>2. \/ \E next \in Steps \ {"unused"} : Send(k, next) /\ UNCHANGED sent
        \/ \E next \in Steps \ {"unused"}, ev \in Events \ {"cancelled"} :
             Say(k, ev, next) /\ (ev \in {"completed", "error"} => next = "last")
    <3>1. /\ {"heard", "streaming", "told", "sounded", "last"} \subseteq Steps \ {"unused"}
          /\ {"transcript", "textCompleted", "error", "completed"} \subseteq Events \ {"cancelled"}
      BY DEF Steps, Events, Endings
    <3>2. CASE Transcribed(k)
      BY <3>1, <3>2 DEF Transcribed
    <3>3. CASE OpenStream(k)
      BY <3>1, <3>3 DEF OpenStream
    <3>4. CASE ReadStream(k)
      BY <3>1, <3>4 DEF ReadStream
    <3>5. CASE Synthesized(k)
      BY <3>1, <3>5 DEF Synthesized
    <3>6. CASE CompleteTurn(k)
      BY <3>1, <3>6 DEF CompleteTurn
    <3> QED
      BY <1>14, <3>2, <3>3, <3>4, <3>5, <3>6
  <2> QED
    BY <1>10, <1>11, <2>1, <2>2
<1>15. ASSUME NEW k \in Turns, RememberQuestion(k) \/ EndTurn(k) PROVE StoryFits'
  <2>1. /\ step[k] \in {"heard", "last"} /\ At(k, step[k]) /\ UNCHANGED <<telling, cancelling, sent>>
        /\ \/ step[k] = "heard" /\ step' = [step EXCEPT ![k] = "thinking"]
           \/ step' = [step EXCEPT ![k] = "over"]
    BY <1>15 DEF RememberQuestion, EndTurn, At, sessionVars
  <2>2. "thinking" \in Steps \ {"unused"} /\ "over" \in Steps \ {"unused"}
    BY DEF Steps
  <2> QED
    BY <1>12, <2>1, <2>2
<1>16. ASSUME NEW k \in Turns, RememberAnswer(k) PROVE StoryFits'
  <2>1. step[k] = "told" /\ At(k, step[k]) /\ UNCHANGED <<telling, cancelling, sent>> /\ Send(k, "speaking")
    BY <1>16 DEF RememberAnswer, At, sessionVars
  <2>2. "speaking" \in Steps \ {"unused"}
    BY DEF Steps
  <2> QED
    BY <1>10, <2>1, <2>2
<1> QED
  BY <1>1, <1>2, <1>4, <1>5, <1>6, <1>7, <1>8, <1>9, <1>13, <1>14, <1>15, <1>16 DEF Next, Step, TurnStep, LoopStep

------------------------------------------------------------------------------
(***************************************************************************)
(* What is remembered was heard, in the order in which it was.             *)
(***************************************************************************)
Hears(s, entry) ==
  s \in gone \/ Tells(<<s, entry[2]>>, IF entry[1] = "user" THEN "transcript" ELSE "textCompleted")

Precedes(a, b) == a[2] < b[2] \/ (a[2] = b[2] /\ a[1] = "user" /\ b[1] = "assistant")

LEMMA HeardInOrder ==
  HistoryWasHeard <=>
    \A s \in Sessions : \A i \in DOMAIN history[s] :
      /\ Hears(s, history[s][i])
      /\ \A j \in DOMAIN history[s] : i < j => Precedes(history[s][i], history[s][j])
BY DEF HistoryWasHeard, Hears, Precedes, Tells

LEMMA HeardInOrderNext ==
  ASSUME \A s \in Sessions : \A i \in DOMAIN history'[s] :
           /\ Hears(s, history[s][i])'
           /\ \A j \in DOMAIN history'[s] : i < j => Precedes(history'[s][i], history'[s][j])
  PROVE  HistoryWasHeard'
BY DEF HistoryWasHeard, Hears, Precedes, Tells

LEMMA TellsMore ==
  ASSUME TalkTypes, NEW k \in Turns, NEW ev \in Events,
         sent' = sent \/ sent' = [sent EXCEPT ![k] = Append(@, ev)]
  PROVE  \A j \in Turns : \A e : Tells(j, e) => Tells(j, e)'
<1>1. CASE sent' = sent
  BY <1>1 DEF Tells
<1>2. CASE sent' = [sent EXCEPT ![k] = Append(@, ev)]
  <2>1. /\ \A j \in Turns \ {k} : sent'[j] = sent[j]
        /\ \A e : Tells(k, e)' <=> Tells(k, e) \/ e = ev
    BY <1>2, OneMoreEvent
  <2>2. \A j \in Turns \ {k} : \A e : Tells(j, e) => Tells(j, e)'
    BY <2>1 DEF Tells
  <2> QED
    BY <2>1, <2>2
<1> QED
  BY <1>1, <1>2

\* The steps of a turn that leave its connection's history alone.
GoesOn(k) ==
  \/ step'[k] = step[k]
  \/ step[k] = "unused" /\ step'[k] = "created"
  \/ step[k] = "created" /\ step'[k] = "listening"
  \/ step[k] = "listening" /\ step'[k] = "heard" /\ (k[1] \in gone' \/ Tells(k, "transcript")')
  \/ step[k] = "thinking" /\ step'[k] = "streaming"
  \/ step[k] = "streaming" /\ step'[k] = "told" /\ (k[1] \in gone' \/ Tells(k, "textCompleted")')
  \/ step[k] # "unused" /\ step'[k] \in {"speaking", "sounded", "last", "over"}

LEMMA HistoryStays ==
  ASSUME TalkTypes, HistoryFits, HistoryWasHeard, gone \subseteq gone',
         \A s \in Sessions : history'[s] = history[s] \/ history'[s] = <<>>,
         \A k \in Turns : \A e : Tells(k, e) => Tells(k, e)',
         \A k \in Turns : GoesOn(k)
  PROVE  HistoryFits' /\ HistoryWasHeard'
<1>1. \A s \in Sessions : \A i \in DOMAIN history'[s] : i \in DOMAIN history[s] /\ history'[s] = history[s]
  OBVIOUS
<1>2. \A s \in Sessions : \A i \in DOMAIN history[s] :
        /\ history[s][i] \in Entries /\ <<s, history[s][i][2]>> \in Turns
  BY TurnNames, ElementOfSeq DEF TalkTypes, Entries
<1>3. ASSUME NEW s \in Sessions, NEW i \in DOMAIN history'[s]
      PROVE  /\ step'[<<s, history'[s][i][2]>>] # "unused"
             /\ Hears(s, history[s][i])'
             /\ \A j \in DOMAIN history'[s] : i < j => Precedes(history'[s][i], history'[s][j])
  <2>1. i \in DOMAIN history[s] /\ history'[s] = history[s] /\ <<s, history[s][i][2]>> \in Turns
    BY <1>1, <1>2, <1>3
  <2>2. step[<<s, history[s][i][2]>>] # "unused" /\ GoesOn(<<s, history[s][i][2]>>)
    BY <2>1 DEF HistoryFits
  <2>3. step'[<<s, history'[s][i][2]>>] # "unused"
    BY <2>1, <2>2 DEF GoesOn
  <2>4. /\ Hears(s, history[s][i])
        /\ \A j \in DOMAIN history[s] : i < j => Precedes(history[s][i], history[s][j])
    BY <2>1, HeardInOrder
  <2>5. Hears(s, history[s][i])'
    BY <2>1, <2>4 DEF Hears
  <2> QED
    BY <2>1, <2>3, <2>4, <2>5
<1>4. HistoryWasHeard'
  BY <1>3, HeardInOrderNext
<1>5. ASSUME NEW k \in Turns
      PROVE  /\ step'[k] \in {"created", "listening", "heard"} =>
                  \A i \in DOMAIN history'[k[1]] : history'[k[1]][i][2] # k[2]
             /\ step'[k] \in {"thinking", "streaming", "told"} =>
                  \A i \in DOMAIN history'[k[1]] :
                    history'[k[1]][i][2] = k[2] => history'[k[1]][i][1] = "user"
             /\ step'[k] = "heard" => k[1] \in gone' \/ Tells(k, "transcript")'
             /\ step'[k] = "told" => k[1] \in gone' \/ Tells(k, "textCompleted")'
  <2>1. GoesOn(k) /\ k[1] \in Sessions /\ k = <<k[1], k[2]>>
    BY TurnNames
  <2>2. /\ step'[k] \in {"created", "listening", "heard"} => step[k] \in {"unused", "created", "listening", "heard"}
        /\ step'[k] \in {"thinking", "streaming", "told"} => step[k] \in {"thinking", "streaming", "told"}
    BY <2>1 DEF GoesOn
  <2>3. step[k] = "unused" => \A i \in DOMAIN history[k[1]] : history[k[1]][i][2] # k[2]
    BY <2>1 DEF HistoryFits
  <2>4. /\ step'[k] = "heard" => k[1] \in gone' \/ Tells(k, "transcript")'
        /\ step'[k] = "told" => k[1] \in gone' \/ Tells(k, "textCompleted")'
    BY <2>1 DEF GoesOn, HistoryFits
  <2>5. step'[k] \in {"created", "listening", "heard"} =>
          \A i \in DOMAIN history'[k[1]] : history'[k[1]][i][2] # k[2]
    BY <1>1, <2>1, <2>2, <2>3 DEF HistoryFits
  <2>6. step'[k] \in {"thinking", "streaming", "told"} =>
          \A i \in DOMAIN history'[k[1]] : history'[k[1]][i][2] = k[2] => history'[k[1]][i][1] = "user"
    BY <1>1, <2>1, <2>2 DEF HistoryFits
  <2> QED
    BY <2>4, <2>5, <2>6
<1>6. \A s \in Sessions : \A i \in DOMAIN history'[s] : step'[<<s, history'[s][i][2]>>] # "unused"
  BY <1>3
<1> QED
  BY <1>4, <1>5, <1>6 DEF HistoryFits

\* The turn in progress adds what its client just heard: it comes after all the rest.
LEMMA Remembers ==
  ASSUME TalkTypes, TurnsFit, HistoryFits, HistoryWasHeard, UNCHANGED <<gone, sent>>,
         NEW k \in Turns, NEW role \in {"user", "assistant"}, Remember(k, role),
         step[k] \notin {"unused", "over"}, Hears(k[1], <<role, k[2]>>),
         \A i \in DOMAIN history[k[1]] :
           history[k[1]][i][2] = k[2] => history[k[1]][i][1] = "user" /\ role = "assistant"
  PROVE  /\ HistoryWasHeard'
         /\ \A s \in Sessions : \A i \in DOMAIN history'[s] :
              \/ s = k[1] /\ history'[s][i] = <<role, k[2]>>
              \/ \E j \in DOMAIN history[s] : history'[s][i] = history[s][j]
<1> DEFINE e == <<role, k[2]>>
           h == history[k[1]]
<1>1. k[1] \in Sessions /\ k[2] \in 1 .. MaxTurns /\ k = <<k[1], k[2]>> /\ e \in Entries /\ h \in Seq(Entries)
  BY TurnNames DEF Entries, TalkTypes
<1>2. /\ history'[k[1]] = Trim(Append(h, e))
      /\ \A s \in Sessions : s # k[1] => history'[s] = history[s]
  BY <1>1 DEF Remember, TalkTypes
<1>3. PICK d \in Nat : \A i \in DOMAIN Trim(Append(h, e)) :
        /\ i \in Nat /\ i + d \in 1 .. Len(h) + 1
        /\ Trim(Append(h, e))[i] = IF i + d \in DOMAIN h THEN h[i + d] ELSE e
  BY <1>1, Trimmed
<1>4. DOMAIN h = 1 .. Len(h) /\ Len(h) \in Nat
  BY <1>1, LenProperties
<1>5. ASSUME NEW i \in DOMAIN h PROVE Precedes(h[i], e)
  <2>1. h[i] \in Entries /\ h[i][2] \in 1 .. MaxTurns /\ <<k[1], h[i][2]>> \in Turns
    <3>1. h[i] \in Entries
      BY <1>1, <1>5, ElementOfSeq
    <3> QED
      BY <1>1, <3>1, TurnNames DEF Entries
  <2>2. step[<<k[1], h[i][2]>>] # "unused"
    BY <1>1, <1>5 DEF HistoryFits
  <2>3. task[k[1]] = k[2]
    BY <1>1 DEF TurnsFit
  <2>4. Started(k[1]) = 1 .. k[2]
    BY <1>1, <2>3, TurnNames DEF TurnsFit
  <2>5. h[i][2] <= k[2]
    BY <1>1, <2>1, <2>2, <2>4, TurnNames DEF Started
  <2>6. h[i][2] \in Int /\ k[2] \in Int
    BY <1>1, <2>1, TurnNames
  <2>7. h[i][2] < k[2] \/ h[i][2] = k[2]
    BY <2>5, <2>6
  <2>8. h[i][2] = k[2] => h[i][1] = "user" /\ e[1] = "assistant"
    BY <1>5
  <2> QED
    BY <2>7, <2>8 DEF Precedes
<1>6. ASSUME NEW i \in DOMAIN history'[k[1]]
      PROVE  /\ i \in Nat /\ i + d \in 1 .. Len(h) + 1
             /\ history'[k[1]][i] = IF i + d \in DOMAIN h THEN h[i + d] ELSE e
  BY <1>2, <1>3, <1>6
<1>7. \A i \in DOMAIN h : Hears(k[1], h[i]) /\ \A j \in DOMAIN h : i < j => Precedes(h[i], h[j])
  BY <1>1, HeardInOrder
<1>8. ASSUME NEW i \in DOMAIN history'[k[1]]
      PROVE  /\ Hears(k[1], history[k[1]][i])'
             /\ \A j \in DOMAIN history'[k[1]] : i < j => Precedes(history'[k[1]][i], history'[k[1]][j])
  <2>1. /\ i \in Nat /\ i + d \in 1 .. Len(h) + 1
        /\ history'[k[1]][i] = IF i + d \in DOMAIN h THEN h[i + d] ELSE e
    BY <1>6, <1>8
  <2>2. Hears(k[1], history'[k[1]][i])
    BY <1>7, <2>1
  <2>3. Hears(k[1], history[k[1]][i])'
    BY <2>2 DEF Hears, Tells
  <2>4. ASSUME NEW j \in DOMAIN history'[k[1]], i < j
        PROVE  Precedes(history'[k[1]][i], history'[k[1]][j])
    <3>1. /\ j \in Nat /\ j + d \in 1 .. Len(h) + 1
          /\ history'[k[1]][j] = IF j + d \in DOMAIN h THEN h[j + d] ELSE e
      BY <1>6, <2>4
    <3>2. i + d < j + d /\ i + d \in DOMAIN h
      BY <1>4, <2>1, <2>4, <3>1
    <3> QED
      BY <1>5, <1>7, <2>1, <3>1, <3>2
  <2> QED
    BY <2>3, <2>4
<1>9. ASSUME NEW s \in Sessions, s # k[1], NEW i \in DOMAIN history'[s]
      PROVE  /\ Hears(s, history[s][i])'
             /\ \A j \in DOMAIN history'[s] : i < j => Precedes(history'[s][i], history'[s][j])
  <2>1. history'[s] = history[s]
    BY <1>2, <1>9
  <2>2. /\ Hears(s, history[s][i])
        /\ \A j \in DOMAIN history[s] : i < j => Precedes(history[s][i], history[s][j])
    BY <1>9, <2>1, HeardInOrder
  <2>3. Hears(s, history[s][i])'
    BY <2>1, <2>2 DEF Hears, Tells
  <2> QED
    BY <2>1, <2>2, <2>3
<1>10. HistoryWasHeard'
  <2>1. ASSUME NEW s \in Sessions, NEW i \in DOMAIN history'[s]
        PROVE  /\ Hears(s, history[s][i])'
               /\ \A j \in DOMAIN history'[s] : i < j => Precedes(history'[s][i], history'[s][j])
    BY <1>8, <1>9
  <2> QED
    BY <2>1, HeardInOrderNext
<1>11. ASSUME NEW s \in Sessions, NEW i \in DOMAIN history'[s]
       PROVE  \/ s = k[1] /\ history'[s][i] = <<role, k[2]>>
              \/ \E j \in DOMAIN history[s] : history'[s][i] = history[s][j]
  BY <1>2, <1>6, <1>11
<1> QED
  BY <1>10, <1>11

LEMMA NextHistory ==
  ASSUME TalkTypes, TurnsFit, StoryFits, HistoryFits, HistoryWasHeard, [Next]_vars
  PROVE  HistoryFits' /\ HistoryWasHeard'
<1>1. ASSUME UNCHANGED <<step, sent>>, gone \subseteq gone',
             \A s \in Sessions : history'[s] = history[s] \/ history'[s] = <<>>
      PROVE  HistoryFits' /\ HistoryWasHeard'
  <2>1. \A k \in Turns : \A e : Tells(k, e) => Tells(k, e)'
    BY <1>1 DEF Tells
  <2>2. \A k \in Turns : GoesOn(k)
    BY <1>1 DEF GoesOn
  <2> QED
    BY <1>1, <2>1, <2>2, HistoryStays
\* A step of turn k that remembers nothing.
<1>2. ASSUME NEW k \in Turns, NEW ev \in Events, sent' = sent \/ sent' = [sent EXCEPT ![k] = Append(@, ev)],
             \A j \in Turns \ {k} : step'[j] = step[j], GoesOn(k), UNCHANGED <<gone, history>>
      PROVE  HistoryFits' /\ HistoryWasHeard'
  <2>1. \A j \in Turns : \A e : Tells(j, e) => Tells(j, e)'
    BY <1>2, TellsMore
  <2>2. \A j \in Turns : GoesOn(j)
    BY <1>2 DEF GoesOn
  <2> QED
    BY <1>2, <2>1, <2>2, HistoryStays
<1>3. ASSUME NEW k \in Turns, NEW next, step' = [step EXCEPT ![k] = next], UNCHANGED <<sent, gone, history>>,
             \/ step[k] = "created" /\ next = "listening"
             \/ step[k] = "unused" /\ next = "created"
             \/ step[k] # "unused" /\ next = "over"
      PROVE  HistoryFits' /\ HistoryWasHeard'
  <2>1. step'[k] = next /\ \A j \in Turns \ {k} : step'[j] = step[j]
    BY <1>3 DEF TalkTypes
  <2>2. GoesOn(k)
    BY <1>3, <2>1 DEF GoesOn
  <2>3. \E ev : ev \in Events
    BY DEF Events
  <2> QED
    BY <1>2, <1>3, <2>1, <2>2, <2>3
<1>4. ASSUME NEW k \in Turns, NEW next \in Steps, NEW ev \in Events,
             (Send(k, next) /\ UNCHANGED sent) \/ Say(k, ev, next),
             step[k] # "unused", UNCHANGED <<gone, history>>,
             \/ next = step[k] \/ next \in {"sounded", "last"}
             \/ step[k] = "thinking" /\ next = "streaming"
             \/ /\ Say(k, ev, next)
                /\ \/ step[k] = "listening" /\ next = "heard" /\ ev = "transcript"
                   \/ step[k] = "streaming" /\ next = "told" /\ ev = "textCompleted"
      PROVE  HistoryFits' /\ HistoryWasHeard'
  <2>1. Send(k, next) /\ (sent' = sent \/ sent' = [sent EXCEPT ![k] = Append(@, ev)])
    BY <1>4, Speaks
  <2>2. step'[k] \in {next, "last"} /\ \A j \in Turns \ {k} : step'[j] = step[j]
    BY <2>1, Sends
  <2>3. ASSUME Say(k, ev, next), step'[k] # "last", k[1] \notin gone PROVE Tells(k, ev)'
    <3>1. sent' = [sent EXCEPT ![k] = Append(@, ev)]
      BY <2>3, Speaks
    <3> QED
      BY <3>1, OneMoreEvent
  <2>4. GoesOn(k)
    <3>1. CASE step'[k] = "last"
      BY <1>4, <3>1 DEF GoesOn
    <3>2. CASE step'[k] = next /\ next # "last"
      BY <1>4, <2>3, <3>2 DEF GoesOn
    <3> QED
      BY <2>2, <3>1, <3>2
  <2> QED
    BY <1>2, <1>4, <2>1, <2>2, <2>4
<1>5. CASE UNCHANGED vars \/ UNCHANGED <<sessionVars, turnVars>>
  BY <1>1, <1>5 DEF vars, sessionVars, turnVars
<1>6. ASSUME NEW s \in Sessions,
             \/ StartSession(s) \/ HandleStart(s) \/ HandleClear(s) \/ HandleBinary(s) \/ HandleCancel(s)
             \/ HandleClose(s) \/ ClientGoes(s) \/ ReceiveDisconnect(s) \/ BeginFinally(s) \/ EndFinally(s)
      PROVE  HistoryFits' /\ HistoryWasHeard'
  <2>1. /\ UNCHANGED <<step, sent>> /\ gone \subseteq gone'
        /\ history' = history \/ history' = [history EXCEPT ![s] = <<>>]
    BY <1>6 DEF StartSession, HandleStart, HandleClear, HandleBinary, HandleCancel, HandleClose, ClientGoes,
                ReceiveDisconnect, BeginFinally, EndFinally, turnVars
  <2>2. \A t \in Sessions : history'[t] = history[t] \/ history'[t] = <<>>
    BY <2>1 DEF TalkTypes
  <2> QED
    BY <1>1, <2>1, <2>2
<1>7. ASSUME NEW s \in Sessions, TellCancelled(s) PROVE HistoryFits' /\ HistoryWasHeard'
  <2>1. PICK k \in Turns : k = <<s, telling[s]>>
    BY <1>7, TurnNames DEF TellCancelled, TalkTypes
  <2>2. /\ UNCHANGED <<step, gone, history>>
        /\ sent' = sent \/ sent' = [sent EXCEPT ![k] = Append(@, "cancelled")]
    BY <1>7, <2>1 DEF TellCancelled
  <2>3. GoesOn(k) /\ "cancelled" \in Events
    BY <2>2 DEF GoesOn, Events, Endings
  <2> QED
    BY <1>2, <2>2, <2>3
<1>8. ASSUME NEW s \in Sessions, HandleCommit(s) PROVE HistoryFits' /\ HistoryWasHeard'
  <2>1. UNCHANGED <<sent, gone, history>>
    BY <1>8, Commits
  <2>2. CASE UNCHANGED <<task, step>>
    BY <1>1, <2>1, <2>2
  <2>3. CASE ~UNCHANGED <<task, step>>
    <3>1. PICK n \in 1 .. MaxTurns : step[<<s, n>>] = "unused" /\ step' = [step EXCEPT ![<<s, n>>] = "created"]
      BY <1>8, <2>3, Commits
    <3>2. <<s, n>> \in Turns
      BY TurnNames
    <3> QED
      BY <1>3, <2>1, <3>1, <3>2
  <2> QED
    BY <2>2, <2>3
<1>9. ASSUME NEW k \in Turns, BeginTurn(k) PROVE HistoryFits' /\ HistoryWasHeard'
  <2>1. step[k] = "created" /\ UNCHANGED <<gone, history>>
    BY <1>9 DEF BeginTurn, At, sessionVars
  <2>2. (step' = [step EXCEPT ![k] = "listening"] /\ UNCHANGED sent) \/ Say(k, "error", "last")
    BY <1>9 DEF BeginTurn
  <2>3. "last" \in Steps /\ "error" \in Events
    BY DEF Steps, Events, Endings
  <2> QED
    BY <1>3, <1>4, <2>1, <2>2, <2>3
<1>10. ASSUME NEW k \in Turns, RunInference(k) PROVE HistoryFits' /\ HistoryWasHeard'
  BY <1>1, <1>10 DEF RunInference, sessionVars, turnVars
<1>11. ASSUME NEW k \in Turns, Transcribed(k) \/ OpenStream(k) \/ ReadStream(k) \/ Synthesized(k) \/ CompleteTurn(k)
       PROVE  HistoryFits' /\ HistoryWasHeard'
  <2>1. UNCHANGED <<gone, history>> /\ step[k] \in {"listening", "thinking", "streaming", "speaking", "sounded"}
    BY <1>11 DEF Transcribed, OpenStream, ReadStream, Synthesized, CompleteTurn, At, sessionVars
  <2>2. /\ {"heard", "streaming", "told", "sounded", "last"} \subseteq Steps
        /\ {"transcript", "textCompleted", "error", "completed"} \subseteq Events
    BY DEF Steps, Events, Endings
  <2>3. CASE Transcribed(k)
    <3>1. step[k] = "listening" /\ (Say(k, "transcript", "heard") \/ Say(k, "error", "last"))
      BY <2>3 DEF Transcribed, At
    <3> QED
      BY <1>4, <2>1, <2>2, <3>1
  <2>4. CASE OpenStream(k)
    <3>1. step[k] = "thinking" /\ ((Send(k, "streaming") /\ UNCHANGED sent) \/ Say(k, "error", "last"))
      BY <2>4 DEF OpenStream, At
    <3> QED
      BY <1>4, <2>1, <2>2, <3>1
  <2>5. CASE ReadStream(k)
    <3>1. /\ step[k] = "streaming"
          /\ \/ Send(k, "streaming") /\ UNCHANGED sent
             \/ Say(k, "textCompleted", "told")
             \/ Say(k, "error", "last")
      BY <2>5 DEF ReadStream, At
    <3> QED
      BY <1>4, <2>1, <2>2, <3>1
  <2>6. CASE Synthesized(k)
    <3>1. (Send(k, "sounded") /\ UNCHANGED sent) \/ Say(k, "error", "last")
      BY <2>6 DEF Synthesized
    <3> QED
      BY <1>4, <2>1, <2>2, <3>1
  <2>7. CASE CompleteTurn(k)
    <3>1. Say(k, "completed", "last")
      BY <2>7 DEF CompleteTurn
    <3> QED
      BY <1>4, <2>1, <2>2, <3>1
  <2> QED
    BY <1>11, <2>3, <2>4, <2>5, <2>6, <2>7
<1>12. ASSUME NEW k \in Turns, EndTurn(k) \/ Unwind(k) PROVE HistoryFits' /\ HistoryWasHeard'
  <2>1. step[k] # "unused" /\ step' = [step EXCEPT ![k] = "over"] /\ UNCHANGED <<sent, gone, history>>
    BY <1>12 DEF EndTurn, Unwind, At, sessionVars, StoryFits
  <2> QED
    BY <1>3, <2>1
\* What a turn remembers adds no entry but its own.
<1>13. ASSUME NEW k \in Turns, NEW role \in {"user", "assistant"},
              \A s \in Sessions : \A i \in DOMAIN history'[s] :
                \/ s = k[1] /\ history'[s][i] = <<role, k[2]>>
                \/ \E j \in DOMAIN history[s] : history'[s][i] = history[s][j],
              \A j \in Turns \ {k} : step'[j] = step[j], step[k] \notin {"unused", "over"}, UNCHANGED <<gone, sent>>,
              \/ step'[k] = "thinking" /\ step[k] = "heard" /\ role = "user"
              \/ step'[k] \in {"speaking", "last"}
       PROVE  HistoryFits'
  <2>1. k = <<k[1], k[2]>> /\ k[1] \in Sessions
    BY TurnNames
  <2>2. ASSUME NEW s \in Sessions, NEW i \in DOMAIN history'[s] PROVE step'[<<s, history'[s][i][2]>>] # "unused"
    <3>1. CASE s = k[1] /\ history'[s][i] = <<role, k[2]>>
      BY <1>13, <2>1, <3>1
    <3>2. ASSUME NEW j \in DOMAIN history[s], history'[s][i] = history[s][j]
          PROVE  step'[<<s, history'[s][i][2]>>] # "unused"
      <4>1. step[<<s, history[s][j][2]>>] # "unused"
        BY <2>2, <3>2 DEF HistoryFits
      <4>2. <<s, history[s][j][2]>> \in Turns
        BY TurnNames, ElementOfSeq DEF TalkTypes, Entries
      <4> QED
        BY <1>13, <3>2, <4>1, <4>2
    <3> QED
      BY <1>13, <2>2, <3>1, <3>2
  <2>3. \A j \in Turns : \A e : Tells(j, e)' <=> Tells(j, e)
    BY <1>13 DEF Tells
  <2>4. ASSUME NEW j \in Turns
        PROVE  /\ step'[j] \in {"created", "listening", "heard"} =>
                    \A i \in DOMAIN history'[j[1]] : history'[j[1]][i][2] # j[2]
               /\ step'[j] \in {"thinking", "streaming", "told"} =>
                    \A i \in DOMAIN history'[j[1]] :
                      history'[j[1]][i][2] = j[2] => history'[j[1]][i][1] = "user"
    <3>1. j[1] \in Sessions /\ j = <<j[1], j[2]>>
      BY TurnNames
    <3>2. CASE j = k
      <4>1. step'[k] = "thinking" => \A i \in DOMAIN history[k[1]] : history[k[1]][i][2] # k[2]
        BY <1>13 DEF HistoryFits
      <4> QED
        BY <1>13, <2>1, <3>2, <4>1
    <3>3. CASE j # k
      <4>1. step'[j] = step[j]
        BY <1>13, <3>3
      <4>2. ASSUME NEW i \in DOMAIN history'[j[1]], history'[j[1]][i][2] = j[2]
            PROVE  \E m \in DOMAIN history[j[1]] : history'[j[1]][i] = history[j[1]][m]
        <5>1. ~(j[1] = k[1] /\ history'[j[1]][i] = <<role, k[2]>>)
          BY <2>1, <3>1, <3>3, <4>2
        <5> QED
          BY <1>13, <3>1, <4>2, <5>1
      <4> QED
        BY <4>1, <4>2 DEF HistoryFits
    <3> QED
      BY <3>2, <3>3
  <2>5. \A j \in Turns : /\ step'[j] = "heard" => j[1] \in gone' \/ Tells(j, "transcript")'
                         /\ step'[j] = "told" => j[1] \in gone' \/ Tells(j, "textCompleted")'
    BY <1>13, <2>3 DEF HistoryFits
  <2> QED
    BY <2>2, <2>4, <2>5 DEF HistoryFits
<1>14. ASSUME NEW k \in Turns, RememberQuestion(k) PROVE HistoryFits' /\ HistoryWasHeard'
  <2>1. /\ step[k] = "heard" /\ Remember(k, "user") /\ UNCHANGED <<gone, sent>>
        /\ step'[k] = "thinking" /\ \A j \in Turns \ {k} : step'[j] = step[j]
    BY <1>14 DEF RememberQuestion, At, sessionVars, TalkTypes
  <2>2. Hears(k[1], <<"user", k[2]>>) /\ \A i \in DOMAIN history[k[1]] : history[k[1]][i][2] # k[2]
    BY <2>1, TurnNames DEF HistoryFits, Hears
  <2>3. PICK role \in {"user", "assistant"} : role = "user"
    OBVIOUS
  <2>4. /\ HistoryWasHeard'
        /\ \A s \in Sessions : \A i \in DOMAIN history'[s] :
             \/ s = k[1] /\ history'[s][i] = <<role, k[2]>>
             \/ \E j \in DOMAIN history[s] : history'[s][i] = history[s][j]
    BY <2>1, <2>2, <2>3, Remembers
  <2> QED
    BY <1>13, <2>1, <2>3, <2>4
<1>15. ASSUME NEW k \in Turns, RememberAnswer(k) PROVE HistoryFits' /\ HistoryWasHeard'
  <2>1. step[k] = "told" /\ Remember(k, "assistant") /\ UNCHANGED <<gone, sent>> /\ Send(k, "speaking")
    BY <1>15 DEF RememberAnswer, At, sessionVars
  <2>2. step'[k] \in {"speaking", "last"} /\ \A j \in Turns \ {k} : step'[j] = step[j]
    <3>1. "speaking" \in Steps
      BY DEF Steps
    <3> QED
      BY <2>1, <3>1, Sends
  <2>3. /\ Hears(k[1], <<"assistant", k[2]>>)
        /\ \A i \in DOMAIN history[k[1]] : history[k[1]][i][2] = k[2] => history[k[1]][i][1] = "user"
    BY <2>1, TurnNames DEF HistoryFits, Hears
  <2>4. PICK role \in {"user", "assistant"} : role = "assistant"
    OBVIOUS
  <2>5. /\ HistoryWasHeard'
        /\ \A s \in Sessions : \A i \in DOMAIN history'[s] :
             \/ s = k[1] /\ history'[s][i] = <<role, k[2]>>
             \/ \E j \in DOMAIN history[s] : history'[s][i] = history[s][j]
    BY <2>1, <2>3, <2>4, Remembers
  <2> QED
    BY <1>13, <2>1, <2>2, <2>4, <2>5
<1> QED
  BY <1>5, <1>6, <1>7, <1>8, <1>9, <1>10, <1>11, <1>12, <1>14, <1>15 DEF Next, Step, TurnStep, LoopStep

------------------------------------------------------------------------------
(***************************************************************************)
(* From the first state on.                                                *)
(***************************************************************************)
TurnInv == TurnsFit /\ StoryFits /\ HistoryFits /\ HistoryWasHeard

LEMMA InitSpeech == Init => AudioTypes /\ TalkTypes /\ AudioInv /\ TurnInv
<1> SUFFICES ASSUME Init PROVE AudioTypes /\ TalkTypes /\ AudioInv /\ TurnInv
  OBVIOUS
<1> USE TurnNames DEF Init
<1>1. \A f \in Families : line[f] = <<>> /\ DOMAIN line[f] = {} /\ \A t : ~In(f, t)
  BY DEF AudioInit, In
<1>2. \A f \in Families : \A t \in Threads : thread[f][t] \in {"none", "queued"} /\ (thread[f][t] = "queued" => t = Warm /\ f = "whisper")
  BY DEF AudioInit
<1>3. Warm \notin Calls /\ Nobody \notin Threads /\ Calls \subseteq Threads
  BY AudioAssumption DEF Calls, Threads
<1>4. AudioTypes
  <2>1. line \in [Families -> Seq(Calls)]
    BY DEF AudioInit
  <2>2. thread \in [Families -> [Threads -> {"none"} \union Running \union Returned]]
    BY DEF AudioInit, Running
  <2> QED
    BY <2>1, <2>2 DEF AudioTypes, AudioInit
<1>5. AudioInv
  <2>0. "whisper" \in Families /\ "chatterbox" \in Families
    BY DEF Families
  <2>1. LinesFit
    <3>1. \A r \in Requests : request[r] = "none"
      BY DEF AudioInit
    <3> QED
      BY <1>1, <2>0, <3>1 DEF LinesFit, Distinct
  <2>2. \A f \in Families : \A t \in Calls : thread[f][t] = "none"
    BY <1>2, <1>3
  <2>4. ThreadsFit
    BY <2>0, <2>2, TurnsAreCalls DEF ThreadsFit, Calls
  <2>5. LoadsFit
    BY <1>2, <1>3, <2>0 DEF LoadsFit, AudioInit, Threads
  <2>6. FilesFit
    BY <1>1, <2>0 DEF FilesFit, AudioInit
  <2> QED
    BY <2>1, <2>4, <2>5, <2>6 DEF AudioInv
<1>6. TalkTypes
  <2>1. \A S : <<>> \in Seq(S) /\ Len(<<>>) = 0
    BY EmptySeq
  <2>2. /\ history \in [Sessions -> Seq(Entries)] /\ \A s \in Sessions : Len(history[s]) <= MaxHistory
        /\ sent \in [Turns -> Seq(Events)]
    BY <2>1
  <2> QED
    BY <2>2 DEF TalkTypes, Steps
<1>7. TurnsFit
  <2>1. \A s \in Sessions : Started(s) = 1 .. 0
    BY DEF Started
  <2> QED
    BY <2>1 DEF TurnsFit
<1>8. \A k \in Turns : DOMAIN sent[k] = {}
  OBVIOUS
<1>9. StoryFits
  BY <1>8 DEF StoryFits, TellingFits, After, Tells
<1>10. HistoryFits /\ HistoryWasHeard
  BY DEF HistoryFits, HistoryWasHeard
<1> QED
  BY <1>4, <1>5, <1>6, <1>7, <1>9, <1>10 DEF TurnInv

SpeechInv == AudioTypes /\ TalkTypes /\ AudioInv /\ TurnInv

LEMMA NextSpeech == SpeechInv /\ [Next]_vars => SpeechInv'
BY NextAudio, NextTalk, NextTurns, NextStory, NextHistory DEF SpeechInv, TurnInv

\* ConversationState and the state of audio.py: every variable stays in its type, no
\* history is longer than max_history_messages, and no call is twice in a line.
THEOREM SpeechTypeCorrect == Spec => []SpeechTypeOK
<1>1. SpeechInv => SpeechTypeOK
  <2> SUFFICES ASSUME SpeechInv PROVE SpeechTypeOK
    OBVIOUS
  <2> USE DEF SpeechInv
  <2>1. \A f \in Families : \A i \in DOMAIN line[f] : line[f][i] \in Calls
    BY ElementOfSeq DEF AudioTypes
  <2>2. \A s \in Sessions : \A i \in DOMAIN history[s] : history[s][i] \in {"user", "assistant"} \X (1 .. MaxTurns)
    BY ElementOfSeq DEF TalkTypes, Entries
  <2>3. \A k \in Turns : \A i \in DOMAIN sent[k] : sent[k][i] \in Events
    BY ElementOfSeq DEF TalkTypes
  <2> QED
    BY <2>1, <2>2, <2>3 DEF SpeechTypeOK, AudioTypeOK, AudioTypes, TalkTypes, AudioInv, LinesFit, Distinct
<1> QED
  BY <1>1, InitSpeech, NextSpeech, PTL DEF Spec, SpeechInv

\* _load_whisper_model and _load_chatterbox_model: however many live calls, orphans and
\* warm-ups are at a cache, no model is loaded by two at once or a second time.
THEOREM ModelsLoadOnceHolds == Spec => []ModelsLoadOnce
<1>1. SpeechInv => ModelsLoadOnce
  <2> SUFFICES ASSUME SpeechInv, NEW f \in Families, NEW t \in Threads, NEW u \in Threads, thread[f][t] = "loading"
               PROVE  f \notin cached /\ (thread[f][u] = "loading" => t = u)
    BY DEF ModelsLoadOnce
  <2>1. loader[f] = t /\ (thread[f][u] = "loading" => loader[f] = u)
    BY DEF SpeechInv, AudioInv, LoadsFit
  <2>2. t # Nobody
    BY AudioAssumption DEF Threads, Calls
  <2> QED
    BY <2>1, <2>2 DEF SpeechInv, AudioInv, LoadsFit
<1> QED
  BY <1>1, InitSpeech, NextSpeech, PTL DEF Spec, SpeechInv

\* _inference_semaphore and transcribe_with_whisper: a call that waits for Whisper keeps its
\* file whoever is cancelled, no other file stays, and of the threads that use one model at
\* most one has a call that waits for it.
THEOREM OrphansTakeNothingHolds == Spec => []OrphansTakeNothing
<1>1. SpeechInv => OrphansTakeNothing
  <2> SUFFICES ASSUME SpeechInv PROVE OrphansTakeNothing
    OBVIOUS
  <2>1. ASSUME NEW f \in Families, NEW t \in Calls, NEW u \in Calls,
               thread[f][t] = "inferring" /\ thread[f][u] = "inferring" /\ In(f, t) /\ In(f, u)
        PROVE  t = u
    BY <2>1 DEF SpeechInv, AudioInv, ThreadsFit
  <2> QED
    BY <2>1 DEF SpeechInv, AudioInv, FilesFit, OrphansTakeNothing
<1> QED
  BY <1>1, InitSpeech, NextSpeech, PTL DEF Spec, SpeechInv

\* _run_turn_task against _handle_control_frame: nothing follows response.cancelled, only
\* that follows an error or response.completed, and a connection has one turn at a time.
THEOREM TurnsEndOnceHolds == Spec => []TurnsEndOnce
<1>1. SpeechInv => TurnsEndOnce
  <2> SUFFICES ASSUME SpeechInv PROVE TurnsEndOnce
    OBVIOUS
  <2>1. \A k \in Turns : After(k, {"cancelled"}, {}) /\ After(k, Endings, {"cancelled"})
    BY DEF SpeechInv, TurnInv, StoryFits
  <2>2. ASSUME NEW s \in Sessions, NEW m \in Started(s), NEW n \in Started(s),
               step[<<s, m>>] # "over" /\ step[<<s, n>>] # "over"
        PROVE  m = n
    <3>1. task[s] = m /\ task[s] = n
      BY <2>2 DEF SpeechInv, TurnInv, TurnsFit, Started
    <3> QED
      BY <3>1
  <2> QED
    BY <2>1, <2>2 DEF TurnsEndOnce
<1> QED
  BY <1>1, InitSpeech, NextSpeech, PTL DEF Spec, SpeechInv

\* state.history: what the model will be told was said is what the client was told was
\* said, in its order, whatever is cancelled, trimmed or closed.
THEOREM HistoryWasHeardHolds == Spec => []HistoryWasHeard
<1>1. SpeechInv => HistoryWasHeard
  BY DEF SpeechInv, TurnInv
<1> QED
  BY <1>1, InitSpeech, NextSpeech, PTL DEF Spec, SpeechInv
==============================================================================
