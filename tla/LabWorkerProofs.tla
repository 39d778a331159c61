---------------------------- MODULE LabWorkerProofs ----------------------------
(***************************************************************************)
(* For any jobs, workers, retry budgets and numbers of late requests and   *)
(* crashes: what the ledger says was done was done, and jobs change state  *)
(* as the controller's diagram has it.                                     *)
(*                                                                         *)
(* The argument is about numbers: a hold has a number of its own, a worker *)
(* that gives up a claim never gets its number again, and so a request     *)
(* that is still on its way speaks for an attempt nobody works on any      *)
(* more, or for one whose worker has not gone on since.                    *)
(***************************************************************************)
EXTENDS LabWorker, FiniteSetTheorems, TLAPS

Numbers == Keys \X (Nat \ {0})

Places == {"polling", "claiming", "starting", "preparing", "stopping", "reporting", "down"}

Requests == [op : {"claim", "heartbeat", "complete"}, worker : Workers,
             attempt : Numbers \union {NoClaim}, result : {"none", "succeeded", "failed"}]

LedgerTypes ==
  /\ state \in [Keys -> {"absent", "queued"} \union Held \union Ended]
  /\ spec \in [Keys -> Specs \union {None}]
  /\ tries \in [Keys -> Nat]
  /\ holder \in [Keys -> Workers \union {None}]

WorkerTypes ==
  /\ pc \in [Workers -> Places]
  /\ claim \in [Workers -> Numbers \union {NoClaim}]
  /\ result \in [Workers -> {"none", "succeeded", "failed"}]
  /\ monitor \in [Workers -> {"off", "waiting", "asking", "failed"}]
  /\ late \subseteq Requests
  /\ ready \subseteq Numbers /\ leftover \subseteq Numbers

\* The number of the current hold of a job, given out already or not.
Current(k) == <<k, tries[k]>>

Given(a) == a \in Numbers /\ a[2] <= tries[a[1]]

\* A job is in the ledger with its budget, and has a holder while it is held.
JobFits(k) ==
  /\ state[k] = "absent" => tries[k] = 0
  /\ state[k] # "absent" => spec[k] \in Specs /\ tries[k] <= MaxAttempts[spec[k]]
  /\ state[k] = "queued" => tries[k] < MaxAttempts[spec[k]]
  /\ state[k] \in Held => holder[k] \in Workers
  /\ state[k] \notin {"absent", "queued"} => tries[k] > 0

\* How far an attempt has come: only one that was started has a directory, and what it
\* was reported as it is.
AttemptFits(k) ==
  /\ state[k] = "leased" => Current(k) \notin ready \union leftover
  /\ state[k] = "succeeded" => Current(k) \in ready
  /\ state[k] = "failed" => Current(k) \notin ready
  /\ state[k] \in {"succeeded", "failed"} => \A w \in Workers : claim[w] # Current(k)

\* What a worker has in hand.
ClaimFits(w) ==
  /\ claim[w] = NoClaim <=> pc[w] \in {"polling", "claiming", "down"}
  /\ claim[w] # NoClaim =>
       /\ Given(claim[w])
       /\ \A v \in Workers : claim[v] = claim[w] => v = w
       /\ \A k \in Keys : claim[w] = Current(k) /\ state[k] \in Held => holder[k] = w
  /\ pc[w] \in {"preparing", "stopping", "reporting"} =>
       \A k \in Keys : claim[w] = Current(k) => state[k] # "leased"
  /\ pc[w] \in {"starting", "preparing"} => claim[w] \notin ready
  /\ pc[w] = "starting" => claim[w] \notin leftover
  /\ pc[w] \in {"stopping", "reporting"} =>
       /\ result[w] \in {"succeeded", "failed"}
       /\ result[w] = "succeeded" <=> claim[w] \in ready
  /\ monitor[w] # "off" => pc[w] \in {"preparing", "stopping"}

\* What a request that is still on its way speaks for.
RequestFits(r) ==
  /\ r.op \in {"heartbeat", "complete"} => Given(r.attempt)
  /\ r.op = "complete" =>
       /\ r.result \in {"succeeded", "failed"}
       /\ r.result = "succeeded" <=> r.attempt \in ready
       /\ \A w \in Workers : claim[w] # r.attempt
       /\ \A k \in Keys : r.attempt = Current(k) => state[k] # "leased"

\* Directories are made for holds there were.
DirectoriesFit == \A a \in ready \union leftover : Given(a)

WorkInv ==
  /\ LedgerTypes /\ WorkerTypes
  /\ \A k \in Keys : JobFits(k) /\ AttemptFits(k)
  /\ \A w \in Workers : ClaimFits(w)
  /\ \A r \in late : RequestFits(r)
  /\ DirectoriesFit

------------------------------------------------------------------------------
(***************************************************************************)
(* Numbers, and what the ledger's operations do to them.                   *)
(***************************************************************************)
LEMMA NumberParts ==
  /\ \A a \in Numbers : /\ a[1] \in Keys /\ a[2] \in Nat \ {0} /\ a = <<a[1], a[2]>>
                        /\ a # NoClaim
  /\ \A k \in Keys, n \in Nat \ {0} : <<k, n>> \in Numbers
BY DEF Numbers, NoClaim

\* Numbers are given out one after the other, and only a hold that there was is lost,
\* started or finished.
Mild ==
  \A k \in Keys :
    \/ /\ tries'[k] = tries[k]
       /\ state'[k] \in Held => state[k] \in Held /\ holder'[k] = holder[k]
       /\ state'[k] = "leased" => state[k] = "leased"
    \/ tries'[k] = tries[k] + 1 /\ state'[k] = "leased"

LEMMA SubmitKeeps ==
  ASSUME LedgerTypes, \A j \in Keys : JobFits(j), NEW k \in Keys, NEW s \in Specs, Submit(k, s)
  PROVE  LedgerTypes' /\ (\A j \in Keys : JobFits(j)') /\ Mild
<1> USE DEF Submit
<1>1. LedgerTypes'
  BY DEF LedgerTypes
<1>2. MaxAttempts[s] \in Nat \ {0}
  BY LedgerAssumption
<1>3. \A j \in Keys : JobFits(j)'
  BY <1>2 DEF LedgerTypes, JobFits, Held
<1>4. Mild
  BY DEF Mild, LedgerTypes, Held
<1> QED
  BY <1>1, <1>3, <1>4

LEMMA ClaimKeeps ==
  ASSUME LedgerTypes, \A j \in Keys : JobFits(j), NEW w \in Workers, NEW k \in Keys, Claim(w, k)
  PROVE  /\ LedgerTypes' /\ (\A j \in Keys : JobFits(j)') /\ Mild
         /\ tries'[k] = tries[k] + 1 /\ state'[k] = "leased" /\ holder'[k] = w
         /\ \A j \in Keys : j # k => tries'[j] = tries[j]
<1> USE DEF Claim
<1>1. LedgerTypes'
  BY DEF LedgerTypes, Held
<1>2. \A j \in Keys : JobFits(j)'
  <2>1. spec[k] \in Specs /\ tries[k] < MaxAttempts[spec[k]] /\ MaxAttempts[spec[k]] \in Nat
    BY LedgerAssumption DEF JobFits
  <2> QED
    BY <2>1 DEF LedgerTypes, JobFits, Held
<1>3. Mild
  BY DEF Mild, LedgerTypes, Held
<1> QED
  BY <1>1, <1>2, <1>3 DEF LedgerTypes

LEMMA StartKeeps ==
  ASSUME LedgerTypes, \A j \in Keys : JobFits(j), NEW w \in Workers, NEW a \in Numbers,
         Start(w, a[1], a[2])
  PROVE  /\ LedgerTypes' /\ (\A j \in Keys : JobFits(j)') /\ Mild
         /\ tries' = tries /\ state'[a[1]] = "running" /\ state[a[1]] \in Held
         /\ a = Current(a[1])
         /\ \A j \in Keys : j # a[1] => state'[j] = state[j]
<1> USE DEF Start, IsHolder
<1>0. a[1] \in Keys /\ a = <<a[1], a[2]>>
  BY NumberParts
<1>1. LedgerTypes'
  BY <1>0 DEF LedgerTypes, Held
<1>2. \A j \in Keys : JobFits(j)'
  BY <1>0 DEF LedgerTypes, JobFits, Held
<1>3. Mild
  BY <1>0 DEF Mild, LedgerTypes, Held
<1> QED
  BY <1>0, <1>1, <1>2, <1>3 DEF LedgerTypes, Current

LEMMA FinishKeeps ==
  ASSUME LedgerTypes, \A j \in Keys : JobFits(j), NEW w \in Workers, NEW a \in Numbers,
         NEW outcome \in {"succeeded", "failed"}, Finish(w, a[1], a[2], outcome)
  PROVE  /\ LedgerTypes' /\ (\A j \in Keys : JobFits(j)') /\ Mild
         /\ tries' = tries /\ state'[a[1]] = outcome /\ state[a[1]] \in Held
         /\ a = Current(a[1])
         /\ \A j \in Keys : j # a[1] => state'[j] = state[j]
<1> USE DEF Finish, IsHolder
<1>0. a[1] \in Keys /\ a = <<a[1], a[2]>>
  BY NumberParts
<1>1. LedgerTypes'
  BY <1>0 DEF LedgerTypes, Held, Ended
<1>2. \A j \in Keys : JobFits(j)'
  BY <1>0 DEF LedgerTypes, JobFits, Held
<1>3. Mild
  BY <1>0 DEF Mild, LedgerTypes, Held
<1> QED
  BY <1>0, <1>1, <1>2, <1>3 DEF LedgerTypes, Current

LEMMA LoseKeeps ==
  ASSUME LedgerTypes, \A j \in Keys : JobFits(j), NEW lost \in SUBSET Keys, Lose(lost)
  PROVE  /\ LedgerTypes' /\ (\A j \in Keys : JobFits(j)') /\ Mild /\ tries' = tries
         /\ \A j \in Keys : \/ state'[j] = state[j]
                            \/ state[j] \in Held /\ state'[j] \in {"queued", "expired"}
<1> USE DEF Lose
<1>1. \A j \in Keys : AfterLoss(j) \in {"queued", "expired"}
                      /\ (AfterLoss(j) = "queued" => tries[j] < MaxAttempts[spec[j]])
  BY DEF AfterLoss
<1>2. LedgerTypes'
  BY <1>1 DEF LedgerTypes, Held, Ended
<1>3. \A j \in Keys : \/ state'[j] = state[j] /\ holder'[j] = holder[j]
                      \/ state[j] \in Held /\ state'[j] = AfterLoss(j)
  BY DEF LedgerTypes
<1>4. \A j \in Keys : JobFits(j)'
  BY <1>1, <1>3 DEF LedgerTypes, JobFits, Held
<1>5. Mild
  BY <1>1, <1>3 DEF Mild, LedgerTypes, Held
<1> QED
  BY <1>1, <1>2, <1>3, <1>4, <1>5

LEMMA NoOperation ==
  ASSUME LedgerTypes, \A j \in Keys : JobFits(j), UNCHANGED ledgerVars
  PROVE  LedgerTypes' /\ (\A j \in Keys : JobFits(j)') /\ Mild
BY DEF ledgerVars, LedgerTypes, JobFits, Mild

\* A number that was given out stays so, and if it is still the current one, little has
\* happened to its job.
LEMMA OldNumbers ==
  ASSUME LedgerTypes, Mild, NEW a, Given(a)
  PROVE  /\ Given(a)'
         /\ \A k \in Keys : a = Current(k)' =>
              /\ a = Current(k)
              /\ state'[k] \in Held => state[k] \in Held /\ holder'[k] = holder[k]
              /\ state'[k] = "leased" => state[k] = "leased"
<1>1. a[1] \in Keys /\ a[2] \in Nat /\ a = <<a[1], a[2]>> /\ a[2] <= tries[a[1]]
  BY NumberParts DEF Given
<1>2. Given(a)'
  BY <1>1 DEF Given, Mild, LedgerTypes
<1>3. ASSUME NEW k \in Keys, a = Current(k)'
      PROVE  /\ a = Current(k)
             /\ state'[k] \in Held => state[k] \in Held /\ holder'[k] = holder[k]
             /\ state'[k] = "leased" => state[k] = "leased"
  <2>1. a[1] = k /\ a[2] = tries'[k]
    BY <1>1, <1>3 DEF Current
  <2>2. tries[k] \in Nat /\ tries'[k] # tries[k] + 1
    BY <1>1, <2>1 DEF LedgerTypes
  <2> QED
    BY <1>1, <2>1, <2>2 DEF Mild, Current
<1> QED
  BY <1>2, <1>3

------------------------------------------------------------------------------
(***************************************************************************)
(* What a step leaves alone.                                               *)
(***************************************************************************)

\* The directories there are change at most for the attempt a worker prepares.
Grows(w) ==
  /\ ready \subseteq ready' /\ leftover \subseteq leftover'
  /\ ready' # ready \/ leftover' # leftover => w \in Workers /\ pc[w] = "preparing"
  /\ ready' \subseteq ready \union {claim[w]} /\ leftover' \subseteq leftover \union {claim[w]}

\* At most worker w takes a step; with None for w, nobody does.
Alone(w) ==
  \A v \in Workers : v # w =>
    /\ pc'[v] = pc[v] /\ claim'[v] = claim[v]
    /\ result'[v] = result[v] /\ monitor'[v] = monitor[v]

\* A worker keeps its claim, drops it, or gets one under a number never given.
Claims(w) == claim'[w] = claim[w] \/ claim'[w] = NoClaim \/ ~Given(claim'[w])

LEMMA OthersFit ==
  ASSUME LedgerTypes, WorkerTypes, \A v \in Workers : ClaimFits(v), Mild,
         NEW w, Alone(w), Grows(w), Claims(w)
  PROVE  \A v \in Workers : v # w => ClaimFits(v)'
<1> SUFFICES ASSUME NEW v \in Workers, v # w
             PROVE  ClaimFits(v)'
  OBVIOUS
<1>1. /\ pc'[v] = pc[v] /\ claim'[v] = claim[v]
      /\ result'[v] = result[v] /\ monitor'[v] = monitor[v]
  BY DEF Alone
<1>2. CASE claim[v] = NoClaim
  BY <1>1, <1>2, NumberParts DEF ClaimFits, Given, Current, NoClaim
<1>3. CASE claim[v] # NoClaim
  <2>1. /\ Given(claim[v])
        /\ w \in Workers => claim[v] # claim[w] /\ claim[v] # claim'[w]
    <3>1. Given(claim[v]) /\ (w \in Workers /\ claim[w] = claim[v] => w = v)
      BY <1>3 DEF ClaimFits
    <3> QED
      BY <1>3, <3>1 DEF Claims
  <2>2. Given(claim[v])'
        /\ \A k \in Keys : claim'[v] = Current(k)' =>
             /\ claim[v] = Current(k)
             /\ state'[k] \in Held => state[k] \in Held /\ holder'[k] = holder[k]
             /\ state'[k] = "leased" => state[k] = "leased"
    <3>1. /\ Given(claim[v])
          /\ \A k \in Keys : claim[v] = Current(k)' =>
               /\ claim[v] = Current(k)
               /\ state'[k] \in Held => state[k] \in Held /\ holder'[k] = holder[k]
               /\ state'[k] = "leased" => state[k] = "leased"
      BY <2>1, OldNumbers
    <3>2. claim[v] \in Numbers /\ claim[v][1] \in Keys /\ claim[v][2] <= tries'[claim[v][1]]
      <4>1. claim[v] \in Numbers /\ claim[v][2] <= tries[claim[v][1]]
        BY <2>1 DEF Given
      <4>2. claim[v][1] \in Keys /\ claim[v][2] \in Nat
        BY <4>1, NumberParts
      <4>3. tries[claim[v][1]] \in Nat /\ (tries'[claim[v][1]] = tries[claim[v][1]]
                                           \/ tries'[claim[v][1]] = tries[claim[v][1]] + 1)
        BY <4>2 DEF Mild, LedgerTypes
      <4> QED
        BY <4>1, <4>2, <4>3
    <3> QED
      BY <1>1, <3>1, <3>2 DEF Given
  <2>3. \A u \in Workers : claim'[u] = claim[v] => u = v
    <3>1. \A u \in Workers : u # w => claim'[u] = claim[u]
      BY DEF Alone
    <3>2. \A u \in Workers : claim[u] = claim[v] => u = v
      BY <1>3 DEF ClaimFits
    <3> QED
      BY <2>1, <3>1, <3>2
  <2>4. /\ claim[v] \in ready' <=> claim[v] \in ready
        /\ claim[v] \in leftover' <=> claim[v] \in leftover
    BY <2>1 DEF Grows
  <2> QED
    BY <1>1, <1>3, <2>2, <2>3, <2>4 DEF ClaimFits
<1> QED
  BY <1>2, <1>3

\* Nobody takes up a claim again: requests still on their way fit as before.
LEMMA RequestsStay ==
  ASSUME LedgerTypes, WorkerTypes, \A v \in Workers : ClaimFits(v), Mild,
         NEW w, Alone(w), Grows(w), Claims(w),
         NEW r \in late, RequestFits(r)
  PROVE  RequestFits(r)'
<1>1. CASE r.op \in {"heartbeat", "complete"}
  <2>1. /\ Given(r.attempt) /\ Given(r.attempt)'
        /\ \A k \in Keys : r.attempt = Current(k)' =>
             r.attempt = Current(k) /\ (state'[k] = "leased" => state[k] = "leased")
    BY <1>1, OldNumbers DEF RequestFits
  <2>2. ASSUME r.op = "complete"
        PROVE  /\ r.attempt \in ready' <=> r.attempt \in ready
               /\ \A v \in Workers : claim'[v] # r.attempt
    <3>1. \A v \in Workers : claim[v] # r.attempt
      BY <2>2 DEF RequestFits
    <3>2. r.attempt # NoClaim
      BY <2>1, NumberParts DEF Given
    <3> QED
      BY <2>1, <3>1, <3>2 DEF Alone, Grows, Claims
  <2> QED
    BY <2>1, <2>2 DEF RequestFits
<1>2. CASE r.op \notin {"heartbeat", "complete"}
  BY <1>2 DEF RequestFits
<1> QED
  BY <1>1, <1>2

LEMMA AttemptsStay ==
  ASSUME LedgerTypes, WorkerTypes, \A v \in Workers : ClaimFits(v), Mild, DirectoriesFit,
         NEW w, Alone(w), Grows(w), Claims(w), NEW k \in Keys, AttemptFits(k), JobFits(k),
         state'[k] = state[k] \/ state'[k] \notin {"succeeded", "failed"}
  PROVE  AttemptFits(k)'
<1>1. \A a \in ready' \union leftover' : Given(a)
  BY DEF Grows, ClaimFits, DirectoriesFit, NoClaim
<1>2. CASE state'[k] = "leased"
  <2>1. \A a \in ready' \union leftover' :
          a = Current(k)' => a = Current(k) /\ state[k] = "leased"
    BY <1>1, <1>2, OldNumbers
  <2>2. \A a \in ready' \union leftover' : a # Current(k)'
    BY <2>1 DEF AttemptFits, Grows, ClaimFits
  <2> QED
    BY <1>2, <2>2 DEF AttemptFits
<1>3. CASE state'[k] \in {"succeeded", "failed"}
  <2>1. state'[k] = state[k] /\ tries'[k] = tries[k] /\ Current(k)' = Current(k)
    BY <1>3 DEF Mild, Current
  <2>2. \A v \in Workers : claim[v] # Current(k)
    BY <1>3, <2>1 DEF AttemptFits
  <2>3. \A v \in Workers : claim'[v] # Current(k)
    <3>1. tries[k] \in Nat \ {0}
      BY <1>3, <2>1 DEF JobFits, LedgerTypes
    <3>2. Current(k) \in Numbers /\ Current(k)[1] = k /\ Current(k)[2] = tries[k]
      BY <3>1, NumberParts DEF Current
    <3>3. Given(Current(k)) /\ Current(k) # NoClaim
      BY <3>1, <3>2, NumberParts DEF Given
    <3> QED
      BY <2>2, <3>3 DEF Alone, Claims
  <2>4. Current(k) \in ready' <=> Current(k) \in ready
    BY <2>2 DEF Grows
  <2> QED
    BY <1>3, <2>1, <2>3, <2>4 DEF AttemptFits
<1>4. CASE state'[k] \notin {"leased", "succeeded", "failed"}
  BY <1>4 DEF AttemptFits
<1> QED
  BY <1>2, <1>3, <1>4

LEMMA DirectoriesStay ==
  ASSUME LedgerTypes, \A v \in Workers : ClaimFits(v), Mild, DirectoriesFit,
         NEW w, Grows(w)
  PROVE  DirectoriesFit'
<1>1. \A a \in ready' \union leftover' : Given(a)
  BY DEF Grows, ClaimFits, DirectoriesFit
<1> QED
  BY <1>1, OldNumbers DEF DirectoriesFit

\* What is left to show of a step of worker w.
LEMMA StepKeeps ==
  ASSUME WorkInv, Mild, LedgerTypes', \A k \in Keys : JobFits(k)', WorkerTypes',
         NEW w, Alone(w), Grows(w), Claims(w), w \in Workers => ClaimFits(w)',
         \A k \in Keys : \/ state'[k] = state[k]
                         \/ state'[k] \notin {"succeeded", "failed"}
                         \/ AttemptFits(k)',
         \A r \in late' : r \in late \/ RequestFits(r)'
  PROVE  WorkInv'
<1>1. \A v \in Workers : ClaimFits(v)'
  BY OthersFit DEF WorkInv
<1>2. \A k \in Keys : AttemptFits(k)'
  BY AttemptsStay DEF WorkInv
<1>3. \A r \in late' : RequestFits(r)'
  BY RequestsStay DEF WorkInv
<1>4. DirectoriesFit'
  BY DirectoriesStay DEF WorkInv
<1> QED
  BY <1>1, <1>2, <1>3, <1>4 DEF WorkInv

\* The ledger moves on, or a request is served that nobody waits for.
LEMMA LedgerMovesOn ==
  ASSUME WorkInv, Mild, LedgerTypes', \A k \in Keys : JobFits(k)',
         UNCHANGED <<pc, claim, result, monitor, ready, leftover>>, late' \subseteq late,
         \A k \in Keys : \/ state'[k] = state[k]
                         \/ state'[k] \notin {"succeeded", "failed"}
                         \/ AttemptFits(k)'
  PROVE  WorkInv'
<1>1. Alone(None) /\ Grows(None) /\ Claims(None)
  BY DEF Alone, Grows, Claims
<1>2. WorkerTypes'
  BY DEF WorkInv, WorkerTypes
<1>3. None \notin Workers
  BY LedgerAssumption
<1> QED
  BY <1>1, <1>2, <1>3, StepKeeps

\* What the threads of a worker have open, and what becomes of it.
LEMMA OpenRequests ==
  ASSUME WorkInv, NEW w \in Workers
  PROVE  /\ \A r \in MonitorRequests(w) :
              r \in Requests /\ r.op = "heartbeat" /\ Given(r.attempt)
         /\ \A r \in MainRequests(w) :
              /\ r \in Requests
              /\ \/ r.op = "claim"
                 \/ r.op = "heartbeat" /\ Given(r.attempt)
                 \/ /\ r.op = "complete" /\ pc[w] = "reporting"
                    /\ r.attempt = claim[w] /\ r.result = result[w]
<1>1. WorkerTypes /\ ClaimFits(w)
  BY DEF WorkInv
<1>2. claim[w] \in Numbers \union {NoClaim} /\ result[w] \in {"none", "succeeded", "failed"}
      /\ pc[w] \in Places /\ monitor[w] \in {"off", "waiting", "asking", "failed"}
  BY <1>1 DEF WorkerTypes
<1>3. Beat(w) \in Requests /\ Beat(w).op = "heartbeat" /\ Beat(w).attempt = claim[w]
  BY <1>2 DEF Beat, Requests
<1>4. ASSUME NEW r \in MonitorRequests(w)
      PROVE  r \in Requests /\ r.op = "heartbeat" /\ Given(r.attempt)
  <2>1. monitor[w] = "asking" /\ r = Beat(w)
    BY <1>4 DEF MonitorRequests
  <2> QED
    BY <1>1, <1>3, <2>1 DEF ClaimFits
<1>5. ASSUME NEW r \in MainRequests(w)
      PROVE  /\ r \in Requests
             /\ \/ r.op = "claim"
                \/ r.op = "heartbeat" /\ Given(r.attempt)
                \/ /\ r.op = "complete" /\ pc[w] = "reporting"
                   /\ r.attempt = claim[w] /\ r.result = result[w]
  <2>1. CASE pc[w] = "claiming"
    <3>1. r = [op |-> "claim", worker |-> w, attempt |-> NoClaim, result |-> "none"]
      BY <1>5, <2>1 DEF MainRequests
    <3> QED
      BY <3>1 DEF Requests
  <2>2. CASE pc[w] = "starting"
    <3>1. r = Beat(w)
      BY <1>5, <2>2 DEF MainRequests
    <3> QED
      BY <1>1, <1>3, <2>2, <3>1 DEF ClaimFits
  <2>3. CASE pc[w] = "reporting"
    <3>1. r = [op |-> "complete", worker |-> w, attempt |-> claim[w], result |-> result[w]]
      BY <1>5, <2>3 DEF MainRequests
    <3> QED
      BY <1>2, <2>3, <3>1 DEF Requests
  <2>4. CASE pc[w] \notin {"claiming", "starting", "reporting"}
    BY <1>5, <2>4 DEF MainRequests
  <2> QED
    BY <2>1, <2>2, <2>3, <2>4
<1> QED
  BY <1>4, <1>5

\* A heartbeat may be stranded while its worker goes on; a completion only once the
\* worker has dropped its claim.
LEMMA StrandedFit ==
  ASSUME WorkInv, NEW w \in Workers, UNCHANGED ledgerVars, Alone(w), UNCHANGED ready,
         NEW open, Strand(open),
         \/ open \subseteq MonitorRequests(w)
         \/ /\ open \subseteq MainRequests(w) \union MonitorRequests(w)
            /\ claim'[w] = NoClaim
  PROVE  late' \subseteq Requests /\ \A r \in late' : r \in late \/ RequestFits(r)'
<1>1. \A r \in late' : r \in late \/ r \in open
  BY DEF Strand
<1>2. \A a : Given(a) => Given(a)'
  BY DEF Given, ledgerVars
<1>3. ASSUME NEW r \in open
      PROVE  r \in Requests /\ RequestFits(r)'
  <2>1. CASE r \in MonitorRequests(w)
    BY <1>2, <2>1, OpenRequests DEF RequestFits
  <2>2. CASE r \in MainRequests(w) /\ claim'[w] = NoClaim
    <3>1. CASE r.op \in {"claim", "heartbeat"}
      BY <1>2, <2>2, <3>1, OpenRequests DEF RequestFits
    <3>2. CASE /\ r.op = "complete" /\ pc[w] = "reporting"
               /\ r.attempt = claim[w] /\ r.result = result[w]
      <4>1. ClaimFits(w) /\ claim[w] # NoClaim
        BY <3>2 DEF WorkInv, ClaimFits
      <4>2. \A v \in Workers : claim'[v] # claim[w]
        BY <2>2, <4>1 DEF Alone, ClaimFits
      <4>3. \A k \in Keys : claim[w] = Current(k)' => state'[k] # "leased"
        BY <3>2, <4>1 DEF ClaimFits, Current, ledgerVars
      <4>4. /\ r.result \in {"succeeded", "failed"}
            /\ r.result = "succeeded" <=> r.attempt \in ready'
        BY <3>2, <4>1 DEF ClaimFits
      <4>5. Given(r.attempt)'
        BY <1>2, <3>2, <4>1 DEF ClaimFits, Given, ledgerVars
      <4> QED
        BY <2>2, <3>2, <4>2, <4>3, <4>4, <4>5, OpenRequests DEF RequestFits
    <3> QED
      BY <2>2, <3>1, <3>2, OpenRequests
  <2>3. r \in Requests
    BY <2>1, <2>2, <1>3, OpenRequests
  <2> QED
    BY <1>3, <2>1, <2>2, <2>3
<1>4. late \subseteq Requests
  BY DEF WorkInv, WorkerTypes
<1> QED
  BY <1>1, <1>3, <1>4

------------------------------------------------------------------------------
(***************************************************************************)
(* The invariant, action by action.                                        *)
(***************************************************************************)
LEMMA InitInv == Init => WorkInv
<1> SUFFICES ASSUME Init
             PROVE  WorkInv
  OBVIOUS
<1> USE DEF Init, LedgerInit
<1>1. LedgerTypes /\ \A k \in Keys : JobFits(k)
  BY DEF LedgerTypes, JobFits, Held
<1>2. WorkerTypes
  BY DEF WorkerTypes, Places
<1>3. \A k \in Keys : AttemptFits(k)
  BY DEF AttemptFits
<1>4. \A w \in Workers : ClaimFits(w)
  BY DEF ClaimFits
<1> QED
  BY <1>1, <1>2, <1>3, <1>4 DEF WorkInv, DirectoriesFit

LEMMA SubmitJobKeeps ==
  ASSUME WorkInv, NEW k \in Keys, NEW s \in Specs, SubmitJob(k, s)
  PROVE  WorkInv'
<1>1. LedgerTypes' /\ (\A j \in Keys : JobFits(j)') /\ Mild
  BY SubmitKeeps DEF SubmitJob, WorkInv
<1>2. \A j \in Keys : state'[j] = state[j] \/ state'[j] \notin {"succeeded", "failed"}
  BY DEF SubmitJob, Submit, WorkInv, LedgerTypes
<1> QED
  BY <1>1, <1>2, LedgerMovesOn DEF SubmitJob, workerVars

LEMMA LeasesEndKeeps ==
  ASSUME WorkInv, NEW lost \in SUBSET Keys, LeasesEnd(lost)
  PROVE  WorkInv'
<1>1. /\ LedgerTypes' /\ (\A j \in Keys : JobFits(j)') /\ Mild
      /\ \A j \in Keys : \/ state'[j] = state[j]
                         \/ state[j] \in Held /\ state'[j] \in {"queued", "expired"}
  BY LoseKeeps DEF LeasesEnd, WorkInv
<1> QED
  BY <1>1, LedgerMovesOn DEF LeasesEnd, workerVars

LEMMA PollKeeps ==
  ASSUME WorkInv, NEW w \in Workers, Poll(w) \/ Restart(w)
  PROVE  WorkInv'
<1> USE DEF Poll, Restart
<1>1. LedgerTypes' /\ (\A j \in Keys : JobFits(j)') /\ Mild
  BY NoOperation DEF WorkInv
<1>2. WorkerTypes'
  BY DEF WorkInv, WorkerTypes, Places
<1>3. Alone(w) /\ Grows(w) /\ Claims(w)
  BY DEF Alone, Grows, Claims, WorkInv, WorkerTypes
<1>4. pc[w] \in {"polling", "down"} /\ pc'[w] \in {"polling", "claiming"}
      /\ claim[w] = NoClaim /\ claim' = claim /\ monitor' = monitor
  BY DEF WorkInv, WorkerTypes, ClaimFits
<1>5. ClaimFits(w)'
  BY <1>4 DEF WorkInv, ClaimFits
<1>6. \A j \in Keys : state'[j] = state[j]
  BY DEF ledgerVars
<1> QED
  BY <1>1, <1>2, <1>3, <1>5, <1>6, StepKeeps

LEMMA GrantedKeeps ==
  ASSUME WorkInv, NEW w \in Workers, NEW k \in Keys, Granted(w, k)
  PROVE  WorkInv'
<1> USE DEF Granted
<1>1. /\ LedgerTypes' /\ (\A j \in Keys : JobFits(j)') /\ Mild
      /\ tries'[k] = tries[k] + 1 /\ state'[k] = "leased" /\ holder'[k] = w
      /\ \A j \in Keys : j # k => tries'[j] = tries[j]
  BY ClaimKeeps DEF WorkInv
<1> PICK n \in Nat : n = tries[k]
  BY DEF WorkInv, LedgerTypes
<1>0. n + 1 \in Nat \ {0}
  OBVIOUS
<1> PICK a \in Numbers : a = <<k, n + 1>>
  BY <1>0, NumberParts
<1>2. a[1] = k /\ a[2] = n + 1 /\ a # NoClaim /\ a = <<k, tries'[k]>>
  BY <1>1, NumberParts
<1>3. ~Given(a) /\ Given(a)'
  BY <1>1, <1>2 DEF Given
<1>4. claim'[w] = a /\ pc'[w] = "starting" /\ monitor'[w] = monitor[w]
  BY <1>2 DEF WorkInv, WorkerTypes
<1>5. WorkerTypes'
  BY <1>2, <1>4 DEF WorkInv, WorkerTypes, Places
<1>6. Alone(w) /\ Grows(w) /\ Claims(w)
  BY <1>3, <1>4 DEF Alone, Grows, Claims, WorkInv, WorkerTypes
<1>7. ClaimFits(w)'
  <2>1. monitor'[w] = "off"
    BY <1>4 DEF WorkInv, ClaimFits
  <2>2. \A v \in Workers : claim'[v] = a => v = w
    <3>1. \A v \in Workers : claim[v] # a
      BY <1>2, <1>3 DEF WorkInv, ClaimFits
    <3> QED
      BY <1>6, <3>1 DEF Alone
  <2>3. \A j \in Keys : a = Current(j)' => j = k
    BY <1>2 DEF Current
  <2>4. a \notin ready' \union leftover'
    BY <1>3 DEF WorkInv, DirectoriesFit
  <2>5. claim'[w] \in Numbers /\ claim'[w][2] <= tries'[claim'[w][1]]
    BY <1>3, <1>4 DEF Given
  <2> QED
    BY <1>1, <1>2, <1>4, <2>1, <2>2, <2>3, <2>4, <2>5 DEF ClaimFits, Given
<1>8. \A j \in Keys : state'[j] = state[j] \/ state'[j] \notin {"succeeded", "failed"}
  BY DEF Claim, WorkInv, LedgerTypes
<1> QED
  BY <1>1, <1>5, <1>6, <1>7, <1>8, StepKeeps

LEMMA StartedKeeps ==
  ASSUME WorkInv, NEW w \in Workers, Started(w)
  PROVE  WorkInv'
<1> USE DEF Started
<1>1. ClaimFits(w) /\ claim[w] \in Numbers /\ claim[w] # NoClaim
  BY NumberParts DEF WorkInv, ClaimFits, Given
<1>2. /\ LedgerTypes' /\ (\A j \in Keys : JobFits(j)') /\ Mild
      /\ tries' = tries /\ state'[claim[w][1]] = "running"
      /\ claim[w] = Current(claim[w][1])
      /\ \A j \in Keys : j # claim[w][1] => state'[j] = state[j]
  BY <1>1, StartKeeps DEF WorkInv
<1>3. WorkerTypes'
  BY DEF WorkInv, WorkerTypes, Places
<1>4. Alone(w) /\ Grows(w) /\ Claims(w)
  BY DEF Alone, Grows, Claims, WorkInv, WorkerTypes
<1>5. ClaimFits(w)'
  <2>1. pc'[w] = "preparing" /\ claim' = claim /\ ready' = ready
    BY DEF WorkInv, WorkerTypes
  <2>2. \A k \in Keys : claim[w] = Current(k)' =>
          claim[w] = Current(k) /\ state'[k] = "running" /\ state[k] \in Held
          /\ holder'[k] = holder[k]
    BY <1>1, <1>2, NumberParts DEF Current, Start, IsHolder
  <2>3. Given(claim[w])'
    BY <1>1, <1>2 DEF ClaimFits, Given
  <2> QED
    BY <1>1, <2>1, <2>2, <2>3 DEF ClaimFits
<1>6. \A k \in Keys : state'[k] = state[k] \/ state'[k] \notin {"succeeded", "failed"}
  BY <1>2
<1> QED
  BY <1>2, <1>3, <1>4, <1>5, <1>6, StepKeeps

LEMMA GiveUpKeeps ==
  ASSUME WorkInv, NEW w \in Workers, GiveUp(w)
  PROVE  WorkInv'
<1> USE DEF GiveUp, BackToPolling
<1>1. LedgerTypes' /\ (\A j \in Keys : JobFits(j)') /\ Mild
  BY NoOperation DEF WorkInv
<1>2. claim'[w] = NoClaim /\ pc'[w] = "polling" /\ monitor'[w] = "off"
  BY DEF WorkInv, WorkerTypes
<1>3. Alone(w) /\ Grows(w) /\ Claims(w)
  BY <1>2 DEF Alone, Grows, Claims, WorkInv, WorkerTypes
<1>4. late' \subseteq Requests /\ \A r \in late' : r \in late \/ RequestFits(r)'
  BY <1>2, <1>3, StrandedFit
<1>5. WorkerTypes'
  BY <1>4 DEF WorkInv, WorkerTypes, Places
<1>6. ClaimFits(w)'
  BY <1>2 DEF ClaimFits
<1>7. \A j \in Keys : state'[j] = state[j]
  BY DEF ledgerVars
<1> QED
  BY <1>1, <1>3, <1>4, <1>5, <1>6, <1>7, StepKeeps

\* The heartbeat thread asks, and its request fails.
LEMMA MonitorKeeps ==
  ASSUME WorkInv, NEW w \in Workers, MonitorAsks(w) \/ MonitorFails(w)
  PROVE  WorkInv'
<1> USE DEF MonitorAsks, MonitorFails, SetMonitor
<1>1. LedgerTypes' /\ (\A j \in Keys : JobFits(j)') /\ Mild
  BY NoOperation DEF WorkInv
<1>2. Alone(w) /\ Grows(w) /\ Claims(w)
  BY DEF Alone, Grows, Claims, WorkInv, WorkerTypes
<1>3. late' \subseteq Requests /\ \A r \in late' : r \in late \/ RequestFits(r)'
  <2>1. CASE UNCHANGED late
    BY <2>1 DEF WorkInv, WorkerTypes
  <2>2. CASE MonitorFails(w)
    BY <2>2, <1>2, StrandedFit
  <2> QED
    BY <2>1, <2>2
<1>4. WorkerTypes'
  BY <1>3 DEF WorkInv, WorkerTypes
<1>5. ClaimFits(w)'
  <2>1. ClaimFits(w) /\ monitor[w] # "off" /\ state' = state /\ tries' = tries /\ holder' = holder
    BY DEF WorkInv, ledgerVars
  <2>2. \A k \in Keys : Current(k)' = Current(k)
    BY <2>1 DEF Current
  <2>3. Given(claim[w]) => Given(claim[w])'
    BY <2>1 DEF Given
  <2> QED
    BY <2>1, <2>2, <2>3 DEF ClaimFits
<1>6. \A j \in Keys : state'[j] = state[j]
  BY DEF ledgerVars
<1> QED
  BY <1>1, <1>2, <1>3, <1>4, <1>5, <1>6, StepKeeps

LEMMA MonitorServedKeeps ==
  ASSUME WorkInv, NEW w \in Workers, MonitorServed(w)
  PROVE  WorkInv'
<1> USE DEF MonitorServed, SetMonitor
<1>1. /\ ClaimFits(w) /\ pc[w] \in {"preparing", "stopping"}
      /\ claim[w] \in Numbers /\ claim[w] # NoClaim
  BY NumberParts DEF WorkInv, ClaimFits, Given
<1>2. /\ LedgerTypes' /\ (\A j \in Keys : JobFits(j)') /\ Mild
      /\ tries' = tries /\ state'[claim[w][1]] = "running"
      /\ claim[w] = Current(claim[w][1])
      /\ \A j \in Keys : j # claim[w][1] => state'[j] = state[j]
  BY <1>1, StartKeeps DEF WorkInv
<1>3. WorkerTypes'
  BY DEF WorkInv, WorkerTypes
<1>4. Alone(w) /\ Grows(w) /\ Claims(w)
  BY DEF Alone, Grows, Claims, WorkInv, WorkerTypes
<1>5. ClaimFits(w)'
  <2>1. \A k \in Keys : claim[w] = Current(k)' =>
          claim[w] = Current(k) /\ state'[k] = "running" /\ state[k] \in Held
          /\ holder'[k] = holder[k]
    BY <1>1, <1>2, NumberParts DEF Current, Start, IsHolder
  <2>2. Given(claim[w])'
    BY <1>1, <1>2 DEF ClaimFits, Given
  <2> QED
    BY <1>1, <2>1, <2>2 DEF ClaimFits
<1>6. \A k \in Keys : state'[k] = state[k] \/ state'[k] \notin {"succeeded", "failed"}
  BY <1>2
<1> QED
  BY <1>2, <1>3, <1>4, <1>5, <1>6, StepKeeps

LEMMA PrepareKeeps ==
  ASSUME WorkInv, NEW w \in Workers, PrepareSucceeds(w) \/ PrepareFails(w)
  PROVE  WorkInv'
<1> USE DEF PrepareSucceeds, PrepareFails
<1>1. LedgerTypes' /\ (\A j \in Keys : JobFits(j)') /\ Mild
  BY NoOperation DEF WorkInv
<1>2. /\ ClaimFits(w) /\ pc[w] = "preparing" /\ claim[w] \in Numbers /\ claim[w] # NoClaim
      /\ claim[w] \notin ready
  BY NumberParts DEF WorkInv, ClaimFits, Given
<1>3. WorkerTypes'
  BY <1>2 DEF WorkInv, WorkerTypes, Places
<1>4. Alone(w) /\ Grows(w) /\ Claims(w)
  BY <1>2 DEF Alone, Grows, Claims, WorkInv, WorkerTypes
<1>5. ClaimFits(w)'
  <2>1. state' = state /\ tries' = tries /\ holder' = holder
    BY DEF ledgerVars
  <2>2. \A k \in Keys : Current(k)' = Current(k)
    BY <2>1 DEF Current
  <2>3. Given(claim[w]) => Given(claim[w])'
    BY <2>1 DEF Given
  <2>4. /\ pc'[w] = "stopping" /\ claim' = claim /\ monitor' = monitor
        /\ result'[w] \in {"succeeded", "failed"}
        /\ result'[w] = "succeeded" <=> claim[w] \in ready'
    BY <1>2 DEF WorkInv, WorkerTypes
  <2> QED
    BY <1>2, <2>1, <2>2, <2>3, <2>4 DEF ClaimFits
<1>6. \A j \in Keys : state'[j] = state[j]
  BY DEF ledgerVars
<1> QED
  BY <1>1, <1>3, <1>4, <1>5, <1>6, StepKeeps

LEMMA StoppedKeeps ==
  ASSUME WorkInv, NEW w \in Workers, Stopped(w)
  PROVE  WorkInv'
<1> USE DEF Stopped, BackToPolling
<1>1. LedgerTypes' /\ (\A j \in Keys : JobFits(j)') /\ Mild
  BY NoOperation DEF WorkInv
<1>2. Alone(w) /\ Grows(w) /\ Claims(w)
  BY DEF Alone, Grows, Claims, WorkInv, WorkerTypes
<1>3. late' \subseteq Requests /\ \A r \in late' : r \in late \/ RequestFits(r)'
  <2>1. CASE UNCHANGED late
    BY <2>1 DEF WorkInv, WorkerTypes
  <2>2. CASE Strand(MonitorRequests(w))
    BY <2>2, <1>2, StrandedFit
  <2> QED
    BY <2>1, <2>2
<1>4. WorkerTypes'
  BY <1>3 DEF WorkInv, WorkerTypes, Places
<1>5. ClaimFits(w)'
  <2>1. CASE monitor[w] = "failed"
    BY <2>1 DEF WorkInv, WorkerTypes, ClaimFits
  <2>2. CASE monitor[w] # "failed"
    <3>1. /\ ClaimFits(w) /\ pc[w] = "stopping" /\ pc'[w] = "reporting" /\ monitor'[w] = "off"
          /\ state' = state /\ tries' = tries /\ holder' = holder
          /\ claim' = claim /\ result' = result /\ ready' = ready /\ leftover' = leftover
      BY <2>2 DEF WorkInv, WorkerTypes, ledgerVars
    <3>2. \A k \in Keys : Current(k)' = Current(k)
      BY <3>1 DEF Current
    <3>3. Given(claim[w]) => Given(claim[w])'
      BY <3>1 DEF Given
    <3> HIDE DEF Stopped
    <3> QED
      BY <3>1, <3>2, <3>3 DEF ClaimFits
  <2> QED
    BY <2>1, <2>2
<1>6. \A j \in Keys : state'[j] = state[j]
  BY DEF ledgerVars
<1> QED
  BY <1>1, <1>2, <1>3, <1>4, <1>5, <1>6, StepKeeps

LEMMA CrashKeeps ==
  ASSUME WorkInv, NEW w \in Workers, Crash(w)
  PROVE  WorkInv'
<1> USE DEF Crash
<1>1. LedgerTypes' /\ (\A j \in Keys : JobFits(j)') /\ Mild
  BY NoOperation DEF WorkInv
<1>2. claim'[w] = NoClaim /\ pc'[w] = "down" /\ monitor'[w] = "off"
  BY DEF WorkInv, WorkerTypes
<1>3. /\ leftover' \in {leftover, leftover \union {claim[w]}}
      /\ leftover' # leftover => pc[w] = "preparing" /\ claim[w] \in Numbers
  BY NumberParts DEF WorkInv, ClaimFits, Given
<1>4. Alone(w) /\ Grows(w) /\ Claims(w)
  BY <1>2, <1>3 DEF Alone, Grows, Claims, WorkInv, WorkerTypes
<1>5. late' \subseteq Requests /\ \A r \in late' : r \in late \/ RequestFits(r)'
  BY <1>2, <1>4, StrandedFit
<1>6. WorkerTypes'
  BY <1>3, <1>5 DEF WorkInv, WorkerTypes, Places
<1>7. ClaimFits(w)'
  BY <1>2 DEF ClaimFits
<1>8. \A j \in Keys : state'[j] = state[j]
  BY DEF ledgerVars
<1> QED
  BY <1>1, <1>4, <1>5, <1>6, <1>7, <1>8, StepKeeps

\* A completion under the current number says what the attempt came to.
LEMMA FinishedFit ==
  ASSUME WorkInv, NEW w \in Workers, NEW a \in Numbers, NEW outcome \in {"succeeded", "failed"},
         Finish(w, a[1], a[2], outcome), UNCHANGED ready,
         outcome = "succeeded" <=> a \in ready, \A v \in Workers : claim'[v] # a
  PROVE  \A k \in Keys : state'[k] = state[k] \/ AttemptFits(k)'
<1>1. /\ state'[a[1]] = outcome /\ a = Current(a[1]) /\ tries' = tries
      /\ \A j \in Keys : j # a[1] => state'[j] = state[j]
  BY FinishKeeps DEF WorkInv
<1>2. Current(a[1])' = a
  BY <1>1 DEF Current
<1>3. AttemptFits(a[1])'
  BY <1>1, <1>2 DEF AttemptFits
<1> QED
  BY <1>1, <1>3

LEMMA ReportedKeeps ==
  ASSUME WorkInv, NEW w \in Workers, Reported(w)
  PROVE  WorkInv'
<1> USE DEF Reported, BackToPolling
<1>1. /\ ClaimFits(w) /\ claim[w] \in Numbers /\ claim[w] # NoClaim
      /\ result[w] \in {"succeeded", "failed"}
      /\ result[w] = "succeeded" <=> claim[w] \in ready
  BY NumberParts DEF WorkInv, ClaimFits, Given
<1>2. LedgerTypes' /\ (\A j \in Keys : JobFits(j)') /\ Mild
  BY <1>1, FinishKeeps DEF WorkInv
<1>3. claim'[w] = NoClaim /\ pc'[w] = "polling" /\ monitor'[w] = "off"
  BY DEF WorkInv, WorkerTypes
<1>4. Alone(w) /\ Grows(w) /\ Claims(w)
  BY <1>3 DEF Alone, Grows, Claims, WorkInv, WorkerTypes
<1>5. WorkerTypes'
  BY DEF WorkInv, WorkerTypes, Places
<1>6. ClaimFits(w)'
  BY <1>3 DEF ClaimFits
<1>7. \A v \in Workers : claim'[v] # claim[w]
  BY <1>1, <1>3, <1>4 DEF Alone, ClaimFits
<1>8. \A k \in Keys : state'[k] = state[k] \/ AttemptFits(k)'
  BY <1>1, <1>7, FinishedFit
<1> QED
  BY <1>2, <1>4, <1>5, <1>6, <1>8, StepKeeps

LEMMA LateRequestKeeps ==
  ASSUME WorkInv, NEW r \in late, LateRequest(r)
  PROVE  WorkInv'
<1> USE DEF LateRequest
<1>1. RequestFits(r) /\ r \in Requests /\ r.worker \in Workers
  BY DEF WorkInv, WorkerTypes, Requests
<1>2. CASE r.op = "claim" /\ \E k \in Keys : Claim(r.worker, k)
  <2> PICK k \in Keys : Claim(r.worker, k)
    BY <1>2
  <2>1. LedgerTypes' /\ (\A j \in Keys : JobFits(j)') /\ Mild
    BY <1>1, ClaimKeeps DEF WorkInv
  <2>2. \A j \in Keys : state'[j] = state[j] \/ state'[j] \notin {"succeeded", "failed"}
    BY DEF Claim, WorkInv, LedgerTypes
  <2> QED
    BY <2>1, <2>2, LedgerMovesOn
<1>3. CASE r.op = "heartbeat" /\ Start(r.worker, r.attempt[1], r.attempt[2])
  <2>1. r.attempt \in Numbers
    BY <1>1, <1>3 DEF RequestFits, Given
  <2>2. LedgerTypes' /\ (\A j \in Keys : JobFits(j)') /\ Mild
        /\ state'[r.attempt[1]] = "running"
        /\ \A j \in Keys : j # r.attempt[1] => state'[j] = state[j]
    BY <1>1, <1>3, <2>1, StartKeeps DEF WorkInv
  <2>3. \A j \in Keys : state'[j] = state[j] \/ state'[j] \notin {"succeeded", "failed"}
    BY <2>2
  <2> QED
    BY <2>2, <2>3, LedgerMovesOn
<1>4. CASE r.op = "complete" /\ Finish(r.worker, r.attempt[1], r.attempt[2], r.result)
  <2>1. /\ r.attempt \in Numbers /\ r.result \in {"succeeded", "failed"}
        /\ r.result = "succeeded" <=> r.attempt \in ready
        /\ \A v \in Workers : claim'[v] # r.attempt
    BY <1>1, <1>4 DEF RequestFits, Given
  <2>2. LedgerTypes' /\ (\A j \in Keys : JobFits(j)') /\ Mild
    BY <1>1, <1>4, <2>1, FinishKeeps DEF WorkInv
  <2>3. \A k \in Keys : state'[k] = state[k] \/ AttemptFits(k)'
    BY <1>1, <1>4, <2>1, FinishedFit
  <2> QED
    BY <2>2, <2>3, LedgerMovesOn
<1>5. CASE UNCHANGED ledgerVars
  <2>1. LedgerTypes' /\ (\A j \in Keys : JobFits(j)') /\ Mild
    BY <1>5, NoOperation DEF WorkInv
  <2>2. \A j \in Keys : state'[j] = state[j]
    BY <1>5 DEF ledgerVars
  <2> QED
    BY <2>1, <2>2, LedgerMovesOn
<1> QED
  BY <1>2, <1>3, <1>4, <1>5 DEF Serve

LEMMA NextInv == WorkInv /\ [Next]_vars => WorkInv'
<1> SUFFICES ASSUME WorkInv, [Next]_vars
             PROVE  WorkInv'
  OBVIOUS
<1>1. ASSUME NEW k \in Keys, NEW s \in Specs, SubmitJob(k, s)
      PROVE  WorkInv'
  BY <1>1, SubmitJobKeeps
<1>2. ASSUME NEW w \in Workers, Poll(w) \/ Restart(w)
      PROVE  WorkInv'
  BY <1>2, PollKeeps
<1>3. ASSUME NEW w \in Workers, NEW k \in Keys, Granted(w, k)
      PROVE  WorkInv'
  BY <1>3, GrantedKeeps
<1>4. ASSUME NEW w \in Workers, Started(w)
      PROVE  WorkInv'
  BY <1>4, StartedKeeps
<1>5. ASSUME NEW w \in Workers, GiveUp(w)
      PROVE  WorkInv'
  BY <1>5, GiveUpKeeps
<1>6. ASSUME NEW w \in Workers, MonitorAsks(w) \/ MonitorFails(w)
      PROVE  WorkInv'
  BY <1>6, MonitorKeeps
<1>7. ASSUME NEW w \in Workers, MonitorServed(w)
      PROVE  WorkInv'
  BY <1>7, MonitorServedKeeps
<1>8. ASSUME NEW w \in Workers, PrepareSucceeds(w) \/ PrepareFails(w)
      PROVE  WorkInv'
  BY <1>8, PrepareKeeps
<1>9. ASSUME NEW w \in Workers, Stopped(w)
      PROVE  WorkInv'
  BY <1>9, StoppedKeeps
<1>10. ASSUME NEW w \in Workers, Reported(w)
       PROVE  WorkInv'
  BY <1>10, ReportedKeeps
<1>11. ASSUME NEW w \in Workers, Crash(w)
       PROVE  WorkInv'
  BY <1>11, CrashKeeps
<1>12. ASSUME NEW r \in late, LateRequest(r)
       PROVE  WorkInv'
  BY <1>12, LateRequestKeeps
<1>13. ASSUME NEW lost \in SUBSET Keys, LeasesEnd(lost)
       PROVE  WorkInv'
  BY <1>13, LeasesEndKeeps
<1>14. CASE UNCHANGED vars
  <2>1. UNCHANGED ledgerVars /\ UNCHANGED workerVars
    BY <1>14 DEF vars
  <2>2. LedgerTypes' /\ (\A j \in Keys : JobFits(j)') /\ Mild
    BY <2>1, NoOperation DEF WorkInv
  <2>3. \A j \in Keys : state'[j] = state[j]
    BY <2>1 DEF ledgerVars
  <2> QED
    BY <2>1, <2>2, <2>3, LedgerMovesOn DEF workerVars
<1> QED
  BY <1>1, <1>2, <1>3, <1>4, <1>5, <1>6, <1>7, <1>8, <1>9, <1>10, <1>11, <1>12, <1>13, <1>14
     DEF Next

------------------------------------------------------------------------------
(***************************************************************************)
(* What follows from it.                                                   *)
(***************************************************************************)

\* The directories of a job bear the numbers of its holds.
LEMMA DirectoriesBounded ==
  ASSUME WorkInv, NEW k \in Keys
  PROVE  /\ IsFiniteSet({m \in ready \union leftover : m[1] = k})
         /\ Cardinality({m \in ready \union leftover : m[1] = k}) <= tries[k]
<1> DEFINE S == {m \in ready \union leftover : m[1] = k}
           f == [m \in S |-> m[2]]
<1> PICK n \in Nat : n = tries[k]
  BY DEF WorkInv, LedgerTypes
<1>1. \A m \in S : m[2] \in 1 .. n /\ m = <<k, m[2]>>
  <2> TAKE m \in S
  <2>1. m \in Numbers /\ m[2] <= n /\ m[1] = k
    BY DEF WorkInv, DirectoriesFit, Given
  <2> QED
    BY <2>1, NumberParts
<1> HIDE DEF S
<1>2. f \in Injection(S, 1 .. n)
  BY <1>1 DEF Injection, IsInjective
<1>3. IsFiniteSet(1 .. n) /\ Cardinality(1 .. n) = n
  <2>1. 1 \in Int /\ n \in Int
    OBVIOUS
  <2>2. IsFiniteSet(1 .. n) /\ Cardinality(1 .. n) = IF 1 > n THEN 0 ELSE (n - 1) + 1
    BY <2>1, FS_Interval
  <2> QED
    BY <2>2
<1>4. IsFiniteSet(S) /\ Cardinality(S) <= n
  BY <1>2, <1>3, FS_Injection
<1> QED
  BY <1>4 DEF S

\* What the controller records of an attempt is what its worker made of it, whichever
\* requests were late or served twice; no two workers work under one number, and the
\* directories of a job stay within its retry budget.
THEOREM LedgerIsTrueHolds == Spec => []LedgerIsTrue
<1>1. WorkInv => LedgerIsTrue
  <2> SUFFICES ASSUME WorkInv
               PROVE  LedgerIsTrue
    OBVIOUS
  <2>1. ASSUME NEW k \in Keys
        PROVE  /\ state[k] = "succeeded" => <<k, tries[k]>> \in ready
               /\ state[k] = "failed" => <<k, tries[k]>> \notin ready
               /\ state[k] = "leased" => <<k, tries[k]>> \notin ready \union leftover
    BY DEF WorkInv, AttemptFits, Current
  <2>2. ASSUME NEW k \in Keys, NEW w \in Workers, claim[w] = <<k, tries[k]>>, state[k] \in Held
        PROVE  holder[k] = w
    BY <2>2, NumberParts DEF WorkInv, ClaimFits, Current, NoClaim
  <2>3. ASSUME NEW k \in Keys, state[k] # "absent"
        PROVE  Cardinality({m \in ready \union leftover : m[1] = k}) <= MaxAttempts[spec[k]]
    <3> PICK c : c = Cardinality({m \in ready \union leftover : m[1] = k})
      OBVIOUS
    <3>1. c <= tries[k] /\ tries[k] <= MaxAttempts[spec[k]] /\ tries[k] \in Nat
      BY <2>3, DirectoriesBounded DEF WorkInv, JobFits, LedgerTypes
    <3>2. c \in Nat
      <4>1. IsFiniteSet({m \in ready \union leftover : m[1] = k})
        BY DirectoriesBounded
      <4> QED
        BY <4>1, FS_CardinalityType
    <3>3. MaxAttempts[spec[k]] \in Nat
      BY <2>3, LedgerAssumption DEF WorkInv, JobFits
    <3> QED
      BY <3>1, <3>2, <3>3
  <2>4. \A v, w \in Workers : claim[v] = claim[w] => v = w \/ claim[v] = NoClaim
    BY DEF WorkInv, ClaimFits
  <2> QED
    BY <2>1, <2>2, <2>3, <2>4 DEF LedgerIsTrue
<1> QED
  BY <1>1, InitInv, NextInv, PTL DEF Spec

\* Jobs change state along the arrows of the controller's diagram, and an attempt whose
\* heartbeat failed while its workspace was made is left to the reaper: run_once does not
\* complete it, and no request is under way that could.
THEOREM LifecycleAsDrawnHolds == Spec => LifecycleAsDrawn
<1> DEFINE Moves == \A k \in Keys : state'[k] # state[k] =>
                      /\ <<state[k], state'[k]>> \in Drawn
                      /\ state'[k] \in Ended \ {"expired"} =>
                           \A w \in Workers : ~(claim[w] = <<k, tries[k]>> /\ monitor[w] = "failed")
           Arrows == \A k \in Keys : state'[k] # state[k] =>
                       <<state[k], state'[k]>> \in Drawn /\ state'[k] \notin Ended \ {"expired"}
<1>0. Arrows => Moves
  OBVIOUS
<1>1. ASSUME WorkInv, Next
      PROVE  Moves
  <2> HIDE DEF Moves, Arrows
  <2>1. ASSUME NEW k \in Keys, NEW s \in Specs, Submit(k, s)
        PROVE  Arrows
    BY <1>1, <2>1 DEF Submit, Arrows, WorkInv, LedgerTypes, Drawn, Ended
  <2>2. ASSUME NEW w \in Workers, NEW k \in Keys, Claim(w, k)
        PROVE  Arrows
    BY <1>1, <2>2 DEF Claim, Arrows, WorkInv, LedgerTypes, Drawn, Ended
  <2>3. ASSUME NEW w \in Workers, NEW a \in Numbers, Start(w, a[1], a[2])
        PROVE  Arrows
    BY <1>1, <2>3, NumberParts DEF Start, IsHolder, Arrows, WorkInv, LedgerTypes, Drawn, Held, Ended
  <2>4. ASSUME NEW lost \in SUBSET Keys, Lose(lost)
        PROVE  Arrows
    BY <1>1, <2>4, LoseKeeps DEF Arrows, WorkInv, Drawn, Held, Ended
  <2>5. ASSUME UNCHANGED ledgerVars
        PROVE  Arrows
    BY <2>5 DEF ledgerVars, Arrows
  <2>6. ASSUME NEW w \in Workers, NEW a \in Numbers, NEW outcome \in {"succeeded", "failed"},
               Finish(w, a[1], a[2], outcome),
               \A k \in Keys : a = Current(k) => state[k] # "leased",
               \A v \in Workers : ~(claim[v] = a /\ monitor[v] = "failed")
        PROVE  Moves
    <3>1. /\ state'[a[1]] = outcome /\ state[a[1]] \in Held /\ a = Current(a[1])
          /\ \A j \in Keys : j # a[1] => state'[j] = state[j]
      BY <1>1, <2>6, FinishKeeps DEF WorkInv
    <3>2. state[a[1]] = "running" /\ <<a[1], tries[a[1]]>> = a
      BY <2>6, <3>1, NumberParts DEF Current, Held
    <3> QED
      BY <2>6, <3>1, <3>2 DEF Moves, Drawn
  <2>7. ASSUME NEW w \in Workers, claim[w] # NoClaim
        PROVE  claim[w] \in Numbers
    BY <1>1, <2>7 DEF WorkInv, WorkerTypes
  <2>8. ASSUME NEW w \in Workers, Started(w) \/ MonitorServed(w)
        PROVE  Arrows
    <3>1. claim[w] \in Numbers
      <4>1. pc[w] \notin {"polling", "claiming", "down"} /\ ClaimFits(w)
        BY <1>1, <2>8 DEF Started, MonitorServed, ClaimFits, WorkInv
      <4> QED
        BY <2>7, <4>1 DEF ClaimFits
    <3> QED
      BY <2>3, <2>8, <3>1 DEF Started, MonitorServed
  <2>9. ASSUME NEW w \in Workers, Reported(w)
        PROVE  Moves
    <3>1. pc[w] = "reporting" /\ Finish(w, claim[w][1], claim[w][2], result[w])
      BY <2>9 DEF Reported
    <3>2. claim[w] \in Numbers /\ result[w] \in {"succeeded", "failed"} /\ monitor[w] = "off"
      <4>1. ClaimFits(w) /\ monitor[w] \in {"off", "waiting", "asking", "failed"}
        BY <1>1 DEF WorkInv, WorkerTypes
      <4> QED
        BY <2>7, <3>1, <4>1 DEF ClaimFits
    <3>3. \A v \in Workers : ~(claim[v] = claim[w] /\ monitor[v] = "failed")
      <4>1. ClaimFits(w) /\ claim[w] # NoClaim
        BY <1>1, <3>2, NumberParts DEF WorkInv
      <4> QED
        BY <3>2, <4>1 DEF ClaimFits
    <3>4. \A k \in Keys : claim[w] = Current(k) => state[k] # "leased"
      BY <1>1, <3>1 DEF WorkInv, ClaimFits
    <3> QED
      BY <2>6, <3>1, <3>2, <3>3, <3>4
  <2>10. ASSUME NEW r \in late, LateRequest(r)
         PROVE  Moves
    <3>1. RequestFits(r) /\ r.worker \in Workers
      BY <1>1, <2>10 DEF WorkInv, WorkerTypes, Requests
    <3>2. CASE r.op = "claim" /\ \E k \in Keys : Claim(r.worker, k)
      BY <1>0, <2>2, <3>1, <3>2
    <3>3. CASE r.op = "heartbeat" /\ Start(r.worker, r.attempt[1], r.attempt[2])
      BY <1>0, <2>3, <3>1, <3>3 DEF RequestFits, Given
    <3>4. CASE r.op = "complete" /\ Finish(r.worker, r.attempt[1], r.attempt[2], r.result)
      <4>1. r.attempt \in Numbers /\ r.result \in {"succeeded", "failed"}
        BY <3>1, <3>4 DEF RequestFits, Given
      <4>2. /\ \A k \in Keys : r.attempt = Current(k) => state[k] # "leased"
            /\ \A v \in Workers : ~(claim[v] = r.attempt /\ monitor[v] = "failed")
        BY <3>1, <3>4 DEF RequestFits
      <4> QED
        BY <2>6, <3>1, <3>4, <4>1, <4>2
    <3>5. CASE UNCHANGED ledgerVars
      BY <1>0, <2>5, <3>5
    <3> QED
      BY <2>10, <3>2, <3>3, <3>4, <3>5 DEF LateRequest, Serve
  <2>11. CASE \E w \in Workers : \/ Poll(w) \/ GiveUp(w) \/ MonitorAsks(w) \/ MonitorFails(w)
                                 \/ PrepareSucceeds(w) \/ PrepareFails(w) \/ Stopped(w)
                                 \/ Crash(w) \/ Restart(w)
    <3>1. UNCHANGED ledgerVars
      BY <2>11 DEF Poll, GiveUp, MonitorAsks, MonitorFails, PrepareSucceeds, PrepareFails,
                   Stopped, Crash, Restart
    <3> QED
      BY <1>0, <2>5, <3>1
  <2> QED
    <3>1. CASE \E k \in Keys, s \in Specs : SubmitJob(k, s)
      BY <1>0, <2>1, <3>1 DEF SubmitJob
    <3>2. CASE \E w \in Workers, k \in Keys : Granted(w, k)
      BY <1>0, <2>2, <3>2 DEF Granted
    <3>3. CASE \E lost \in SUBSET Keys : LeasesEnd(lost)
      BY <1>0, <2>4, <3>3 DEF LeasesEnd
    <3>4. CASE \E w \in Workers : Started(w) \/ MonitorServed(w)
      BY <1>0, <2>8, <3>4
    <3> QED
      BY <1>1, <2>9, <2>10, <2>11, <3>1, <3>2, <3>3, <3>4 DEF Next
<1>2. ASSUME WorkInv, [Next]_vars
      PROVE  [Moves]_vars
  BY <1>1, <1>2
<1> QED
  BY <1>2, InitInv, NextInv, PTL DEF Spec, LifecycleAsDrawn
==============================================================================
