------------------------------ MODULE JobLedger ------------------------------
(***************************************************************************)
(* What the lab controller promises about jobs, without clocks, leases or  *)
(* tables: a submitted job is held by at most one worker at a time, a      *)
(* worker holds at most one job, each hold is numbered, only the current   *)
(* holder under the current number can start or finish the job, a hold may *)
(* be lost at any time, and a job is offered again only while its retry    *)
(* budget lasts.                                                           *)
(*                                                                         *)
(* Module LabController implements this specification over SQLite rows and *)
(* timestamps; module LabWorker runs the worker's protocol against it.     *)
(***************************************************************************)
EXTENDS Naturals

CONSTANTS
  Keys,           \* the idempotency keys jobs may be submitted under
  Specs,          \* the job specifications a submission may carry
  Workers,        \* the worker identifiers
  AdapterSpecs,   \* the specifications the repo-ops adapter may be given
  MaxAttempts,    \* MaxAttempts[s]: the retry budget of specification s
  None            \* no worker, no specification

ASSUME LedgerAssumption ==
  /\ AdapterSpecs \subseteq Specs
  /\ MaxAttempts \in [Specs -> Nat \ {0}]
  /\ None \notin Workers /\ None \notin Specs

VARIABLES
  state,          \* state[k]: of the job submitted under key k
  spec,           \* spec[k]: what was submitted
  tries,          \* tries[k]: the number of the last hold; its fence token
  holder          \* holder[k]: the worker that holds the job, or None

ledgerVars == <<state, spec, tries, holder>>

Held == {"leased", "running"}
Ended == {"succeeded", "failed", "expired"}

LedgerInit ==
  /\ state = [k \in Keys |-> "absent"]
  /\ spec = [k \in Keys |-> None]
  /\ tries = [k \in Keys |-> 0]
  /\ holder = [k \in Keys |-> None]

\* The first submission under a key fixes what the key stands for.
Submit(k, s) ==
  /\ state[k] = "absent"
  /\ state' = [state EXCEPT ![k] = "queued"]
  /\ spec' = [spec EXCEPT ![k] = s]
  /\ UNCHANGED <<tries, holder>>

HoldsNothing(w) == \A k \in Keys : holder[k] # w

Claim_NumberKept(w, k) ==
  /\ state[k] = "queued"
  /\ spec[k] \in AdapterSpecs
  /\ HoldsNothing(w)
  /\ state' = [state EXCEPT ![k] = "leased"]
  /\ tries' = [tries EXCEPT ![k] = IF @ = 0 THEN 1 ELSE @]
  /\ holder' = [holder EXCEPT ![k] = w]
  /\ UNCHANGED spec

Claim(w, k) ==
  /\ state[k] = "queued"
  /\ spec[k] \in AdapterSpecs
  /\ HoldsNothing(w)
  /\ state' = [state EXCEPT ![k] = "leased"]
  /\ tries' = [tries EXCEPT ![k] = @ + 1]
  /\ holder' = [holder EXCEPT ![k] = w]
  /\ UNCHANGED spec

\* Worker w, presenting number n, is the current holder of job k.
IsHolder(w, k, n) ==
  state[k] \in Held /\ holder[k] = w /\ tries[k] = n

Start(w, k, n) ==
  /\ IsHolder(w, k, n)
  /\ state' = [state EXCEPT ![k] = "running"]
  /\ UNCHANGED <<spec, tries, holder>>

Finish(w, k, n, outcome) ==
  /\ IsHolder(w, k, n)
  /\ state' = [state EXCEPT ![k] = outcome]
  /\ holder' = [holder EXCEPT ![k] = None]
  /\ UNCHANGED <<spec, tries>>

\* The state a job is left in when its current hold is lost.
AfterLoss(k) == IF tries[k] < MaxAttempts[spec[k]] THEN "queued" ELSE "expired"

\* Some current holds are lost, all at once.
Lose(lost) ==
  /\ \A k \in lost : state[k] \in Held
  /\ state' = [k \in Keys |-> IF k \in lost THEN AfterLoss(k) ELSE state[k]]
  /\ holder' = [k \in Keys |-> IF k \in lost THEN None ELSE holder[k]]
  /\ UNCHANGED <<spec, tries>>

LedgerNext ==
  \/ \E k \in Keys, s \in Specs : Submit(k, s)
  \/ \E w \in Workers, k \in Keys : Claim(w, k)
  \/ \E w \in Workers, k \in Keys : Start(w, k, tries[k])
  \/ \E w \in Workers, k \in Keys, o \in {"succeeded", "failed"} :
        Finish(w, k, tries[k], o)
  \/ \E lost \in SUBSET Keys : Lose(lost)

LedgerSpec == LedgerInit /\ [][LedgerNext]_ledgerVars

\* The arrows of the diagram "Current job and attempt lifecycle"
\* (docs/lab-controller-v0.1.md:354-365).
Drawn == ({"absent"} \X {"queued"}) \union ({"queued"} \X {"leased"})
         \union ({"leased"} \X {"running", "queued", "expired"})
         \union ({"running"} \X {"queued", "expired", "succeeded", "failed"})
==============================================================================
