--------------------------- MODULE MCLabController ---------------------------
(***************************************************************************)
(* Small lab controllers for TLC: a specification that may be tried twice  *)
(* and one that may be tried once, with different priorities.              *)
(***************************************************************************)
EXTENDS LabController, TLC

CONSTANTS twice, once

MCMaxAttempts == [s \in Specs |-> IF s = once THEN 1 ELSE 2]
MCPriority == [s \in Specs |-> IF s = once THEN 60 ELSE 50]
Symmetry == Permutations(Keys) \union Permutations(Workers)

\* States that differ only in a column nothing reads any more are one state:
\* when a job that is not queued was due, when one that has ended was created,
\* and the lease of an attempt that has ended.
LiveJob(k) ==
  [jobs[k] EXCEPT
     !.next_run_at = IF jobs[k].state = "queued" THEN @ ELSE Epoch,
     !.created_at  = IF jobs[k].state \in {"queued"} \union ActiveState
                       THEN @ ELSE Epoch]

LiveAttempt(a) ==
  IF Active(a) THEN <<attempts[a], known_at[a]>>
               ELSE <<[attempts[a] EXCEPT !.lease_expires_at = Epoch], Epoch>>

LiveView ==
  <<clock, [k \in Keys |-> LiveJob(k)], [a \in AttemptIds |-> LiveAttempt(a)],
    workers, events, claims>>
==============================================================================
