------------------------------ MODULE EventStream ------------------------------
(***************************************************************************)
(* What the chat proxy promises the reader of a stream of events, the SSE  *)
(* response of a chat completion or a turn of a conversation: after a      *)
(* refusal nothing comes; a stream once opened delivers deltas until one   *)
(* terminal event, done or error, or breaks off with an exception; nothing *)
(* follows the end, and a reader may leave at any time.                    *)
(***************************************************************************)
CONSTANT Streams

VARIABLE status         \* status[s]: what the reader of s has seen last

Init == status = [s \in Streams |-> "asked"]

To(s, from, to) == status[s] \in from /\ status' = [status EXCEPT ![s] = to]

Refuse(s)  == To(s, {"asked"}, "refused")
Open(s)    == To(s, {"asked"}, "delta")
Done(s)    == To(s, {"delta"}, "done")
Fail(s)    == To(s, {"delta"}, "error")
Break(s)   == To(s, {"delta"}, "broken")
Leave(s)   == To(s, {"asked", "delta"}, "left")

Next == \E s \in Streams : Refuse(s) \/ Open(s) \/ Done(s) \/ Fail(s) \/ Break(s) \/ Leave(s)

Spec == Init /\ [][Next]_status
==============================================================================
