---------------------------- MODULE TransferQueue ----------------------------
(***************************************************************************)
(* What the transfer queue of a session promises: a transfer waits, moves  *)
(* alone, may rest and go on any number of times, and ends once.  Whoever  *)
(* looks at it sees nothing of files, chunks, requests or channels.        *)
(***************************************************************************)
CONSTANT Transfers

VARIABLE state   \* transfer -> where it is

Outcomes == {"completed", "partial_failed", "failed", "canceled", "skipped"}
Places == {"absent", "waiting", "moving", "resting"} \cup Outcomes

Busy == {t \in Transfers : state[t] \in {"moving", "resting"}}
Becomes(t, place) == state' = [state EXCEPT ![t] = place]

Init == state = [t \in Transfers |-> "absent"]

\* A transfer is accepted, or it is skipped at once.
Accept(t) == state[t] = "absent" /\ (Becomes(t, "waiting") \/ Becomes(t, "skipped"))

\* Its turn: no other one moves, and none rests in the middle of its files.
Take(t) == state[t] = "waiting" /\ Busy = {} /\ Becomes(t, "moving")

Rest(t) == state[t] = "moving" /\ Becomes(t, "resting")
GoOn(t) == state[t] = "resting" /\ Becomes(t, "moving")

\* One that never moved can only be cancelled; one that rests has to go on to end.
Drop(t) == state[t] = "waiting" /\ Becomes(t, "canceled")
End(t) == state[t] = "moving" /\ \E o \in Outcomes \ {"skipped"} : Becomes(t, o)

Next == \E t \in Transfers : Accept(t) \/ Take(t) \/ Rest(t) \/ GoOn(t) \/ Drop(t) \/ End(t)

Spec == Init /\ [][Next]_state
=============================================================================
