--------------------------- MODULE EventDelivery ---------------------------
(***************************************************************************)
(* What Reassembler promises for the events that arrive, without threads,  *)
(* buffers and queues: an event is queued or lost when it is assembled,    *)
(* taken in its turn by one caller, and delivered to that one or dropped;  *)
(* it never comes back to a place it has left.                             *)
(***************************************************************************)
EXTENDS Naturals

CONSTANT MaxEvents  \* bound on the events that arrive

VARIABLE place      \* where each event is, by its number

Events == 1 .. MaxEvents

Init == place = [n \in Events |-> "unborn"]

Move(n, from, to) == place[n] = from /\ place' = [place EXCEPT ![n] = to]

FirstIn(n, where) == \A m \in Events : m < n => place[m] # where

Assemble(n) ==
  /\ FirstIn(n, "unborn")
  /\ Move(n, "unborn", "queued") \/ Move(n, "unborn", "lost")

Take(n) == FirstIn(n, "queued") /\ Move(n, "queued", "held")

Deliver(n) == Move(n, "held", "delivered") \/ Move(n, "held", "gone")

Report(n) == FirstIn(n, "lost") /\ Move(n, "lost", "gone")

(* The queue and the reports not yet asked for are given up; the events    *)
(* callers hold or were given are not.                                     *)
Close ==
  place' = [n \in Events |-> IF place[n] \in {"queued", "lost"} THEN "gone" ELSE place[n]]

Next == Close \/ \E n \in Events : Assemble(n) \/ Take(n) \/ Deliver(n) \/ Report(n)

Spec == Init /\ [][Next]_place
=============================================================================
