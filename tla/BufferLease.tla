---------------------------- MODULE BufferLease ----------------------------
(***************************************************************************)
(* What Segmenter promises for the DirectByteBuffers given to it, without  *)
(* references, queues and threads: a buffer is leased to the native code   *)
(* while an event made of it waits or is sent, the same buffer possibly    *)
(* several times over, and its memory goes away only when no lease is out. *)
(***************************************************************************)
CONSTANTS Buffers, Leases

VARIABLES
  lease,  \* the leases that are out, as <<lease, buffer>> pairs
  gone    \* the buffers whose memory the JVM has taken back

vars == <<lease, gone>>

Init == lease = {} /\ gone = {}

Acquire(l, b) ==
  /\ b \notin gone
  /\ \A pair \in lease : pair[1] # l
  /\ lease' = lease \cup {<<l, b>>}
  /\ UNCHANGED gone

Expire(ended) ==
  /\ ended \subseteq lease
  /\ lease' = lease \ ended
  /\ UNCHANGED gone

TakeBack(b) ==
  /\ \A pair \in lease : pair[2] # b
  /\ gone' = gone \cup {b}
  /\ UNCHANGED lease

Next ==
  \/ \E l \in Leases, b \in Buffers : Acquire(l, b)
  \/ \E ended \in SUBSET lease : Expire(ended)
  \/ \E b \in Buffers : TakeBack(b)

Spec == Init /\ [][Next]_vars
=============================================================================
