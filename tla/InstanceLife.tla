---------------------------- MODULE InstanceLife ----------------------------
(***************************************************************************)
(* What the classes of org.jlab.hpdf promise together about native         *)
(* instances, without fields, addresses or native frames: an instance is   *)
(* made once, is borrowed only while it lives, and is destroyed once, by   *)
(* the one thread that has claimed its object and while nobody borrows it. *)
(***************************************************************************)
CONSTANTS Threads, Objects, Nobody

VARIABLES
  life,   \* "none", "live", "gone", or "lost": live with no Java object
  user,   \* the object whose instance each thread is using
  reaper  \* the object each thread is freeing

vars == <<life, user, reaper>>

Init ==
  /\ life = [o \in Objects |-> "none"]
  /\ user = [t \in Threads |-> Nobody]
  /\ reaper = [t \in Threads |-> Nobody]

Resting(t) == user[t] = Nobody /\ reaper[t] = Nobody

(* A constructor returns or throws; if it was using a URI it is done.      *)
Construct(t, o, end) ==
  /\ life[o] = "none"
  /\ reaper[t] = Nobody
  /\ life' = [life EXCEPT ![o] = end]
  /\ user' = [user EXCEPT ![t] = Nobody]
  /\ UNCHANGED reaper

Borrow(t, o) ==
  /\ Resting(t)
  /\ life[o] = "live"
  /\ \A s \in Threads : reaper[s] # o
  /\ user' = [user EXCEPT ![t] = o]
  /\ UNCHANGED <<life, reaper>>

GiveBack(t) ==
  /\ user' = [user EXCEPT ![t] = Nobody]
  /\ UNCHANGED <<life, reaper>>

Claim(t, o) ==
  /\ Resting(t)
  /\ life[o] = "live"
  /\ \A s \in Threads : user[s] # o /\ reaper[s] # o
  /\ reaper' = [reaper EXCEPT ![t] = o]
  /\ UNCHANGED <<life, user>>

Destroy(t) ==
  /\ reaper[t] # Nobody
  /\ life[reaper[t]] = "live"
  /\ life' = [life EXCEPT ![reaper[t]] = "gone"]
  /\ UNCHANGED <<user, reaper>>

Release(t) ==
  /\ reaper[t] # Nobody
  /\ life[reaper[t]] = "gone"
  /\ reaper' = [reaper EXCEPT ![t] = Nobody]
  /\ UNCHANGED <<life, user>>

Next ==
  \E t \in Threads :
    \/ \E o \in Objects, end \in {"live", "gone", "lost"} : Construct(t, o, end)
    \/ \E o \in Objects : Borrow(t, o) \/ Claim(t, o)
    \/ GiveBack(t) \/ Destroy(t) \/ Release(t)

Spec == Init /\ [][Next]_vars
=============================================================================
