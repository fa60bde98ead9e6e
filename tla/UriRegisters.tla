---------------------------- MODULE UriRegisters ----------------------------
(***************************************************************************)
(* What the users of EjfatURI, LbManager, Segmenter and Reassembler are    *)
(* promised about URIs: every one of these objects has a URI of its own,   *)
(* taken over from another object at most when it is made.  A URI is a     *)
(* register for each of its fields, and a call writes to the URI of one    *)
(* object.                                                                 *)
(***************************************************************************)
CONSTANTS
  Owners,  \* the objects that have a URI
  Field,   \* the fields of a URI
  Data,    \* what a field may hold
  Groups,  \* the sets of fields that one call writes
  Unborn,  \* in place of its URI: the object was not made yet
  Freed    \* it was freed

VARIABLE value  \* the URI of each object

Init == value = [o \in Owners |-> Unborn]

Make(o) ==
  /\ value[o] = Unborn
  /\ value'[o] \in [Field -> Data]
  /\ value' = [value EXCEPT ![o] = value'[o]]

Copy(o, from) ==
  /\ value[o] = Unborn
  /\ value[from] \notin {Unborn, Freed}
  /\ value' = [value EXCEPT ![o] = value[from]]

Write(o, fields) ==
  /\ value[o] \notin {Unborn, Freed}
  /\ \E d \in Data :
       value' = [value EXCEPT ![o] = [f \in Field |-> IF f \in fields THEN d ELSE @[f]]]

Drop(o) ==
  /\ value[o] \notin {Unborn, Freed}
  /\ value' = [value EXCEPT ![o] = Freed]

Next ==
  \E o \in Owners :
    \/ Make(o) \/ Drop(o)
    \/ \E from \in Owners : Copy(o, from)
    \/ \E fields \in Groups : Write(o, fields)

Spec == Init /\ [][Next]_value
=============================================================================
