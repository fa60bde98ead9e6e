------------------------------ MODULE MCValues ------------------------------
(***************************************************************************)
(* What one side of the border between Java and the library gives, and     *)
(* what the other gets: the contents of URIs, the labels of events,        *)
(* addresses, and flags.  The four modules share no state; in a behaviour  *)
(* one of them moves, so that the run goes through the sum of their states *)
(* and not through the product.                                            *)
(***************************************************************************)
EXTENDS EjfatUris, EventLabels, Addresses, ConfigFlags

(* Two URIs, a manager and a Reassembler over two cells, so that a cell is *)
(* given out again; one value, to tell what was set from what was not.  A  *)
(* Segmenter has a copy as the Reassembler has, and nothing to change it.  *)
CONSTANTS u1, u2, m1, r1, a1, a2, v1

MCUris == {u1, u2}
MCManagers == {m1}
MCSegmenters == {}
MCReassemblers == {r1}
MCAddrs == {a1, a2}
MCValues == {v1}
MCMaxSets == 2

(* What the library makes of "ejfat://token@host": no data, no session.    *)
MCUriStrings ==
  {[token |-> v1, others |-> [f \in Field \ Token |-> IF f \in {"cpAddr", "cpHost"}
                                                        THEN v1 ELSE Unset]]}

Symmetric == Permutations(MCUris) \cup Permutations(MCAddrs)

(* Longs of five bits, ints of four and dataIds of two: an int and a long  *)
(* can be negative, just fit, and be too large by one or by a whole turn.  *)
(* Two events, so that one can overtake the other.                         *)
MCLong == 16
MCInt32 == 8
MCShort == 2
MCEventNumbers == {-16, -1, 0, 1, 15}
MCDataIds == {-1, 0, 3, 4, 5}
MCSourceIds == {-1, 0, 7, 8}
MCInternalNumbers == {1, 17}
MCMaxSends == 2

(* Bytes of four values.  IPv4 addresses with four bytes that differ, that *)
(* read the same backwards, and with the highest byte value; IPv6          *)
(* addresses that do not read the same backwards, one of them with ffff    *)
(* near the wrong end; ports that fit and one that does not.               *)
MCByte == 4
MCPort == 4
MCAddresses4 == {<<1, 2, 3, 0>>, <<2, 1, 1, 2>>, <<0, 3, 0, 1>>}
MCAddresses6 == {<<1>> \o [i \in 1 .. 14 |-> 0] \o <<2>>,
                 [i \in 1 .. 16 |-> IF i \in {5, 6} THEN 3 ELSE 0]}
MCPorts == {0, 3, 5}

(* Two assignments, which is enough for two fields to be mixed up, and two *)
(* instances, so that an object is changed after it was used.              *)
MCMaxChanges == 2
MCMaxInstances == 2

VARIABLE part   \* the module that moves

MCInit ==
  /\ part \in {"uris", "labels", "addresses", "flags"}
  /\ Init /\ LabelInit /\ AddressInit /\ FlagInit
  /\ part # "addresses" => node = CHOOSE n \in Nodes : TRUE

MCNext ==
  \/ /\ part = "uris" /\ Next
     /\ UNCHANGED <<part, labelVars, addressVars, flagVars>>
  \/ /\ part = "labels" /\ LabelNext
     /\ UNCHANGED <<part, vars, addressVars, flagVars>>
  \/ /\ part = "addresses" /\ AddressNext
     /\ UNCHANGED <<part, vars, labelVars, flagVars>>
  \/ /\ part = "flags" /\ FlagNext
     /\ UNCHANGED <<part, vars, labelVars, addressVars>>

(* The states of the four modules have their types: numbers have the width *)
(* of the field they travel in, and flags are read with the type they are  *)
(* declared with.                                                          *)
MCTypeOK == TypeOK /\ LabelTypeOK /\ AddressTypeOK /\ FlagTypeOK

MCSpec == MCInit /\ [][MCNext]_<<part, vars, labelVars, addressVars, flagVars>>
=============================================================================
