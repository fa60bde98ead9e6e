------------------------------ MODULE MCLbadm ------------------------------
(* Two shells, two reservations and one session.  The command lines: one  *)
(* of each command, register with and without --export, three that lack a  *)
(* required option, and one with two commands.                             *)
EXTENDS Lbadm, TLC

CONSTANTS sh1, sh2, lb1, lb2, s1

MCShells == {sh1, sh2}
MCReservations == {lb1, lb2}
MCSessions == {s1}

MCCommandLines == {
  {"reserve", "lbname", "address", "export"},
  {"free"}, {"status"},
  {"register", "name", "address", "port"},
  {"register", "name", "address", "port", "export"},
  {"state"}, {"deregister"},
  {"addsenders", "address"}, {"removesenders", "address"},
  {"register", "name", "address", "port", "lbid"}, {"free", "lbid"},
  {"state", "session"}, {"state", "uri"},
  {"reserve", "lbname"}, {"register", "name", "address"}, {"removesenders"},
  {"reserve", "free", "lbname", "address"}, {"status", "ipv4", "ipv6"},
  {"help"}}

Symmetric == Permutations(MCShells) \cup Permutations(MCReservations)
=============================================================================
