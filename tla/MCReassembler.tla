--------------------------- MODULE MCReassembler ---------------------------
(* Two threads on one queue, three events, of which a queue of two loses   *)
(* the last when nobody takes any.                                         *)
EXTENDS Reassembler

CONSTANTS t1, t2

MCThreads == {t1, t2}
=============================================================================
