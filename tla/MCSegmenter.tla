---------------------------- MODULE MCSegmenter ----------------------------
(* Two application threads and two buffers, so that one buffer is queued   *)
(* twice and two adds race for the last place; a queue of two; three       *)
(* reference slots, so that slots are reused, and some are lost to events  *)
(* that were refused.                                                      *)
EXTENDS Segmenter

CONSTANTS t1, t2, b1, b2, r1, r2, r3

MCThreads == {t1, t2}
MCBuffers == {b1, b2}
MCRefs == {r1, r2, r3}
=============================================================================
