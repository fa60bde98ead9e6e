--------------------------- MODULE MCNativePeers ---------------------------
(* Three threads, two URIs, an LbManager and a Segmenter or Reassembler, and *)
(* three heap cells for four objects, so that addresses are reused.        *)
EXTENDS NativePeers, TLC

CONSTANTS t1, t2, t3, u1, u2, m1, p1, a1, a2, a3

MCThreads == {t1, t2, t3}
MCUris == {u1, u2}
MCManagers == {m1}
MCPipes == {p1}
MCAddrs == {a1, a2, a3}

Symmetric == Permutations(MCThreads) \cup Permutations(MCUris) \cup Permutations(MCAddrs)
=============================================================================
