---------------------------- MODULE MCThreadWork ----------------------------
(* Two jobs, which may share a thread or not, over one slot. Threads are    *)
(* symmetric.                                                              *)
EXTENDS ThreadWork, TLC

CONSTANTS a, b

MCJob == 1 .. 2
MCThread == {a, b}
MCOneThread == {a}
MCThreads == Permutations(Thread)
=============================================================================
