---------------------------- MODULE MCGroupQueue ----------------------------
(* Model-checking instance of GroupQueue: two writer threads, a delay that *)
(* is either zero or non-zero, and small bounds on messages and calls.    *)
EXTENDS GroupQueue, TLC

CONSTANTS w1, w2

MCWriters == {w1, w2}

\* Writers are interchangeable threads.
MCSymmetry == Permutations(MCWriters)

=============================================================================
