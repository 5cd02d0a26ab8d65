------------------------------ MODULE MCRunner ------------------------------
(* Instances of Runner for TLC.                                            *)
EXTENDS Runner

CONSTANTS w1, w2, w3

TwoWorkers   == {w1, w2}
ThreeWorkers == {w1, w2, w3}

(* A rejected count, and every pool size the workers allow.                *)
RealPools == {-1, 1, 2, 3}
NoThreads == {0, 1}
=============================================================================
