----------------------------- MODULE MCLocalCA -----------------------------
(* Instances of LocalCA: one thread with crashes, and two threads.         *)
EXTENDS LocalCA, TLC

ThreadSymmetry == Permutations(Threads)
=============================================================================
