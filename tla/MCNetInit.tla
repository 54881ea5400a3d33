------------------------------ MODULE MCNetInit ------------------------------
EXTENDS NetInit, TLC

ThreadSymmetry == Permutations(Threads)
===============================================================================
