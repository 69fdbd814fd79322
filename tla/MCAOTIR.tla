------------------------------ MODULE MCAOTIR -------------------------------
(* Small instances of AOTIR.                                                 *)
EXTENDS AOTIR, TLC

CONSTANTS t1, t2, v1, v2

ThreadSymmetry == Permutations(Threads)
=============================================================================
