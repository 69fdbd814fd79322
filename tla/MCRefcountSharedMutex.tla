------------------------ MODULE MCRefcountSharedMutex ------------------------
(* Small instances of RefcountSharedMutex; callers are interchangeable.      *)
EXTENDS RefcountSharedMutex, TLC

CallerSymmetry == Permutations(Callers)
=============================================================================
