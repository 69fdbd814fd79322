------------------------------ MODULE SharedLock ------------------------------
(***************************************************************************)
(* What a reader-writer lock promises its callers: a caller acquires it    *)
(* unique when nobody holds it, and shared when nobody holds it unique.    *)
(***************************************************************************)

CONSTANT Callers

VARIABLE holds      \* caller -> "none", "unique" or "shared"

Init == holds = [c \in Callers |-> "none"]

Acquire(c) ==
    /\ \A d \in Callers : holds[d] = "none"
    /\ holds' = [holds EXCEPT ![c] = "unique"]

AcquireShared(c) ==
    /\ holds[c] = "none"
    /\ \A d \in Callers : holds[d] # "unique"
    /\ holds' = [holds EXCEPT ![c] = "shared"]

Release(c) ==
    /\ holds[c] # "none"
    /\ holds' = [holds EXCEPT ![c] = "none"]

Next == \E c \in Callers : Acquire(c) \/ AcquireShared(c) \/ Release(c)

Spec == Init /\ [][Next]_holds
=============================================================================
