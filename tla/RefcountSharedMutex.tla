------------------------- MODULE RefcountSharedMutex -------------------------
(***************************************************************************)
(* FEXCore::Utils::refcount_shared_mutex: a reader-writer lock on one      *)
(* futex word.  A caller is one use of the lock; a thread that locks it    *)
(* shared twice is two callers.  TryUniqueLock, TryRefIncrement and        *)
(* TryRefDecrement take effect at one load or compare-exchange and are one *)
(* step each; the futex calls are separate steps.                          *)
(*                                                                         *)
(* Where a caller is:                                                      *)
(*   "idle"      does not use the lock                                     *)
(*   "wwait"     lock() failed and is about to call FUTEX_WAIT             *)
(*   "wsleep"    ... sleeps                                                *)
(*   "wretry"    ... is about to try again                                 *)
(*   "unique"    holds the lock unique                                     *)
(*   "wake all"  has released it and is about to wake everyone             *)
(*   "rwait", "rsleep"   lock_shared() likewise                            *)
(*   "rload"     ... is about to reload the futex word                     *)
(*   "rretry"    ... is about to try again                                 *)
(*   "shared"    holds a reference                                         *)
(*   "wake one"  has dropped the last one and is about to wake one caller  *)
(***************************************************************************)
EXTENDS Integers, FiniteSets

CONSTANTS
    Callers,
    UNIQUE_LOCK_VALUE,
    Blocking        \* lock_shared is used; otherwise only try_lock_shared

ASSUME CallerAssumption == IsFiniteSet(Callers)
ASSUME ValueAssumption == UNIQUE_LOCK_VALUE \in Nat /\ UNIQUE_LOCK_VALUE > Cardinality(Callers)
ASSUME BlockingAssumption == Blocking \in BOOLEAN

VARIABLES
    Futex,      \* the futex word
    pc,
    Expected    \* the value the caller will pass to FUTEX_WAIT

vars == <<Futex, pc, Expected>>

Sleeping == {"wsleep", "rsleep"}

Values == 0 .. Cardinality(Callers) \cup {UNIQUE_LOCK_VALUE}

TypeOK ==
    /\ Futex \in Values
    /\ pc \in [Callers -> {"idle", "wwait", "wsleep", "wretry", "unique", "wake all", "rwait",
                           "rsleep", "rload", "rretry", "shared", "wake one"}]
    /\ Expected \in [Callers -> Values]

Init ==
    /\ Futex = 0
    /\ pc = [c \in Callers |-> "idle"]
    /\ Expected = [c \in Callers |-> 0]

Goto(c, l) == pc' = [pc EXCEPT ![c] = l]

-----------------------------------------------------------------------------
(* Unique *)

\* Mutant: a caller whose wait has ended takes the lock without looking.
LockAfterWait(c) ==
    /\ pc[c] \in {"idle", "wretry"}
    /\ IF Futex = 0 \/ (pc[c] = "wretry" /\ Futex = UNIQUE_LOCK_VALUE)
       THEN Futex' = UNIQUE_LOCK_VALUE /\ Goto(c, "unique") /\ UNCHANGED Expected
       ELSE /\ Expected' = [Expected EXCEPT ![c] = Futex]
            /\ Goto(c, "wwait")
            /\ UNCHANGED Futex

\* TryUniqueLock in lock(): take the lock, or remember what was there.
Lock(c) ==
    /\ pc[c] \in {"idle", "wretry"}
    /\ IF Futex = 0
       THEN Futex' = UNIQUE_LOCK_VALUE /\ Goto(c, "unique") /\ UNCHANGED Expected
       ELSE /\ Expected' = [Expected EXCEPT ![c] = Futex]
            /\ Goto(c, "wwait")
            /\ UNCHANGED Futex

\* FUTEX_WAIT sleeps if the word still has the value, and returns if not.
WaitUnique(c) ==
    /\ pc[c] = "wwait"
    /\ Goto(c, IF Futex = Expected[c] THEN "wsleep" ELSE "wretry")
    /\ UNCHANGED <<Futex, Expected>>

Unlock(c) ==
    /\ pc[c] = "unique"
    /\ Futex' = 0
    /\ Goto(c, "wake all")
    /\ UNCHANGED Expected

\* Where a caller continues when FUTEX_WAIT returns.
Woken(l) == IF l = "wsleep" THEN "wretry" ELSE "rload"

WakeAll(c) ==
    /\ pc[c] = "wake all"
    /\ pc' = [d \in Callers |-> IF d = c THEN "idle"
                                ELSE IF pc[d] \in Sleeping THEN Woken(pc[d]) ELSE pc[d]]
    /\ UNCHANGED <<Futex, Expected>>

-----------------------------------------------------------------------------
(* Shared *)

\* try_lock_shared, and the first attempt of lock_shared
LockShared(c) ==
    /\ pc[c] = "idle"
    /\ IF Futex # UNIQUE_LOCK_VALUE
       THEN Futex' = Futex + 1 /\ Goto(c, "shared") /\ UNCHANGED Expected
       ELSE /\ Blocking
            /\ Expected' = [Expected EXCEPT ![c] = UNIQUE_LOCK_VALUE]
            /\ Goto(c, "rwait")
            /\ UNCHANGED Futex

WaitShared(c) ==
    /\ pc[c] = "rwait"
    /\ Goto(c, IF Futex = Expected[c] THEN "rsleep" ELSE "rload")
    /\ UNCHANGED <<Futex, Expected>>

\* Expected = Futex.load()
Reload(c) ==
    /\ pc[c] = "rload"
    /\ Expected' = [Expected EXCEPT ![c] = Futex]
    /\ Goto(c, IF Futex = UNIQUE_LOCK_VALUE THEN "rwait" ELSE "rretry")
    /\ UNCHANGED Futex

\* Mutant: a reader that has slept enters without counting itself.
RetryUncounted(c) ==
    /\ pc[c] = "rretry"
    /\ Goto(c, IF Futex # UNIQUE_LOCK_VALUE THEN "shared" ELSE "rwait")
    /\ UNCHANGED <<Futex, Expected>>

\* TryRefIncrement; when it fails Expected keeps the value loaded before.
RetryShared(c) ==
    /\ pc[c] = "rretry"
    /\ IF Futex # UNIQUE_LOCK_VALUE
       THEN Futex' = Futex + 1 /\ Goto(c, "shared")
       ELSE Goto(c, "rwait") /\ UNCHANGED Futex
    /\ UNCHANGED Expected

UnlockShared(c) ==
    /\ pc[c] = "shared"
    /\ Futex # UNIQUE_LOCK_VALUE
    /\ Futex' = Futex - 1
    /\ Goto(c, IF Futex = 1 THEN "wake one" ELSE "idle")
    /\ UNCHANGED Expected

WakeOne(c) ==
    /\ pc[c] = "wake one"
    /\ IF \E d \in Callers : pc[d] \in Sleeping
       THEN \E d \in Callers :
               /\ pc[d] \in Sleeping
               /\ pc' = [pc EXCEPT ![c] = "idle", ![d] = Woken(pc[d])]
       ELSE Goto(c, "idle")
    /\ UNCHANGED <<Futex, Expected>>

-----------------------------------------------------------------------------

UniqueStep(c) == Lock(c) \/ WaitUnique(c) \/ Unlock(c) \/ WakeAll(c)
SharedStep(c) == LockShared(c) \/ WaitShared(c) \/ Reload(c) \/ RetryShared(c)
                   \/ UnlockShared(c) \/ WakeOne(c)

Next == \E c \in Callers : UniqueStep(c) \/ SharedStep(c)

Spec == Init /\ [][Next]_vars

-----------------------------------------------------------------------------
(* Properties *)

Sharers == {c \in Callers : pc[c] = "shared"}

\* A unique holder is alone: no other holder, unique or shared.
MutualExclusion ==
    \A c, d \in Callers : pc[c] = "unique" /\ c # d => pc[d] \notin {"unique", "shared"}

\* The word counts the shared holders, and unlock_shared always finds its
\* reference there.
CountsSharers ==
    IF Futex = UNIQUE_LOCK_VALUE THEN Sharers = {} ELSE Futex = Cardinality(Sharers)

\* What the callers see: where a caller's last compare-exchange has put it.
Holding(c) ==
    IF pc[c] = "unique" THEN "unique" ELSE IF pc[c] = "shared" THEN "shared" ELSE "none"

Abstract == INSTANCE SharedLock WITH holds <- [c \in Callers |-> Holding(c)]

\* The futex word, the retries and the wake-ups implement a reader-writer
\* lock: every step acquires it as the abstract lock allows, releases it, or
\* changes nothing that a caller can see.
ImplementsSharedLock == Abstract!Spec

\* Nobody sleeps on a free lock that no one is about to release or to take:
\* a caller that waits has someone who will wake it.
NoLostWakeup ==
    (\E c \in Callers : pc[c] \in Sleeping) =>
        Futex # 0 \/ \E d \in Callers : pc[d] \notin Sleeping \cup {"idle"}
=============================================================================
