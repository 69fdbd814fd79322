---------------------- MODULE RefcountSharedMutexProofs ----------------------
(* Mutual exclusion of refcount_shared_mutex for any finite set of callers. *)
EXTENDS RefcountSharedMutex, FiniteSetTheorems, TLAPS

Uniques == {c \in Callers : pc[c] = "unique"}

\* Either the word has the unique value and one caller holds the lock, or it
\* counts the shared holders and nobody holds the lock unique.
WordInv ==
    \/ /\ Futex = UNIQUE_LOCK_VALUE
       /\ Sharers = {}
       /\ \E c \in Callers : Uniques = {c}
    \/ /\ Futex = Cardinality(Sharers)
       /\ Uniques = {}

LockInv == TypeOK /\ WordInv

\* The number of shared holders is a number, and no more than all callers.
LEMMA SharersFinite ==
    /\ IsFiniteSet(Sharers)
    /\ Cardinality(Sharers) \in 0 .. Cardinality(Callers)
<1>1. Sharers \subseteq Callers
  BY DEF Sharers
<1>2. IsFiniteSet(Sharers) /\ Cardinality(Sharers) <= Cardinality(Callers)
  BY <1>1, CallerAssumption, FS_Subset
<1>3. Cardinality(Sharers) \in Nat /\ Cardinality(Callers) \in Nat
  BY <1>2, CallerAssumption, FS_CardinalityType
<1> QED
  BY <1>2, <1>3

\* The count is never the unique value.
LEMMA CountNotUnique == Cardinality(Sharers) # UNIQUE_LOCK_VALUE
<1>1. Cardinality(Callers) \in Nat
  BY CallerAssumption, FS_CardinalityType
<1> QED
  BY <1>1, SharersFinite, ValueAssumption

\* A step that moves callers only between places that hold nothing.
LEMMA HoldersUnchanged ==
    ASSUME WordInv, UNCHANGED Futex, Sharers' = Sharers, Uniques' = Uniques
    PROVE  WordInv'
  BY DEF WordInv

\* The futex word can count all callers.
LEMMA CountIsValue ==
    ASSUME NEW n \in Nat, n <= Cardinality(Callers)
    PROVE  n \in Values
<1>1. Cardinality(Callers) \in Nat
  BY CallerAssumption, FS_CardinalityType
<1>2. n \in 0 .. Cardinality(Callers)
  BY <1>1
<1> QED
  BY <1>2 DEF Values

\* One more shared holder.
LEMMA SharerEnters ==
    ASSUME LockInv, NEW c \in Callers, pc[c] \notin {"shared", "unique"},
           Futex # UNIQUE_LOCK_VALUE,
           Futex' = Futex + 1, pc' = [pc EXCEPT ![c] = "shared"]
    PROVE  WordInv' /\ Futex' \in Values
<1>1. Futex = Cardinality(Sharers) /\ Uniques = {}
  BY DEF LockInv, WordInv
<1>2. Sharers' = Sharers \cup {c} /\ c \notin Sharers
  BY DEF Sharers, LockInv, TypeOK
<1>3. Uniques' = {}
  BY <1>1 DEF Uniques, LockInv, TypeOK
<1>4. Cardinality(Sharers \cup {c}) = Cardinality(Sharers) + 1
  BY <1>2, SharersFinite, FS_AddElement
<1>5. Sharers \cup {c} \subseteq Callers
  BY DEF Sharers
<1>6. Cardinality(Sharers \cup {c}) <= Cardinality(Callers)
  BY <1>5, CallerAssumption, FS_Subset
<1>7. Cardinality(Callers) \in Nat
  BY CallerAssumption, FS_CardinalityType
<1>8. WordInv'
  BY <1>1, <1>2, <1>3, <1>4 DEF WordInv
<1>9. Futex' \in Values
  BY <1>1, <1>4, <1>6, <1>7, SharersFinite DEF Values
<1> QED
  BY <1>8, <1>9

\* One shared holder less.
LEMMA SharerLeaves ==
    ASSUME LockInv, NEW c \in Callers, UnlockShared(c)
    PROVE  LockInv'
<1>1. Futex = Cardinality(Sharers) /\ Uniques = {}
  BY DEF LockInv, WordInv, UnlockShared
<1>2. PICK l \in {"wake one", "idle"} : pc' = [pc EXCEPT ![c] = l]
  BY Zenon DEF UnlockShared, Goto
<1>3. Sharers' = Sharers \ {c} /\ c \in Sharers
  BY <1>2 DEF Sharers, LockInv, TypeOK, UnlockShared
<1>4. Uniques' = {}
  BY <1>1, <1>2 DEF Uniques, LockInv, TypeOK
<1>5. Cardinality(Sharers \ {c}) = Cardinality(Sharers) - 1
  BY <1>3, SharersFinite, FS_RemoveElement
<1>6. Futex' = Cardinality(Sharers) - 1 /\ Expected' = Expected
  BY <1>1 DEF UnlockShared
<1>7. WordInv'
  BY <1>3, <1>4, <1>5, <1>6 DEF WordInv
<1>8. IsFiniteSet(Sharers \ {c})
  BY SharersFinite, FS_Subset
<1>9. Cardinality(Sharers \ {c}) \in Nat
  BY <1>8, FS_CardinalityType
<1>10. Futex' \in Values
  <2>1. Sharers \ {c} \subseteq Callers
    BY DEF Sharers
  <2>2. Cardinality(Sharers \ {c}) <= Cardinality(Callers)
    BY <2>1, CallerAssumption, FS_Subset
  <2> QED
    BY <1>5, <1>6, <1>9, <2>2, CountIsValue
<1>11. pc' \in [Callers -> {"idle", "wwait", "wsleep", "wretry", "unique", "wake all", "rwait",
                            "rsleep", "rload", "rretry", "shared", "wake one"}]
  BY <1>2 DEF LockInv, TypeOK
<1> QED
  BY <1>6, <1>7, <1>10, <1>11 DEF LockInv, TypeOK

\* The steps of lock() and unlock().
LEMMA UniqueSafe ==
    ASSUME LockInv, NEW c \in Callers, UniqueStep(c)
    PROVE  LockInv'
<1> USE DEF LockInv
<1>1. CASE Lock(c)
  <2>1. CASE Futex = 0
    <3>1. /\ Futex' = UNIQUE_LOCK_VALUE /\ Expected' = Expected
          /\ pc' = [pc EXCEPT ![c] = "unique"] /\ pc[c] \in {"idle", "wretry"}
      BY <1>1, <2>1 DEF Lock, Goto
    <3>2. Futex # UNIQUE_LOCK_VALUE
      <4>1. Cardinality(Callers) \in Nat
        BY CallerAssumption, FS_CardinalityType
      <4> QED
        BY <2>1, <4>1, ValueAssumption
    <3>3. Cardinality(Sharers) = 0 /\ Uniques = {}
      BY <2>1, <3>2 DEF WordInv
    <3>4. Sharers = {}
      BY <3>3, SharersFinite, FS_EmptySet
    <3>5. Sharers' = {}
      BY <3>1, <3>4 DEF Sharers, TypeOK
    <3>6. Uniques' = {c}
      BY <3>1, <3>3 DEF Uniques, TypeOK
    <3> QED
      BY <3>1, <3>5, <3>6 DEF TypeOK, WordInv, Values
  <2>2. CASE Futex # 0
    <3>1. /\ Futex' = Futex /\ pc' = [pc EXCEPT ![c] = "wwait"]
          /\ pc[c] \in {"idle", "wretry"} /\ Expected' = [Expected EXCEPT ![c] = Futex]
      BY <1>1, <2>2 DEF Lock, Goto
    <3>2. Sharers' = Sharers /\ Uniques' = Uniques
      BY <3>1 DEF Sharers, Uniques, TypeOK
    <3> QED
      BY <3>1, <3>2, HoldersUnchanged DEF TypeOK
  <2> QED
    BY <2>1, <2>2
<1>2. CASE WaitUnique(c)
  <2>1. PICK l \in {"wsleep", "wretry"} : pc' = [pc EXCEPT ![c] = l]
    BY <1>2, Zenon DEF WaitUnique, Goto
  <2>2. pc[c] = "wwait" /\ UNCHANGED <<Futex, Expected>>
    BY <1>2 DEF WaitUnique
  <2>3. Sharers' = Sharers /\ Uniques' = Uniques
    BY <2>1, <2>2 DEF Sharers, Uniques, TypeOK
  <2> QED
    BY <2>1, <2>2, <2>3, HoldersUnchanged DEF TypeOK
<1>3. CASE Unlock(c)
  <2>1. Futex' = 0 /\ Expected' = Expected /\ pc[c] = "unique" /\ pc' = [pc EXCEPT ![c] = "wake all"]
    BY <1>3 DEF Unlock, Goto
  <2>2. c \in Uniques
    BY <2>1 DEF Uniques
  <2>3. Sharers = {} /\ Uniques = {c}
    BY <2>2 DEF WordInv
  <2>4. Sharers' = {} /\ Uniques' = {}
    BY <2>1, <2>3 DEF Sharers, Uniques, TypeOK
  <2>5. Cardinality({}) = 0
    BY FS_EmptySet
  <2>6. Futex' \in Values
    <3>1. Cardinality(Callers) \in Nat
      BY CallerAssumption, FS_CardinalityType
    <3>2. 0 \in Values
      BY <3>1 DEF Values
    <3> QED
      BY <2>1, <3>2
  <2>7. TypeOK'
    BY <2>1, <2>6 DEF TypeOK
  <2>8. WordInv'
    BY <2>1, <2>4, <2>5 DEF WordInv
  <2> QED
    BY <2>7, <2>8
<1>4. CASE WakeAll(c)
  <2>1. /\ pc' = [d \in Callers |-> IF d = c THEN "idle"
                                    ELSE IF pc[d] \in Sleeping THEN Woken(pc[d]) ELSE pc[d]]
        /\ UNCHANGED <<Futex, Expected>> /\ pc[c] = "wake all"
    BY <1>4 DEF WakeAll
  <2>2. pc' \in [Callers -> {"idle", "wwait", "wsleep", "wretry", "unique", "wake all", "rwait",
                             "rsleep", "rload", "rretry", "shared", "wake one"}]
    BY <2>1 DEF TypeOK, Woken
  <2>3. Sharers' = Sharers /\ Uniques' = Uniques
    BY <2>1 DEF Sharers, Uniques, Sleeping, Woken
  <2> QED
    BY <2>1, <2>2, <2>3, HoldersUnchanged DEF TypeOK
<1> QED
  BY <1>1, <1>2, <1>3, <1>4 DEF UniqueStep

\* The steps of lock_shared() and unlock_shared().
LEMMA SharedSafe ==
    ASSUME LockInv, NEW c \in Callers, SharedStep(c)
    PROVE  LockInv'
<1> USE DEF LockInv
<1>1. CASE LockShared(c)
  <2>1. CASE Futex # UNIQUE_LOCK_VALUE
    <3>1. Futex' = Futex + 1 /\ pc' = [pc EXCEPT ![c] = "shared"] /\ Expected' = Expected
          /\ pc[c] = "idle"
      BY <1>1, <2>1 DEF LockShared, Goto
    <3> QED
      BY <2>1, <3>1, SharerEnters DEF TypeOK
  <2>2. CASE Futex = UNIQUE_LOCK_VALUE
    <3>1. /\ Futex' = Futex /\ pc' = [pc EXCEPT ![c] = "rwait"] /\ pc[c] = "idle"
          /\ Expected' = [Expected EXCEPT ![c] = UNIQUE_LOCK_VALUE]
      BY <1>1, <2>2 DEF LockShared, Goto
    <3>2. Sharers' = Sharers /\ Uniques' = Uniques
      BY <3>1 DEF Sharers, Uniques, TypeOK
    <3> QED
      BY <3>1, <3>2, HoldersUnchanged DEF TypeOK, Values
  <2> QED
    BY <2>1, <2>2
<1>2. CASE WaitShared(c)
  <2>1. PICK l \in {"rsleep", "rload"} : pc' = [pc EXCEPT ![c] = l]
    BY <1>2, Zenon DEF WaitShared, Goto
  <2>2. pc[c] = "rwait" /\ UNCHANGED <<Futex, Expected>>
    BY <1>2 DEF WaitShared
  <2>3. Sharers' = Sharers /\ Uniques' = Uniques
    BY <2>1, <2>2 DEF Sharers, Uniques, TypeOK
  <2> QED
    BY <2>1, <2>2, <2>3, HoldersUnchanged DEF TypeOK
<1>3. CASE Reload(c)
  <2>1. PICK l \in {"rwait", "rretry"} : pc' = [pc EXCEPT ![c] = l]
    BY <1>3, Zenon DEF Reload, Goto
  <2>2. pc[c] = "rload" /\ Futex' = Futex /\ Expected' = [Expected EXCEPT ![c] = Futex]
    BY <1>3 DEF Reload
  <2>3. Sharers' = Sharers /\ Uniques' = Uniques
    BY <2>1, <2>2 DEF Sharers, Uniques, TypeOK
  <2> QED
    BY <2>1, <2>2, <2>3, HoldersUnchanged DEF TypeOK
<1>4. CASE RetryShared(c)
  <2>0. pc[c] = "rretry" /\ Expected' = Expected
    BY <1>4 DEF RetryShared
  <2>1. CASE Futex # UNIQUE_LOCK_VALUE
    <3>1. Futex' = Futex + 1 /\ pc' = [pc EXCEPT ![c] = "shared"]
      BY <1>4, <2>1 DEF RetryShared, Goto
    <3> QED
      BY <2>0, <2>1, <3>1, SharerEnters DEF TypeOK
  <2>2. CASE Futex = UNIQUE_LOCK_VALUE
    <3>1. Futex' = Futex /\ pc' = [pc EXCEPT ![c] = "rwait"]
      BY <1>4, <2>2 DEF RetryShared, Goto
    <3>2. Sharers' = Sharers /\ Uniques' = Uniques
      BY <2>0, <3>1 DEF Sharers, Uniques, TypeOK
    <3> QED
      BY <2>0, <3>1, <3>2, HoldersUnchanged DEF TypeOK
  <2> QED
    BY <2>1, <2>2
<1>5. CASE UnlockShared(c)
  BY <1>5, SharerLeaves
<1>6. CASE WakeOne(c)
  <2>0. pc[c] = "wake one" /\ UNCHANGED <<Futex, Expected>>
    BY <1>6 DEF WakeOne
  <2>1. CASE pc' = [pc EXCEPT ![c] = "idle"]
    <3>1. Sharers' = Sharers /\ Uniques' = Uniques
      BY <2>0, <2>1 DEF Sharers, Uniques, TypeOK
    <3> QED
      BY <2>0, <2>1, <3>1, HoldersUnchanged DEF TypeOK
  <2>2. ASSUME NEW d \in Callers, pc[d] \in Sleeping,
               pc' = [pc EXCEPT ![c] = "idle", ![d] = Woken(pc[d])]
        PROVE  LockInv'
    <3>1. Woken(pc[d]) \in {"wretry", "rload"}
      BY DEF Woken
    <3>2. Sharers' = Sharers /\ Uniques' = Uniques
      BY <2>0, <2>2, <3>1 DEF Sharers, Uniques, TypeOK, Sleeping
    <3> QED
      BY <2>0, <2>2, <3>1, <3>2, HoldersUnchanged DEF TypeOK
  <2> QED
    BY <1>6, <2>1, <2>2 DEF WakeOne, Goto
<1> QED
  BY <1>1, <1>2, <1>3, <1>4, <1>5, <1>6 DEF SharedStep

\* The invariant holds initially and every step keeps it.
THEOREM LockInvariant == Spec => []LockInv
<1>1. Init => LockInv
  <2> SUFFICES ASSUME Init PROVE LockInv
    OBVIOUS
  <2>1. Sharers = {} /\ Uniques = {}
    BY DEF Init, Sharers, Uniques
  <2>2. Cardinality({}) = 0 /\ Cardinality(Callers) \in Nat
    BY CallerAssumption, FS_EmptySet, FS_CardinalityType
  <2>3. 0 \in Values
    BY <2>2 DEF Values
  <2> QED
    BY <2>1, <2>2, <2>3 DEF Init, LockInv, TypeOK, WordInv
<1>2. LockInv /\ [Next]_vars => LockInv'
  <2> SUFFICES ASSUME LockInv, [Next]_vars PROVE LockInv'
    OBVIOUS
  <2>1. CASE UNCHANGED vars
    <3>1. Sharers' = Sharers /\ Uniques' = Uniques
      BY <2>1 DEF vars, Sharers, Uniques
    <3> QED
      BY <2>1, <3>1, HoldersUnchanged DEF vars, LockInv, TypeOK
  <2> QED
    BY <2>1, UniqueSafe, SharedSafe DEF Next
<1> QED
  BY <1>1, <1>2, PTL DEF Spec

\* At any time a unique holder is the only holder, and the futex word counts
\* the shared holders, for every number of callers.
THEOREM MutexSafe == Spec => [](TypeOK /\ MutualExclusion /\ CountsSharers)
<1>1. LockInv => TypeOK /\ MutualExclusion /\ CountsSharers
  <2> SUFFICES ASSUME LockInv PROVE MutualExclusion /\ CountsSharers
    BY DEF LockInv
  <2>1. MutualExclusion
    BY DEF LockInv, WordInv, MutualExclusion, Uniques, Sharers
  <2>2. CountsSharers
    BY CountNotUnique DEF LockInv, WordInv, CountsSharers
  <2> QED
    BY <2>1, <2>2
<1> QED
  BY <1>1, LockInvariant, PTL

-----------------------------------------------------------------------------
(* Refinement *)

Held == [c \in Callers |-> Holding(c)]

\* A step whose caller holds the same before and after it, as everyone else.
LEMMA NothingSeen ==
    ASSUME LockInv, Sharers' = Sharers, Uniques' = Uniques
    PROVE  UNCHANGED Held
<1>1. \A d \in Callers : Holding(d)' = Holding(d)
  BY DEF Holding, Sharers, Uniques
<1> QED
  BY <1>1 DEF Held

\* The steps of lock() and unlock() are Acquire, Release or nothing.
LEMMA UniqueImplements ==
    ASSUME LockInv, NEW c \in Callers, UniqueStep(c)
    PROVE  Abstract!Next \/ UNCHANGED Held
<1> USE DEF LockInv
<1>1. CASE Lock(c) /\ Futex = 0
  <2>1. pc' = [pc EXCEPT ![c] = "unique"]
    BY <1>1 DEF Lock, Goto
  <2>2. Futex # UNIQUE_LOCK_VALUE
    <3>1. Cardinality(Callers) \in Nat
      BY CallerAssumption, FS_CardinalityType
    <3> QED
      BY <1>1, <3>1, ValueAssumption
  <2>3. Cardinality(Sharers) = 0 /\ Uniques = {}
    BY <1>1, <2>2 DEF WordInv
  <2>4. Sharers = {}
    BY <2>3, SharersFinite, FS_EmptySet
  <2>5. \A d \in Callers : Holding(d) = "none"
    BY <2>3, <2>4 DEF Sharers, Uniques, Holding
  <2>6. Held' = [Held EXCEPT ![c] = "unique"]
    BY <2>1, <2>5 DEF Held, Holding, TypeOK
  <2>7. Abstract!Acquire(c)
    BY <2>5, <2>6 DEF Abstract!Acquire, Held
  <2> QED
    BY <2>7 DEF Abstract!Next
<1>2. CASE Unlock(c)
  <2>1. pc[c] = "unique" /\ pc' = [pc EXCEPT ![c] = "wake all"]
    BY <1>2 DEF Unlock, Goto
  <2>2. Held' = [Held EXCEPT ![c] = "none"] /\ Held[c] # "none"
    BY <2>1 DEF Held, Holding, TypeOK
  <2>3. Abstract!Release(c)
    BY <2>2 DEF Abstract!Release, Held
  <2> QED
    BY <2>3 DEF Abstract!Next
<1>3. CASE Lock(c) /\ Futex # 0
  <2>1. pc[c] \in {"idle", "wretry"} /\ pc' = [pc EXCEPT ![c] = "wwait"]
    BY <1>3 DEF Lock, Goto
  <2>2. Sharers' = Sharers /\ Uniques' = Uniques
    BY <2>1 DEF Sharers, Uniques, TypeOK
  <2> QED
    BY <2>2, NothingSeen
<1>4. CASE WaitUnique(c)
  <2>1. PICK l \in {"wsleep", "wretry"} : pc' = [pc EXCEPT ![c] = l]
    BY <1>4, Zenon DEF WaitUnique, Goto
  <2>2. Sharers' = Sharers /\ Uniques' = Uniques
    BY <1>4, <2>1 DEF WaitUnique, Sharers, Uniques, TypeOK
  <2> QED
    BY <2>2, NothingSeen
<1>5. CASE WakeAll(c)
  <2>1. Sharers' = Sharers /\ Uniques' = Uniques
    BY <1>5 DEF WakeAll, Sharers, Uniques, Sleeping, Woken
  <2> QED
    BY <2>1, NothingSeen
<1> QED
  BY <1>1, <1>2, <1>3, <1>4, <1>5 DEF UniqueStep

\* A caller whose compare-exchange adds a reference acquires the lock shared.
LEMMA EnterImplements ==
    ASSUME LockInv, NEW c \in Callers, pc[c] \notin {"shared", "unique"},
           Futex # UNIQUE_LOCK_VALUE, pc' = [pc EXCEPT ![c] = "shared"]
    PROVE  Abstract!Next
<1>1. Uniques = {}
  BY DEF LockInv, WordInv
<1>2. Held[c] = "none" /\ \A d \in Callers : Held[d] # "unique"
  BY <1>1 DEF Held, Holding, Uniques
<1>3. Held' = [Held EXCEPT ![c] = "shared"]
  BY DEF Held, Holding, LockInv, TypeOK
<1>4. Abstract!AcquireShared(c)
  BY <1>2, <1>3 DEF Abstract!AcquireShared, Held
<1> QED
  BY <1>4 DEF Abstract!Next

\* The steps of lock_shared() and unlock_shared() are AcquireShared, Release
\* or nothing.
LEMMA SharedImplements ==
    ASSUME LockInv, NEW c \in Callers, SharedStep(c)
    PROVE  Abstract!Next \/ UNCHANGED Held
<1> USE DEF LockInv
<1>1. CASE Futex # UNIQUE_LOCK_VALUE /\ (LockShared(c) \/ RetryShared(c))
  <2>1. pc[c] \in {"idle", "rretry"} /\ pc' = [pc EXCEPT ![c] = "shared"]
    BY <1>1 DEF LockShared, RetryShared, Goto
  <2> QED
    BY <1>1, <2>1, EnterImplements
<1>2. CASE Futex = UNIQUE_LOCK_VALUE /\ (LockShared(c) \/ RetryShared(c))
  <2>1. pc[c] \in {"idle", "rretry"} /\ pc' = [pc EXCEPT ![c] = "rwait"]
    BY <1>2 DEF LockShared, RetryShared, Goto
  <2>2. Sharers' = Sharers /\ Uniques' = Uniques
    BY <2>1 DEF Sharers, Uniques, TypeOK
  <2> QED
    BY <2>2, NothingSeen
<1>3. CASE UnlockShared(c)
  <2>1. PICK l \in {"wake one", "idle"} : pc' = [pc EXCEPT ![c] = l]
    BY <1>3, Zenon DEF UnlockShared, Goto
  <2>2. Held' = [Held EXCEPT ![c] = "none"] /\ Held[c] # "none"
    BY <1>3, <2>1 DEF UnlockShared, Held, Holding, TypeOK
  <2>3. Abstract!Release(c)
    BY <2>2 DEF Abstract!Release, Held
  <2> QED
    BY <2>3 DEF Abstract!Next
<1>4. CASE WaitShared(c) \/ Reload(c)
  <2>1. PICK l \in {"rwait", "rsleep", "rload", "rretry"} : pc' = [pc EXCEPT ![c] = l]
    BY <1>4, Zenon DEF WaitShared, Reload, Goto
  <2>2. pc[c] \in {"rwait", "rload"}
    BY <1>4 DEF WaitShared, Reload
  <2>3. Sharers' = Sharers /\ Uniques' = Uniques
    BY <2>1, <2>2 DEF Sharers, Uniques, TypeOK
  <2> QED
    BY <2>3, NothingSeen
<1>5. CASE WakeOne(c)
  <2>0. pc[c] = "wake one"
    BY <1>5 DEF WakeOne
  <2>1. CASE pc' = [pc EXCEPT ![c] = "idle"]
    <3>1. Sharers' = Sharers /\ Uniques' = Uniques
      BY <2>0, <2>1 DEF Sharers, Uniques, TypeOK
    <3> QED
      BY <3>1, NothingSeen
  <2>2. ASSUME NEW d \in Callers, pc[d] \in Sleeping,
               pc' = [pc EXCEPT ![c] = "idle", ![d] = Woken(pc[d])]
        PROVE  UNCHANGED Held
    <3>1. Woken(pc[d]) \in {"wretry", "rload"}
      BY DEF Woken
    <3>2. Sharers' = Sharers /\ Uniques' = Uniques
      BY <2>0, <2>2, <3>1 DEF Sharers, Uniques, TypeOK, Sleeping
    <3> QED
      BY <3>2, NothingSeen
  <2> QED
    BY <1>5, <2>1, <2>2 DEF WakeOne, Goto
<1> QED
  BY <1>1, <1>2, <1>3, <1>4, <1>5 DEF SharedStep

\* refcount_shared_mutex implements the abstract reader-writer lock, for
\* every number of callers and any use of lock_shared and try_lock_shared.
THEOREM MutexImplements == Spec => ImplementsSharedLock
<1>1. Init => Abstract!Init
  <2> SUFFICES ASSUME Init PROVE Abstract!Init
    OBVIOUS
  <2>1. \A c \in Callers : Holding(c) = "none"
    BY DEF Init, Holding
  <2> QED
    BY <2>1 DEF Abstract!Init
<1>2. LockInv /\ [Next]_vars => [Abstract!Next]_Held
  <2> SUFFICES ASSUME LockInv, [Next]_vars PROVE Abstract!Next \/ UNCHANGED Held
    OBVIOUS
  <2>1. CASE UNCHANGED vars
    BY <2>1 DEF vars, Held, Holding
  <2> QED
    BY <2>1, UniqueImplements, SharedImplements DEF Next
<1> QED
  BY <1>1, <1>2, LockInvariant, PTL DEF Spec, ImplementsSharedLock, Abstract!Spec, Held
=============================================================================
