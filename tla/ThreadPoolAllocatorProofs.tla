---------------------- MODULE ThreadPoolAllocatorProofs ----------------------
(* Theorems about ThreadPoolAllocator, for any number of clients and buffers *)
(* and any sizes and times.                                                  *)
EXTENDS ThreadPoolAllocator, SequenceTheorems, WellFoundedInduction, TLAPS

-----------------------------------------------------------------------------
(* Indices and sequences *)

LEMMA LeastNatural ==
    ASSUME NEW T, T \subseteq Nat, T # {}
    PROVE  \E x \in T : \A y \in T : x =< y
  <1>1. IsWellFoundedOn(OpToRel(<, Nat), Nat)
    BY NatLessThanWellFounded
  <1>2. PICK x \in T : \A y \in T : ~(<<y, x>> \in OpToRel(<, Nat))
    BY <1>1, WFMin
  <1>3. \A y \in T : <<y, x>> \in Nat \X Nat /\ (y < x => <<y, x>> \in OpToRel(<, Nat))
    BY DEF OpToRel
  <1>4. \A y \in T : ~(y < x)
    BY <1>2, <1>3
  <1> QED BY <1>4

LEMMA MinIn ==
    ASSUME NEW T, T \subseteq Nat, T # {}
    PROVE  Min(T) \in T
  BY LeastNatural DEF Min

LEMMA MaxIn ==
    ASSUME NEW n \in Nat, NEW T, T \subseteq 1 .. n, T # {}
    PROVE  Max(T) \in T
  <1> DEFINE D == {n - i : i \in T}
  <1>1. \A i \in T : i \in Nat /\ n - i \in Nat
    OBVIOUS
  <1>2. D \subseteq Nat /\ D # {}
    BY <1>1
  <1>3. \E d \in D : \A e \in D : d =< e
    BY <1>2, LeastNatural
  <1>4. PICK x \in T : \A e \in D : n - x =< e
    BY <1>3
  <1>5. ASSUME NEW y \in T PROVE x >= y
    <2>1. n - x =< n - y
      BY <1>4
    <2> QED BY <1>1, <2>1
  <1>6. \E z \in T : \A y \in T : z >= y
    BY <1>5
  <1> QED BY <1>6 DEF Max

\* What is appended to a list without repetition and was not in it.
LEMMA AppendRange ==
    ASSUME NEW S, NEW s \in Seq(S), NEW b \in S
    PROVE  /\ Append(s, b) \in Seq(S)
           /\ Range(Append(s, b)) = Range(s) \cup {b}
           /\ IsInjective(s) /\ b \notin Range(s) => IsInjective(Append(s, b))
  <1> DEFINE u == Append(s, b)
  <1>1. /\ u \in Seq(S) /\ Len(s) \in Nat /\ Len(u) = Len(s) + 1
        /\ \A i \in 1 .. Len(s) : u[i] = s[i]
        /\ u[Len(s) + 1] = b
    BY AppendProperties
  <1>2. DOMAIN s = 1 .. Len(s) /\ DOMAIN u = 1 .. Len(u)
    BY <1>1
  <1> HIDE DEF u
  <1>3. \A i \in DOMAIN u : i \in DOMAIN s \/ i = Len(s) + 1
    BY <1>1, <1>2
  <1>4. Range(u) = Range(s) \cup {b}
    BY <1>1, <1>2, <1>3 DEF Range
  <1>5. ASSUME IsInjective(s), b \notin Range(s) PROVE IsInjective(u)
    BY <1>1, <1>2, <1>3, <1>5 DEF IsInjective, Range
  <1> QED BY <1>1, <1>4, <1>5 DEF u

\* The list without the element at i.
LEMMA RemoveAtProperties ==
    ASSUME NEW S, NEW s \in Seq(S), NEW i \in 1 .. Len(s)
    PROVE  /\ RemoveAt(s, i) \in Seq(S)
           /\ Len(RemoveAt(s, i)) = Len(s) - 1
           /\ \A j \in 1 .. Len(s) - 1 : RemoveAt(s, i)[j] = IF j < i THEN s[j] ELSE s[j + 1]
  <1> DEFINE x == SubSeq(s, 1, i - 1)
             y == SubSeq(s, i + 1, Len(s))
             n == Len(s)
  <1>0. n \in Nat /\ i \in Nat /\ 1 <= i /\ i <= n /\ \A j \in 1 .. n : s[j] \in S
    OBVIOUS
  <1>1. /\ x \in Seq(S) /\ Len(x) = i - 1
        /\ \A j \in 1 .. i - 1 : x[j] = s[j]
    <2>1. \A j \in 1 .. i - 1 : s[j] \in S
      BY <1>0
    <2>2. /\ x \in Seq(S) /\ Len(x) = IF 1 <= i - 1 THEN i - 1 - 1 + 1 ELSE 0
          /\ \A j \in 1 .. i - 1 - 1 + 1 : x[j] = s[1 + j - 1]
      BY <1>0, <2>1, SubSeqProperties
    <2>3. Len(x) = i - 1
      <3> DEFINE m == Len(x)
      <3>1. m = IF 1 <= i - 1 THEN i - 1 - 1 + 1 ELSE 0
        BY <2>2
      <3> HIDE DEF m
      <3>2. m = i - 1
        BY <1>0, <3>1
      <3> QED BY <3>2 DEF m
    <2>4. ASSUME NEW j \in 1 .. i - 1 PROVE x[j] = s[j]
      <3>1. j \in 1 .. i - 1 - 1 + 1 /\ 1 + j - 1 = j
        BY <1>0
      <3> QED BY <2>2, <3>1
    <2> QED BY <2>2, <2>3, <2>4
  <1>2. /\ y \in Seq(S) /\ Len(y) = n - i
        /\ \A j \in 1 .. n - i : y[j] = s[j + i]
    <2>1. \A j \in i + 1 .. n : s[j] \in S
      BY <1>0
    <2>2. /\ y \in Seq(S) /\ Len(y) = IF i + 1 <= n THEN n - (i + 1) + 1 ELSE 0
          /\ \A j \in 1 .. n - (i + 1) + 1 : y[j] = s[(i + 1) + j - 1]
      BY <1>0, <2>1, SubSeqProperties
    <2>3. Len(y) = n - i
      <3> DEFINE m == Len(y)
      <3>1. m = IF i + 1 <= n THEN n - (i + 1) + 1 ELSE 0
        BY <2>2
      <3> HIDE DEF m, n
      <3>2. m = n - i
        BY <1>0, <3>1
      <3> QED BY <3>2 DEF m
    <2>4. ASSUME NEW j \in 1 .. n - i PROVE y[j] = s[j + i]
      <3> HIDE DEF n
      <3>1. j \in 1 .. n - (i + 1) + 1 /\ (i + 1) + j - 1 = j + i
        BY <1>0
      <3> QED BY <2>2, <3>1
    <2> QED BY <2>2, <2>3, <2>4
  <1> DEFINE r == x \o y
  <1> HIDE DEF x, y, n
  <1>3. /\ r \in Seq(S) /\ Len(r) = Len(x) + Len(y)
        /\ \A j \in 1 .. Len(x) + Len(y) : r[j] = IF j <= Len(x) THEN x[j] ELSE y[j - Len(x)]
    BY <1>1, <1>2, ConcatProperties
  <1> HIDE DEF r
  <1>4. r \in Seq(S) /\ Len(r) = n - 1
    BY <1>0, <1>1, <1>2, <1>3
  <1>5. ASSUME NEW j \in 1 .. n - 1 PROVE r[j] = IF j < i THEN s[j] ELSE s[j + 1]
    <2>1. j \in 1 .. Len(x) + Len(y)
      BY <1>0, <1>1, <1>2
    <2>2. CASE j < i
      <3>1. j <= Len(x) /\ j \in 1 .. i - 1
        BY <1>0, <1>1, <2>2
      <3> QED BY <1>1, <1>3, <2>1, <2>2, <3>1
    <2>3. CASE ~(j < i)
      <3>1. ~(j <= Len(x)) /\ j - Len(x) \in 1 .. n - i /\ (j - Len(x)) + i = j + 1
        BY <1>0, <1>1, <2>3
      <3> QED BY <1>2, <1>3, <2>1, <2>3, <3>1
    <2> QED BY <2>2, <2>3
  <1>6. r = RemoveAt(s, i)
    BY DEF r, x, y, n, RemoveAt
  <1> QED BY <1>4, <1>5, <1>6 DEF n

\* Erasing an element takes it, and nothing else, off a list without
\* repetition.
LEMMA EraseRange ==
    ASSUME NEW S, NEW s \in Seq(S), NEW i \in 1 .. Len(s), IsInjective(s)
    PROVE  /\ RemoveAt(s, i) \in Seq(S)
           /\ Range(RemoveAt(s, i)) = Range(s) \ {s[i]}
           /\ IsInjective(RemoveAt(s, i))
  <1> DEFINE r == RemoveAt(s, i)
             at(j) == IF j < i THEN j ELSE j + 1
  <1>0. Len(s) \in Nat /\ DOMAIN s = 1 .. Len(s)
    OBVIOUS
  <1>1. /\ r \in Seq(S) /\ Len(r) = Len(s) - 1
        /\ \A j \in 1 .. Len(s) - 1 : r[j] = s[at(j)]
    BY RemoveAtProperties
  <1> HIDE DEF r
  <1>2. DOMAIN r = 1 .. Len(s) - 1
    BY <1>1
  <1>3. \A j \in DOMAIN r : at(j) \in DOMAIN s /\ at(j) # i
    BY <1>0, <1>2
  <1>4. \A j, k \in DOMAIN r : at(j) = at(k) => j = k
    BY <1>0, <1>2
  <1>5. \A k \in DOMAIN s : k # i => \E j \in DOMAIN r : at(j) = k
    <2> SUFFICES ASSUME NEW k \in DOMAIN s, k # i PROVE \E j \in DOMAIN r : at(j) = k
      OBVIOUS
    <2>1. CASE k < i
      <3>1. k \in DOMAIN r /\ at(k) = k
        BY <1>0, <1>2, <2>1
      <3> QED BY <3>1
    <2>2. CASE ~(k < i)
      <3>1. k - 1 \in DOMAIN r /\ at(k - 1) = k
        BY <1>0, <1>2, <2>2
      <3> QED BY <3>1
    <2> QED BY <2>1, <2>2
  <1> HIDE DEF at
  <1>6. Range(r) = Range(s) \ {s[i]}
    <2>1. \A j \in DOMAIN r : r[j] = s[at(j)]
      BY <1>1, <1>2
    <2>2. \A j \in DOMAIN r : r[j] \in Range(s) /\ r[j] # s[i]
      BY <1>0, <1>3, <2>1 DEF Range, IsInjective
    <2>3. ASSUME NEW k \in DOMAIN s, s[k] # s[i] PROVE s[k] \in Range(r)
      BY <1>5, <2>1, <2>3 DEF Range
    <2> QED BY <2>2, <2>3 DEF Range
  <1>7. IsInjective(r)
    BY <1>1, <1>2, <1>3, <1>4 DEF IsInjective
  <1> QED BY <1>1, <1>6, <1>7 DEF r

\* The elements at the indices i and j that are not 0.
Picked(s, i, j) == {s[k] : k \in {i, j} \ {0}}

\* Erasing the later element first leaves the earlier one where it was.
LEMMA EraseTwo ==
    ASSUME NEW S, NEW s \in Seq(S), IsInjective(s),
           NEW i \in 0 .. Len(s), NEW j \in 0 .. Len(s), j < i \/ j = 0
    PROVE  /\ Erase(Erase(s, i), j) \in Seq(S)
           /\ Range(Erase(Erase(s, i), j)) = Range(s) \ Picked(s, i, j)
           /\ IsInjective(Erase(Erase(s, i), j))
  <1>1. CASE i = 0
    <2>1. j = 0
      BY <1>1
    <2> QED BY <1>1, <2>1 DEF Erase, Picked
  <1>2. CASE i # 0
    <2> DEFINE t == RemoveAt(s, i)
    <2>1. i \in 1 .. Len(s) /\ Erase(s, i) = t
      BY <1>2 DEF Erase
    <2>2. t \in Seq(S) /\ Range(t) = Range(s) \ {s[i]} /\ IsInjective(t)
      BY <2>1, EraseRange
    <2>3. CASE j = 0
      <3>1. Picked(s, i, j) = {s[i]}
        BY <1>2, <2>3 DEF Picked
      <3> QED BY <2>1, <2>2, <2>3, <3>1 DEF Erase
    <2>4. CASE j # 0
      <3>1. j \in 1 .. Len(s) - 1 /\ j < i
        BY <2>1, <2>4
      <3>2. Len(t) = Len(s) - 1 /\ t[j] = s[j]
        BY <2>1, <3>1, RemoveAtProperties
      <3> HIDE DEF t
      <3>3. /\ RemoveAt(t, j) \in Seq(S)
            /\ Range(RemoveAt(t, j)) = Range(t) \ {s[j]}
            /\ IsInjective(RemoveAt(t, j))
        BY <2>2, <3>1, <3>2, EraseRange
      <3>4. Picked(s, i, j) = {s[i], s[j]}
        BY <1>2, <2>4 DEF Picked
      <3>5. Erase(Erase(s, i), j) = RemoveAt(t, j)
        BY <2>1, <2>4 DEF Erase
      <3> QED BY <2>2, <3>3, <3>4, <3>5
    <2> QED BY <2>3, <2>4
  <1> QED BY <1>1, <1>2

-----------------------------------------------------------------------------
(* The invariant *)

\* A client has an element in the list exactly while its flag says so, and
\* one that uses the buffer owns it, so that no compare-exchange takes it.
Flags ==
    \A c \in Clients :
        /\ c \in ClaimedBuffers <=> ClientOwnedFlag[c] # "FREE"
        /\ pc[c] \in Using => ClientOwnedFlag[c] = "OWNED"
        /\ pc[c] \in {"new", "lock", "scan", "dead"} => ClientOwnedFlag[c] = "FREE"

\* Each claimed buffer is large enough for its client and nobody else's.
Holds ==
    /\ \A c \in ClaimedBuffers : Info[c] \in Buffers /\ Size[Info[c]] >= SizeOf[c]
    /\ \A c, d \in ClaimedBuffers : Info[c] = Info[d] => c = d

\* The scan looks at elements that are still in the list: only the holder of
\* the mutex erases any.
Scanning ==
    /\ \A c \in Clients : pc[c] = "scan" <=> AllocationMutex = c
    /\ AllocationMutex = NoClient => scan = NoScan
    /\ scan.todo \subseteq ClaimedBuffers
    /\ scan.seen \in (ClaimedBuffers \ scan.todo) \cup {NoClient}

\* The two lists share the allocated buffers between them.
Lists ==
    /\ \A b \in Buffers : Size[b] # 0 <=>
          b \in Range(UnclaimedBuffers) \/ \E c \in ClaimedBuffers : Info[c] = b
    /\ IsInjective(UnclaimedBuffers)
    /\ \A c \in ClaimedBuffers : Info[c] \notin Range(UnclaimedBuffers)

PoolInv == TypeOK /\ Flags /\ Holds /\ Scanning /\ Lists

LEMMA PoolInit == Init => PoolInv
  <1> SUFFICES ASSUME Init PROVE PoolInv
    OBVIOUS
  <1>1. UnclaimedBuffers = <<>> /\ ClaimedBuffers = {} /\ scan = NoScan
    BY DEF Init
  <1>2. DOMAIN UnclaimedBuffers = {} /\ UnclaimedBuffers \in Seq(Buffers)
    BY <1>1
  <1>3. TypeOK
    BY <1>2, TimeAssumption DEF Init, TypeOK, NoScan, Times
  <1>4. Flags
    BY DEF Init, Flags, Using
  <1>5. Holds /\ Lists
    BY <1>1, <1>2 DEF Init, Holds, Lists, Range, IsInjective
  <1>6. Scanning
    BY <1>1, ClientAssumption DEF Init, Scanning, NoScan
  <1> QED BY <1>3, <1>4, <1>5, <1>6 DEF PoolInv

\* The lock-free steps of a client change its flag only while its element
\* stays in the list.
LEMMA ClientKeeps ==
    ASSUME PoolInv, NEW c \in Clients, ClientStep(c)
    PROVE  PoolInv'
  <1> USE DEF PoolInv
  <1>1. ASSUME NEW l \in {"idle", "lock", "use", "unclaim", "destroy", "dead"}, Goto(c, l),
               pc[c] \notin {"scan"}, l \in {"lock", "dead"} => ClientOwnedFlag[c] = "FREE",
               l = "use" => ClientOwnedFlag[c] = "OWNED",
               UNCHANGED <<now, ClientOwnedFlag, Info, poolVars>>,
               CountPer' \in [Clients -> 0 .. PeriodFrequency], Previous' \in [Clients -> Times]
        PROVE  PoolInv'
    <2>1. pc' = [pc EXCEPT ![c] = l] /\ UNCHANGED poolVars
      BY <1>1 DEF Goto
    <2>2. TypeOK'
      BY <1>1, <2>1 DEF TypeOK, poolVars
    <2>3. Flags'
      BY <1>1, <2>1 DEF TypeOK, Flags, Using, poolVars
    <2>4. Scanning'
      BY <1>1, <2>1 DEF TypeOK, Scanning, poolVars
    <2>5. Holds' /\ Lists'
      BY <1>1, <2>1 DEF Holds, Lists, poolVars
    <2> QED BY <2>2, <2>3, <2>4, <2>5
  <1>2. CASE Construct(c)
    <2>1. pc[c] = "new" /\ ClientOwnedFlag[c] = "FREE"
      BY <1>2 DEF Construct, Flags
    <2> QED BY <1>1, <1>2, <2>1 DEF Construct, TypeOK
  <1>3. ASSUME NEW f \in {"OWNED", "DISOWNED"}, NEW l \in {"touch", "period"},
               SetFlag(c, f), Goto(c, l), ClientOwnedFlag[c] # "FREE", pc[c] # "scan",
               l = "touch" => f = "OWNED",
               UNCHANGED <<now, Info, CountPer, Previous, poolVars>>
        PROVE  PoolInv'
    <2>1. /\ pc' = [pc EXCEPT ![c] = l] /\ UNCHANGED poolVars
          /\ ClientOwnedFlag' = [ClientOwnedFlag EXCEPT ![c] = f]
      BY <1>3 DEF Goto, SetFlag
    <2>2. TypeOK'
      BY <1>3, <2>1 DEF TypeOK, poolVars
    <2>3. Flags'
      BY <1>3, <2>1 DEF TypeOK, Flags, Using, poolVars
    <2>4. Scanning'
      BY <1>3, <2>1 DEF TypeOK, Scanning, poolVars
    <2>5. Holds' /\ Lists'
      BY <1>3, <2>1 DEF Holds, Lists, poolVars
    <2> QED BY <2>2, <2>3, <2>4, <2>5
  <1>4. CASE ReownOrClaimBuffer(c)
    <2>1. pc[c] = "idle" /\ ClientOwnedFlag[c] \in {"OWNED", "DISOWNED", "FREE"}
      BY <1>4 DEF ReownOrClaimBuffer, TypeOK
    <2>2. CASE ClientOwnedFlag[c] = "OWNED"
      BY <1>1, <1>4, <2>1, <2>2 DEF ReownOrClaimBuffer, TypeOK
    <2>3. CASE ClientOwnedFlag[c] = "DISOWNED"
      BY <1>3, <1>4, <2>1, <2>3 DEF ReownOrClaimBuffer
    <2>4. CASE ClientOwnedFlag[c] = "FREE"
      BY <1>1, <1>4, <2>1, <2>4 DEF ReownOrClaimBuffer, TypeOK
    <2> QED BY <2>1, <2>2, <2>3, <2>4
  <1>5. CASE Reowned(c) \/ StoreLastUsed(c)
    <2>1. PICK l \in {"use", "disown"} : pc' = [pc EXCEPT ![c] = l]
      BY <1>5 DEF Reowned, StoreLastUsed, Goto
    <2>2. /\ pc[c] \in Using /\ LastUsed' = [LastUsed EXCEPT ![Info[c]] = now]
          /\ UNCHANGED <<now, ClientOwnedFlag, Info, CountPer, Previous, AllocationMutex, scan,
                         ClaimedBuffers, UnclaimedBuffers, Size>>
      BY <1>5 DEF Reowned, StoreLastUsed, Touched, Using
    <2>3. TypeOK'
      <3>1. now \in Times
        BY TimeAssumption DEF TypeOK, Times
      <3>2. LastUsed' \in [Buffers -> Times]
        BY <2>2, <3>1 DEF TypeOK
      <3> QED BY <2>1, <2>2, <3>2 DEF TypeOK
    <2>4. Flags' /\ Scanning'
      BY <2>1, <2>2 DEF TypeOK, Flags, Scanning, Using
    <2>5. Holds' /\ Lists'
      BY <2>2 DEF Holds, Lists
    <2> QED BY <2>3, <2>4, <2>5
  <1>6. CASE DisownBuffer(c)
    <2>1. pc[c] = "disown" /\ ClientOwnedFlag[c] = "OWNED"
      BY <1>6 DEF DisownBuffer, Flags, Using
    <2> QED BY <1>3, <1>6, <2>1 DEF DisownBuffer
  <1>7. CASE EndOfPeriod(c)
    <2>1. /\ pc[c] = "period" /\ UNCHANGED <<now, ClientOwnedFlag, Info, poolVars>>
          /\ CountPer' \in [Clients -> 0 .. PeriodFrequency] /\ Previous' \in [Clients -> Times]
      <3>1. now \in Times /\ 1 \in 0 .. PeriodFrequency
        BY TimeAssumption DEF TypeOK, Times
      <3>2. CountPer[c] < PeriodFrequency => CountPer[c] + 1 \in 0 .. PeriodFrequency
        BY TimeAssumption DEF TypeOK
      <3>3. pc[c] = "period" /\ UNCHANGED <<now, ClientOwnedFlag, Info, poolVars>>
        BY <1>7 DEF EndOfPeriod
      <3>4. /\ \E n \in 0 .. PeriodFrequency : CountPer' = [CountPer EXCEPT ![c] = n]
            /\ \E t \in Times : Previous' = [Previous EXCEPT ![c] = t]
        <4>1. CountPer[c] \in 0 .. PeriodFrequency /\ Previous[c] \in Times
          BY DEF TypeOK
        <4>2. CASE now - Previous[c] >= PeriodMS
          BY <1>7, <3>1, <4>2 DEF EndOfPeriod
        <4>3. CASE ~(now - Previous[c] >= PeriodMS)
          <5>1. Previous' = [Previous EXCEPT ![c] = Previous[c]]
            BY <1>7, <4>3 DEF EndOfPeriod, TypeOK
          <5>2. CountPer' = [CountPer EXCEPT ![c] = IF CountPer[c] < PeriodFrequency
                                                    THEN CountPer[c] + 1 ELSE CountPer[c]]
            BY <1>7, <4>3 DEF EndOfPeriod
          <5> QED BY <3>2, <4>1, <5>1, <5>2
        <4> QED BY <4>2, <4>3
      <3> QED BY <3>3, <3>4 DEF TypeOK
    <2>2. \E l \in {"unclaim", "idle"} : Goto(c, l)
      BY <1>7 DEF EndOfPeriod
    <2> QED BY <1>1, <2>1, <2>2
  <1>8. CASE Destroy(c)
    BY <1>1, <1>8 DEF Destroy, TypeOK
  <1> QED BY <1>2, <1>4, <1>5, <1>6, <1>7, <1>8 DEF ClientStep

\* An element goes from one list to the other, with the mutex held.
LEMMA MoveKeeps ==
    ASSUME PoolInv, NEW d \in ClaimedBuffers,
           ClaimedBuffers' = ClaimedBuffers \ {d},
           UnclaimedBuffers' = Append(UnclaimedBuffers, Info[d]),
           UNCHANGED <<Info, Size>>
    PROVE  UnclaimedBuffers' \in Seq(Buffers) /\ Holds' /\ Lists'
  <1> USE DEF PoolInv
  <1>1. Info[d] \in Buffers /\ Info[d] \notin Range(UnclaimedBuffers)
    BY DEF Holds, Lists
  <1>2. /\ UnclaimedBuffers' \in Seq(Buffers)
        /\ Range(UnclaimedBuffers') = Range(UnclaimedBuffers) \cup {Info[d]}
        /\ IsInjective(UnclaimedBuffers')
    BY <1>1, AppendRange DEF TypeOK, Lists
  <1>3. Holds'
    BY DEF Holds
  <1>4. Lists'
    <2>1. ASSUME NEW b \in Buffers
          PROVE  Size[b] # 0 <=> b \in Range(UnclaimedBuffers') \/ \E c \in ClaimedBuffers' : Info[c] = b
      BY <1>2 DEF Lists
    <2>2. \A c \in ClaimedBuffers' : Info[c] \notin Range(UnclaimedBuffers')
      BY <1>2 DEF Lists, Holds
    <2> QED BY <1>2, <2>1, <2>2 DEF Lists
  <1> QED BY <1>2, <1>3, <1>4

LEMMA UnclaimKeeps ==
    ASSUME PoolInv, NEW c \in Clients, UnclaimBuffer(c)
    PROVE  PoolInv'
  <1> USE DEF PoolInv
  <1>1. CASE c \in ClaimedBuffers
    <2>1. PICK l \in {"dead", "idle"} : pc' = [pc EXCEPT ![c] = l]
      BY <1>1 DEF UnclaimBuffer, Goto
    <2>2. /\ pc[c] \in {"unclaim", "destroy"} /\ AllocationMutex = NoClient
          /\ ClientOwnedFlag' = [ClientOwnedFlag EXCEPT ![c] = "FREE"]
          /\ ClaimedBuffers' = ClaimedBuffers \ {c}
          /\ UnclaimedBuffers' = Append(UnclaimedBuffers, Info[c])
          /\ UNCHANGED <<now, Info, CountPer, Previous, AllocationMutex, scan, Size, LastUsed>>
      BY <1>1 DEF UnclaimBuffer, SetFlag
    <2>3. UnclaimedBuffers' \in Seq(Buffers) /\ Holds' /\ Lists'
      BY <1>1, <2>2, MoveKeeps
    <2>4. TypeOK'
      BY <2>1, <2>2, <2>3 DEF TypeOK
    <2>5. Flags'
      BY <2>1, <2>2 DEF TypeOK, Flags, Using
    <2>6. Scanning'
      BY <2>1, <2>2 DEF TypeOK, Scanning, NoScan
    <2> QED BY <2>3, <2>4, <2>5, <2>6
  <1>2. CASE c \notin ClaimedBuffers
    <2>1. /\ pc' = [pc EXCEPT ![c] = "undefined"] /\ pc[c] \in {"unclaim", "destroy"}
          /\ UNCHANGED <<now, ClientOwnedFlag, Info, CountPer, Previous, AllocationMutex, scan,
                         ClaimedBuffers, UnclaimedBuffers, Size, LastUsed>>
      BY <1>2 DEF UnclaimBuffer, Goto
    <2>2. TypeOK' /\ Flags' /\ Scanning'
      BY <2>1 DEF TypeOK, Flags, Scanning, Using
    <2>3. Holds' /\ Lists'
      BY <2>1 DEF Holds, Lists
    <2> QED BY <2>2, <2>3
  <1> QED BY <1>1, <1>2

LEMMA ScanKeeps ==
    ASSUME PoolInv, NEW c \in Clients, BeginClaim(c) \/ LookAtClaimed(c) \/ TakeExpired(c)
    PROVE  PoolInv'
  <1> USE DEF PoolInv
  <1>1. CASE BeginClaim(c)
    <2>1. /\ pc[c] = "lock" /\ AllocationMutex = NoClient /\ AllocationMutex' = c
          /\ scan' = [Now |-> now, todo |-> ClaimedBuffers, seen |-> NoClient]
          /\ pc' = [pc EXCEPT ![c] = "scan"]
          /\ UNCHANGED <<now, ClientOwnedFlag, Info, CountPer, Previous, ClaimedBuffers,
                         UnclaimedBuffers, Size, LastUsed>>
      BY <1>1 DEF BeginClaim, Goto
    <2>2. TypeOK'
      BY <2>1 DEF TypeOK, Times
    <2>3. Flags'
      BY <2>1 DEF TypeOK, Flags, Using
    <2>4. Scanning'
      BY <2>1, ClientAssumption DEF TypeOK, Scanning
    <2>5. Holds' /\ Lists'
      BY <2>1 DEF Holds, Lists
    <2> QED BY <2>2, <2>3, <2>4, <2>5
  <1>2. CASE LookAtClaimed(c)
    <2>0. PICK d \in scan.todo :
              \E x \in {d, NoClient} : scan' = [scan EXCEPT !.todo = @ \ {d}, !.seen = x]
      BY <1>2 DEF LookAtClaimed
    <2>1. PICK x \in {d, NoClient} : scan' = [scan EXCEPT !.todo = @ \ {d}, !.seen = x]
      BY <2>0
    <2>2. UNCHANGED <<now, clientVars, AllocationMutex, ClaimedBuffers, UnclaimedBuffers, Size,
                      LastUsed>> /\ AllocationMutex = c
      BY <1>2 DEF LookAtClaimed
    <2>3. TypeOK'
      <3>1. scan' \in [Now : Times, todo : SUBSET Clients, seen : Clients \cup {NoClient}]
        <4>1. scan.Now \in Times /\ scan.todo \subseteq Clients /\ x \in Clients \cup {NoClient}
          BY DEF TypeOK
        <4>2. scan' = [Now |-> scan.Now, todo |-> scan.todo \ {d}, seen |-> x]
          BY <2>1 DEF TypeOK
        <4> QED BY <4>1, <4>2
      <3> QED BY <2>2, <3>1 DEF TypeOK, clientVars
    <2>4. Flags' /\ Holds' /\ Lists'
      BY <2>2 DEF Flags, Holds, Lists, clientVars
    <2>5. Scanning'
      BY <2>1, <2>2, ClientAssumption DEF TypeOK, Scanning, clientVars
    <2> QED BY <2>3, <2>4, <2>5
  <1>3. CASE TakeExpired(c)
    <2> DEFINE d == scan.seen
    <2>1. /\ AllocationMutex = c /\ d \in ClaimedBuffers /\ d \in Clients
          /\ scan' = [scan EXCEPT !.seen = NoClient]
          /\ UNCHANGED <<now, pc, Info, CountPer, Previous, AllocationMutex, Size, LastUsed>>
      BY <1>3 DEF TakeExpired, Scanning, TypeOK
    <2>2. CASE ClientOwnedFlag[d] = "DISOWNED"
      <3>1. /\ ClientOwnedFlag' = [ClientOwnedFlag EXCEPT ![d] = "FREE"]
            /\ ClaimedBuffers' = ClaimedBuffers \ {d}
            /\ UnclaimedBuffers' = Append(UnclaimedBuffers, Info[d])
        BY <1>3, <2>2 DEF TakeExpired, SetFlag
      <3>2. UnclaimedBuffers' \in Seq(Buffers) /\ Holds' /\ Lists'
        BY <2>1, <3>1, MoveKeeps
      <3>3. TypeOK'
        BY <2>1, <3>1, <3>2 DEF TypeOK
      <3>4. Flags'
        BY <2>1, <2>2, <3>1 DEF TypeOK, Flags, Using
      <3>5. Scanning'
        BY <2>1, <3>1, ClientAssumption DEF TypeOK, Scanning
      <3> QED BY <3>2, <3>3, <3>4, <3>5
    <2>3. CASE ClientOwnedFlag[d] # "DISOWNED"
      <3>1. UNCHANGED <<ClientOwnedFlag, ClaimedBuffers, UnclaimedBuffers>>
        BY <1>3, <2>3 DEF TakeExpired
      <3>2. TypeOK'
        BY <2>1, <3>1 DEF TypeOK
      <3>3. Flags' /\ Holds' /\ Lists'
        BY <2>1, <3>1 DEF Flags, Holds, Lists
      <3>4. Scanning'
        BY <2>1, <3>1, ClientAssumption DEF TypeOK, Scanning
      <3> QED BY <3>2, <3>3, <3>4
    <2> QED BY <2>2, <2>3
  <1> QED BY <1>1, <1>2, <1>3

\* The buffer that is chosen is large enough.
LEMMA BestFits ==
    ASSUME TypeOK, NEW n \in Nat
    PROVE  /\ BestFit(n) \in 0 .. Len(UnclaimedBuffers)
           /\ BestFit(n) # 0 => SizeAt(BestFit(n)) >= n
  <1> DEFINE exact == {i \in DOMAIN UnclaimedBuffers : SizeAt(i) = n}
             larger == {i \in DOMAIN UnclaimedBuffers : SizeAt(i) > n}
  <1>1. /\ DOMAIN UnclaimedBuffers = 1 .. Len(UnclaimedBuffers) /\ Len(UnclaimedBuffers) \in Nat
        /\ \A i \in DOMAIN UnclaimedBuffers : SizeAt(i) \in Nat
    BY DEF TypeOK, SizeAt
  <1>2. CASE exact # {}
    <2>0. exact \subseteq Nat
      BY <1>1
    <2>1. Min(exact) \in exact
      BY <1>2, <2>0, MinIn
    <2>2. BestFit(n) = Min(exact)
      BY <1>2 DEF BestFit
    <2> QED BY <1>1, <2>1, <2>2
  <1>3. CASE exact = {} /\ larger # {}
    <2>1. Max(larger) \in larger
      BY <1>1, <1>3, MaxIn
    <2>2. BestFit(n) = Max(larger)
      BY <1>3 DEF BestFit
    <2> QED BY <1>1, <2>1, <2>2
  <1>4. CASE exact = {} /\ larger = {}
    <2>1. BestFit(n) = 0
      BY <1>4 DEF BestFit
    <2> QED BY <1>1, <2>1
  <1> QED BY <1>2, <1>3, <1>4

\* The buffer that is freed is not the one that is chosen.
LEMMA StaleIsAnother ==
    ASSUME TypeOK, NEW best
    PROVE  /\ StaleBuffer(best) \in 0 .. Len(UnclaimedBuffers)
           /\ StaleBuffer(best) # 0 => StaleBuffer(best) # best
  <1> DEFINE expired == {i \in DOMAIN UnclaimedBuffers \ {best} :
                             Expired(UnclaimedBuffers[i], scan.Now) /\ LastUsedAt(i) > 0}
             last == {i \in expired : \A j \in expired : LastUsedAt(i) >= LastUsedAt(j)}
  <1>1. DOMAIN UnclaimedBuffers = 1 .. Len(UnclaimedBuffers) /\ Len(UnclaimedBuffers) \in Nat
    BY DEF TypeOK
  <1>2. CASE expired = {}
    BY <1>1, <1>2 DEF StaleBuffer
  <1>3. CASE expired # {}
    <2>1. \A i \in expired : LastUsedAt(i) \in 0 .. MaxTime
      BY DEF TypeOK, LastUsedAt, Times
    <2>2. last # {}
      <3> DEFINE T == {MaxTime - LastUsedAt(i) : i \in expired}
      <3>1. MaxTime \in Nat
        BY TimeAssumption
      <3>2. T \subseteq Nat /\ T # {}
        <4> HIDE DEF expired
        <4> QED BY <1>3, <2>1, <3>1
      <3>3. \E t \in T : \A u \in T : t =< u
        BY <3>2, LeastNatural
      <3> HIDE DEF expired
      <3>4. PICK i \in expired : \A u \in T : MaxTime - LastUsedAt(i) =< u
        BY <3>3
      <3>5. ASSUME NEW j \in expired PROVE LastUsedAt(i) >= LastUsedAt(j)
        <4>1. MaxTime - LastUsedAt(i) =< MaxTime - LastUsedAt(j)
          BY <3>4
        <4> QED BY <2>1, <3>1, <4>1
      <3> QED BY <3>5
    <2>3. last \subseteq Nat
      BY <1>1
    <2>4. Min(last) \in last
      BY <2>2, <2>3, MinIn
    <2>5. StaleBuffer(best) = Min(last)
      BY <1>3 DEF StaleBuffer
    <2> QED BY <1>1, <2>4, <2>5
  <1> QED BY <1>2, <1>3

\* The client gets a buffer that no client and, from now on, no list has;
\* the stale one leaves the list and is freed.
LEMMA ClaimKeeps ==
    ASSUME PoolInv, NEW c \in Clients, ClaimBuffer(c)
    PROVE  PoolInv'
  <1> USE DEF PoolInv
  <1> DEFINE U == UnclaimedBuffers
             best == BestFit(SizeOf[c])
             stale == StaleBuffer(best)
             freed == IF stale = 0 THEN Size ELSE [Size EXCEPT ![U[stale]] = 0]
             Freed(b) == stale # 0 /\ b = U[stale]
  <1>1. /\ SizeOf[c] \in Nat /\ SizeOf[c] > 0
        /\ U \in Seq(Buffers) /\ IsInjective(U)
        /\ DOMAIN U = 1 .. Len(U) /\ Len(U) \in Nat
        /\ Size \in [Buffers -> Nat]
    BY SizeAssumption DEF TypeOK, Lists
  <1>2. /\ best \in 0 .. Len(U)
        /\ best # 0 => Size[U[best]] >= SizeOf[c]
    BY <1>1, BestFits DEF SizeAt
  <1>3. stale \in 0 .. Len(U) /\ (stale # 0 => stale # best)
    BY StaleIsAnother
  <1>4. /\ AllocationMutex = c /\ scan.todo = {}
        /\ UnclaimedBuffers' = IF stale > best THEN Erase(Erase(U, stale), best)
                               ELSE Erase(Erase(U, best), stale)
        /\ \/ best # 0 /\ Give(c, U[best]) /\ Size' = freed /\ LastUsed' = LastUsed
           \/ /\ best = 0
              /\ \E b \in Buffers : /\ Size[b] = 0 /\ Give(c, b)
                                    /\ Size' = [freed EXCEPT ![b] = SizeOf[c]]
                                    /\ LastUsed' = [LastUsed EXCEPT ![b] = now]
        /\ UNCHANGED <<now, CountPer, Previous>>
    BY DEF ClaimBuffer
  <1> HIDE DEF best, stale
  <1>5. c \notin ClaimedBuffers
    BY <1>4 DEF Scanning, Flags
  <1>6. /\ UnclaimedBuffers' \in Seq(Buffers)
        /\ Range(UnclaimedBuffers') = Range(U) \ Picked(U, best, stale)
        /\ IsInjective(UnclaimedBuffers')
    <2>1. Picked(U, best, stale) = Picked(U, stale, best)
      BY DEF Picked
    <2>2. CASE stale > best
      <3>1. UnclaimedBuffers' = Erase(Erase(U, stale), best) /\ best < stale
        BY <1>2, <1>3, <1>4, <2>2
      <3> QED BY <1>1, <1>2, <1>3, <2>1, <3>1, EraseTwo
    <2>3. CASE ~(stale > best)
      <3>1. UnclaimedBuffers' = Erase(Erase(U, best), stale)
        BY <1>4, <2>3
      <3>2. stale < best \/ stale = 0
        BY <1>2, <1>3, <2>3
      <3> QED BY <1>1, <1>2, <1>3, <3>1, <3>2, EraseTwo
    <2> QED BY <2>2, <2>3
  <1>7. /\ freed \in [Buffers -> Nat]
        /\ \A x \in Buffers : freed[x] = IF Freed(x) THEN 0 ELSE Size[x]
    <2>1. stale # 0 => U[stale] \in Buffers
      BY <1>1, <1>3
    <2> QED BY <1>1, <2>1
  <1>8. PICK b \in Buffers :
          /\ Give(c, b)
          /\ b \notin Range(UnclaimedBuffers') /\ \A d \in ClaimedBuffers : Info[d] # b
          /\ \A x \in Buffers \ {b} : x \in Range(UnclaimedBuffers')
                                       <=> x \in Range(U) /\ ~Freed(x)
          /\ Size' \in [Buffers -> Nat] /\ Size'[b] >= SizeOf[c]
          /\ \A x \in Buffers \ {b} : Size'[x] = IF Freed(x) THEN 0 ELSE Size[x]
          /\ LastUsed' \in [Buffers -> Times]
    <2>1. CASE best # 0
      <3> DEFINE b == U[best]
      <3>1. best \in DOMAIN U /\ b \in Buffers /\ b \in Range(U)
        BY <1>1, <1>2, <2>1 DEF Range
      <3>2. ~Freed(b)
        BY <1>1, <1>3, <3>1 DEF IsInjective
      <3>3. Give(c, b) /\ Size' = freed /\ LastUsed' = LastUsed
        BY <1>4, <2>1
      <3>4. \A x : x \in Picked(U, best, stale) <=> x = b \/ Freed(x)
        BY <2>1 DEF Picked
      <3>5. \A d \in ClaimedBuffers : Info[d] # b
        BY <3>1 DEF Lists
      <3>6. Size'[b] >= SizeOf[c]
        BY <1>2, <1>7, <2>1, <3>1, <3>2, <3>3
      <3> HIDE DEF b, freed, Freed
      <3>7. LastUsed' \in [Buffers -> Times]
        BY <3>3 DEF TypeOK
      <3> QED BY <1>6, <1>7, <3>1, <3>3, <3>4, <3>5, <3>6, <3>7
    <2>2. CASE best = 0
      <3>1. PICK b \in Buffers : /\ Size[b] = 0 /\ Give(c, b)
                                 /\ Size' = [freed EXCEPT ![b] = SizeOf[c]]
                                 /\ LastUsed' = [LastUsed EXCEPT ![b] = now]
        BY <1>4, <2>2
      <3>2. b \notin Range(U) /\ \A d \in ClaimedBuffers : Info[d] # b
        BY <3>1 DEF Lists
      <3>3. \A x : x \in Picked(U, best, stale) <=> Freed(x)
        BY <2>2 DEF Picked
      <3> HIDE DEF freed, Freed
      <3>4. Size' \in [Buffers -> Nat] /\ Size'[b] = SizeOf[c]
            /\ \A x \in Buffers \ {b} : Size'[x] = freed[x]
        BY <1>1, <1>7, <3>1
      <3>5. Size'[b] >= SizeOf[c]
        BY <1>1, <3>4
      <3>6. LastUsed' \in [Buffers -> Times]
        <4>1. now \in Times
          BY TimeAssumption DEF TypeOK, Times
        <4> QED BY <3>1, <4>1 DEF TypeOK
      <3> QED BY <1>6, <1>7, <3>1, <3>2, <3>3, <3>4, <3>5, <3>6
    <2> QED BY <2>1, <2>2
  <1>9. /\ Info' = [Info EXCEPT ![c] = b] /\ ClaimedBuffers' = ClaimedBuffers \cup {c}
        /\ ClientOwnedFlag' = [ClientOwnedFlag EXCEPT ![c] = "OWNED"]
        /\ AllocationMutex' = NoClient /\ scan' = NoScan
        /\ \E l \in {"idle", "use"} : pc' = [pc EXCEPT ![c] = l]
    BY <1>8 DEF Give, SetFlag, Goto
  <1>10. ASSUME NEW d \in ClaimedBuffers
         PROVE  d \in Clients /\ Info'[d] = Info[d] /\ Info[d] \in Buffers /\ Info[d] # b
                /\ Info[d] \notin Range(UnclaimedBuffers') /\ Size'[Info[d]] = Size[Info[d]]
    <2>1. d \in Clients /\ d # c /\ Info[d] \in Buffers /\ Info[d] # b
      BY <1>5, <1>8 DEF TypeOK, Holds
    <2>2. Info[d] \notin Range(U)
      BY DEF Lists
    <2>3. ~Freed(Info[d])
      <3>1. stale # 0 => stale \in DOMAIN U
        BY <1>1, <1>3
      <3>2. stale # 0 => U[stale] \in Range(U)
        BY <3>1 DEF Range
      <3> QED BY <2>2, <3>2
    <2>4. Info'[d] = Info[d]
      BY <1>9, <2>1 DEF TypeOK
    <2> HIDE DEF Freed
    <2> QED BY <1>8, <2>1, <2>2, <2>3, <2>4
  <1>11. Info'[c] = b
    BY <1>9 DEF TypeOK
  <1>12. TypeOK'
    <2>1. scan' \in [Now : Times, todo : SUBSET Clients, seen : Clients \cup {NoClient}]
      BY <1>9, TimeAssumption DEF NoScan, Times
    <2>2. Size' \in [Buffers -> Nat] /\ LastUsed' \in [Buffers -> Times]
      BY <1>8
    <2>3. /\ Info' \in [Clients -> Buffers \cup {NoBuffer}] /\ ClaimedBuffers' \subseteq Clients
          /\ ClientOwnedFlag' \in [Clients -> {"FREE", "OWNED", "DISOWNED"}]
      BY <1>9 DEF TypeOK
    <2>4. PICK l \in {"idle", "use"} : pc' = [pc EXCEPT ![c] = l]
      BY <1>9
    <2> QED BY <1>4, <1>6, <1>9, <2>1, <2>2, <2>3, <2>4 DEF TypeOK
  <1>13. Flags'
    BY <1>9, <1>4 DEF TypeOK, Flags, Using
  <1>14. Holds'
    <2> HIDE DEF Freed
    <2> QED BY <1>8, <1>9, <1>10, <1>11 DEF Holds
  <1>15. Scanning'
    BY <1>4, <1>9, ClientAssumption DEF TypeOK, Scanning, NoScan
  <1>16. Lists'
    <2>1. ASSUME NEW x \in Buffers
          PROVE  Size'[x] # 0 <=> x \in Range(UnclaimedBuffers')
                                  \/ \E d \in ClaimedBuffers' : Info'[d] = x
      <3>1. CASE x = b
        <4>1. Size'[b] # 0
          BY <1>1, <1>8
        <4> QED BY <1>9, <1>11, <3>1, <4>1
      <3>2. CASE x # b
        <4>1. (\E d \in ClaimedBuffers' : Info'[d] = x) <=> \E d \in ClaimedBuffers : Info[d] = x
          BY <1>9, <1>10, <1>11, <3>2
        <4>2. Size[x] # 0 <=> x \in Range(U) \/ \E d \in ClaimedBuffers : Info[d] = x
          BY DEF Lists
        <4>3. Freed(x) => x \in Range(U) /\ ~\E d \in ClaimedBuffers : Info[d] = x
          <5>1. Freed(x) => x \in Range(U)
            BY <1>1, <1>3 DEF Range
          <5> QED BY <5>1 DEF Lists
        <4> HIDE DEF Freed
        <4> QED BY <1>8, <3>2, <4>1, <4>2, <4>3
      <3> QED BY <3>1, <3>2
    <2>2. \A d \in ClaimedBuffers' : Info'[d] \notin Range(UnclaimedBuffers')
      BY <1>8, <1>9, <1>10, <1>11
    <2> QED BY <1>6, <2>1, <2>2 DEF Lists
  <1> QED BY <1>12, <1>13, <1>14, <1>15, <1>16

LEMMA PoolNext == PoolInv /\ [Next]_vars => PoolInv'
  <1> SUFFICES ASSUME PoolInv, [Next]_vars PROVE PoolInv'
    OBVIOUS
  <1>1. ASSUME NEW c \in Clients, ClientStep(c) \/ PoolStep(c) PROVE PoolInv'
    BY <1>1, ClientKeeps, UnclaimKeeps, ScanKeeps, ClaimKeeps DEF PoolStep
  <1>2. CASE Tick
    <2>1. now' \in 1 .. MaxTime /\ UNCHANGED <<clientVars, poolVars>>
      BY <1>2, TimeAssumption DEF Tick, PoolInv, TypeOK
    <2> QED BY <2>1 DEF PoolInv, TypeOK, Flags, Holds, Scanning, Lists, clientVars, poolVars
  <1>3. CASE UNCHANGED vars
    BY <1>3 DEF PoolInv, TypeOK, Flags, Holds, Scanning, Lists, vars, clientVars, poolVars
  <1> QED BY <1>1, <1>2, <1>3 DEF Next, Ended

\* The invariant holds however the clients' stores and compare-exchanges
\* interleave with a scan of the claimed buffers.
THEOREM PoolInvariant == Spec => []PoolInv
  BY PoolInit, PoolNext, PTL DEF Spec

\* Of every number of clients and buffers: a client that uses its buffer is
\* the only one to have it, and it is as large as the client asked for.
\* The flag is the whole argument (Flags): whoever takes an element off the
\* list stores "FREE" in the same step, and a client in Using has stored
\* "OWNED", on which the pool's compare-exchange fails.
THEOREM ExclusiveUseAlways == Spec => [](TypeOK /\ ExclusiveUse)
  <1>1. PoolInv => TypeOK /\ ExclusiveUse
    BY DEF PoolInv, Flags, Holds, Lists, ExclusiveUse, TypeOK
  <1> QED BY <1>1, PoolInvariant, PTL

\* No buffer of the pool leaks, none is in both lists, and the pool keeps
\* no pointer to the flag of a client that is gone.
THEOREM BuffersListedAlways == Spec => []BuffersListed
  <1>1. ASSUME PoolInv PROVE BuffersListed
    <2>1. \A b \in Range(UnclaimedBuffers) : b \in Buffers
      BY <1>1 DEF PoolInv, TypeOK, Range
    <2>2. {b \in Buffers : Size[b] # 0} = Range(UnclaimedBuffers) \cup {Info[c] : c \in ClaimedBuffers}
      BY <1>1, <2>1 DEF PoolInv, Lists, Holds
    <2>3. \A c \in Clients : pc[c] = "dead" => c \notin ClaimedBuffers \cup scan.todo \cup {scan.seen}
      BY <1>1, ClientAssumption DEF PoolInv, Flags, Scanning
    <2> QED BY <1>1, <2>2, <2>3 DEF PoolInv, Lists, BuffersListed
  <1> QED BY <1>1, PoolInvariant, PTL
=============================================================================
