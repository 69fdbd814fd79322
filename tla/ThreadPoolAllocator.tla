------------------------- MODULE ThreadPoolAllocator -------------------------
(***************************************************************************)
(* FEXCore::Utils::IntrusivePooledAllocator, the pool that the frontend    *)
(* decoders and the IR emitters of all threads take their buffers from,    *)
(* and FixedSizePooledAllocation, its client.  Disowning and reowning a    *)
(* buffer take no lock; claiming and unclaiming run under AllocationMutex, *)
(* so a scan of the claimed buffers interleaves with the clients' stores.  *)
(*                                                                         *)
(* An element of the ClaimedBuffers list is named after the client whose   *)
(* flag it points to; the client's iterator Info is valid while the        *)
(* element is in the list.  The scan visits the elements in any order.     *)
(*                                                                         *)
(* Where a client is:                                                      *)
(*   "new"      not constructed          "idle"     between two uses       *)
(*   "touch"    reowned, has not stored LastUsed yet                       *)
(*   "lock"     waits for the mutex to claim    "scan"  holds it           *)
(*   "use"      uses the buffer          "disown"   has stored LastUsed    *)
(*   "period"   has disowned             "unclaim", "destroy"  waits for   *)
(*              the mutex to unclaim     "dead"     destroyed              *)
(*   "undefined"  has used an iterator of an element that was erased       *)
(***************************************************************************)
EXTENDS Integers, Sequences, SequencesExt

CONSTANTS
    Clients,
    Eager,            \* the clients that claim a buffer in their constructor
    SizeOf,           \* client -> the size it asks for
    Buffers,          \* bound: the MemoryBuffers there can be at once
    DURATION, PeriodMS, PeriodFrequency,
    MaxTime,          \* bound: the clock runs from 1 to MaxTime
    NoBuffer, NoClient

ASSUME ClientAssumption == Eager \subseteq Clients /\ NoClient \notin Clients
ASSUME SizeAssumption == SizeOf \in [Clients -> Nat \ {0}]
ASSUME BufferAssumption == NoBuffer \notin Buffers
ASSUME TimeAssumption ==
    /\ DURATION \in Nat \ {0} /\ PeriodMS \in Nat \ {0} /\ PeriodMS <= DURATION
    /\ PeriodFrequency \in Nat \ {0} /\ MaxTime \in Nat \ {0}

VARIABLES
    now,               \* ClockType::now()
    pc,
    ClientOwnedFlag,   \* client -> "FREE", "OWNED" or "DISOWNED"
    Info,              \* client -> the buffer its iterator was made for
    CountPer, Previous,
    AllocationMutex,   \* its holder, while that one scans the claimed buffers
    scan,              \* the holder's [Now, todo, seen]
    ClaimedBuffers,    \* the clients with an element in the list
    UnclaimedBuffers,  \* a sequence of buffers
    Size,              \* buffer -> its size, 0 when there is no such buffer
    LastUsed           \* buffer -> when its client last had it

clientVars == <<pc, ClientOwnedFlag, Info, CountPer, Previous>>
poolVars == <<AllocationMutex, scan, ClaimedBuffers, UnclaimedBuffers, Size, LastUsed>>
vars == <<now, clientVars, poolVars>>

NoScan == [Now |-> 0, todo |-> {}, seen |-> NoClient]

Times == 0 .. MaxTime

TypeOK ==
    /\ now \in 1 .. MaxTime
    /\ pc \in [Clients -> {"new", "idle", "touch", "lock", "scan", "use", "disown", "period",
                           "unclaim", "destroy", "dead", "undefined"}]
    /\ ClientOwnedFlag \in [Clients -> {"FREE", "OWNED", "DISOWNED"}]
    /\ Info \in [Clients -> Buffers \cup {NoBuffer}]
    /\ CountPer \in [Clients -> 0 .. PeriodFrequency]
    /\ Previous \in [Clients -> Times]
    /\ AllocationMutex \in Clients \cup {NoClient}
    /\ scan \in [Now : Times, todo : SUBSET Clients, seen : Clients \cup {NoClient}]
    /\ ClaimedBuffers \subseteq Clients
    /\ UnclaimedBuffers \in Seq(Buffers)
    /\ Size \in [Buffers -> Nat]
    /\ LastUsed \in [Buffers -> Times]

Init ==
    /\ now = 1
    /\ pc = [c \in Clients |-> "new"]
    /\ ClientOwnedFlag = [c \in Clients |-> "FREE"]
    /\ Info = [c \in Clients |-> NoBuffer]
    /\ CountPer = [c \in Clients |-> 0]
    /\ Previous = [c \in Clients |-> 0]
    /\ AllocationMutex = NoClient
    /\ scan = NoScan
    /\ ClaimedBuffers = {}
    /\ UnclaimedBuffers = <<>>
    /\ Size = [b \in Buffers |-> 0]
    /\ LastUsed = [b \in Buffers |-> 0]

Goto(c, l) == pc' = [pc EXCEPT ![c] = l]
SetFlag(c, f) == ClientOwnedFlag' = [ClientOwnedFlag EXCEPT ![c] = f]
Touched(c) == LastUsed' = [LastUsed EXCEPT ![Info[c]] = now]

Expired(b, time) == time - LastUsed[b] >= DURATION

-----------------------------------------------------------------------------
(* Owning the buffer *)

\* An IR allocator claims a buffer in its constructor, a decoder does not.
Construct(c) ==
    /\ pc[c] = "new"
    /\ Goto(c, IF c \in Eager THEN "lock" ELSE "idle")
    /\ UNCHANGED <<now, ClientOwnedFlag, Info, CountPer, Previous, poolVars>>

\* The buffer may still be owned; a disowned one is taken back by a
\* compare-exchange, and when that fails another is claimed.
ReownOrClaimBuffer(c) ==
    /\ pc[c] = "idle"
    /\ CASE ClientOwnedFlag[c] = "OWNED" -> Goto(c, "use") /\ UNCHANGED ClientOwnedFlag
         [] ClientOwnedFlag[c] = "DISOWNED" -> SetFlag(c, "OWNED") /\ Goto(c, "touch")
         [] ClientOwnedFlag[c] = "FREE" -> Goto(c, "lock") /\ UNCHANGED ClientOwnedFlag
    /\ UNCHANGED <<now, Info, CountPer, Previous, poolVars>>

Reowned(c) ==
    /\ pc[c] = "touch"
    /\ Touched(c)
    /\ Goto(c, "use")
    /\ UNCHANGED <<now, ClientOwnedFlag, Info, CountPer, Previous, AllocationMutex, scan,
                   ClaimedBuffers, UnclaimedBuffers, Size>>

\* DisownBuffer: LastUsed first, the flag in a step of its own.
StoreLastUsed(c) ==
    /\ pc[c] = "use"
    /\ Touched(c)
    /\ Goto(c, "disown")
    /\ UNCHANGED <<now, ClientOwnedFlag, Info, CountPer, Previous, AllocationMutex, scan,
                   ClaimedBuffers, UnclaimedBuffers, Size>>

DisownBuffer(c) ==
    /\ pc[c] = "disown"
    /\ SetFlag(c, "DISOWNED")
    /\ Goto(c, "period")
    /\ UNCHANGED <<now, Info, CountPer, Previous, poolVars>>

\* The rest of DelayedDisownBuffer, with UnclaimBuffer's test of the flag.
\* CountPer is only compared with PeriodFrequency and stops there.
EndOfPeriod(c) ==
    /\ pc[c] = "period"
    /\ IF now - Previous[c] >= PeriodMS
       THEN /\ Goto(c, IF CountPer[c] < PeriodFrequency /\ ClientOwnedFlag[c] # "FREE"
                       THEN "unclaim" ELSE "idle")
            /\ CountPer' = [CountPer EXCEPT ![c] = 1]
            /\ Previous' = [Previous EXCEPT ![c] = now]
       ELSE /\ Goto(c, "idle")
            /\ CountPer' = [CountPer EXCEPT ![c] = IF @ < PeriodFrequency THEN @ + 1 ELSE @]
            /\ UNCHANGED Previous
    /\ UNCHANGED <<now, ClientOwnedFlag, Info, poolVars>>

\* Mutant: the destructor leaves a disowned buffer in the pool.
DestroyIfOwned(c) ==
    /\ pc[c] = "idle"
    /\ Goto(c, IF ClientOwnedFlag[c] = "OWNED" THEN "destroy" ELSE "dead")
    /\ UNCHANGED <<now, ClientOwnedFlag, Info, CountPer, Previous, poolVars>>

\* The destructors of the clients' owners call UnclaimBuffer.
Destroy(c) ==
    /\ pc[c] = "idle"
    /\ Goto(c, IF ClientOwnedFlag[c] # "FREE" THEN "destroy" ELSE "dead")
    /\ UNCHANGED <<now, ClientOwnedFlag, Info, CountPer, Previous, poolVars>>

-----------------------------------------------------------------------------
(* Under the mutex *)

\* UnclaimBuffer goes through the iterator: nobody looks again whether the
\* pool has taken the buffer since the flag was tested.
UnclaimBuffer(c) ==
    /\ pc[c] \in {"unclaim", "destroy"}
    /\ AllocationMutex = NoClient
    /\ IF c \in ClaimedBuffers
       THEN /\ SetFlag(c, "FREE")
            /\ ClaimedBuffers' = ClaimedBuffers \ {c}
            /\ UnclaimedBuffers' = Append(UnclaimedBuffers, Info[c])
            /\ Goto(c, IF pc[c] = "destroy" THEN "dead" ELSE "idle")
       ELSE /\ Goto(c, "undefined")
            /\ UNCHANGED <<ClientOwnedFlag, ClaimedBuffers, UnclaimedBuffers>>
    /\ UNCHANGED <<now, Info, CountPer, Previous, AllocationMutex, scan, Size, LastUsed>>

BeginClaim(c) ==
    /\ pc[c] = "lock"
    /\ AllocationMutex = NoClient
    /\ AllocationMutex' = c
    /\ scan' = [Now |-> now, todo |-> ClaimedBuffers, seen |-> NoClient]
    /\ Goto(c, "scan")
    /\ UNCHANGED <<now, ClientOwnedFlag, Info, CountPer, Previous, ClaimedBuffers,
                   UnclaimedBuffers, Size, LastUsed>>

\* ClaimBufferImpl reads the flag and LastUsed of one claimed buffer.
LookAtClaimed(c) ==
    /\ AllocationMutex = c
    /\ scan.seen = NoClient
    /\ \E d \in scan.todo :
          scan' = [scan EXCEPT !.todo = @ \ {d},
                               !.seen = IF /\ ClientOwnedFlag[d] = "DISOWNED"
                                           /\ Expired(Info[d], scan.Now)
                                        THEN d ELSE NoClient]
    /\ UNCHANGED <<now, clientVars, AllocationMutex, ClaimedBuffers, UnclaimedBuffers, Size,
                   LastUsed>>

\* Mutant: the flag is stored without comparing it again.
TakeWithoutCas(c) ==
    /\ AllocationMutex = c
    /\ scan.seen # NoClient
    /\ SetFlag(scan.seen, "FREE")
    /\ ClaimedBuffers' = ClaimedBuffers \ {scan.seen}
    /\ UnclaimedBuffers' = Append(UnclaimedBuffers, Info[scan.seen])
    /\ scan' = [scan EXCEPT !.seen = NoClient]
    /\ UNCHANGED <<now, pc, Info, CountPer, Previous, AllocationMutex, Size, LastUsed>>

\* ... and takes it away with a compare-exchange.
TakeExpired(c) ==
    /\ AllocationMutex = c
    /\ scan.seen # NoClient
    /\ IF ClientOwnedFlag[scan.seen] = "DISOWNED"
       THEN /\ SetFlag(scan.seen, "FREE")
            /\ ClaimedBuffers' = ClaimedBuffers \ {scan.seen}
            /\ UnclaimedBuffers' = Append(UnclaimedBuffers, Info[scan.seen])
       ELSE UNCHANGED <<ClientOwnedFlag, ClaimedBuffers, UnclaimedBuffers>>
    /\ scan' = [scan EXCEPT !.seen = NoClient]
    /\ UNCHANGED <<now, pc, Info, CountPer, Previous, AllocationMutex, Size, LastUsed>>

SizeAt(i) == Size[UnclaimedBuffers[i]]
LastUsedAt(i) == LastUsed[UnclaimedBuffers[i]]

\* The index of the first unclaimed buffer of size n or else of the last
\* larger one; 0 when there is none.
BestFit(n) ==
    LET exact == {i \in DOMAIN UnclaimedBuffers : SizeAt(i) = n}
        larger == {i \in DOMAIN UnclaimedBuffers : SizeAt(i) > n}
    IN  IF exact # {} THEN Min(exact) ELSE IF larger # {} THEN Max(larger) ELSE 0

\* The index of the unclaimed buffer that is freed: of the expired ones,
\* but for the one about to be claimed, the first that was used last.
StaleBuffer(best) ==
    LET expired == {i \in DOMAIN UnclaimedBuffers \ {best} :
                        Expired(UnclaimedBuffers[i], scan.Now) /\ LastUsedAt(i) > 0}
    IN  IF expired = {} THEN 0
        ELSE Min({i \in expired : \A j \in expired : LastUsedAt(i) >= LastUsedAt(j)})

\* erase(): i is the index of an element, or 0 for end().
Erase(s, i) == IF i = 0 THEN s ELSE RemoveAt(s, i)

\* ClaimBuffer gets b: its element is the client's, and the flag says so.
Give(c, b) ==
    /\ Info' = [Info EXCEPT ![c] = b]
    /\ ClaimedBuffers' = ClaimedBuffers \cup {c}
    /\ SetFlag(c, "OWNED")
    /\ AllocationMutex' = NoClient
    /\ scan' = NoScan
    /\ Goto(c, IF c \in Eager /\ Info[c] = NoBuffer THEN "idle" ELSE "use")

\* The rest of ClaimBufferImpl: choose a buffer, free a stale one, and
\* allocate if there was none to choose.
ClaimBuffer(c) ==
    /\ AllocationMutex = c
    /\ scan.todo = {} /\ scan.seen = NoClient
    /\ LET best == BestFit(SizeOf[c])
           stale == StaleBuffer(best)
           freed == IF stale = 0 THEN Size ELSE [Size EXCEPT ![UnclaimedBuffers[stale]] = 0]
       IN  /\ UnclaimedBuffers' = IF stale > best
                                   THEN Erase(Erase(UnclaimedBuffers, stale), best)
                                   ELSE Erase(Erase(UnclaimedBuffers, best), stale)
           /\ IF best # 0
              THEN Give(c, UnclaimedBuffers[best]) /\ Size' = freed /\ UNCHANGED LastUsed
              ELSE \E b \in Buffers :
                      /\ Size[b] = 0
                      /\ Give(c, b)
                      /\ Size' = [freed EXCEPT ![b] = SizeOf[c]]
                      /\ LastUsed' = [LastUsed EXCEPT ![b] = now]
    /\ UNCHANGED <<now, CountPer, Previous>>

Tick ==
    /\ now < MaxTime
    /\ now' = now + 1
    /\ UNCHANGED <<clientVars, poolVars>>

-----------------------------------------------------------------------------

ClientStep(c) ==
    \/ Construct(c) \/ ReownOrClaimBuffer(c) \/ Reowned(c)
    \/ StoreLastUsed(c) \/ DisownBuffer(c) \/ EndOfPeriod(c) \/ Destroy(c)

PoolStep(c) ==
    \/ UnclaimBuffer(c) \/ BeginClaim(c)
    \/ LookAtClaimed(c) \/ TakeExpired(c) \/ ClaimBuffer(c)

\* Nothing is said of what follows undefined behaviour.
Defined == \A c \in Clients : pc[c] # "undefined"

Ended == (~Defined \/ \A c \in Clients : pc[c] = "dead") /\ UNCHANGED vars

Next ==
    \/ Defined /\ \E c \in Clients : ClientStep(c) \/ PoolStep(c)
    \/ Defined /\ Tick
    \/ Ended

Spec == Init /\ [][Next]_vars

-----------------------------------------------------------------------------
(* Properties *)

Using == {"use", "disown", "touch"}

\* While a client uses its buffer, the buffer is large enough and is
\* neither in the pool nor any other client's: the lock-free reown and the
\* scan never both win.
ExclusiveUse ==
    \A c \in Clients : pc[c] \in Using =>
        /\ c \in ClaimedBuffers
        /\ Size[Info[c]] >= SizeOf[c]
        /\ Info[c] \notin Range(UnclaimedBuffers)
        /\ \A d \in ClaimedBuffers \ {c} : Info[d] # Info[c]

\* Every allocated buffer is in exactly one of the two lists, and the lists
\* hold no buffer that was freed: nothing leaks and FreeAllBuffers frees
\* everything once.  The pool never holds the flag of a destroyed client,
\* which ClaimBufferImpl would write to.
BuffersListed ==
    /\ {b \in Buffers : Size[b] # 0} = Range(UnclaimedBuffers) \cup {Info[c] : c \in ClaimedBuffers}
    /\ IsInjective(UnclaimedBuffers)
    /\ Range(UnclaimedBuffers) \cap {Info[c] : c \in ClaimedBuffers} = {}
    /\ \A c \in Clients : pc[c] = "dead" => c \notin ClaimedBuffers \cup scan.todo \cup {scan.seen}

\* UnclaimBuffer never goes through an iterator whose element the pool has
\* erased: a client that found it had a buffer still has it when it holds
\* the mutex.
UnclaimFindsBuffer == Defined
=============================================================================
