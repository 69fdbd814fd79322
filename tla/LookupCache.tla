----------------------------- MODULE LookupCache -----------------------------
(***************************************************************************)
(* The block lookup cache of one guest thread, with the code that reads    *)
(* and fills it: the three levels of LookupCache (L1, L2, BlockList), the  *)
(* direct links between translated blocks, the inline lookup of the JIT    *)
(* dispatcher and the code buffers the translations live in.               *)
(*                                                                         *)
(* The owner thread is in one of five places:                              *)
(*   "dispatch"  in the dispatcher loop or in CompileBlock                 *)
(*   "l2hit"     in the dispatcher, between the load of an L2 entry and    *)
(*               the store of that entry to L1                             *)
(*   "code"      inside the translated block `running', or on its way to   *)
(*               it with the host address in a register                    *)
(*   "link"      in ExitFunctionLink, between FindBlock and the patch      *)
(*   "linked"    in ExitFunctionLink, between the patch of the exit and    *)
(*               the registration of its delinker                          *)
(* A guest signal is taken in the first three; the dispatcher masks every  *)
(* signal around CompileBlock and ExitFunctionLink.                        *)
(* An invalidation (Erase) comes from the owner itself (a store to its own *)
(* code, a system call) or, when CrossThread, from another guest thread,   *)
(* which takes CodeInvalidationMutex and WriteLock but does not stop the   *)
(* owner.  Erase is two steps so that the lock-free readers can run        *)
(* between them; the holders of a lock cannot.                             *)
(***************************************************************************)
EXTENDS Integers

CONSTANTS
    Addrs,            \* guest addresses at which blocks are compiled
    HostCodes,        \* host entry points the JIT can emit
    Buffer,           \* HostCodes -> index of the code buffer that holds it
    LastBuffer,       \* bound: buffers 0..LastBuffer can be allocated
    ExitOf,           \* Addrs -> guest address of the block's linkable exit
    L1_ENTRIES,       \* number of L1 entries
    PAGE,             \* guest bytes per L2 page (4096 in the code)
    VirtualMemSize,   \* guest bytes the L2 directory distinguishes
    CODE_PAGES,       \* CODE_SIZE / SIZE_PER_PAGE: L2 pages of backing
    CrossThread,      \* other guest threads invalidate this thread's code
    TSOAutoMigration, \* configuration: MarkMemoryShared clears the cache
    Signals           \* the guest runs signal handlers

NoAddr == -1
NoHost == 0

ASSUME AddrAssumption ==
    /\ Addrs \subseteq Nat
    /\ ExitOf \in [Addrs -> Addrs]

ASSUME HostAssumption ==
    /\ HostCodes \subseteq Nat \ {NoHost}
    /\ LastBuffer \in Nat
    /\ Buffer \in [HostCodes -> 0 .. LastBuffer]

ASSUME SizeAssumption ==
    /\ L1_ENTRIES \in Nat \ {0}
    /\ PAGE \in Nat \ {0}
    /\ VirtualMemSize \in Nat \ {0}
    /\ VirtualMemSize % PAGE = 0
    /\ CODE_PAGES \in Nat /\ CODE_PAGES >= 2

ASSUME ConfigAssumption ==
    /\ CrossThread \in BOOLEAN
    /\ TSOAutoMigration \in BOOLEAN
    /\ Signals \in BOOLEAN

VARIABLES
    L1,             \* the L1 table: index -> entry
    PagePointers,   \* L2 directory: the pages that have backing
    PageMemory,     \* L2 backing: page -> offset -> entry
    AllocateOffset, \* L2 backing pages handed out since the last clear
    BlockList,      \* L3: guest address -> host code, NoHost when absent
    BlockLinks,     \* registered delinkers: <<guest destination, host block>>
    Jump,           \* exit stub of a host block: its target, NoHost = linker
    CodeOf,         \* guest address a host block translates, NoAddr = free
    CurrentBuffer,  \* code buffer the JIT emits to
    pc,             \* where the owner thread is
    running,        \* host block the owner is in, when pc = "code"
    interrupted,    \* context under a guest signal handler, or NoContext
    pending,        \* entry loaded by the dispatcher or found by the linker
    IsMemoryShared, \* the guest has shared memory or more than one thread
    erasing,        \* address whose Erase is half done, or NoAddr
    stale           \* history: blocks invalidated since they were compiled

l2vars == <<PagePointers, PageMemory, AllocateOffset>>
cacheVars == <<L1, l2vars, BlockList>>
linkVars == <<BlockLinks, Jump>>
codeVars == <<CodeOf, CurrentBuffer, stale>>
ownerVars == <<pc, running, interrupted, pending>>
vars == <<cacheVars, linkVars, codeVars, ownerVars, IsMemoryShared, erasing>>

L1Index(a) == a % L1_ENTRIES
PageIndex(a) == (a % VirtualMemSize) \div PAGE
PageOffset(a) == a % PAGE

L1Indexes == 0 .. L1_ENTRIES - 1
PageIndexes == {m \div PAGE : m \in 0 .. VirtualMemSize - 1}
PageOffsets == 0 .. PAGE - 1

\* struct LookupCacheEntry
Entries == [GuestCode : Nat, HostCode : HostCodes \cup {NoHost}]
Entry(a, h) == [GuestCode |-> a, HostCode |-> h]
ZeroEntry == Entry(0, NoHost)

\* What StoreThreadState saves of the owner: where it was, the block it ran
\* and the entry in its registers.
Contexts == [pc : {"none", "dispatch", "l2hit", "code"},
             running : HostCodes \cup {NoHost}, pending : Entries]
NoContext == [pc |-> "none", running |-> NoHost, pending |-> ZeroEntry]

EmptyL1 == [i \in L1Indexes |-> ZeroEntry]
EmptyL2 == [p \in PageIndexes |-> [o \in PageOffsets |-> ZeroEntry]]
NoBlocks == [a \in Addrs |-> NoHost]
NoCode == [h \in HostCodes |-> NoAddr]
NoJumps == [h \in HostCodes |-> NoHost]

TypeOK ==
    /\ L1 \in [L1Indexes -> Entries]
    /\ PagePointers \subseteq PageIndexes
    /\ PageMemory \in [PageIndexes -> [PageOffsets -> Entries]]
    /\ AllocateOffset \in 0 .. CODE_PAGES - 1
    /\ BlockList \in [Addrs -> HostCodes \cup {NoHost}]
    /\ BlockLinks \subseteq Addrs \X HostCodes
    /\ Jump \in [HostCodes -> HostCodes \cup {NoHost}]
    /\ CodeOf \in [HostCodes -> Addrs \cup {NoAddr}]
    /\ CurrentBuffer \in 0 .. LastBuffer
    /\ pc \in {"dispatch", "l2hit", "code", "link", "linked"}
    /\ running \in HostCodes \cup {NoHost}
    /\ interrupted \in Contexts
    /\ pending \in Entries
    /\ pc \in {"link", "linked"} => pending.GuestCode \in Addrs
    /\ IsMemoryShared \in BOOLEAN
    /\ erasing \in Addrs \cup {NoAddr}
    /\ stale \subseteq HostCodes

Init ==
    /\ L1 = EmptyL1
    /\ PagePointers = {}
    /\ PageMemory = EmptyL2
    /\ AllocateOffset = 0
    /\ BlockList = NoBlocks
    /\ BlockLinks = {}
    /\ Jump = NoJumps
    /\ CodeOf = NoCode
    /\ CurrentBuffer = 0
    /\ pc = "dispatch"
    /\ running = NoHost
    /\ interrupted = NoContext
    /\ pending = ZeroEntry
    /\ IsMemoryShared = FALSE
    /\ erasing = NoAddr
    /\ stale = {}

-----------------------------------------------------------------------------
(* Lookup *)

L1Hit(a) == L1[L1Index(a)].GuestCode = a
L2Entry(a) == PageMemory[PageIndex(a)][PageOffset(a)]
L2Hit(a) == PageIndex(a) \in PagePointers /\ L2Entry(a).GuestCode = a

\* What FindBlock(a) returns.
Found(a) ==
    IF L1Hit(a) THEN L1[L1Index(a)].HostCode
    ELSE IF L2Hit(a) THEN L2Entry(a).HostCode
    ELSE BlockList[a]

\* AllocateBackingForPage fails when the new end reaches CODE_SIZE.
BackingExhausted == AllocateOffset + 1 >= CODE_PAGES

\* The mapping when the page of a has backing, or can be given some.
CacheInPage(a, h) ==
    /\ L1' = [L1 EXCEPT ![L1Index(a)] = Entry(a, h)]
    /\ PagePointers' = PagePointers \cup {PageIndex(a)}
    /\ AllocateOffset' = IF PageIndex(a) \in PagePointers
                         THEN AllocateOffset ELSE AllocateOffset + 1
    /\ PageMemory' = [PageMemory EXCEPT
                        ![PageIndex(a)][PageOffset(a)] = Entry(a, h)]

\* Out of backing: clear L2 and call CacheBlockMapping again.  The variable
\* Address has already been shifted to a page index, and that is what the
\* second call gets.
CacheRetry(a, h) ==
    LET b == PageIndex(a) IN
    /\ L1' = [L1 EXCEPT ![L1Index(a)] = Entry(a, h),
                        ![L1Index(b)] = Entry(b, h)]
    /\ PagePointers' = {PageIndex(b)}
    /\ AllocateOffset' = 1
    /\ PageMemory' = [EmptyL2 EXCEPT
                        ![PageIndex(b)][PageOffset(b)] = Entry(b, h)]

CacheBlockMapping(a, h) ==
    IF PageIndex(a) \notin PagePointers /\ BackingExhausted
    THEN CacheRetry(a, h)
    ELSE CacheInPage(a, h)

\* Mutant: an L3 hit clears the whole cache when L2 is out of backing.
FindBlockClears(a) ==
    IF L1Hit(a) \/ L2Hit(a) THEN UNCHANGED cacheVars
    ELSE IF PageIndex(a) \in PagePointers \/ ~BackingExhausted
    THEN CacheInPage(a, BlockList[a]) /\ UNCHANGED BlockList
    ELSE /\ L1' = EmptyL1
         /\ PagePointers' = {} /\ PageMemory' = EmptyL2 /\ AllocateOffset' = 0
         /\ BlockList' = [NoBlocks EXCEPT ![a] = BlockList[a]]

\* FindBlock: an L2 hit is copied to L1, an L3 hit to L1 and L2.
FindBlock(a) ==
    /\ UNCHANGED BlockList
    /\ \/ /\ L1Hit(a)
          /\ UNCHANGED <<L1, l2vars>>
       \/ /\ ~L1Hit(a) /\ L2Hit(a)
          /\ L1' = [L1 EXCEPT ![L1Index(a)] = L2Entry(a)]
          /\ UNCHANGED l2vars
       \/ /\ ~L1Hit(a) /\ ~L2Hit(a)
          /\ IF BlockList[a] # NoHost
             THEN CacheBlockMapping(a, BlockList[a])
             ELSE UNCHANGED <<L1, l2vars>>

-----------------------------------------------------------------------------
(* The owner thread: dispatcher loop, translated code, compilation *)

\* Other guest threads exist only once memory is marked shared.
OtherThreads == CrossThread /\ IsMemoryShared

\* While its own thread erases, the owner does nothing else.
OwnerRuns == erasing = NoAddr \/ OtherThreads

\* Dispatcher: the inline L1 lookup hits and jumps to the block.
DispatchL1(a) ==
    /\ OwnerRuns /\ pc = "dispatch"
    /\ L1Hit(a) /\ L1[L1Index(a)].HostCode # NoHost
    /\ pc' = "code"
    /\ running' = L1[L1Index(a)].HostCode
    /\ UNCHANGED <<cacheVars, linkVars, codeVars, interrupted, pending, IsMemoryShared, erasing>>

\* Dispatcher: L1 misses, the inline L2 lookup loads a matching entry.
DispatchL2Load(a) ==
    /\ OwnerRuns /\ pc = "dispatch"
    /\ ~L1Hit(a) /\ L2Hit(a) /\ L2Entry(a).HostCode # NoHost
    /\ pc' = "l2hit"
    /\ pending' = L2Entry(a)
    /\ UNCHANGED <<cacheVars, linkVars, codeVars, running, interrupted, IsMemoryShared, erasing>>

\* Dispatcher: store the loaded entry to L1, without WriteLock, and jump.
DispatchL2Store ==
    /\ OwnerRuns /\ pc = "l2hit"
    /\ L1' = [L1 EXCEPT ![L1Index(pending.GuestCode)] = pending]
    /\ pc' = "code"
    /\ running' = pending.HostCode
    /\ pending' = ZeroEntry
    /\ UNCHANGED <<l2vars, BlockList, linkVars, codeVars, interrupted, IsMemoryShared, erasing>>

\* CompileBlock when FindBlock finds the block in L3 (or, after a race with
\* the inline lookup, in L1 or L2).
CompileBlockFound(a) ==
    /\ pc = "dispatch" /\ erasing = NoAddr
    /\ Found(a) # NoHost
    /\ FindBlock(a)
    /\ UNCHANGED <<linkVars, codeVars, ownerVars, IsMemoryShared, erasing>>

BufferFull == \A h \in HostCodes : Buffer[h] = CurrentBuffer => CodeOf[h] # NoAddr

\* AddBlockMapping: insert to BlockList (emplace keeps an entry that is
\* there) and to L1.
AddBlockMapping(a, h, list, l1) ==
    /\ BlockList' = [list EXCEPT ![a] = IF list[a] = NoHost THEN h ELSE list[a]]
    /\ L1' = [l1 EXCEPT ![L1Index(a)] = Entry(a, h)]

\* CompileBlock when the block is not cached: emit host code h, insert it.
CompileBlock(a, h) ==
    /\ pc = "dispatch" /\ erasing = NoAddr
    /\ Found(a) = NoHost
    /\ Buffer[h] = CurrentBuffer /\ CodeOf[h] = NoAddr
    /\ AddBlockMapping(a, h, BlockList, L1)
    /\ CodeOf' = [CodeOf EXCEPT ![h] = a]
    /\ Jump' = [Jump EXCEPT ![h] = NoHost]
    /\ UNCHANGED <<l2vars, BlockLinks, CurrentBuffer, stale, ownerVars, IsMemoryShared, erasing>>

\* LookupCache::ClearCache, without the L1 table and BlockList.
ClearL2AndLinks ==
    /\ PagePointers' = {}
    /\ PageMemory' = EmptyL2
    /\ AllocateOffset' = 0
    /\ BlockLinks' = {}

\* Mutant: the code under a signal handler is dropped as well.
DropAllCode == <<NoCode, NoJumps, 0, {}>>

\* GetEmptyCodeBuffer: with no signal handler active all code is dropped and
\* the first buffer is used again; otherwise the old code stays and a new
\* buffer is added.
GetEmptyCodeBuffer ==
    IF interrupted.pc = "none"
    THEN <<NoCode, NoJumps, 0, {}>>
    ELSE <<CodeOf, Jump, CurrentBuffer + 1, stale>>

\* CompileBlock when the code buffer is full: the JIT calls ClearCodeCache in
\* the middle of the compilation and then emits to the empty buffer.
CompileBlockClears(a, h) ==
    /\ pc = "dispatch" /\ erasing = NoAddr
    /\ Found(a) = NoHost
    /\ BufferFull
    /\ LET fresh == GetEmptyCodeBuffer IN
       /\ fresh[3] \in 0 .. LastBuffer
       /\ Buffer[h] = fresh[3]
       /\ AddBlockMapping(a, h, NoBlocks, EmptyL1)
       /\ CodeOf' = [fresh[1] EXCEPT ![h] = a]
       /\ Jump' = [fresh[2] EXCEPT ![h] = NoHost]
       /\ CurrentBuffer' = fresh[3]
       /\ stale' = fresh[4]
    /\ ClearL2AndLinks
    /\ UNCHANGED <<ownerVars, IsMemoryShared, erasing>>

\* The block ends at an exit that is not linked: it calls ExitFunctionLink.
\* The destination is not cached, so the dispatcher continues with its rip.
ExitFunctionLinkMiss ==
    /\ pc = "code" /\ erasing = NoAddr
    /\ Jump[running] = NoHost
    /\ Found(ExitOf[CodeOf[running]]) = NoHost
    /\ pc' = "dispatch"
    /\ running' = NoHost
    /\ UNCHANGED <<cacheVars, linkVars, codeVars, interrupted, pending, IsMemoryShared, erasing>>

\* ExitFunctionLink finds the destination, under WriteLock.
ExitFunctionLinkFind ==
    LET a == ExitOf[CodeOf[running]] IN
    /\ pc = "code" /\ erasing = NoAddr
    /\ Jump[running] = NoHost
    /\ Found(a) # NoHost
    /\ FindBlock(a)
    /\ pc' = "link"
    /\ pending' = Entry(a, Found(a))
    /\ UNCHANGED <<linkVars, codeVars, running, interrupted, IsMemoryShared, erasing>>

\* It patches the exit, without a lock ...
ExitFunctionLinkPatch ==
    /\ OwnerRuns /\ pc = "link"
    /\ Jump' = [Jump EXCEPT ![running] = pending.HostCode]
    /\ pc' = "linked"
    /\ UNCHANGED <<cacheVars, BlockLinks, codeVars, running, interrupted, pending, IsMemoryShared,
                   erasing>>

\* Mutant: the exit stays patched and no delinker is registered.
LinkWithoutDelinker ==
    /\ pc = "linked" /\ erasing = NoAddr
    /\ pc' = "code"
    /\ running' = pending.HostCode
    /\ pending' = ZeroEntry
    /\ UNCHANGED <<cacheVars, linkVars, codeVars, interrupted, IsMemoryShared, erasing>>

\* ... and ThreadAddBlockLink registers the delinker (insert keeps an entry
\* that is there), under CodeInvalidationMutex and WriteLock; then it jumps.
ThreadAddBlockLink ==
    /\ pc = "linked" /\ erasing = NoAddr
    /\ BlockLinks' = BlockLinks \cup {<<pending.GuestCode, running>>}
    /\ pc' = "code"
    /\ running' = pending.HostCode
    /\ pending' = ZeroEntry
    /\ UNCHANGED <<cacheVars, Jump, codeVars, interrupted, IsMemoryShared, erasing>>

\* A linked exit goes straight to the next block.
FollowLink ==
    /\ OwnerRuns /\ pc = "code"
    /\ Jump[running] # NoHost
    /\ running' = Jump[running]
    /\ UNCHANGED <<cacheVars, linkVars, codeVars, pc, interrupted, pending, IsMemoryShared, erasing>>

\* An indirect branch returns to the dispatcher.
ExitToDispatcher ==
    /\ OwnerRuns /\ pc = "code"
    /\ pc' = "dispatch"
    /\ running' = NoHost
    /\ UNCHANGED <<cacheVars, linkVars, codeVars, interrupted, pending, IsMemoryShared, erasing>>

\* A guest signal is taken wherever signals are not masked, in a block or in
\* the dispatcher; its handler starts at the top of the dispatcher.
SignalGuest ==
    /\ Signals /\ OwnerRuns
    /\ pc \in {"dispatch", "l2hit", "code"} /\ interrupted.pc = "none"
    /\ interrupted' = [pc |-> pc, running |-> running, pending |-> pending]
    /\ pc' = "dispatch"
    /\ running' = NoHost
    /\ pending' = ZeroEntry
    /\ UNCHANGED <<cacheVars, linkVars, codeVars, IsMemoryShared, erasing>>

\* The guest handler returns: the interrupted context continues or, when the
\* handler changed the saved RIP, the dispatcher starts at its top.
SignalReturn ==
    /\ OwnerRuns /\ pc = "dispatch" /\ interrupted.pc # "none"
    /\ \/ /\ pc' = interrupted.pc
          /\ running' = interrupted.running
          /\ pending' = interrupted.pending
       \/ UNCHANGED <<pc, running, pending>>
    /\ interrupted' = NoContext
    /\ UNCHANGED <<cacheVars, linkVars, codeVars, IsMemoryShared, erasing>>

\* MarkMemoryShared, from the first mmap, shmat or clone that shares memory,
\* made by translated code: with TSOAutoMigration the lookup cache is cleared
\* and the code buffers are kept.
MarkMemoryShared ==
    /\ ~IsMemoryShared /\ pc = "code" /\ erasing = NoAddr
    /\ IsMemoryShared' = TRUE
    /\ \/ /\ TSOAutoMigration
          /\ L1' = EmptyL1
          /\ BlockList' = NoBlocks
          /\ ClearL2AndLinks
       \/ ~TSOAutoMigration /\ UNCHANGED <<cacheVars, BlockLinks>>
    /\ UNCHANGED <<Jump, codeVars, ownerVars, erasing>>

-----------------------------------------------------------------------------
(* Invalidation *)

\* Mutant: the block stays in BlockList.
EraseKeepsBlock(a) ==
    /\ erasing = NoAddr
    /\ OtherThreads \/ pc \in {"dispatch", "code"}
    /\ erasing' = a
    /\ Jump' = [h \in HostCodes |-> IF <<a, h>> \in BlockLinks THEN NoHost ELSE Jump[h]]
    /\ BlockLinks' = {l \in BlockLinks : l[1] # a}
    /\ L1' = IF L1Hit(a) THEN [L1 EXCEPT ![L1Index(a)].GuestCode = 0] ELSE L1
    /\ stale' = stale \cup {h \in HostCodes : CodeOf[h] = a}
    /\ UNCHANGED <<l2vars, BlockList, CodeOf, CurrentBuffer, ownerVars, IsMemoryShared>>

\* Erase, first part: run and drop the delinkers, drop the block from
\* BlockList and, when L1 holds it, from L1 (its HostCode stays).
EraseL1(a) ==
    /\ erasing = NoAddr
    /\ OtherThreads \/ pc \in {"dispatch", "code"}
    /\ erasing' = a
    /\ Jump' = [h \in HostCodes |-> IF <<a, h>> \in BlockLinks THEN NoHost ELSE Jump[h]]
    /\ BlockLinks' = {l \in BlockLinks : l[1] # a}
    /\ BlockList' = [BlockList EXCEPT ![a] = NoHost]
    /\ L1' = IF L1Hit(a) THEN [L1 EXCEPT ![L1Index(a)].GuestCode = 0] ELSE L1
    /\ stale' = stale \cup {h \in HostCodes : CodeOf[h] = a}
    /\ UNCHANGED <<l2vars, CodeOf, CurrentBuffer, ownerVars, IsMemoryShared>>

\* Mutant: Erase ends before it looks at L2.
EraseLeavesL2 ==
    /\ erasing # NoAddr
    /\ erasing' = NoAddr
    /\ UNCHANGED <<cacheVars, linkVars, codeVars, ownerVars, IsMemoryShared>>

\* Erase, second part: zero the L2 entry when the page has backing.
EraseL2 ==
    /\ erasing # NoAddr
    /\ erasing' = NoAddr
    /\ PageMemory' = IF PageIndex(erasing) \in PagePointers
                     THEN [PageMemory EXCEPT
                             ![PageIndex(erasing)][PageOffset(erasing)] = ZeroEntry]
                     ELSE PageMemory
    /\ UNCHANGED <<L1, PagePointers, AllocateOffset, BlockList, linkVars, codeVars, ownerVars, IsMemoryShared>>

-----------------------------------------------------------------------------

Dispatch == \/ \E a \in Addrs : DispatchL1(a) \/ DispatchL2Load(a)
            \/ DispatchL2Store

Compile == \E a \in Addrs :
              \/ CompileBlockFound(a)
              \/ \E h \in HostCodes : CompileBlock(a, h) \/ CompileBlockClears(a, h)

RunCode == \/ ExitFunctionLinkMiss \/ ExitFunctionLinkFind
           \/ ExitFunctionLinkPatch \/ ThreadAddBlockLink \/ FollowLink
           \/ ExitToDispatcher \/ SignalGuest \/ SignalReturn \/ MarkMemoryShared

Invalidate == (\E a \in Addrs : EraseL1(a)) \/ EraseL2

Next == Dispatch \/ Compile \/ RunCode \/ Invalidate

Spec == Init /\ [][Next]_vars

-----------------------------------------------------------------------------
(* Properties *)

\* No block starts at address 0 (the value of an empty entry) nor at an
\* address that is the L2 page index of a block (what CacheRetry stores).
PlainAddrs == 0 \notin Addrs /\ \A a, b \in Addrs : PageIndex(a) # b

\* h is no pointer, or points to a block that has not been freed.
InUse(h) == h # NoHost => CodeOf[h] # NoAddr

\* The three levels answer as one map: whenever no Erase is half done,
\* FindBlock and the dispatcher's inline lookup return for every guest
\* address what BlockList holds, so a hit in L1 or L2 is never a block that
\* Erase or ClearCache removed and a miss is never a block that exists.
LookupSound ==
    erasing = NoAddr => \A a \in Addrs : Found(a) = BlockList[a]

Lookups == [a \in Addrs |-> Found(a)]

Abstract == INSTANCE BlockMap WITH blocks <- Lookups

\* Seen through its lookups the cache is a single map: no eviction from L1, no
\* clearing of L2 that ran out of backing and no copy from one level to
\* another loses a block or brings one back, and an Erase takes one block away
\* for good by the time it ends.
ImplementsBlockMap == Abstract!Spec

\* A thread at p, with block r and entry e in its registers, holds only code
\* that has not been freed.
HoldsCode(p, r, e) ==
    /\ p \in {"l2hit", "link", "linked"} => e.HostCode # NoHost /\ InUse(e.HostCode)
    /\ p \in {"code", "link", "linked"} => r # NoHost /\ InUse(r)

\* No pointer the owner can still follow (through L1, L2, BlockList, a link,
\* its registers, or the registers saved under a signal handler) leads into
\* code that ClearCodeCache has freed.
NoFreedCode ==
    /\ \A i \in L1Indexes : InUse(L1[i].HostCode)
    /\ \A p \in PageIndexes, o \in PageOffsets : InUse(PageMemory[p][o].HostCode)
    /\ \A a \in Addrs : InUse(BlockList[a])
    /\ \A h \in HostCodes : InUse(Jump[h])
    /\ HoldsCode(pc, running, pending)
    /\ HoldsCode(interrupted.pc, interrupted.running, interrupted.pending)

\* The L2 level on its own: what a backed page holds for an address is what
\* BlockList holds, whatever the lock-free stores of the dispatcher do to L1.
L2Sound ==
    erasing = NoAddr => \A a \in Addrs : L2Hit(a) => L2Entry(a).HostCode = BlockList[a]

\* A patched exit leads to the block that is mapped at the exit's guest
\* address, and its delinker is registered, so the next Erase severs it, but
\* for the one exit that ExitFunctionLink has just patched.
LinkSound ==
    \A h \in HostCodes : Jump[h] # NoHost =>
        /\ CodeOf[h] # NoAddr
        /\ BlockList[ExitOf[CodeOf[h]]] = Jump[h]
        /\ \/ <<ExitOf[CodeOf[h]], h>> \in BlockLinks
           \/ pc = "linked" /\ running = h

\* No step of dispatcher, linker or translated code enters a block whose
\* guest code was invalidated after the block was compiled.  (Returning into
\* a context that a signal interrupted is not an entry.)
NoStaleEntry ==
    [][(pc' = "code" /\ interrupted' = interrupted /\ <<pc, running>>' # <<pc, running>>)
          => running' \notin stale]_vars

=============================================================================
