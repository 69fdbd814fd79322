-------------------------- MODULE LookupCacheProofs --------------------------
(***************************************************************************)
(* Proofs about LookupCache, for every cache geometry, every set of guest  *)
(* addresses and every number of code buffers.                             *)
(***************************************************************************)
EXTENDS LookupCache, TLAPS

\* The code behind every pointer, with the types it needs.
CodeInv == TypeOK /\ NoFreedCode

\* L1Index, PageIndex and PageOffset stay inside their tables, also for the
\* page index that a retried CacheBlockMapping uses as an address.
LEMMA IndexRange ==
    ASSUME NEW a \in Nat
    PROVE  /\ L1Index(a) \in L1Indexes
           /\ PageIndex(a) \in PageIndexes
           /\ PageOffset(a) \in PageOffsets
           /\ PageIndex(a) \in Nat
<1>1. a % L1_ENTRIES \in 0 .. L1_ENTRIES - 1
  BY SizeAssumption
<1>2. a % PAGE \in 0 .. PAGE - 1
  BY SizeAssumption
<1>3. a % VirtualMemSize \in 0 .. VirtualMemSize - 1
  BY SizeAssumption
<1>4. (a % VirtualMemSize) \div PAGE \in Nat
  BY <1>3, SizeAssumption
<1> QED
  BY <1>1, <1>2, <1>3, <1>4
  DEF L1Index, PageIndex, PageOffset, L1Indexes, PageIndexes, PageOffsets

\* CacheBlockMapping keeps the types and stores only the given host code.
LEMMA CacheBlockMappingSafe ==
    ASSUME TypeOK, NoFreedCode, NEW a \in Addrs, NEW h \in HostCodes, InUse(h),
           CacheBlockMapping(a, h), UNCHANGED CodeOf
    PROVE  /\ L1' \in [L1Indexes -> Entries]
           /\ PagePointers' \subseteq PageIndexes
           /\ PageMemory' \in [PageIndexes -> [PageOffsets -> Entries]]
           /\ AllocateOffset' \in 0 .. CODE_PAGES - 1
           /\ \A i \in L1Indexes : InUse(L1[i].HostCode)'
           /\ \A p \in PageIndexes, o \in PageOffsets : InUse(PageMemory[p][o].HostCode)'
<1> DEFINE b == PageIndex(a)
<1>1. /\ a \in Nat /\ b \in Nat
      /\ L1Index(a) \in L1Indexes /\ PageIndex(a) \in PageIndexes /\ PageOffset(a) \in PageOffsets
      /\ L1Index(b) \in L1Indexes /\ PageIndex(b) \in PageIndexes /\ PageOffset(b) \in PageOffsets
  BY IndexRange, AddrAssumption
<1>2. Entry(a, h) \in Entries /\ Entry(b, h) \in Entries /\ ZeroEntry \in Entries
  BY <1>1 DEF Entry, Entries, ZeroEntry
<1>3. Entry(a, h).HostCode = h /\ Entry(b, h).HostCode = h /\ ZeroEntry.HostCode = NoHost
  BY DEF Entry, ZeroEntry
<1> HIDE DEF b
<1>4. CASE PageIndex(a) \notin PagePointers /\ BackingExhausted
  <2>1. CacheRetry(a, h)
    BY <1>4 DEF CacheBlockMapping
  <2>2. EmptyL2 \in [PageIndexes -> [PageOffsets -> Entries]]
    BY <1>2 DEF EmptyL2
  <2>3. L1' = [L1 EXCEPT ![L1Index(a)] = Entry(a, h), ![L1Index(b)] = Entry(b, h)]
    BY <2>1 DEF CacheRetry, b
  <2>4. PageMemory' = [EmptyL2 EXCEPT ![PageIndex(b)][PageOffset(b)] = Entry(b, h)]
    BY <2>1 DEF CacheRetry, b
  <2>5. PagePointers' = {PageIndex(b)} /\ AllocateOffset' = 1
    BY <2>1 DEF CacheRetry, b
  <2>6. \A p \in PageIndexes, o \in PageOffsets :
           PageMemory'[p][o].HostCode = NoHost \/ PageMemory'[p][o].HostCode = h
    BY <1>1, <1>3, <2>4 DEF EmptyL2
  <2>7. \A i \in L1Indexes : L1'[i].HostCode = L1[i].HostCode \/ L1'[i].HostCode = h
    BY <1>1, <1>3, <2>3 DEF TypeOK
  <2>8. L1' \in [L1Indexes -> Entries]
    BY <1>1, <1>2, <2>3 DEF TypeOK
  <2>9. PageMemory' \in [PageIndexes -> [PageOffsets -> Entries]]
    BY <1>1, <1>2, <2>2, <2>4
  <2>10. PagePointers' \subseteq PageIndexes /\ AllocateOffset' \in 0 .. CODE_PAGES - 1
    BY <1>1, <2>5, SizeAssumption
  <2>11. \A i \in L1Indexes : InUse(L1[i].HostCode)'
    BY <2>7 DEF NoFreedCode, InUse
  <2>12. \A p \in PageIndexes, o \in PageOffsets : InUse(PageMemory[p][o].HostCode)'
    BY <2>6 DEF InUse
  <2> QED
    BY <2>8, <2>9, <2>10, <2>11, <2>12
<1>5. CASE ~(PageIndex(a) \notin PagePointers /\ BackingExhausted)
  <2>1. CacheInPage(a, h)
    BY <1>5 DEF CacheBlockMapping
  <2>2. \A p \in PageIndexes, o \in PageOffsets :
           \/ PageMemory'[p][o].HostCode = PageMemory[p][o].HostCode
           \/ PageMemory'[p][o].HostCode = h
    BY <1>1, <1>3, <2>1 DEF CacheInPage, TypeOK
  <2>3. \A i \in L1Indexes : L1'[i].HostCode = L1[i].HostCode \/ L1'[i].HostCode = h
    BY <1>1, <1>3, <2>1 DEF CacheInPage, TypeOK
  <2>4. AllocateOffset' \in 0 .. CODE_PAGES - 1
    BY <1>5, <2>1, SizeAssumption DEF CacheInPage, TypeOK, BackingExhausted
  <2>5. PageMemory' \in [PageIndexes -> [PageOffsets -> Entries]]
    BY <1>1, <1>2, <2>1 DEF CacheInPage, TypeOK
  <2> QED
    BY <1>1, <1>2, <2>1, <2>2, <2>3, <2>4, <2>5 DEF CacheInPage, TypeOK, NoFreedCode, InUse
<1> QED
  BY <1>4, <1>5

\* What FindBlock answers is no code or code that is in use.
LEMMA FoundSafe ==
    ASSUME CodeInv, NEW a \in Addrs
    PROVE  Found(a) \in HostCodes \cup {NoHost} /\ InUse(Found(a))
<1>1. L1Index(a) \in L1Indexes /\ PageIndex(a) \in PageIndexes /\ PageOffset(a) \in PageOffsets
  BY IndexRange, AddrAssumption
<1>2. L1[L1Index(a)] \in Entries /\ L2Entry(a) \in Entries
  BY <1>1 DEF CodeInv, TypeOK, L2Entry
<1>3. InUse(L1[L1Index(a)].HostCode) /\ InUse(L2Entry(a).HostCode) /\ InUse(BlockList[a])
  BY <1>1 DEF CodeInv, NoFreedCode, L2Entry
<1> QED
  BY <1>2, <1>3 DEF Found, Entries, CodeInv, TypeOK

\* FindBlock keeps the types of the tables and fills them with code in use.
LEMMA FindBlockSafe ==
    ASSUME CodeInv, NEW a \in Addrs, FindBlock(a), UNCHANGED CodeOf
    PROVE  /\ L1' \in [L1Indexes -> Entries]
           /\ PagePointers' \subseteq PageIndexes
           /\ PageMemory' \in [PageIndexes -> [PageOffsets -> Entries]]
           /\ AllocateOffset' \in 0 .. CODE_PAGES - 1
           /\ BlockList' = BlockList
           /\ \A i \in L1Indexes : InUse(L1[i].HostCode)'
           /\ \A p \in PageIndexes, o \in PageOffsets : InUse(PageMemory[p][o].HostCode)'
<1>1. L1Index(a) \in L1Indexes /\ PageIndex(a) \in PageIndexes /\ PageOffset(a) \in PageOffsets
  BY IndexRange, AddrAssumption
<1>2. L2Entry(a) \in Entries /\ InUse(L2Entry(a).HostCode)
  BY <1>1 DEF CodeInv, TypeOK, NoFreedCode, L2Entry
<1>3. CASE UNCHANGED <<L1, l2vars>>
  BY <1>3 DEF CodeInv, TypeOK, NoFreedCode, InUse, FindBlock, l2vars
<1>4. CASE L1' = [L1 EXCEPT ![L1Index(a)] = L2Entry(a)] /\ UNCHANGED l2vars
  <2>1. \A i \in L1Indexes : L1'[i] = L1[i] \/ L1'[i] = L2Entry(a)
    BY <1>1, <1>4 DEF CodeInv, TypeOK
  <2>2. L1' \in [L1Indexes -> Entries]
    BY <1>1, <1>2, <1>4 DEF CodeInv, TypeOK
  <2> QED
    BY <1>2, <1>4, <2>1, <2>2 DEF CodeInv, TypeOK, NoFreedCode, InUse, FindBlock, l2vars
<1>5. CASE BlockList[a] # NoHost /\ CacheBlockMapping(a, BlockList[a])
  <2>1. BlockList[a] \in HostCodes /\ InUse(BlockList[a])
    BY <1>5 DEF CodeInv, TypeOK, NoFreedCode
  <2> QED
    BY <1>5, <2>1, CacheBlockMappingSafe DEF CodeInv, FindBlock
<1> QED
  BY <1>3, <1>4, <1>5 DEF FindBlock

\* The empty tables have the types of the tables and hold no code.
LEMMA EmptyTables ==
    /\ EmptyL1 \in [L1Indexes -> Entries]
    /\ EmptyL2 \in [PageIndexes -> [PageOffsets -> Entries]]
    /\ \A i \in L1Indexes : EmptyL1[i].HostCode = NoHost
    /\ \A p \in PageIndexes, o \in PageOffsets : EmptyL2[p][o].HostCode = NoHost
    /\ ZeroEntry \in Entries
<1>1. ZeroEntry \in Entries /\ ZeroEntry.HostCode = NoHost
  BY DEF ZeroEntry, Entry, Entries
<1>2. EmptyL1 \in [L1Indexes -> Entries] /\ \A i \in L1Indexes : EmptyL1[i] = ZeroEntry
  BY <1>1 DEF EmptyL1
<1>3. EmptyL2 \in [PageIndexes -> [PageOffsets -> Entries]]
  BY <1>1 DEF EmptyL2
<1>4. \A p \in PageIndexes, o \in PageOffsets : EmptyL2[p][o] = ZeroEntry
  BY DEF EmptyL2
<1> QED
  BY <1>1, <1>2, <1>3, <1>4

\* An empty L2 has backing left, and there is a first code buffer.
LEMMA Bounds == 0 \in 0 .. CODE_PAGES - 1 /\ 1 \in 0 .. CODE_PAGES - 1 /\ 0 \in 0 .. LastBuffer
  BY SizeAssumption, HostAssumption

\* The thread's own registers, and the saved ones, while no code is freed.
OwnerHolds ==
    /\ HoldsCode(pc, running, pending)
    /\ HoldsCode(interrupted.pc, interrupted.running, interrupted.pending)

LEMMA OwnerKeepsCode ==
    ASSUME CodeInv, UNCHANGED ownerVars,
           \A g \in HostCodes : CodeOf[g] # NoAddr => CodeOf'[g] # NoAddr
    PROVE  OwnerHolds'
<1>1. /\ running \in HostCodes \cup {NoHost} /\ pending.HostCode \in HostCodes \cup {NoHost}
      /\ interrupted.running \in HostCodes \cup {NoHost}
      /\ interrupted.pending.HostCode \in HostCodes \cup {NoHost}
  BY DEF CodeInv, TypeOK, Contexts, Entries
<1>2. UNCHANGED <<pc, running, pending, interrupted>>
  BY DEF ownerVars
<1> QED
  BY <1>1, <1>2 DEF CodeInv, NoFreedCode, OwnerHolds, HoldsCode, InUse

\* The empty cache holds no pointer at all.
LEMMA CodeInvInit == Init => CodeInv
<1> SUFFICES ASSUME Init PROVE CodeInv
  OBVIOUS
<1>1. TypeOK
  BY EmptyTables, Bounds
  DEF Init, TypeOK, NoBlocks, NoCode, NoJumps, Contexts, NoContext
<1>2. NoFreedCode
  BY EmptyTables DEF Init, NoFreedCode, HoldsCode, NoContext, InUse, NoBlocks, NoJumps
<1> QED
  BY <1>1, <1>2 DEF CodeInv

\* AddBlockMapping on tables that hold only code in use.
LEMMA AddBlockMappingSafe ==
    ASSUME NEW a \in Addrs, NEW h \in HostCodes,
           NEW list \in [Addrs -> HostCodes \cup {NoHost}],
           NEW l1 \in [L1Indexes -> Entries],
           AddBlockMapping(a, h, list, l1)
    PROVE  /\ BlockList' \in [Addrs -> HostCodes \cup {NoHost}]
           /\ L1' \in [L1Indexes -> Entries]
           /\ \A b \in Addrs : BlockList'[b] = list[b] \/ BlockList'[b] = h
           /\ \A i \in L1Indexes : L1'[i].HostCode = l1[i].HostCode \/ L1'[i].HostCode = h
<1>1. L1Index(a) \in L1Indexes /\ a \in Nat
  BY IndexRange, AddrAssumption
<1>2. Entry(a, h) \in Entries /\ Entry(a, h).HostCode = h
  BY <1>1 DEF Entry, Entries
<1> QED
  BY <1>1, <1>2 DEF AddBlockMapping

\* A new block is mapped and in use in the same step.
LEMMA CompileBlockSafe ==
    ASSUME CodeInv, NEW a \in Addrs, NEW h \in HostCodes, CompileBlock(a, h)
    PROVE  CodeInv'
<1>0. L1 \in [L1Indexes -> Entries] /\ BlockList \in [Addrs -> HostCodes \cup {NoHost}]
  BY DEF CodeInv, TypeOK
<1>1. /\ BlockList' \in [Addrs -> HostCodes \cup {NoHost}]
      /\ L1' \in [L1Indexes -> Entries]
      /\ \A b \in Addrs : BlockList'[b] = BlockList[b] \/ BlockList'[b] = h
      /\ \A i \in L1Indexes : L1'[i].HostCode = L1[i].HostCode \/ L1'[i].HostCode = h
  BY <1>0, AddBlockMappingSafe DEF CompileBlock
<1>2. CodeOf' = [CodeOf EXCEPT ![h] = a] /\ Jump' = [Jump EXCEPT ![h] = NoHost]
  BY DEF CompileBlock
<1>3. \A g \in HostCodes : CodeOf[g] # NoAddr => CodeOf'[g] # NoAddr
  BY <1>2, AddrAssumption DEF CodeInv, TypeOK, NoAddr
<1>4. CodeOf'[h] # NoAddr /\ a # NoAddr
  BY <1>2, AddrAssumption DEF CodeInv, TypeOK, NoAddr
<1>5. TypeOK'
  BY <1>1, <1>2 DEF CompileBlock, CodeInv, TypeOK, l2vars, ownerVars
<1>6. OwnerHolds'
  BY <1>3, OwnerKeepsCode DEF CompileBlock
<1>7. NoFreedCode'
  BY <1>1, <1>2, <1>3, <1>4, <1>6
  DEF CompileBlock, CodeInv, TypeOK, NoFreedCode, OwnerHolds, InUse, l2vars, Entries
<1> QED
  BY <1>5, <1>7 DEF CodeInv

\* ClearCodeCache drops the pointers together with the code.
LEMMA CompileBlockClearsSafe ==
    ASSUME CodeInv, NEW a \in Addrs, NEW h \in HostCodes, CompileBlockClears(a, h)
    PROVE  CodeInv'
<1>0. NoBlocks \in [Addrs -> HostCodes \cup {NoHost}] /\ EmptyL1 \in [L1Indexes -> Entries]
  BY EmptyTables DEF NoBlocks
<1>1. /\ BlockList' \in [Addrs -> HostCodes \cup {NoHost}]
      /\ L1' \in [L1Indexes -> Entries]
      /\ \A b \in Addrs : BlockList'[b] = NoBlocks[b] \/ BlockList'[b] = h
      /\ \A i \in L1Indexes : L1'[i].HostCode = EmptyL1[i].HostCode \/ L1'[i].HostCode = h
  BY <1>0, AddBlockMappingSafe DEF CompileBlockClears
<1>2. /\ \A b \in Addrs : BlockList'[b] = NoHost \/ BlockList'[b] = h
      /\ \A i \in L1Indexes : L1'[i].HostCode = NoHost \/ L1'[i].HostCode = h
  BY <1>1, EmptyTables DEF NoBlocks
<1>3. PagePointers' = {} /\ PageMemory' = EmptyL2 /\ AllocateOffset' = 0 /\ BlockLinks' = {}
  BY DEF CompileBlockClears, ClearL2AndLinks
<1>4. a # NoAddr
  BY AddrAssumption DEF NoAddr
<1>5. CASE interrupted.pc = "none"
  <2>1. /\ CodeOf' = [NoCode EXCEPT ![h] = a]
        /\ Jump' = [NoJumps EXCEPT ![h] = NoHost]
        /\ CurrentBuffer' = 0
        /\ stale' = {}
    BY <1>5 DEF CompileBlockClears, GetEmptyCodeBuffer
  <2>2. CodeOf'[h] # NoAddr /\ Jump' = NoJumps /\ CodeOf' \in [HostCodes -> Addrs \cup {NoAddr}]
    BY <2>1, <1>4 DEF NoCode, NoJumps
  <2>3. TypeOK'
    BY <1>1, <1>3, <2>1, <2>2, EmptyTables, Bounds
    DEF CompileBlockClears, CodeInv, TypeOK, NoJumps, ownerVars
  <2>4. NoFreedCode'
    BY <1>2, <1>3, <1>5, <2>2, EmptyTables
    DEF CompileBlockClears, NoFreedCode, HoldsCode, InUse, NoJumps, ownerVars
  <2> QED
    BY <2>3, <2>4 DEF CodeInv
<1>6. CASE interrupted.pc # "none"
  <2>1. /\ CodeOf' = [CodeOf EXCEPT ![h] = a]
        /\ Jump' = [Jump EXCEPT ![h] = NoHost]
        /\ CurrentBuffer' = CurrentBuffer + 1
        /\ CurrentBuffer + 1 \in 0 .. LastBuffer
        /\ stale' = stale
    BY <1>6 DEF CompileBlockClears, GetEmptyCodeBuffer
  <2>2. CodeOf'[h] # NoAddr
    BY <2>1, <1>4 DEF CodeInv, TypeOK
  <2>3. \A g \in HostCodes : CodeOf[g] # NoAddr => CodeOf'[g] # NoAddr
    BY <2>1, <1>4 DEF CodeInv, TypeOK
  <2>4. TypeOK'
    <3>1. /\ PagePointers' \subseteq PageIndexes
          /\ PageMemory' \in [PageIndexes -> [PageOffsets -> Entries]]
          /\ AllocateOffset' \in 0 .. CODE_PAGES - 1
          /\ BlockLinks' \subseteq Addrs \X HostCodes
      BY <1>3, EmptyTables, Bounds
    <3>2. /\ Jump' \in [HostCodes -> HostCodes \cup {NoHost}]
          /\ CodeOf' \in [HostCodes -> Addrs \cup {NoAddr}]
          /\ CurrentBuffer' \in 0 .. LastBuffer /\ stale' \subseteq HostCodes
      BY <2>1 DEF CodeInv, TypeOK
    <3>3. UNCHANGED <<ownerVars, IsMemoryShared, erasing>>
      BY DEF CompileBlockClears
    <3> QED
      BY <1>1, <3>1, <3>2, <3>3 DEF CodeInv, TypeOK, ownerVars
  <2>5. /\ \A i \in L1Indexes : InUse(L1[i].HostCode)'
        /\ \A p \in PageIndexes, o \in PageOffsets : InUse(PageMemory[p][o].HostCode)'
        /\ \A b \in Addrs : InUse(BlockList[b])'
    BY <1>2, <1>3, <2>2, EmptyTables DEF InUse
  <2>6. \A g \in HostCodes : Jump'[g] = NoHost \/ Jump'[g] = Jump[g]
    BY <2>1 DEF CodeInv, TypeOK
  <2>7. \A g \in HostCodes : InUse(Jump[g])'
    BY <2>3, <2>6 DEF CodeInv, TypeOK, NoFreedCode, InUse
  <2>8. OwnerHolds'
    BY <2>3, OwnerKeepsCode DEF CompileBlockClears
  <2>10. NoFreedCode'
    BY <2>5, <2>7, <2>8 DEF NoFreedCode, OwnerHolds
  <2> QED
    BY <2>4, <2>10 DEF CodeInv
<1> QED
  BY <1>5, <1>6

\* Steps that leave the tables, the links and the code buffers alone.
LEMMA OwnerMoves ==
    ASSUME CodeInv, UNCHANGED <<cacheVars, linkVars, codeVars>>,
           pc' \in {"dispatch", "l2hit", "code", "link", "linked"},
           IsMemoryShared' \in BOOLEAN,
           erasing' \in Addrs \cup {NoAddr},
           pending' \in Entries,
           pc' \in {"link", "linked"} => pending'.GuestCode \in Addrs,
           running' \in HostCodes \cup {NoHost},
           interrupted' \in Contexts,
           OwnerHolds'
    PROVE  CodeInv'
<1>1. TypeOK'
  BY DEF CodeInv, TypeOK, cacheVars, linkVars, codeVars, l2vars
<1>2. NoFreedCode'
  BY DEF CodeInv, NoFreedCode, OwnerHolds, InUse, cacheVars, linkVars, codeVars, l2vars
<1> QED
  BY <1>1, <1>2 DEF CodeInv

\* Every step of the dispatcher keeps CodeInv.
LEMMA DispatchSafe ==
    ASSUME CodeInv, Dispatch PROVE CodeInv'
<1>1. ASSUME NEW a \in Addrs, DispatchL1(a) PROVE CodeInv'
  <2>1. L1Index(a) \in L1Indexes
    BY IndexRange, AddrAssumption
  <2>2. L1[L1Index(a)].HostCode \in HostCodes /\ InUse(L1[L1Index(a)].HostCode)
    BY <1>1, <2>1 DEF DispatchL1, CodeInv, TypeOK, NoFreedCode, Entries
  <2>3. running' \in HostCodes /\ OwnerHolds'
    BY <1>1, <2>2 DEF DispatchL1, InUse, codeVars, CodeInv, NoFreedCode, OwnerHolds, HoldsCode
  <2> QED
    BY <1>1, <2>3, OwnerMoves DEF DispatchL1, CodeInv, TypeOK
<1>2. ASSUME NEW a \in Addrs, DispatchL2Load(a) PROVE CodeInv'
  <2>1. PageIndex(a) \in PageIndexes /\ PageOffset(a) \in PageOffsets
    BY IndexRange, AddrAssumption
  <2>2. L2Entry(a) \in Entries /\ InUse(L2Entry(a).HostCode)
    BY <2>1 DEF CodeInv, TypeOK, NoFreedCode, L2Entry
  <2>3. pending' \in Entries /\ pending'.HostCode # NoHost /\ InUse(pending.HostCode)'
    BY <1>2, <2>2 DEF DispatchL2Load, InUse, codeVars
  <2>4. OwnerHolds'
    BY <1>2, <2>3
    DEF DispatchL2Load, InUse, codeVars, CodeInv, NoFreedCode, OwnerHolds, HoldsCode
  <2> QED
    BY <1>2, <2>3, <2>4, OwnerMoves DEF DispatchL2Load, CodeInv, TypeOK
<1>3. ASSUME DispatchL2Store PROVE CodeInv'
  <2>1. pending \in Entries /\ pending.HostCode # NoHost /\ InUse(pending.HostCode)
    BY <1>3 DEF DispatchL2Store, CodeInv, TypeOK, NoFreedCode, HoldsCode
  <2>2. pending.GuestCode \in Nat /\ pending.HostCode \in HostCodes
    BY <2>1 DEF Entries
  <2>3. L1Index(pending.GuestCode) \in L1Indexes
    BY <2>2, IndexRange
  <2>4. L1' \in [L1Indexes -> Entries] /\ \A i \in L1Indexes : L1'[i] = L1[i] \/ L1'[i] = pending
    BY <1>3, <2>1, <2>3 DEF DispatchL2Store, CodeInv, TypeOK
  <2>5. TypeOK'
    BY <1>3, <2>2, <2>4, EmptyTables
    DEF DispatchL2Store, CodeInv, TypeOK, l2vars, linkVars, codeVars
  <2>6. NoFreedCode'
    BY <1>3, <2>1, <2>4
    DEF DispatchL2Store, CodeInv, NoFreedCode, HoldsCode, InUse, l2vars, linkVars, codeVars
  <2> QED
    BY <2>5, <2>6 DEF CodeInv
<1> QED
  BY <1>1, <1>2, <1>3 DEF Dispatch

\* Compilation keeps CodeInv.
LEMMA CompileSafe ==
    ASSUME CodeInv, Compile PROVE CodeInv'
<1>1. ASSUME NEW a \in Addrs, CompileBlockFound(a) PROVE CodeInv'
  <2>1. FindBlock(a) /\ UNCHANGED <<linkVars, codeVars, ownerVars, IsMemoryShared, erasing>>
    BY <1>1 DEF CompileBlockFound
  <2>2. /\ L1' \in [L1Indexes -> Entries]
        /\ PagePointers' \subseteq PageIndexes
        /\ PageMemory' \in [PageIndexes -> [PageOffsets -> Entries]]
        /\ AllocateOffset' \in 0 .. CODE_PAGES - 1
        /\ BlockList' = BlockList
        /\ \A i \in L1Indexes : InUse(L1[i].HostCode)'
        /\ \A p \in PageIndexes, o \in PageOffsets : InUse(PageMemory[p][o].HostCode)'
    BY <2>1, FindBlockSafe DEF codeVars
  <2>3. TypeOK'
    BY <2>1, <2>2 DEF CodeInv, TypeOK, linkVars, codeVars, ownerVars
  <2>4. NoFreedCode'
    BY <2>1, <2>2 DEF CodeInv, NoFreedCode, HoldsCode, InUse, linkVars, codeVars, ownerVars
  <2> QED
    BY <2>3, <2>4 DEF CodeInv
<1> QED
  BY <1>1, CompileBlockSafe, CompileBlockClearsSafe DEF Compile

\* The linker's lookup keeps CodeInv.
LEMMA ExitFunctionLinkFindSafe ==
    ASSUME CodeInv, ExitFunctionLinkFind PROVE CodeInv'
<1> DEFINE a == ExitOf[CodeOf[running]]
<1>1. running \in HostCodes /\ CodeOf[running] \in Addrs /\ running # NoHost
  BY DEF ExitFunctionLinkFind, CodeInv, TypeOK, NoFreedCode, HoldsCode, InUse
<1>2. a \in Addrs /\ a \in Nat
  BY <1>1, AddrAssumption
<1>3. /\ FindBlock(a) /\ UNCHANGED <<linkVars, codeVars, running, interrupted, IsMemoryShared, erasing>>
      /\ Found(a) # NoHost
      /\ pending' = Entry(a, Found(a))
      /\ pc = "code" /\ pc' = "link"
  BY DEF ExitFunctionLinkFind
<1> HIDE DEF a
<1>4. Found(a) \in HostCodes /\ InUse(Found(a))
  BY <1>2, <1>3, FoundSafe
<1>5. /\ L1' \in [L1Indexes -> Entries]
      /\ PagePointers' \subseteq PageIndexes
      /\ PageMemory' \in [PageIndexes -> [PageOffsets -> Entries]]
      /\ AllocateOffset' \in 0 .. CODE_PAGES - 1
      /\ BlockList' = BlockList
      /\ \A i \in L1Indexes : InUse(L1[i].HostCode)'
      /\ \A p \in PageIndexes, o \in PageOffsets : InUse(PageMemory[p][o].HostCode)'
  BY <1>2, <1>3, FindBlockSafe DEF codeVars
<1>6. pending' \in Entries /\ pending'.HostCode = Found(a) /\ pending'.GuestCode = a
  BY <1>2, <1>3, <1>4 DEF Entry, Entries
<1>7. TypeOK'
  BY <1>2, <1>3, <1>5, <1>6 DEF CodeInv, TypeOK, linkVars, codeVars
<1>8. OwnerHolds'
  BY <1>3, <1>4, <1>6 DEF CodeInv, NoFreedCode, OwnerHolds, HoldsCode, InUse, codeVars
<1>9. NoFreedCode'
  BY <1>3, <1>5, <1>8 DEF CodeInv, NoFreedCode, OwnerHolds, InUse, linkVars, codeVars
<1> QED
  BY <1>7, <1>9 DEF CodeInv

\* What the linker holds between its steps.
LEMMA LinkerHolds ==
    ASSUME CodeInv, pc \in {"link", "linked"}
    PROVE  /\ running \in HostCodes /\ CodeOf[running] \in Addrs
           /\ pending \in Entries /\ pending.HostCode \in HostCodes /\ InUse(pending.HostCode)
           /\ pending.GuestCode \in Addrs
  BY DEF CodeInv, TypeOK, NoFreedCode, HoldsCode, InUse, Entries

\* Patching an exit with code in use keeps CodeInv.
LEMMA ExitFunctionLinkPatchSafe ==
    ASSUME CodeInv, ExitFunctionLinkPatch PROVE CodeInv'
<1>1. /\ running \in HostCodes /\ pending.HostCode \in HostCodes /\ InUse(pending.HostCode)
      /\ Jump' = [Jump EXCEPT ![running] = pending.HostCode] /\ pc = "link" /\ pc' = "linked"
  BY LinkerHolds DEF ExitFunctionLinkPatch
<1>2. \A h \in HostCodes : Jump'[h] = Jump[h] \/ Jump'[h] = pending.HostCode
  BY <1>1 DEF CodeInv, TypeOK
<1>3. TypeOK'
  BY <1>1 DEF ExitFunctionLinkPatch, CodeInv, TypeOK, cacheVars, l2vars, codeVars
<1>4. OwnerHolds'
  BY <1>1 DEF ExitFunctionLinkPatch, CodeInv, NoFreedCode, OwnerHolds, HoldsCode, InUse, codeVars
<1>5. NoFreedCode'
  BY <1>1, <1>2, <1>4
  DEF ExitFunctionLinkPatch, CodeInv, NoFreedCode, OwnerHolds, InUse, cacheVars, l2vars, codeVars
<1> QED
  BY <1>3, <1>5 DEF CodeInv

\* Registering the delinker and jumping keeps CodeInv.
LEMMA ThreadAddBlockLinkSafe ==
    ASSUME CodeInv, ThreadAddBlockLink PROVE CodeInv'
<1>1. /\ running \in HostCodes /\ pending.HostCode \in HostCodes /\ InUse(pending.HostCode)
      /\ pending.GuestCode \in Addrs
      /\ pending' = ZeroEntry /\ pc' = "code" /\ running' = pending.HostCode
      /\ UNCHANGED <<cacheVars, Jump, codeVars, interrupted, IsMemoryShared, erasing>>
  BY LinkerHolds DEF ThreadAddBlockLink
<1>2. BlockLinks' \subseteq Addrs \X HostCodes
  BY <1>1 DEF ThreadAddBlockLink, CodeInv, TypeOK
<1>3. TypeOK'
  BY <1>1, <1>2, EmptyTables DEF CodeInv, TypeOK, cacheVars, l2vars, codeVars
<1>4. NoFreedCode'
  BY <1>1, HostAssumption
  DEF CodeInv, NoFreedCode, HoldsCode, InUse, cacheVars, l2vars, codeVars
<1> QED
  BY <1>3, <1>4 DEF CodeInv

\* Every step of translated code keeps CodeInv.
LEMMA RunCodeSafe ==
    ASSUME CodeInv, RunCode PROVE CodeInv'
<1>1. CASE ExitFunctionLinkMiss
  BY <1>1, OwnerMoves
  DEF ExitFunctionLinkMiss, CodeInv, TypeOK, NoFreedCode, OwnerHolds, HoldsCode, InUse, codeVars
<1>2. CASE ExitFunctionLinkFind
  BY <1>2, ExitFunctionLinkFindSafe
<1>8. CASE ExitFunctionLinkPatch
  BY <1>8, ExitFunctionLinkPatchSafe
<1>9. CASE ThreadAddBlockLink
  BY <1>9, ThreadAddBlockLinkSafe
<1>3. CASE FollowLink
  <2>1. running \in HostCodes
    BY <1>3 DEF FollowLink, CodeInv, TypeOK, NoFreedCode, HoldsCode
  <2>2. running' \in HostCodes /\ running' # NoHost /\ InUse(running)'
    BY <1>3, <2>1 DEF FollowLink, CodeInv, TypeOK, NoFreedCode, InUse, codeVars
  <2>3. OwnerHolds'
    BY <1>3, <2>2 DEF FollowLink, CodeInv, NoFreedCode, OwnerHolds, HoldsCode, InUse, codeVars
  <2> QED
    BY <1>3, <2>2, <2>3, OwnerMoves DEF FollowLink, CodeInv, TypeOK
<1>4. CASE ExitToDispatcher
  BY <1>4, OwnerMoves
  DEF ExitToDispatcher, CodeInv, TypeOK, NoFreedCode, OwnerHolds, HoldsCode, InUse, codeVars
<1>5. CASE SignalGuest
  <2>1. interrupted' = [pc |-> pc, running |-> running, pending |-> pending]
        /\ pc \in {"dispatch", "l2hit", "code"} /\ pc' = "dispatch"
        /\ running' = NoHost /\ pending' = ZeroEntry
        /\ UNCHANGED <<cacheVars, linkVars, codeVars, IsMemoryShared, erasing>>
    BY <1>5 DEF SignalGuest
  <2>2. interrupted' \in Contexts
    BY <2>1 DEF CodeInv, TypeOK, Contexts
  <2>3. OwnerHolds'
    BY <2>1 DEF CodeInv, NoFreedCode, OwnerHolds, HoldsCode, InUse, codeVars
  <2> QED
    BY <2>1, <2>2, <2>3, OwnerMoves, EmptyTables DEF CodeInv, TypeOK
<1>6. CASE SignalReturn
  <2>1. interrupted' \in Contexts /\ interrupted'.pc = "none"
    BY <1>6, EmptyTables DEF SignalReturn, Contexts, NoContext
  <2>2. /\ interrupted.pc \in {"dispatch", "l2hit", "code"}
        /\ interrupted.running \in HostCodes \cup {NoHost} /\ interrupted.pending \in Entries
    BY <1>6 DEF SignalReturn, CodeInv, TypeOK, Contexts
  <2>3. OwnerHolds'
    BY <1>6, <2>1, <2>2
    DEF SignalReturn, CodeInv, NoFreedCode, OwnerHolds, HoldsCode, InUse, codeVars
  <2> QED
    BY <1>6, <2>1, <2>2, <2>3, OwnerMoves DEF SignalReturn, CodeInv, TypeOK
<1>7. CASE MarkMemoryShared
  <2>1. CASE TSOAutoMigration
    <3>1. L1' = EmptyL1 /\ BlockList' = NoBlocks /\ ClearL2AndLinks
      BY <1>7, <2>1 DEF MarkMemoryShared
    <3>2. TypeOK'
      BY <1>7, <3>1, EmptyTables, Bounds
      DEF MarkMemoryShared, ClearL2AndLinks, NoBlocks, CodeInv, TypeOK, codeVars, ownerVars
    <3>3. NoFreedCode'
      BY <1>7, <3>1, EmptyTables
      DEF MarkMemoryShared, ClearL2AndLinks, NoBlocks, CodeInv, NoFreedCode, HoldsCode, InUse,
          codeVars, ownerVars
    <3> QED
      BY <3>2, <3>3 DEF CodeInv
  <2>2. CASE ~TSOAutoMigration
    <3>1. UNCHANGED <<cacheVars, linkVars, codeVars>> /\ UNCHANGED <<ownerVars, erasing>> /\ IsMemoryShared' = TRUE
      BY <1>7, <2>2 DEF MarkMemoryShared, linkVars
    <3> QED
      BY <3>1, OwnerMoves
      DEF CodeInv, TypeOK, NoFreedCode, OwnerHolds, HoldsCode, InUse, codeVars, ownerVars
  <2> QED
    BY <2>1, <2>2
<1> QED
  BY <1>1, <1>2, <1>3, <1>4, <1>5, <1>6, <1>7, <1>8, <1>9 DEF RunCode

\* Erase keeps CodeInv: it drops pointers and frees no code.
LEMMA InvalidateSafe ==
    ASSUME CodeInv, Invalidate PROVE CodeInv'
<1>1. ASSUME NEW a \in Addrs, EraseL1(a) PROVE CodeInv'
  <2>1. L1Index(a) \in L1Indexes
    BY IndexRange, AddrAssumption
  <2>2. L1' \in [L1Indexes -> Entries] /\ \A i \in L1Indexes : L1'[i].HostCode = L1[i].HostCode
    BY <1>1, <2>1 DEF EraseL1, CodeInv, TypeOK, Entries
  <2>3. Jump' \in [HostCodes -> HostCodes \cup {NoHost}]
    BY <1>1 DEF EraseL1, CodeInv, TypeOK
  <2>4. \A h \in HostCodes : Jump'[h] = NoHost \/ Jump'[h] = Jump[h]
    BY <1>1 DEF EraseL1
  <2>5. \A b \in Addrs : BlockList'[b] = NoHost \/ BlockList'[b] = BlockList[b]
    BY <1>1 DEF EraseL1, CodeInv, TypeOK
  <2>6. TypeOK'
    BY <1>1, <2>2, <2>3 DEF EraseL1, CodeInv, TypeOK, l2vars, ownerVars
  <2>7. NoFreedCode'
    BY <1>1, <2>2, <2>4, <2>5 DEF EraseL1, CodeInv, NoFreedCode, HoldsCode, InUse, l2vars, ownerVars
  <2> QED
    BY <2>6, <2>7 DEF CodeInv
<1>2. ASSUME EraseL2 PROVE CodeInv'
  <2>1. erasing \in Addrs
    BY <1>2 DEF EraseL2, CodeInv, TypeOK
  <2>2. PageIndex(erasing) \in PageIndexes /\ PageOffset(erasing) \in PageOffsets
    BY <2>1, IndexRange, AddrAssumption
  <2>3. PageMemory' \in [PageIndexes -> [PageOffsets -> Entries]]
    BY <1>2, <2>2, EmptyTables DEF EraseL2, CodeInv, TypeOK
  <2>4. \A p \in PageIndexes, o \in PageOffsets :
           PageMemory'[p][o] = PageMemory[p][o] \/ PageMemory'[p][o] = ZeroEntry
    BY <1>2, <2>2 DEF EraseL2, CodeInv, TypeOK
  <2>5. ZeroEntry.HostCode = NoHost
    BY DEF ZeroEntry, Entry
  <2>6. TypeOK'
    BY <1>2, <2>3 DEF EraseL2, CodeInv, TypeOK, linkVars, codeVars, ownerVars
  <2>7. NoFreedCode'
    BY <1>2, <2>4, <2>5 
    DEF EraseL2, CodeInv, NoFreedCode, HoldsCode, InUse, linkVars, codeVars, ownerVars
  <2> QED
    BY <2>6, <2>7 DEF CodeInv
<1> QED
  BY <1>1, <1>2 DEF Invalidate

\* In every configuration, with any number of concurrent invalidations,
\* signals and cache clears, no pointer the thread can follow leads into a
\* code buffer that GetEmptyCodeBuffer has freed.
THEOREM NoFreedCodeAlways == Spec => [](TypeOK /\ NoFreedCode)
<1>1. Init => CodeInv
  BY CodeInvInit
<1>2. CodeInv /\ [Next]_vars => CodeInv'
  <2> SUFFICES ASSUME CodeInv, [Next]_vars PROVE CodeInv'
    OBVIOUS
  <2>1. CASE Dispatch
    BY <2>1, DispatchSafe
  <2>2. CASE Compile
    BY <2>2, CompileSafe
  <2>3. CASE RunCode
    BY <2>3, RunCodeSafe
  <2>4. CASE Invalidate
    BY <2>4, InvalidateSafe
  <2>5. CASE UNCHANGED vars
    BY <2>5 DEF vars, cacheVars, l2vars, linkVars, codeVars, ownerVars, CodeInv, TypeOK,
                NoFreedCode, HoldsCode, InUse
  <2> QED
    BY <2>1, <2>2, <2>3, <2>4, <2>5 DEF Next
<1>3. CodeInv => TypeOK /\ NoFreedCode
  BY DEF CodeInv
<1> QED
  BY <1>1, <1>2, <1>3, PTL DEF Spec

-----------------------------------------------------------------------------
(* Coherence of the levels *)

\* L2 holds for an address what BlockList holds, except for the address whose
\* Erase is half done, and only backed pages hold anything.
L2Inv == \A a \in Addrs : L2Entry(a).GuestCode = a =>
            /\ PageIndex(a) \in PagePointers
            /\ L2Entry(a).HostCode # NoHost
            /\ a # erasing => L2Entry(a).HostCode = BlockList[a]

\* A hit in L1 is a hit.
L1NonNull == \A a \in Addrs : L1Hit(a) => L1[L1Index(a)].HostCode # NoHost

\* L1 holds for an address what BlockList holds.
L1Inv == \A a \in Addrs : L1Hit(a) => L1[L1Index(a)].HostCode = BlockList[a]

\* So does the entry the dispatcher is about to store to L1, or the linker to
\* patch into an exit.
PendingInv == pc \in {"l2hit", "link", "linked"} =>
                 /\ pending.GuestCode \in Addrs
                 /\ pending.HostCode = BlockList[pending.GuestCode]
                 /\ erasing = NoAddr

\* Nobody else invalidates the thread's code, and no handler of its own does
\* so between two steps of the dispatcher.
Alone == ~CrossThread /\ ~Signals

Undisturbed == interrupted.pc = "none" /\ L1Inv /\ PendingInv

Coherent == L2Inv /\ L1NonNull /\ (Alone => Undisturbed)

CoherenceInv == CodeInv /\ Coherent

\* Writing the entry of one address to L1 does not disturb another address.
LEMMA L1Write ==
    ASSUME CodeInv, NEW a \in Nat, NEW e, e.GuestCode = a,
           L1' = [L1 EXCEPT ![L1Index(a)] = e], NEW b \in Addrs, b # a, L1Hit(b)'
    PROVE  L1Hit(b) /\ L1'[L1Index(b)] = L1[L1Index(b)]
  BY IndexRange, AddrAssumption DEF CodeInv, TypeOK, L1Hit

\* CacheBlockMapping of what BlockList holds keeps L1 and L2 coherent.
LEMMA CacheBlockMappingCoherent ==
    ASSUME CodeInv, PlainAddrs, L2Inv, L1NonNull, erasing = NoAddr,
           NEW a \in Addrs, BlockList[a] # NoHost,
           CacheBlockMapping(a, BlockList[a]),
           UNCHANGED <<BlockList, erasing>>
    PROVE  L2Inv' /\ L1NonNull' /\ (L1Inv => L1Inv')
<1> DEFINE b == PageIndex(a)
           h == BlockList[a]
<1>1. /\ a \in Nat /\ b \in Nat /\ b \notin Addrs
      /\ L1Index(a) \in L1Indexes /\ PageIndex(a) \in PageIndexes /\ PageOffset(a) \in PageOffsets
      /\ L1Index(b) \in L1Indexes /\ PageIndex(b) \in PageIndexes /\ PageOffset(b) \in PageOffsets
  BY IndexRange, AddrAssumption DEF PlainAddrs
<1>2. /\ Entry(a, h).HostCode = h /\ Entry(a, h).GuestCode = a
      /\ Entry(b, h).GuestCode = b /\ ZeroEntry.GuestCode = 0
  BY DEF Entry, ZeroEntry
<1>3. \A c \in Addrs : /\ c \in Nat /\ L1Index(c) \in L1Indexes
                        /\ PageIndex(c) \in PageIndexes /\ PageOffset(c) \in PageOffsets
  BY IndexRange, AddrAssumption
<1> HIDE DEF b, h
<1>4. CASE PageIndex(a) \notin PagePointers /\ BackingExhausted
  <2>1. /\ L1' = [L1 EXCEPT ![L1Index(a)] = Entry(a, h), ![L1Index(b)] = Entry(b, h)]
        /\ PageMemory' = [EmptyL2 EXCEPT ![PageIndex(b)][PageOffset(b)] = Entry(b, h)]
    BY <1>4 DEF CacheBlockMapping, CacheRetry, b, h
  <2>2. \A p \in PageIndexes, o \in PageOffsets :
           PageMemory'[p][o].GuestCode = 0 \/ PageMemory'[p][o].GuestCode = b
    BY <1>1, <1>2, <2>1 DEF EmptyL2
  <2>3. \A c \in Addrs : L2Entry(c)'.GuestCode # c
    BY <1>1, <1>3, <2>2 DEF L2Entry, PlainAddrs
  <2>4. L2Inv'
    BY <2>3 DEF L2Inv
  <2>5. ASSUME NEW c \in Addrs, L1Hit(c)'
        PROVE  \/ c = a /\ L1'[L1Index(c)].HostCode = h
               \/ c # a /\ L1Hit(c) /\ L1'[L1Index(c)] = L1[L1Index(c)]
    <3>1. CASE c = a
      BY <1>1, <1>2, <1>3, <2>1, <2>5, <3>1 DEF L1Hit, CodeInv, TypeOK
    <3>2. CASE c # a
      BY <1>1, <1>2, <1>3, <2>1, <2>5, <3>2 DEF L1Hit, CodeInv, TypeOK
    <3> QED
      BY <3>1, <3>2
  <2> QED
    BY <2>4, <2>5 DEF L1Inv, L1NonNull, h
<1>5. CASE ~(PageIndex(a) \notin PagePointers /\ BackingExhausted)
  <2>1. /\ L1' = [L1 EXCEPT ![L1Index(a)] = Entry(a, h)]
        /\ PagePointers' = PagePointers \cup {PageIndex(a)}
        /\ PageMemory' = [PageMemory EXCEPT ![PageIndex(a)][PageOffset(a)] = Entry(a, h)]
    BY <1>5 DEF CacheBlockMapping, CacheInPage, h
  <2>2. ASSUME NEW c \in Addrs, L2Entry(c)'.GuestCode = c
        PROVE  /\ PageIndex(c) \in PagePointers'
               /\ L2Entry(c)'.HostCode = BlockList'[c]
               /\ L2Entry(c)'.HostCode # NoHost
    <3>1. CASE c = a
      BY <1>1, <1>2, <2>1, <2>2, <3>1 DEF L2Entry, CodeInv, TypeOK, h
    <3>2. CASE c # a
      <4>1. L2Entry(c)' = L2Entry(c)
        BY <1>1, <1>2, <1>3, <2>1, <2>2, <3>2 DEF L2Entry, CodeInv, TypeOK
      <4> QED
        BY <2>1, <2>2, <4>1, AddrAssumption DEF L2Inv, NoAddr
    <3> QED
      BY <3>1, <3>2
  <2>3. ASSUME NEW c \in Addrs, L1Hit(c)'
        PROVE  \/ c = a /\ L1'[L1Index(c)].HostCode = h
               \/ c # a /\ L1Hit(c) /\ L1'[L1Index(c)] = L1[L1Index(c)]
    BY <1>1, <1>2, <1>3, <2>1, <2>3 DEF L1Hit, CodeInv, TypeOK
  <2> QED
    BY <2>2, <2>3 DEF L1Inv, L1NonNull, L2Inv, h
<1> QED
  BY <1>4, <1>5

\* FindBlock keeps L1 and L2 coherent.
LEMMA FindBlockCoherent ==
    ASSUME CodeInv, PlainAddrs, L2Inv, L1NonNull, erasing = NoAddr,
           NEW a \in Addrs, FindBlock(a), UNCHANGED erasing
    PROVE  L2Inv' /\ L1NonNull' /\ (L1Inv => L1Inv')
<1>0. UNCHANGED BlockList
  BY DEF FindBlock
<1>1. CASE UNCHANGED <<L1, l2vars>>
  BY <1>0, <1>1 DEF L2Inv, L1Inv, L1NonNull, L2Entry, L1Hit, l2vars
<1>2. CASE L2Hit(a) /\ L1' = [L1 EXCEPT ![L1Index(a)] = L2Entry(a)] /\ UNCHANGED l2vars
  <2>1. L2Inv'
    BY <1>0, <1>2 DEF L2Inv, L2Entry, l2vars
  <2>2. /\ L2Entry(a).GuestCode = a /\ L2Entry(a).HostCode = BlockList[a]
        /\ L2Entry(a).HostCode # NoHost
    BY <1>2, AddrAssumption DEF L2Inv, L2Hit, NoAddr
  <2>3. ASSUME NEW c \in Addrs, L1Hit(c)'
        PROVE  \/ c = a /\ L1'[L1Index(c)] = L2Entry(a)
               \/ c # a /\ L1Hit(c) /\ L1'[L1Index(c)] = L1[L1Index(c)]
    <3>1. CASE c = a
      <4>1. L1Index(a) \in L1Indexes
        BY IndexRange, AddrAssumption
      <4> QED
        BY <1>2, <3>1, <4>1 DEF CodeInv, TypeOK
    <3>2. CASE c # a
      BY <1>2, <2>2, <2>3, <3>2, L1Write, AddrAssumption
    <3> QED
      BY <3>1, <3>2
  <2> QED
    BY <1>0, <2>1, <2>2, <2>3 DEF L1Inv, L1NonNull
<1>3. CASE BlockList[a] # NoHost /\ CacheBlockMapping(a, BlockList[a])
  BY <1>0, <1>3, CacheBlockMappingCoherent
<1> QED
  BY <1>1, <1>2, <1>3 DEF FindBlock

\* Nothing changes in the tables: only the dispatcher's entry matters.
LEMMA TablesUnchanged ==
    ASSUME CoherenceInv, UNCHANGED <<cacheVars, erasing>>,
           Alone => interrupted'.pc = "none" /\ PendingInv'
    PROVE  Coherent'
  BY DEF CoherenceInv, Coherent, Undisturbed, cacheVars, l2vars, L2Inv, L1Inv, L1NonNull,
         L2Entry, L1Hit

\* A thread that is in no handler stays in none, and holds no entry.
LEMMA HoldsNothing ==
    ASSUME CoherenceInv, UNCHANGED interrupted, pc' \in {"dispatch", "code"}
    PROVE  Alone => interrupted'.pc = "none" /\ PendingInv'
  BY DEF CoherenceInv, Coherent, Undisturbed, PendingInv

\* A lookup that finds nothing: no level holds the address.
LEMMA FoundNothing ==
    ASSUME CoherenceInv, erasing = NoAddr, NEW a \in Addrs, Found(a) = NoHost
    PROVE  ~L1Hit(a) /\ L2Entry(a).GuestCode # a /\ BlockList[a] = NoHost
  BY DEF CoherenceInv, Coherent, Found, L1NonNull, L2Inv, L2Hit

\* Where the block list has no block for a, the new one is mapped.
LEMMA NewMapping ==
    ASSUME NEW a \in Addrs, NEW h \in HostCodes, NEW list, NEW l1, list[a] = NoHost,
           AddBlockMapping(a, h, list, l1)
    PROVE  /\ BlockList' = [list EXCEPT ![a] = h]
           /\ L1' = [l1 EXCEPT ![L1Index(a)] = Entry(a, h)]
<1>1. (IF list[a] = NoHost THEN h ELSE list[a]) = h
  OBVIOUS
<1> QED
  BY <1>1 DEF AddBlockMapping

\* A cleared block list has no block.
LEMMA NothingMapped == \A a \in Addrs : NoBlocks[a] = NoHost
  BY DEF NoBlocks

\* A new block is coherent.
LEMMA AddBlockMappingCoherent ==
    ASSUME CoherenceInv, erasing = NoAddr, pc = "dispatch",
           NEW a \in Addrs, NEW h \in HostCodes, Found(a) = NoHost,
           AddBlockMapping(a, h, BlockList, L1), UNCHANGED <<l2vars, erasing, pc, interrupted>>
    PROVE  Coherent'
<1>1. a \in Nat /\ L1Index(a) \in L1Indexes
  BY IndexRange, AddrAssumption
<1>2. /\ BlockList' = [BlockList EXCEPT ![a] = h]
      /\ L1' = [L1 EXCEPT ![L1Index(a)] = Entry(a, h)]
      /\ Entry(a, h).GuestCode = a /\ Entry(a, h).HostCode = h
  <2>1. BlockList[a] = NoHost
    BY FoundNothing
  <2> QED
    BY <2>1, NewMapping DEF Entry
<1>3. h # NoHost
  BY HostAssumption
<1>4. L2Inv'
  BY <1>2, FoundNothing DEF L2Inv, L2Entry, l2vars, CoherenceInv, Coherent, CodeInv, TypeOK
<1>5. ASSUME NEW c \in Addrs, L1Hit(c)'
      PROVE  \/ c = a /\ L1'[L1Index(c)] = Entry(a, h)
             \/ c # a /\ L1Hit(c) /\ L1'[L1Index(c)] = L1[L1Index(c)]
  <2>1. CASE c = a
    BY <1>1, <1>2, <2>1 DEF CoherenceInv, CodeInv, TypeOK
  <2>2. CASE c # a
    BY <1>1, <1>2, <1>5, <2>2, L1Write DEF CoherenceInv
  <2> QED
    BY <2>1, <2>2
<1>6. \A c \in Addrs : BlockList'[c] = IF c = a THEN h ELSE BlockList[c]
  BY <1>2 DEF CoherenceInv, CodeInv, TypeOK
<1>7. L1NonNull'
  BY <1>2, <1>3, <1>5 DEF L1NonNull, CoherenceInv, Coherent
<1>8. Alone => L1Inv'
  BY <1>2, <1>5, <1>6 DEF L1Inv, CoherenceInv, Coherent, Undisturbed
<1>9. Alone => interrupted'.pc = "none" /\ PendingInv'
  BY HoldsNothing
<1> QED
  BY <1>4, <1>7, <1>8, <1>9 DEF Coherent, Undisturbed

\* The cleared tables are coherent with the one block added to them.
LEMMA ClearedCoherent ==
    ASSUME CoherenceInv, PlainAddrs, PageMemory' = EmptyL2,
           pc' \in {"dispatch", "code"}, UNCHANGED interrupted,
           \A c \in Addrs : L1Hit(c)' => /\ L1'[L1Index(c)].HostCode = BlockList'[c]
                                         /\ L1'[L1Index(c)].HostCode # NoHost
    PROVE  Coherent'
<1>1. \A p \in PageIndexes, o \in PageOffsets : EmptyL2[p][o].GuestCode = 0
  BY DEF EmptyL2, ZeroEntry, Entry
<1>2. \A c \in Addrs : PageIndex(c) \in PageIndexes /\ PageOffset(c) \in PageOffsets
  BY IndexRange, AddrAssumption
<1>3. L2Inv'
  BY <1>1, <1>2 DEF L2Inv, L2Entry, PlainAddrs
<1> QED
  BY <1>3, HoldsNothing DEF Coherent, Undisturbed, L1Inv, L1NonNull

\* In an empty L1 no address of a block is found.
LEMMA EmptyL1Misses ==
    ASSUME PlainAddrs, NEW c \in Addrs PROVE EmptyL1[L1Index(c)].GuestCode # c
<1>1. L1Index(c) \in L1Indexes
  BY IndexRange, AddrAssumption
<1> QED
  BY <1>1 DEF EmptyL1, ZeroEntry, Entry, PlainAddrs

\* Empty tables agree with the empty BlockList.
LEMMA CoherenceInit == PlainAddrs /\ Init => CoherenceInv
<1> SUFFICES ASSUME PlainAddrs, Init PROVE CoherenceInv
  OBVIOUS
<1>1. \A p \in PageIndexes, o \in PageOffsets : EmptyL2[p][o].GuestCode = 0
  BY DEF EmptyL2, ZeroEntry, Entry
<1>2. \A c \in Addrs : PageIndex(c) \in PageIndexes /\ PageOffset(c) \in PageOffsets
  BY IndexRange, AddrAssumption
<1>3. L2Inv
  BY <1>1, <1>2 DEF Init, L2Inv, L2Entry, PlainAddrs
<1>4. L1Inv /\ L1NonNull /\ PendingInv /\ interrupted.pc = "none"
  BY EmptyL1Misses DEF Init, L1Inv, L1NonNull, L1Hit, PendingInv, NoContext
<1> QED
  BY <1>3, <1>4, CodeInvInit DEF CoherenceInv, Coherent, Undisturbed

\* The dispatcher copies an L2 entry to L1; alone, it is still mapped.
LEMMA DispatchCoherent ==
    ASSUME CoherenceInv, Dispatch PROVE Coherent'
<1>1. ASSUME NEW a \in Addrs, DispatchL1(a) PROVE Coherent'
  BY <1>1, TablesUnchanged, HoldsNothing DEF DispatchL1
<1>2. ASSUME NEW a \in Addrs, DispatchL2Load(a) PROVE Coherent'
  <2>1. Alone => interrupted'.pc = "none" /\ PendingInv'
    BY <1>2, AddrAssumption
    DEF DispatchL2Load, OwnerRuns, OtherThreads, L2Hit, CoherenceInv, Coherent, Undisturbed, L2Inv,
        PendingInv, cacheVars, NoAddr, Alone
  <2> QED
    BY <1>2, <2>1, TablesUnchanged DEF DispatchL2Load
<1>3. ASSUME DispatchL2Store PROVE Coherent'
  <2>1. pending \in Entries /\ pending.HostCode # NoHost /\ pending.GuestCode \in Nat
    BY <1>3 DEF DispatchL2Store, CoherenceInv, CodeInv, TypeOK, NoFreedCode, HoldsCode, Entries
  <2>2. L2Inv'
    BY <1>3 DEF DispatchL2Store, CoherenceInv, Coherent, L2Inv, L2Entry, l2vars
  <2>3. ASSUME NEW c \in Addrs, L1Hit(c)'
        PROVE  \/ c = pending.GuestCode /\ L1'[L1Index(c)] = pending
               \/ L1Hit(c) /\ L1'[L1Index(c)] = L1[L1Index(c)]
    <3>1. CASE c = pending.GuestCode
      <4>1. L1Index(c) \in L1Indexes
        BY IndexRange, AddrAssumption
      <4> QED
        BY <1>3, <3>1, <4>1 DEF DispatchL2Store, CoherenceInv, CodeInv, TypeOK
    <3>2. CASE c # pending.GuestCode
      BY <1>3, <2>1, <2>3, <3>2, L1Write DEF DispatchL2Store, CoherenceInv
    <3> QED
      BY <3>1, <3>2
  <2>4. L1NonNull'
    BY <2>1, <2>3 DEF L1NonNull, CoherenceInv, Coherent
  <2>5. Alone => L1Inv'
    BY <1>3, <2>3 DEF DispatchL2Store, L1Inv, PendingInv, CoherenceInv, Coherent, Undisturbed
  <2>6. Alone => interrupted'.pc = "none" /\ PendingInv'
    BY <1>3, HoldsNothing DEF DispatchL2Store
  <2> QED
    BY <2>2, <2>4, <2>5, <2>6 DEF Coherent, Undisturbed
<1> QED
  BY <1>1, <1>2, <1>3 DEF Dispatch

\* Compilation writes the same mapping to BlockList and L1.
LEMMA CompileCoherent ==
    ASSUME CoherenceInv, PlainAddrs, Compile PROVE Coherent'
<1>1. ASSUME NEW a \in Addrs, CompileBlockFound(a) PROVE Coherent'
  <2>1. L2Inv' /\ L1NonNull' /\ (L1Inv => L1Inv')
    BY <1>1, FindBlockCoherent DEF CompileBlockFound, CoherenceInv, Coherent
  <2>2. Alone => interrupted'.pc = "none" /\ PendingInv'
    BY <1>1, HoldsNothing DEF CompileBlockFound, ownerVars
  <2> QED
    BY <2>1, <2>2 DEF CoherenceInv, Coherent, Undisturbed
<1>2. ASSUME NEW a \in Addrs, NEW h \in HostCodes, CompileBlock(a, h) PROVE Coherent'
  BY <1>2, AddBlockMappingCoherent DEF CompileBlock, ownerVars
<1>3. ASSUME NEW a \in Addrs, NEW h \in HostCodes, CompileBlockClears(a, h) PROVE Coherent'
  <2>1. /\ BlockList' = [NoBlocks EXCEPT ![a] = h]
        /\ L1' = [EmptyL1 EXCEPT ![L1Index(a)] = Entry(a, h)]
        /\ PageMemory' = EmptyL2
        /\ pc' = "dispatch" /\ UNCHANGED interrupted
    <3>1. AddBlockMapping(a, h, NoBlocks, EmptyL1)
      BY <1>3 DEF CompileBlockClears
    <3>2. /\ BlockList' = [NoBlocks EXCEPT ![a] = h]
          /\ L1' = [EmptyL1 EXCEPT ![L1Index(a)] = Entry(a, h)]
      BY <3>1, NothingMapped, NewMapping
    <3> QED
      BY <1>3, <3>2 DEF CompileBlockClears, ClearL2AndLinks, ownerVars
  <2>2. Entry(a, h).GuestCode = a /\ Entry(a, h).HostCode = h /\ h # NoHost
    BY HostAssumption DEF Entry
  <2>3. ASSUME NEW c \in Addrs, L1'[L1Index(c)].GuestCode = c
        PROVE  L1'[L1Index(c)].HostCode = BlockList'[c] /\ L1'[L1Index(c)].HostCode # NoHost
    <3>1. L1Index(c) \in L1Indexes /\ L1Index(a) \in L1Indexes
      BY IndexRange, AddrAssumption
    <3>2. c = a
      BY <2>1, <2>2, <2>3, <3>1, EmptyL1Misses, EmptyTables
    <3> QED
      BY <2>1, <2>2, <3>1, <3>2, EmptyTables DEF NoBlocks
  <2> QED
    BY <2>1, <2>3, ClearedCoherent DEF L1Hit
<1> QED
  BY <1>1, <1>2, <1>3 DEF Compile

\* Running, linking and MarkMemoryShared keep the levels in agreement.
LEMMA RunCodeCoherent ==
    ASSUME CoherenceInv, PlainAddrs, RunCode PROVE Coherent'
<1>1. CASE ExitFunctionLinkMiss
  BY <1>1, TablesUnchanged, HoldsNothing DEF ExitFunctionLinkMiss
<1>2. CASE ExitFunctionLinkFind
  <2> DEFINE a == ExitOf[CodeOf[running]]
  <2>1. a \in Addrs
    BY <1>2, AddrAssumption
    DEF ExitFunctionLinkFind, CoherenceInv, CodeInv, TypeOK, NoFreedCode, HoldsCode, InUse
  <2>2. /\ FindBlock(a) /\ erasing = NoAddr /\ UNCHANGED <<erasing, interrupted>>
        /\ pending' = Entry(a, Found(a))
    BY <1>2 DEF ExitFunctionLinkFind
  <2> HIDE DEF a
  <2>3. L2Inv' /\ L1NonNull' /\ (L1Inv => L1Inv')
    BY <2>1, <2>2, FindBlockCoherent DEF CoherenceInv, Coherent
  <2>4. Alone => Found(a) = BlockList[a] /\ BlockList' = BlockList
    BY <2>1, <2>2, AddrAssumption
    DEF CoherenceInv, Coherent, Undisturbed, L1Inv, L2Inv, Found, L2Hit, FindBlock, NoAddr
  <2>5. pending'.GuestCode = a /\ pending'.HostCode = Found(a)
    BY <2>2 DEF Entry
  <2>6. Alone => PendingInv'
    BY <2>1, <2>2, <2>4, <2>5 DEF PendingInv
  <2> QED
    BY <2>2, <2>3, <2>6 DEF CoherenceInv, Coherent, Undisturbed
<1>3. CASE FollowLink
  BY <1>3, TablesUnchanged, HoldsNothing DEF FollowLink
<1>4. CASE ExitToDispatcher
  BY <1>4, TablesUnchanged, HoldsNothing DEF ExitToDispatcher
<1>5. CASE SignalGuest
  BY <1>5, TablesUnchanged DEF SignalGuest, Alone
<1>6. CASE SignalReturn
  BY <1>6, TablesUnchanged DEF SignalReturn, CoherenceInv, Coherent, Undisturbed
<1>8. CASE ExitFunctionLinkPatch
  <2>1. Alone => interrupted'.pc = "none" /\ PendingInv'
    BY <1>8 DEF ExitFunctionLinkPatch, CoherenceInv, Coherent, Undisturbed, PendingInv, cacheVars
  <2> QED
    BY <1>8, <2>1, TablesUnchanged DEF ExitFunctionLinkPatch
<1>9. CASE ThreadAddBlockLink
  BY <1>9, TablesUnchanged, HoldsNothing DEF ThreadAddBlockLink
<1>7. CASE MarkMemoryShared
  <2>1. CASE TSOAutoMigration
    <3>1. L1' = EmptyL1 /\ PageMemory' = EmptyL2 /\ pc' = "code" /\ UNCHANGED interrupted
      BY <1>7, <2>1 DEF MarkMemoryShared, ClearL2AndLinks, ownerVars
    <3> QED
      BY <3>1, EmptyL1Misses, ClearedCoherent DEF L1Hit
  <2>2. CASE ~TSOAutoMigration
    BY <1>7, <2>2, TablesUnchanged, HoldsNothing DEF MarkMemoryShared, ownerVars
  <2> QED
    BY <2>1, <2>2
<1> QED
  BY <1>1, <1>2, <1>3, <1>4, <1>5, <1>6, <1>7, <1>8, <1>9 DEF RunCode

\* Erase removes the address from every level.
LEMMA InvalidateCoherent ==
    ASSUME CoherenceInv, PlainAddrs, Invalidate PROVE Coherent'
<1>0. \A c \in Addrs : /\ L1Index(c) \in L1Indexes
                        /\ PageIndex(c) \in PageIndexes /\ PageOffset(c) \in PageOffsets
  BY IndexRange, AddrAssumption
<1>1. ASSUME NEW a \in Addrs, EraseL1(a) PROVE Coherent'
  <2>1. BlockList' = [BlockList EXCEPT ![a] = NoHost] /\ erasing' = a /\ UNCHANGED l2vars
    BY <1>1 DEF EraseL1
  <2>2. L2Inv'
    BY <1>1, <2>1, AddrAssumption
    DEF EraseL1, CoherenceInv, Coherent, CodeInv, TypeOK, L2Inv, L2Entry, l2vars, NoAddr
  <2>3. ASSUME NEW c \in Addrs, L1Hit(c)'
        PROVE  c # a /\ L1Hit(c) /\ L1'[L1Index(c)].HostCode = L1[L1Index(c)].HostCode
    <3>1. CASE L1Hit(a)
      <4>1. L1' = [L1 EXCEPT ![L1Index(a)].GuestCode = 0]
        BY <1>1, <3>1 DEF EraseL1
      <4>2. L1[L1Index(a)] \in Entries
        BY <1>0 DEF CoherenceInv, CodeInv, TypeOK
      <4>3. L1'[L1Index(a)].GuestCode = 0
        BY <1>0, <4>1, <4>2 DEF CoherenceInv, CodeInv, TypeOK, Entries
      <4>4. \A i \in L1Indexes : i # L1Index(a) => L1'[i] = L1[i]
        BY <1>0, <4>1 DEF CoherenceInv, CodeInv, TypeOK
      <4> QED
        BY <1>0, <2>3, <4>3, <4>4 DEF L1Hit, PlainAddrs
    <3>2. CASE ~L1Hit(a)
      BY <1>1, <2>3, <3>2 DEF EraseL1, L1Hit
    <3> QED
      BY <3>1, <3>2
  <2>4. L1NonNull'
    BY <2>3 DEF L1NonNull, CoherenceInv, Coherent
  <2>5. Alone => L1Inv'
    BY <2>1, <2>3 DEF L1Inv, CoherenceInv, Coherent, Undisturbed, CodeInv, TypeOK
  <2>6. Alone => interrupted'.pc = "none" /\ PendingInv'
    BY <1>1, HoldsNothing DEF EraseL1, OtherThreads, Alone, ownerVars
  <2> QED
    BY <2>2, <2>4, <2>5, <2>6 DEF Coherent, Undisturbed
<1>2. ASSUME EraseL2 PROVE Coherent'
  <2>1. erasing \in Addrs /\ erasing' = NoAddr /\ UNCHANGED <<L1, PagePointers, BlockList, pc>>
    BY <1>2 DEF EraseL2, CoherenceInv, CodeInv, TypeOK, ownerVars
  <2>2. ASSUME NEW c \in Addrs, L2Entry(c)'.GuestCode = c
        PROVE  c # erasing /\ L2Entry(c)' = L2Entry(c)
    <3>1. ZeroEntry.GuestCode = 0
      BY DEF ZeroEntry, Entry
    <3>2. CASE PageIndex(erasing) \in PagePointers
      <4>1. PageMemory' = [PageMemory EXCEPT ![PageIndex(erasing)][PageOffset(erasing)] = ZeroEntry]
        BY <1>2, <3>2 DEF EraseL2
      <4>3. PageMemory'[PageIndex(c)][PageOffset(c)] = ZeroEntry
            \/ PageMemory'[PageIndex(c)][PageOffset(c)] = PageMemory[PageIndex(c)][PageOffset(c)]
        BY <1>0, <2>1, <4>1 DEF CoherenceInv, CodeInv, TypeOK
      <4>4. c # 0
        BY DEF PlainAddrs
      <4>5. L2Entry(c)' = L2Entry(c)
        BY <2>2, <3>1, <4>3, <4>4 DEF L2Entry
      <4>6. c # erasing
        <5> SUFFICES ASSUME c = erasing PROVE FALSE
          OBVIOUS
        <5>1. PageMemory'[PageIndex(c)][PageOffset(c)] = ZeroEntry
          BY <1>0, <4>1 DEF CoherenceInv, CodeInv, TypeOK
        <5> QED
          BY <2>2, <3>1, <4>4, <5>1 DEF L2Entry
      <4> QED
        BY <4>5, <4>6
    <3>3. CASE PageIndex(erasing) \notin PagePointers
      <4>1. PageMemory' = PageMemory
        BY <1>2, <3>3 DEF EraseL2
      <4> QED
        BY <2>1, <2>2, <3>3, <4>1 DEF L2Entry, L2Inv, CoherenceInv, Coherent
    <3> QED
      BY <3>2, <3>3
  <2>3. L2Inv'
    BY <2>1, <2>2 DEF L2Inv, CoherenceInv, Coherent
  <2>4. L1NonNull' /\ (Alone => L1Inv')
    BY <2>1 DEF L1NonNull, L1Inv, L1Hit, CoherenceInv, Coherent, Undisturbed
  <2>5. Alone => interrupted'.pc = "none" /\ PendingInv'
    BY <1>2, <2>1, AddrAssumption
    DEF EraseL2, PendingInv, CoherenceInv, Coherent, Undisturbed, ownerVars
  <2> QED
    BY <2>3, <2>4, <2>5 DEF Coherent, Undisturbed
<1> QED
  BY <1>1, <1>2 DEF Invalidate

\* Coherence is inductive.
LEMMA CoherenceStep ==
    ASSUME CoherenceInv, PlainAddrs, [Next]_vars PROVE CoherenceInv'
<1>1. CASE Dispatch
  BY <1>1, DispatchSafe, DispatchCoherent DEF CoherenceInv
<1>2. CASE Compile
  BY <1>2, CompileSafe, CompileCoherent DEF CoherenceInv
<1>3. CASE RunCode
  BY <1>3, RunCodeSafe, RunCodeCoherent DEF CoherenceInv
<1>4. CASE Invalidate
  BY <1>4, InvalidateSafe, InvalidateCoherent DEF CoherenceInv
<1>5. CASE UNCHANGED vars
  <2>1. CodeInv'
    BY <1>5 DEF vars, cacheVars, l2vars, linkVars, codeVars, ownerVars, CodeInv, TypeOK,
                NoFreedCode, HoldsCode, InUse, CoherenceInv
  <2>2. Coherent'
    BY <1>5, TablesUnchanged DEF vars, ownerVars, cacheVars, PendingInv, CoherenceInv, Coherent, Undisturbed
  <2> QED
    BY <2>1, <2>2 DEF CoherenceInv
<1> QED
  BY <1>1, <1>2, <1>3, <1>4, <1>5 DEF Next

\* With no block at address 0 or at another block's page index, L2 agrees
\* with BlockList whatever the other guest threads invalidate and whenever.
THEOREM L2SoundAlways ==
    ASSUME PlainAddrs PROVE Spec => []L2Sound
<1>1. Init => CoherenceInv
  BY CoherenceInit
<1>2. CoherenceInv /\ [Next]_vars => CoherenceInv'
  BY CoherenceStep
<1>3. CoherenceInv => L2Sound
  BY AddrAssumption DEF CoherenceInv, Coherent, L2Inv, L2Sound, L2Hit, NoAddr
<1> QED
  BY <1>1, <1>2, <1>3, PTL DEF Spec

\* When neither another thread nor a signal handler invalidates this thread's
\* code, lookups answer outside an Erase what BlockList holds.
LEMMA LookupIsMapped ==
    ASSUME Alone, CoherenceInv, erasing = NoAddr, NEW a \in Addrs
    PROVE  Found(a) = BlockList[a]
<1>1. L1Inv /\ L2Inv
  BY Zenon DEF CoherenceInv, Coherent, Undisturbed
<1>2. CASE L1Hit(a)
  BY <1>1, <1>2 DEF L1Inv, Found
<1>3. CASE ~L1Hit(a)
  BY <1>1, <1>3, AddrAssumption DEF L2Inv, Found, L2Hit, NoAddr
<1> QED
  BY <1>2, <1>3

\* If moreover no other thread invalidates this thread's code, and no signal
\* handler does so while the dispatcher is between its L2 load and its L1
\* store, every lookup, in C++ or inlined in the dispatcher, answers what
\* BlockList holds, whatever is compiled, evicted, linked, erased and cleared.
THEOREM LookupSoundAlways ==
    ASSUME PlainAddrs, Alone PROVE Spec => []LookupSound
<1>1. Init => CoherenceInv
  BY CoherenceInit
<1>2. CoherenceInv /\ [Next]_vars => CoherenceInv'
  BY CoherenceStep
<1>3. CoherenceInv => LookupSound
  BY LookupIsMapped DEF LookupSound
<1> QED
  BY <1>1, <1>2, <1>3, PTL DEF Spec

-----------------------------------------------------------------------------
(* One map *)

\* A block whose Erase is half done has left BlockList.
MapInv == CoherenceInv /\ (erasing # NoAddr => BlockList[erasing] = NoHost)

\* Without other threads nothing happens between the two halves of an Erase.
LEMMA EraseUndisturbed ==
    ASSUME Alone, erasing # NoAddr, Next PROVE EraseL2
  BY DEF Next, Dispatch, DispatchL1, DispatchL2Load, DispatchL2Store, Compile, CompileBlockFound,
         CompileBlock, CompileBlockClears, RunCode, ExitFunctionLinkMiss, ExitFunctionLinkFind,
         ExitFunctionLinkPatch, ThreadAddBlockLink, FollowLink, ExitToDispatcher, SignalGuest,
         SignalReturn, MarkMemoryShared, Invalidate, EraseL1, OwnerRuns, OtherThreads, Alone

\* Outside an Erase the lookups, taken together, are BlockList.
LEMMA LookupsAreMapped ==
    ASSUME TypeOK, LookupSound, erasing = NoAddr PROVE Lookups = BlockList
<1>1. BlockList = [a \in Addrs |-> BlockList[a]]
  BY DEF TypeOK
<1> QED
  BY <1>1 DEF Lookups, LookupSound

\* A step outside Erase inserts the compiled block, clears, or changes no
\* lookup.
LEMMA OutsideErase ==
    ASSUME Alone, CoherenceInv, erasing = NoAddr, erasing' = NoAddr,
           Lookups' = BlockList', [Next]_vars
    PROVE  Abstract!Next \/ UNCHANGED <<Lookups, erasing>>
<1>0. Lookups = BlockList
  BY LookupIsMapped, LookupsAreMapped DEF CoherenceInv, CodeInv, LookupSound
<1>1. ASSUME NEW a \in Addrs, NEW h \in HostCodes, CompileBlock(a, h)
      PROVE  Abstract!Next
  <2>1. BlockList[a] = NoHost
    BY <1>1, LookupIsMapped DEF CompileBlock
  <2>2. BlockList' = [BlockList EXCEPT ![a] = h]
    BY <1>1, <2>1 DEF CompileBlock, AddBlockMapping
  <2>3. Abstract!Insert(a, h)
    BY <1>0, <2>1, <2>2 DEF Abstract!Insert
  <2> QED
    BY <2>3 DEF Abstract!Next
<1>2. ASSUME NEW a \in Addrs, NEW h \in HostCodes, CompileBlockClears(a, h)
      PROVE  Abstract!Next
  <2>1. BlockList[a] = NoHost
    BY <1>2, LookupIsMapped DEF CompileBlockClears
  <2>2. BlockList' = [NoBlocks EXCEPT ![a] = h]
    BY <1>2 DEF CompileBlockClears, AddBlockMapping, NoBlocks
  <2>3. Abstract!ClearAndInsert(a, h)
    BY <1>0, <2>1, <2>2 DEF Abstract!ClearAndInsert, Abstract!Empty, NoBlocks
  <2> QED
    BY <2>3 DEF Abstract!Next
<1>3. CASE MarkMemoryShared
  <2>1. BlockList' = NoBlocks \/ UNCHANGED BlockList
    BY <1>3 DEF MarkMemoryShared, cacheVars
  <2> QED
    BY <1>0, <2>1 DEF Abstract!Next, Abstract!Clear, Abstract!Empty, NoBlocks
<1>4. CASE UNCHANGED BlockList
  BY <1>0, <1>4
<1>5. \A a \in Addrs : ~EraseL1(a)
  BY AddrAssumption DEF EraseL1, NoAddr
<1>6. ~EraseL2
  BY DEF EraseL2
<1> QED
  BY <1>1, <1>2, <1>3, <1>4, <1>5, <1>6
  DEF Next, Dispatch, DispatchL1, DispatchL2Load, DispatchL2Store, Compile, CompileBlockFound,
      FindBlock, RunCode, ExitFunctionLinkMiss, ExitFunctionLinkFind, ExitFunctionLinkPatch,
      ThreadAddBlockLink, FollowLink, ExitToDispatcher, SignalGuest, SignalReturn, Invalidate, cacheVars, vars

\* The first half of Erase takes the block away unless L2 has it; nothing else
\* changes.
LEMMA EraseBegins ==
    ASSUME PlainAddrs, Alone, CoherenceInv, NEW a \in Addrs, EraseL1(a)
    PROVE  Abstract!BeginErase(a) /\ BlockList'[a] = NoHost
<1>0. erasing = NoAddr /\ erasing' = a /\ BlockList \in [Addrs -> HostCodes \cup {NoHost}]
  BY DEF EraseL1, CoherenceInv, CodeInv, TypeOK
<1>1. BlockList' = [BlockList EXCEPT ![a] = NoHost] /\ UNCHANGED l2vars
  BY DEF EraseL1
<1>2. L1 \in [L1Indexes -> Entries] /\ \A b \in Addrs : L1Index(b) \in L1Indexes
  BY IndexRange, AddrAssumption DEF CoherenceInv, CodeInv, TypeOK
<1>3. ASSUME NEW b \in Addrs, b # a PROVE Found(b)' = Found(b)
  <2>1. L1Hit(b)' = L1Hit(b) /\ (L1Hit(b) => L1'[L1Index(b)] = L1[L1Index(b)])
    <3>1. CASE L1Hit(a)
      <4>1. L1' = [L1 EXCEPT ![L1Index(a)].GuestCode = 0]
        BY <3>1 DEF EraseL1
      <4>2. b # 0
        BY DEF PlainAddrs
      <4> QED
        BY <1>2, <1>3, <3>1, <4>1, <4>2 DEF L1Hit, Entries
    <3>2. CASE ~L1Hit(a)
      BY <3>2 DEF EraseL1, L1Hit
    <3> QED
      BY <3>1, <3>2
  <2>2. BlockList'[b] = BlockList[b]
    BY <1>0, <1>1, <1>3
  <2> QED
    BY <1>1, <2>1, <2>2 DEF Found, L2Hit, L2Entry, l2vars
<1>4. Found(a)' = Found(a) \/ Found(a)' = NoHost
  <2>1. ~L1Hit(a)'
    <3>1. CASE L1Hit(a)
      <4>1. L1' = [L1 EXCEPT ![L1Index(a)].GuestCode = 0]
        BY <3>1 DEF EraseL1
      <4>2. a # 0
        BY DEF PlainAddrs
      <4> QED
        BY <1>2, <4>1, <4>2 DEF L1Hit, Entries
    <3>2. CASE ~L1Hit(a)
      BY <3>2 DEF EraseL1, L1Hit
    <3> QED
      BY <3>1, <3>2
  <2>2. BlockList'[a] = NoHost
    BY <1>0, <1>1
  <2>3. Found(a) = BlockList[a] /\ (L2Hit(a) => L2Entry(a).HostCode = BlockList[a])
    BY <1>0, LookupIsMapped, AddrAssumption DEF CoherenceInv, Coherent, L2Inv, L2Hit, NoAddr
  <2> QED
    BY <1>1, <2>1, <2>2, <2>3 DEF Found, L2Hit, L2Entry, l2vars
<1>5. Lookups' \in {Lookups, [Lookups EXCEPT ![a] = NoHost]}
  BY <1>3, <1>4 DEF Lookups
<1> QED
  BY <1>0, <1>1, <1>5 DEF Abstract!BeginErase

\* The second half leaves no level that holds the block.
LEMMA EraseEnds ==
    ASSUME Alone, MapInv, EraseL2, Lookups' = BlockList'
    PROVE  Abstract!EndErase
<1>0. erasing \in Addrs /\ erasing # NoAddr /\ erasing' = NoAddr /\ BlockList[erasing] = NoHost
  BY DEF EraseL2, MapInv, CoherenceInv, CodeInv, TypeOK
<1>1. L1Inv /\ L2Inv /\ BlockList \in [Addrs -> HostCodes \cup {NoHost}]
  BY Zenon DEF MapInv, CoherenceInv, Coherent, Undisturbed, CodeInv, TypeOK
<1>2. ASSUME NEW b \in Addrs, b # erasing PROVE Found(b) = BlockList[b]
  BY <1>1, <1>2 DEF L1Inv, L2Inv, Found, L2Hit
<1>3. BlockList' = BlockList
  BY DEF EraseL2
<1>4. BlockList = [Lookups EXCEPT ![erasing] = NoHost]
  BY <1>0, <1>1, <1>2 DEF Lookups
<1> QED
  BY <1>0, <1>3, <1>4 DEF Abstract!EndErase

\* Every step maps to a step of the map or to a stutter.
LEMMA MapStep ==
    ASSUME PlainAddrs, Alone, MapInv, CoherenceInv', erasing' = NoAddr => Lookups' = BlockList',
           [Next]_vars
    PROVE  /\ Abstract!Next \/ UNCHANGED <<Lookups, erasing>>
           /\ erasing' # NoAddr => BlockList'[erasing'] = NoHost
<1>0. CoherenceInv
  BY DEF MapInv
<1>1. CASE UNCHANGED vars
  BY <1>1 DEF vars, cacheVars, l2vars, MapInv, Lookups, Found, L1Hit, L2Hit, L2Entry
<1>2. CASE Next /\ erasing # NoAddr
  <2>1. EraseL2
    BY <1>2, EraseUndisturbed
  <2>2. erasing' = NoAddr
    BY <2>1 DEF EraseL2
  <2> QED
    BY <2>1, <2>2, EraseEnds DEF Abstract!Next
<1>3. ASSUME NEW a \in Addrs, EraseL1(a)
      PROVE  Abstract!Next /\ (erasing' # NoAddr => BlockList'[erasing'] = NoHost)
  <2>1. erasing' = a
    BY <1>3 DEF EraseL1
  <2> QED
    BY <1>0, <1>3, <2>1, EraseBegins DEF Abstract!Next
<1>4. CASE Next /\ erasing = NoAddr /\ \A a \in Addrs : ~EraseL1(a)
  <2>1. erasing' = NoAddr
    BY <1>4 DEF Next, Dispatch, DispatchL1, DispatchL2Load, DispatchL2Store, Compile,
                CompileBlockFound, CompileBlock, CompileBlockClears, RunCode,
                ExitFunctionLinkMiss, ExitFunctionLinkFind, ExitFunctionLinkPatch,
                ThreadAddBlockLink, FollowLink, ExitToDispatcher,
                SignalGuest, SignalReturn, MarkMemoryShared, Invalidate, EraseL2
  <2> QED
    BY <1>0, <1>4, <2>1, OutsideErase
<1> QED
  BY <1>1, <1>2, <1>3, <1>4

\* With no block at address 0 or at another block's page index, no other thread
\* and no signal handler that invalidates in the middle of a lookup, the three
\* levels of the cache, with their evictions and reloads, implement one map
\* from addresses to blocks; migration does not matter.
THEOREM CacheImplementsMap ==
    ASSUME PlainAddrs, Alone PROVE Spec => ImplementsBlockMap
<1>1. Init => CoherenceInv /\ MapInv /\ Abstract!Init
  <2> SUFFICES ASSUME Init PROVE MapInv /\ Abstract!Init
    BY DEF MapInv
  <2>1. CoherenceInv
    BY CoherenceInit
  <2>2. erasing = NoAddr /\ BlockList = NoBlocks
    BY DEF Init
  <2>3. Lookups = NoBlocks
    BY <2>1, <2>2, LookupIsMapped, LookupsAreMapped DEF CoherenceInv, CodeInv, LookupSound
  <2> QED
    BY <2>1, <2>2, <2>3 DEF MapInv, Abstract!Init, Abstract!Empty, NoBlocks
<1>2. CoherenceInv /\ [Next]_vars => CoherenceInv'
  BY CoherenceStep
<1>3. CoherenceInv => (erasing = NoAddr => Lookups = BlockList)
  BY LookupIsMapped, LookupsAreMapped DEF CoherenceInv, CodeInv, LookupSound
<1>4. MapInv /\ CoherenceInv' /\ (erasing = NoAddr => Lookups = BlockList)' /\ [Next]_vars =>
        MapInv' /\ [Abstract!Next]_<<Lookups, erasing>>
  BY MapStep DEF MapInv
<1> QED
  BY <1>1, <1>2, <1>3, <1>4, PTL DEF Spec, ImplementsBlockMap, Abstract!Spec

-----------------------------------------------------------------------------
(* Links *)

\* A single-threaded guest without signal handlers and without migration.
Quiet == PlainAddrs /\ Alone /\ ~TSOAutoMigration

\* A mapped block translates its address and has not been invalidated;
\* free code has not been invalidated either.
MappedInv ==
    /\ \A a \in Addrs : BlockList[a] # NoHost =>
           CodeOf[BlockList[a]] = a /\ BlockList[a] \notin stale
    /\ \A h \in stale : CodeOf[h] # NoAddr

\* The linker works on the exit of the block that called it.
LinkerInv ==
    /\ pc \in {"link", "linked"} => pending.GuestCode = ExitOf[CodeOf[running]]
    /\ pc = "linked" => Jump[running] = pending.HostCode

\* A link as LinkSound describes it, of block h.
Severable(h) ==
    /\ CodeOf[h] # NoAddr
    /\ BlockList[ExitOf[CodeOf[h]]] = Jump[h]
    /\ \/ <<ExitOf[CodeOf[h]], h>> \in BlockLinks
       \/ pc = "linked" /\ running = h

LinkParts == MappedInv /\ LinkerInv /\ LinkSound
LinkInv == CoherenceInv /\ LinkParts

LEMMA LinkSoundIs == LinkSound <=> \A h \in HostCodes : Jump[h] # NoHost => Severable(h)
  BY DEF LinkSound, Severable

\* Outside an Erase, lookups answer what BlockList holds.
LEMMA FoundIsMapped ==
    ASSUME Quiet, CoherenceInv, erasing = NoAddr, NEW a \in Addrs
    PROVE  Found(a) = BlockList[a]
  BY LookupIsMapped DEF Quiet

\* Steps outside the linker that change neither BlockList nor links nor code.
LEMMA LinksUnchanged ==
    ASSUME LinkInv, UNCHANGED <<BlockList, linkVars, codeVars>>,
           pc # "linked", pc' \notin {"link", "linked"}
    PROVE  LinkParts'
<1>1. MappedInv' /\ LinkerInv'
  BY DEF LinkInv, LinkParts, MappedInv, LinkerInv, linkVars, codeVars
<1>2. LinkSound'
  BY DEF LinkInv, LinkParts, LinkSound, linkVars, codeVars
<1> QED
  BY <1>1, <1>2 DEF LinkParts

\* Compilation emits unlinked exits to code nothing points to.
LEMMA CompileLinks ==
    ASSUME Quiet, LinkInv, Compile PROVE LinkParts'
<1>1. ASSUME NEW a \in Addrs, CompileBlockFound(a) PROVE LinkParts'
  BY <1>1, LinksUnchanged DEF CompileBlockFound, FindBlock, ownerVars
<1>2. ASSUME NEW a \in Addrs, NEW h \in HostCodes, CompileBlock(a, h)
      PROVE  LinkParts'
  <2>1. BlockList[a] = NoHost /\ a # NoAddr
    BY <1>2, FoundIsMapped, AddrAssumption DEF CompileBlock, LinkInv, NoAddr
  <2>2. /\ BlockList' = [BlockList EXCEPT ![a] = h]
        /\ CodeOf' = [CodeOf EXCEPT ![h] = a]
        /\ Jump' = [Jump EXCEPT ![h] = NoHost]
        /\ CodeOf[h] = NoAddr /\ stale' = stale /\ BlockLinks' = BlockLinks
        /\ pc = "dispatch" /\ pc' = "dispatch"
    <3>1. AddBlockMapping(a, h, BlockList, L1)
      BY <1>2 DEF CompileBlock
    <3>2. BlockList' = [BlockList EXCEPT ![a] = h]
      BY <2>1, <3>1, NewMapping
    <3> QED
      BY <1>2, <3>2 DEF CompileBlock, ownerVars
  <2>3. \A g \in HostCodes : g # h => CodeOf'[g] = CodeOf[g] /\ Jump'[g] = Jump[g]
    BY <2>2 DEF LinkInv, CoherenceInv, CodeInv, TypeOK
  <2>4. CodeOf'[h] = a /\ Jump'[h] = NoHost
    BY <2>2 DEF LinkInv, CoherenceInv, CodeInv, TypeOK
  <2>5. \A c \in Addrs : BlockList'[c] = IF c = a THEN h ELSE BlockList[c]
    BY <2>2 DEF LinkInv, CoherenceInv, CodeInv, TypeOK
  <2>6. \A c \in Addrs : BlockList[c] # h
    BY <2>2, AddrAssumption, HostAssumption DEF LinkInv, LinkParts, MappedInv, NoAddr
  <2>7. MappedInv'
    BY <2>2, <2>1, <2>3, <2>4, <2>5, <2>6
    DEF LinkInv, LinkParts, MappedInv, CoherenceInv, CodeInv, TypeOK
  <2>8. ASSUME NEW g \in HostCodes, Jump'[g] # NoHost
        PROVE  /\ CodeOf'[g] # NoAddr
               /\ BlockList'[ExitOf[CodeOf'[g]]] = Jump'[g]
               /\ <<ExitOf[CodeOf'[g]], g>> \in BlockLinks'
    <3>1. g # h /\ CodeOf'[g] = CodeOf[g] /\ Jump'[g] = Jump[g]
      BY <2>3, <2>4, <2>8
    <3>2. CodeOf[g] \in Addrs /\ ExitOf[CodeOf[g]] \in Addrs
      BY <2>8, <3>1, AddrAssumption DEF LinkInv, LinkParts, LinkSound, CoherenceInv, CodeInv, TypeOK
    <3>3. BlockList[ExitOf[CodeOf[g]]] = Jump[g] /\ <<ExitOf[CodeOf[g]], g>> \in BlockLinks
      BY <2>2, <2>8, <3>1 DEF LinkInv, LinkParts, LinkSound
    <3> QED
      BY <2>2, <2>1, <2>5, <2>8, <3>1, <3>2, <3>3 DEF LinkInv, LinkParts, LinkSound
  <2>9. LinkerInv'
    BY <2>2 DEF LinkerInv
  <2> QED
    BY <2>7, <2>8, <2>9 DEF LinkParts, LinkSound
<1>3. ASSUME NEW a \in Addrs, NEW h \in HostCodes, CompileBlockClears(a, h)
      PROVE  LinkParts'
  <2>1. interrupted.pc = "none"
    BY DEF LinkInv, CoherenceInv, Coherent, Undisturbed, Quiet
  <2>2. /\ BlockList' = [NoBlocks EXCEPT ![a] = h]
        /\ CodeOf' = [NoCode EXCEPT ![h] = a]
        /\ Jump' = [NoJumps EXCEPT ![h] = NoHost]
        /\ stale' = {} /\ pc' = "dispatch"
    <3>1. AddBlockMapping(a, h, NoBlocks, EmptyL1)
      BY <1>3 DEF CompileBlockClears
    <3>2. BlockList' = [NoBlocks EXCEPT ![a] = h]
      BY <3>1, NothingMapped, NewMapping
    <3> QED
      BY <1>3, <2>1, <3>2 DEF CompileBlockClears, GetEmptyCodeBuffer, ownerVars
  <2>3. \A g \in HostCodes : Jump'[g] = NoHost
    BY <2>2 DEF NoJumps
  <2>4. MappedInv' /\ LinkerInv'
    BY <2>2 DEF MappedInv, LinkerInv, NoBlocks, NoCode
  <2> QED
    BY <2>3, <2>4 DEF LinkParts, LinkSound
<1> QED
  BY <1>1, <1>2, <1>3 DEF Compile

\* The linker finds the mapped block ...
LEMMA FindLinks ==
    ASSUME Quiet, LinkInv, ExitFunctionLinkFind PROVE LinkParts'
<1>1. UNCHANGED <<BlockList, linkVars, codeVars, running>> /\ pc = "code" /\ pc' = "link"
      /\ pending' = Entry(ExitOf[CodeOf[running]], Found(ExitOf[CodeOf[running]]))
  BY DEF ExitFunctionLinkFind, FindBlock
<1>2. MappedInv' /\ LinkerInv'
  BY <1>1 DEF LinkInv, LinkParts, MappedInv, LinkerInv, codeVars, Entry
<1>3. LinkSound'
  BY <1>1 DEF LinkInv, LinkParts, LinkSound, linkVars, codeVars
<1> QED
  BY <1>2, <1>3 DEF LinkParts

\* ... patches the exit with it ...
LEMMA PatchLinks ==
    ASSUME Quiet, LinkInv, ExitFunctionLinkPatch PROVE LinkParts'
<1>1. /\ running \in HostCodes /\ CodeOf[running] \in Addrs /\ pending.HostCode \in HostCodes
      /\ pending.GuestCode = ExitOf[CodeOf[running]]
      /\ pending.HostCode = BlockList[pending.GuestCode]
  BY LinkerHolds
  DEF ExitFunctionLinkPatch, LinkInv, LinkParts, LinkerInv, CoherenceInv, Coherent, Undisturbed,
      Quiet, PendingInv
<1>2. /\ Jump' = [Jump EXCEPT ![running] = pending.HostCode] /\ pc = "link" /\ pc' = "linked"
      /\ UNCHANGED <<BlockList, BlockLinks, CodeOf, stale, running, pending>>
  BY DEF ExitFunctionLinkPatch, cacheVars, codeVars
<1>3. Jump'[running] = pending.HostCode /\ \A g \in HostCodes : g # running => Jump'[g] = Jump[g]
  BY <1>1, <1>2 DEF LinkInv, CoherenceInv, CodeInv, TypeOK
<1>4. MappedInv' /\ LinkerInv'
  BY <1>1, <1>2, <1>3 DEF LinkInv, LinkParts, MappedInv, LinkerInv
<1>5. ASSUME NEW g \in HostCodes, Jump'[g] # NoHost PROVE Severable(g)'
  <2>1. CASE g = running
    BY <1>1, <1>2, <1>3, <2>1, AddrAssumption DEF Severable, NoAddr
  <2>2. CASE g # running
    BY <1>2, <1>3, <1>5, <2>2, LinkSoundIs DEF LinkInv, LinkParts, Severable
  <2> QED
    BY <2>1, <2>2
<1> QED
  BY <1>4, <1>5 DEF LinkParts, LinkSound, Severable

\* ... and registers the delinker.
LEMMA RegisterLinks ==
    ASSUME Quiet, LinkInv, ThreadAddBlockLink PROVE LinkParts'
<1>1. /\ running \in HostCodes /\ pending.GuestCode = ExitOf[CodeOf[running]]
      /\ BlockLinks' = BlockLinks \cup {<<pending.GuestCode, running>>}
      /\ pc' = "code" /\ UNCHANGED <<BlockList, Jump, CodeOf, stale>>
  BY LinkerHolds
  DEF ThreadAddBlockLink, LinkInv, LinkParts, LinkerInv, CoherenceInv, cacheVars, codeVars
<1>2. MappedInv' /\ LinkerInv'
  BY <1>1 DEF LinkInv, LinkParts, MappedInv, LinkerInv
<1>3. ASSUME NEW g \in HostCodes, Jump'[g] # NoHost PROVE Severable(g)'
  BY <1>1, <1>3, LinkSoundIs DEF LinkInv, LinkParts, Severable
<1> QED
  BY <1>2, <1>3 DEF LinkParts, LinkSound, Severable

\* Translated code links only through the linker.
LEMMA RunCodeLinks ==
    ASSUME Quiet, LinkInv, RunCode PROVE LinkParts'
<1>1. CASE ExitFunctionLinkFind \/ ExitFunctionLinkPatch \/ ThreadAddBlockLink
  BY <1>1, FindLinks, PatchLinks, RegisterLinks
<1>2. CASE MarkMemoryShared
  BY <1>2, LinksUnchanged DEF MarkMemoryShared, Quiet, cacheVars, linkVars, ownerVars
<1>3. CASE ExitFunctionLinkMiss \/ FollowLink \/ ExitToDispatcher
  BY <1>3, LinksUnchanged
  DEF ExitFunctionLinkMiss, FollowLink, ExitToDispatcher, cacheVars
<1>4. CASE SignalGuest
  BY <1>4 DEF SignalGuest, Quiet, Alone
<1>5. CASE SignalReturn
  BY <1>5 DEF SignalReturn, LinkInv, CoherenceInv, Coherent, Undisturbed, Quiet
<1> QED
  BY <1>1, <1>2, <1>3, <1>4, <1>5 DEF RunCode

\* Erase severs every link to the address it unmaps.
LEMMA InvalidateLinks ==
    ASSUME Quiet, LinkInv, Invalidate PROVE LinkParts'
<1>1. ASSUME NEW a \in Addrs, EraseL1(a) PROVE LinkParts'
  <2>1. /\ Jump' = [h \in HostCodes |-> IF <<a, h>> \in BlockLinks THEN NoHost ELSE Jump[h]]
        /\ BlockLinks' = {l \in BlockLinks : l[1] # a}
        /\ BlockList' = [BlockList EXCEPT ![a] = NoHost]
        /\ stale' = stale \cup {h \in HostCodes : CodeOf[h] = a}
        /\ CodeOf' = CodeOf /\ pc \in {"dispatch", "code"} /\ pc' = pc
    BY <1>1 DEF EraseL1, OtherThreads, Quiet, Alone, ownerVars
  <2>2. \A c \in Addrs : BlockList'[c] = IF c = a THEN NoHost ELSE BlockList[c]
    BY <2>1 DEF LinkInv, CoherenceInv, CodeInv, TypeOK
  <2>3. MappedInv'
    BY <2>1, <2>2, AddrAssumption DEF LinkInv, LinkParts, MappedInv, CoherenceInv, CodeInv, TypeOK, NoAddr
  <2>4. ASSUME NEW g \in HostCodes, Jump'[g] # NoHost
        PROVE  /\ CodeOf'[g] # NoAddr
               /\ BlockList'[ExitOf[CodeOf'[g]]] = Jump'[g]
               /\ <<ExitOf[CodeOf'[g]], g>> \in BlockLinks'
    <3>1. <<a, g>> \notin BlockLinks /\ Jump'[g] = Jump[g]
      BY <2>1, <2>4
    <3>2. CodeOf[g] # NoAddr /\ BlockList[ExitOf[CodeOf[g]]] = Jump[g]
          /\ <<ExitOf[CodeOf[g]], g>> \in BlockLinks
      BY <2>1, <2>4, <3>1 DEF LinkInv, LinkParts, LinkSound
    <3>3. ExitOf[CodeOf[g]] # a /\ ExitOf[CodeOf[g]] \in Addrs
      BY <3>1, <3>2, AddrAssumption DEF LinkInv, CoherenceInv, CodeInv, TypeOK
    <3> QED
      BY <2>1, <2>2, <3>1, <3>2, <3>3
  <2>5. LinkerInv'
    BY <2>1 DEF LinkerInv
  <2> QED
    BY <2>3, <2>4, <2>5 DEF LinkParts, LinkSound
<1>2. ASSUME EraseL2 PROVE LinkParts'
  <2>1. pc \notin {"link", "linked"}
    BY <1>2 DEF EraseL2, LinkInv, CoherenceInv, Coherent, Undisturbed, PendingInv, Quiet
  <2> QED
    BY <1>2, <2>1, LinksUnchanged DEF EraseL2, ownerVars
<1> QED
  BY <1>1, <1>2 DEF Invalidate

\* The link invariant is inductive.
LEMMA LinkStep ==
    ASSUME Quiet, LinkInv, [Next]_vars PROVE LinkInv'
<1>0. CoherenceInv'
  BY CoherenceStep DEF LinkInv, Quiet
<1>1. CASE Dispatch
  BY <1>0, <1>1, LinksUnchanged
  DEF LinkInv, Dispatch, DispatchL1, DispatchL2Load, DispatchL2Store, cacheVars
<1>2. CASE Compile
  BY <1>0, <1>2, CompileLinks DEF LinkInv
<1>3. CASE RunCode
  BY <1>0, <1>3, RunCodeLinks DEF LinkInv
<1>4. CASE Invalidate
  BY <1>0, <1>4, InvalidateLinks DEF LinkInv
<1>5. CASE UNCHANGED vars
  <2>1. MappedInv' /\ LinkerInv' /\ LinkSound'
    BY <1>5 DEF LinkInv, LinkParts, MappedInv, LinkerInv, LinkSound, vars, cacheVars, linkVars,
                codeVars, ownerVars
  <2> QED
    BY <1>0, <2>1 DEF LinkInv, LinkParts
<1> QED
  BY <1>1, <1>2, <1>3, <1>4, <1>5 DEF Next

\* Nothing is linked at the start.
LEMMA LinkInit == Quiet /\ Init => LinkInv
<1> SUFFICES ASSUME Quiet, Init PROVE LinkInv
  OBVIOUS
<1>1. CoherenceInv
  BY CoherenceInit DEF Quiet
<1> QED
  BY <1>1 DEF Init, LinkInv, LinkParts, MappedInv, LinkerInv, LinkSound, NoBlocks, NoJumps

\* For a single-threaded guest without handlers and migration, every patched
\* exit leads to the block mapped at its destination and can be severed.
THEOREM LinkSoundAlways ==
    ASSUME Quiet PROVE Spec => []LinkSound
<1>1. Init => LinkInv
  BY LinkInit
<1>2. LinkInv /\ [Next]_vars => LinkInv'
  BY LinkStep
<1>3. LinkInv => LinkSound
  BY DEF LinkInv, LinkParts
<1> QED
  BY <1>1, <1>2, <1>3, PTL DEF Spec

\* What the owner thread does when it enters a block.
EntersFresh ==
    (pc' = "code" /\ interrupted' = interrupted /\ <<pc, running>>' # <<pc, running>>)
      => running' \notin stale

\* An entry that the dispatcher finds in L1 or holds from L2 is mapped.
LEMMA DispatchFresh ==
    ASSUME Quiet, LinkInv, Dispatch PROVE EntersFresh
<1>0. L1Inv /\ PendingInv
  BY Zenon DEF LinkInv, CoherenceInv, Coherent, Undisturbed, Quiet
<1>1. ASSUME NEW a \in Addrs, DispatchL1(a) PROVE EntersFresh
  <2>1. running' = BlockList[a] /\ BlockList[a] # NoHost
    BY <1>0, <1>1 DEF DispatchL1, L1Inv
  <2> QED
    BY <2>1 DEF LinkInv, LinkParts, MappedInv, EntersFresh
<1>2. ASSUME NEW a \in Addrs, DispatchL2Load(a) PROVE EntersFresh
  BY <1>2 DEF DispatchL2Load, EntersFresh
<1>3. ASSUME DispatchL2Store PROVE EntersFresh
  <2>1. /\ pending.GuestCode \in Addrs
        /\ running' = BlockList[pending.GuestCode]
        /\ running' # NoHost
    BY <1>0, <1>3 DEF DispatchL2Store, PendingInv, LinkInv, CoherenceInv, CodeInv, NoFreedCode,
        HoldsCode
  <2> QED
    BY <2>1 DEF LinkInv, LinkParts, MappedInv, EntersFresh
<1> QED
  BY <1>1, <1>2, <1>3 DEF Dispatch

\* A link, new or followed, leads to a mapped block.
LEMMA RunCodeFresh ==
    ASSUME Quiet, LinkInv, RunCode PROVE EntersFresh
<1>1. CASE ThreadAddBlockLink
  <2>1. /\ pending.GuestCode \in Addrs /\ running' = BlockList[pending.GuestCode]
        /\ running' \in HostCodes
    BY <1>1, LinkerHolds
    DEF ThreadAddBlockLink, LinkInv, CoherenceInv, Coherent, Undisturbed, Quiet, PendingInv
  <2> QED
    BY <2>1, HostAssumption DEF LinkInv, LinkParts, MappedInv, EntersFresh
<1>2. CASE FollowLink
  <2> DEFINE a == ExitOf[CodeOf[running]]
  <2>1. running \in HostCodes /\ CodeOf[running] \in Addrs /\ a \in Addrs
    BY <1>2, AddrAssumption
    DEF FollowLink, LinkInv, CoherenceInv, CodeInv, TypeOK, NoFreedCode, HoldsCode, InUse
  <2>2. running' = BlockList[a] /\ BlockList[a] # NoHost
    BY <1>2, <2>1 DEF FollowLink, LinkInv, LinkParts, LinkSound
  <2> QED
    BY <2>1, <2>2 DEF LinkInv, LinkParts, MappedInv, EntersFresh
<1>3. CASE ExitFunctionLinkMiss \/ ExitFunctionLinkFind \/ ExitFunctionLinkPatch \/ ExitToDispatcher \/ SignalGuest
  BY <1>3 DEF ExitFunctionLinkMiss, ExitFunctionLinkFind, ExitFunctionLinkPatch,
              ExitToDispatcher, SignalGuest, EntersFresh
<1>4. CASE SignalReturn
  BY <1>4 DEF SignalReturn, LinkInv, CoherenceInv, Coherent, Undisturbed, Quiet
<1>5. CASE MarkMemoryShared
  BY <1>5 DEF MarkMemoryShared, ownerVars, EntersFresh
<1> QED
  BY <1>1, <1>2, <1>3, <1>4, <1>5 DEF RunCode

\* Compilation and invalidation do not move the owner.
LEMMA OthersFresh ==
    ASSUME Compile \/ Invalidate \/ UNCHANGED vars PROVE EntersFresh
<1>1. UNCHANGED ownerVars
  BY DEF Compile, CompileBlockFound, CompileBlock, CompileBlockClears,
         Invalidate, EraseL1, EraseL2, vars
<1> QED
  BY <1>1 DEF ownerVars, EntersFresh

\* Under the same conditions no block is entered after its guest code was
\* invalidated, by the dispatcher, by the linker or along a link.
THEOREM NoStaleEntryAlways ==
    ASSUME Quiet PROVE Spec => NoStaleEntry
<1>1. Init => LinkInv
  BY LinkInit
<1>2. LinkInv /\ [Next]_vars => LinkInv'
  BY LinkStep
<1>3. LinkInv /\ [Next]_vars => [EntersFresh]_vars
  BY DispatchFresh, RunCodeFresh, OthersFresh DEF Next
<1>4. Spec => [][EntersFresh]_vars
  BY <1>1, <1>2, <1>3, PTL DEF Spec
<1> QED
  BY <1>4, PTL DEF NoStaleEntry, EntersFresh
=============================================================================
