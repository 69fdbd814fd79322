------------------------ MODULE MemoryTrackingProofs ------------------------
(***************************************************************************)
(* Proofs about what the system call handler keeps of the guest's memory.  *)
(*                                                                         *)
(* CodeInvalidation: for any threads, pages, mirrors, blocks, system calls *)
(* and overlaps, a cached block is registered on every page it was decoded *)
(* from; and without shmdt no two threads wait for each other's lock.  For *)
(* private pages, no cached block is stale without an invalidation on its  *)
(* way, the guest's protections are kept, and the mprotect calls the code  *)
(* asserts succeed.  For pages that mirror each other, the same is proved  *)
(* of one thread that unmaps but neither maps nor reprotects.              *)
(*                                                                         *)
(* VMATracking: for any address space, resources and system calls within   *)
(* the two limits the module names, the tracked mappings do not overlap,   *)
(* the list of a resource is exact, and what the tracker shows is the      *)
(* kernel's address space: it implements GuestMap.                         *)
(***************************************************************************)
EXTENDS CodeInvalidation, VMATracking, FiniteSetTheorems, WellFoundedInduction, TLAPS

-----------------------------------------------------------------------------
(* CodeInvalidation *)

\* A thread that handles a fault, a system call or a page of its block has
\* that page at hand.
PageInv == \A t \in Threads : pc[t] \notin {"run", "add"} => page[t] \in Pages /\ dest[t] \in Pages

\* A compilation has each page of its block decoded or still to decode, and
\* the block is registered on the pages decoded and on the one at hand.
CompileInv ==
    \A t \in Threads : Compiling(t) =>
        /\ block[t] \in Blocks
        /\ Span[block[t]] \subseteq todo[t] \cup decoded[t]
        /\ \A p \in decoded[t] : block[t] \in CodePages[t][p]
        /\ pc[t] # "add" => block[t] \in CodePages[t][page[t]]

RegInv == TypeOK /\ PageInv /\ CompileInv /\ Registered

\* The empty caches satisfy the invariant.
LEMMA RegInvInit == Init => RegInv
  BY DEF Init, RegInv, TypeOK, PageInv, CompileInv, Registered, Compiling, Prots

\* A step that leaves CodePages and the compilations alone, and drops no
\* block's registration, keeps the two parts about compilations.
LEMMA CompilationsKept ==
    ASSUME CompileInv, UNCHANGED <<CodePages, block, todo, decoded>>,
           \A t \in Threads : Compiling(t)' => Compiling(t) /\ (pc'[t] # "add" => pc[t] # "add" /\ page'[t] = page[t])
    PROVE  CompileInv'
  BY DEF CompileInv

\* Changed memory makes blocks stale but adds none.
LEMMA ChangeSafe ==
    ASSUME TypeOK, Registered, NEW ps, Change(ps), UNCHANGED CodePages
    PROVE  /\ code' \in [Threads -> [Blocks -> {"none", "fresh", "stale"}]]
           /\ torn' \in [Threads -> BOOLEAN]
           /\ Registered'
  BY DEF TypeOK, Registered, Change

\* An invalidation unregisters a page's blocks and drops them in one step.
LEMMA InvalidateSafe ==
    ASSUME TypeOK, Registered, NEW p \in Pages, InvalidatePage(p)
    PROVE  /\ CodePages' \in [Threads -> [Pages -> SUBSET Blocks]]
           /\ code' \in [Threads -> [Blocks -> {"none", "fresh", "stale"}]]
           /\ Registered'
<1>1. CodePages' \in [Threads -> [Pages -> SUBSET Blocks]]
  BY DEF TypeOK, InvalidatePage
<1>2. code' \in [Threads -> [Blocks -> {"none", "fresh", "stale"}]]
  BY DEF TypeOK, InvalidatePage
<1>3. ASSUME NEW t \in Threads, NEW b \in Blocks, code'[t][b] # "none", NEW q \in Span[b]
      PROVE  b \in CodePages'[t][q]
  <2>1. q \in Pages
    BY PageAssumption
  <2>2. code'[t][b] = IF b \in CodePages[t][p] THEN "none" ELSE code[t][b]
    BY DEF InvalidatePage
  <2>3. b \notin CodePages[t][p] /\ code[t][b] # "none"
    BY <1>3, <2>2
  <2>4. b \in CodePages[t][q]
    BY <2>3 DEF Registered
  <2>5. q # p
    BY <2>3, <2>4
  <2> QED BY <2>1, <2>4, <2>5 DEF InvalidatePage, TypeOK
<1> QED BY <1>1, <1>2, <1>3 DEF Registered

\* No compilation runs when CodeInvalidationMutex is taken unique.
LEMMA NobodyCompiles ==
    ASSUME CodeFree, \A t \in Threads : Compiling(t)' => Compiling(t)
    PROVE  CompileInv'
  BY DEF CodeFree, CompileInv

\* A compilation keeps the invariant.
LEMMA CompileSafe ==
    ASSUME RegInv, NEW t \in Threads, CompileStep(t)
    PROVE  RegInv'
<1> USE DEF RegInv
<1>1. ASSUME NEW b \in Blocks, CompileStart(t, b) PROVE RegInv'
  <2>1. TypeOK'
    BY <1>1, PageAssumption DEF CompileStart, TypeOK, memVars, codeVars, callVars
  <2>2. PageInv'
    BY <1>1 DEF CompileStart, TypeOK, PageInv, callVars
  <2>3. CompileInv'
    BY <1>1 DEF CompileStart, TypeOK, CompileInv, Compiling, codeVars, callVars
  <2>4. Registered'
    BY <1>1 DEF CompileStart, Registered, codeVars
  <2> QED BY <2>1, <2>2, <2>3, <2>4
<1>2. ASSUME NEW p \in Pages, AddBlockExecutableRange(t, p) PROVE RegInv'
  <2>0. block[t] \in Blocks
    BY <1>2 DEF AddBlockExecutableRange, CompileInv, Compiling
  <2>1. CodePages' \in [Threads -> [Pages -> SUBSET Blocks]]
    BY <1>2, <2>0 DEF AddBlockExecutableRange, TypeOK
  <2>2. TypeOK'
    BY <1>2, <2>1 DEF AddBlockExecutableRange, TypeOK, memVars, compileVars
  <2>3. PageInv'
    BY <1>2 DEF AddBlockExecutableRange, TypeOK, PageInv
  <2>4. ASSUME NEW u \in Threads, NEW q \in Pages PROVE CodePages[u][q] \subseteq CodePages'[u][q]
    BY <1>2 DEF AddBlockExecutableRange, TypeOK
  <2>5. block[t] \in CodePages'[t][p]
    BY <1>2, <2>0 DEF AddBlockExecutableRange, TypeOK
  <2>6. CompileInv'
    <3> SUFFICES ASSUME NEW u \in Threads, Compiling(u)'
                 PROVE  /\ block[u] \in Blocks
                        /\ Span[block[u]] \subseteq todo[u] \cup decoded[u]
                        /\ \A q \in decoded[u] : block[u] \in CodePages'[u][q]
                        /\ pc'[u] # "add" => block[u] \in CodePages'[u][page'[u]]
      BY <1>2 DEF CompileInv, AddBlockExecutableRange, compileVars
    <3>1. Compiling(u)
      BY <1>2 DEF AddBlockExecutableRange, TypeOK, Compiling
    <3>2. \A q \in decoded[u] : block[u] \in CodePages'[u][q]
      BY <3>1, <2>4 DEF CompileInv, TypeOK
    <3>3. CASE u = t
      BY <1>2, <2>5, <3>1, <3>2, <3>3 DEF CompileInv, AddBlockExecutableRange, TypeOK
    <3>4. CASE u # t
      <4>1. pc'[u] = pc[u] /\ page'[u] = page[u]
        BY <1>2, <3>4 DEF AddBlockExecutableRange, TypeOK
      <4>2. ASSUME pc[u] # "add" PROVE page[u] \in Pages
        BY <3>1, <4>2 DEF PageInv, Compiling
      <4> QED BY <2>4, <3>1, <3>2, <4>1, <4>2 DEF CompileInv
    <3> QED BY <3>3, <3>4
  <2>7. Registered'
    BY <1>2, <2>4, PageAssumption DEF AddBlockExecutableRange, Registered
  <2> QED BY <2>2, <2>3, <2>6, <2>7
<1>3. CASE MarkGuestExecutableRange(t)
  <2>1. host' \in [Pages -> Prots] /\ abort' \in {"no", "mprotect", "fetch"}
    BY <1>3 DEF MarkGuestExecutableRange, HostProtect, TypeOK, Prots
  <2>2. TypeOK'
    BY <1>3, <2>1 DEF MarkGuestExecutableRange, TypeOK, codeVars, callVars, compileVars
  <2>3. PageInv'
    BY <1>3 DEF MarkGuestExecutableRange, TypeOK, PageInv, callVars
  <2>4. CompileInv'
    BY <1>3, CompilationsKept
    DEF MarkGuestExecutableRange, TypeOK, Compiling, codeVars, callVars, compileVars
  <2>5. Registered'
    BY <1>3 DEF MarkGuestExecutableRange, Registered, codeVars
  <2> QED BY <2>2, <2>3, <2>4, <2>5
<1>4. CASE DecodePage(t)
  <2>0. page[t] \in Pages
    BY <1>4 DEF DecodePage, PageInv
  <2>1. TypeOK'
    BY <1>4, <2>0 DEF DecodePage, TypeOK, memVars, codeVars, callVars
  <2>2. PageInv'
    BY <1>4 DEF DecodePage, TypeOK, PageInv, callVars
  <2>3. CompileInv'
    BY <1>4, <2>0 DEF DecodePage, TypeOK, CompileInv, Compiling, codeVars, callVars
  <2>4. Registered'
    BY <1>4 DEF DecodePage, Registered, codeVars
  <2> QED BY <2>1, <2>2, <2>3, <2>4
<1>5. ASSUME NEW full \in BOOLEAN, AddBlockMapping(t, full) PROVE RegInv'
  <2>0. /\ block[t] \in Blocks
        /\ \A p \in Span[block[t]] : block[t] \in CodePages[t][p]
    BY <1>5 DEF AddBlockMapping, CompileInv, Compiling
  <2>1. code' \in [Threads -> [Blocks -> {"none", "fresh", "stale"}]]
    BY <1>5 DEF AddBlockMapping, TypeOK
  <2>2. TypeOK'
    BY <1>5, <2>1 DEF AddBlockMapping, Resume, TypeOK, Prots, memVars
  <2>3. PageInv'
    BY <1>5 DEF AddBlockMapping, Resume, TypeOK, PageInv
  <2>4. CompileInv'
    BY <1>5 DEF AddBlockMapping, Resume, TypeOK, CompileInv, Compiling
  <2>5. Registered'
    BY <1>5, <2>0 DEF AddBlockMapping, TypeOK, Registered
  <2> QED BY <2>2, <2>3, <2>4, <2>5
<1> QED BY <1>1, <1>2, <1>3, <1>4, <1>5 DEF CompileStep

\* A fault handler keeps the invariant.
LEMMA FaultSafe ==
    ASSUME RegInv, NEW t \in Threads, FaultStep(t)
    PROVE  RegInv'
<1> USE DEF RegInv
<1>1. CASE HandleSegfault(t)
  <2>0. page[t] \in Pages
    BY <1>1 DEF HandleSegfault, PageInv
  <2>1. todo' \in [Threads -> SUBSET Pages]
    <3>1. {q \in Frame(page[t]) : vma[q] # "none"} \in SUBSET Pages
      BY <2>0, PageAssumption DEF Frame
    <3> QED BY <1>1, <3>1 DEF HandleSegfault, TypeOK
  <2>6. UNCHANGED <<memVars, codeVars, compileVars, abort>>
    BY <1>1 DEF HandleSegfault
  <2>7. ASSUME vma[page[t]] # "RW" PROVE  TypeOK' /\ PageInv'
    <3>1. Resume(t) /\ UNCHANGED todo
      BY <1>1, <2>7 DEF HandleSegfault
    <3>2. TypeOK'
      BY <2>6, <3>1 DEF Resume, TypeOK, Prots, memVars, codeVars, compileVars
    <3>3. PageInv'
      BY <3>1 DEF Resume, TypeOK, PageInv
    <3> QED BY <3>2, <3>3
  <2>8. ASSUME vma[page[t]] = "RW" PROVE  TypeOK' /\ PageInv'
    <3>1. pc' = [pc EXCEPT ![t] = "flush"] /\ UNCHANGED callVars
      BY <1>1, <2>8 DEF HandleSegfault
    <3>2. TypeOK'
      BY <2>1, <2>6, <3>1 DEF TypeOK, memVars, codeVars, callVars, compileVars
    <3>3. PageInv'
      BY <1>1, <3>1 DEF HandleSegfault, TypeOK, PageInv, callVars
    <3> QED BY <3>2, <3>3
  <2>2. TypeOK' /\ PageInv'
    BY <2>7, <2>8
  <2>3. CompileInv'
    BY <1>1 DEF HandleSegfault, Resume, TypeOK, CompileInv, Compiling, codeVars, callVars, compileVars
  <2>4. Registered'
    BY <1>1 DEF HandleSegfault, Registered, codeVars
  <2> QED BY <2>2, <2>3, <2>4
<1>2. ASSUME NEW q \in Pages, FlushMirror(t, q) PROVE RegInv'
  <2>1. /\ CodePages' \in [Threads -> [Pages -> SUBSET Blocks]]
        /\ code' \in [Threads -> [Blocks -> {"none", "fresh", "stale"}]]
        /\ Registered'
    BY <1>2, InvalidateSafe DEF FlushMirror
  <2>2. host' \in [Pages -> Prots] /\ abort' \in {"no", "mprotect", "fetch"}
    BY <1>2 DEF FlushMirror, HostProtect, TypeOK, Prots
  <2>3. TypeOK'
    BY <1>2, <2>1, <2>2 DEF FlushMirror, TypeOK, callVars, compileVars
  <2>4. PageInv'
    BY <1>2 DEF FlushMirror, PageInv, callVars
  <2>5. CompileInv'
    BY <1>2, NobodyCompiles DEF FlushMirror, Compiling
  <2> QED BY <2>1, <2>3, <2>4, <2>5
<1>3. CASE FaultReturn(t)
  <2>1. TypeOK'
    BY <1>3 DEF FaultReturn, Resume, TypeOK, Prots, memVars, codeVars, compileVars
  <2>2. PageInv'
    BY <1>3 DEF FaultReturn, Resume, TypeOK, PageInv
  <2>3. CompileInv'
    BY <1>3, CompilationsKept DEF FaultReturn, Resume, TypeOK, Compiling, codeVars, compileVars
  <2>4. Registered'
    BY <1>3 DEF FaultReturn, Registered, codeVars
  <2> QED BY <2>1, <2>2, <2>3, <2>4
<1> QED BY <1>1, <1>2, <1>3 DEF FaultStep

\* Once its host call is made a system call has its pages at hand.
LEMMA HostDoneSafe ==
    ASSUME RegInv, NEW t \in Threads, pc[t] = "run",
           NEW next \in {"track", "change", "shmdt"},
           NEW p \in Pages, NEW q \in Pages, NEW pr \in Prots, HostDone(t, next, p, q, pr),
           host' \in [Pages -> Prots],
           code' \in [Threads -> [Blocks -> {"none", "fresh", "stale"}]],
           torn' \in [Threads -> BOOLEAN], Registered'
    PROVE  RegInv'
<1>1. TypeOK'
  BY DEF RegInv, HostDone, TypeOK
<1>2. PageInv'
  BY DEF RegInv, HostDone, TypeOK, PageInv
<1>3. CompileInv'
  BY CompilationsKept DEF RegInv, HostDone, TypeOK, Compiling
<1> QED BY <1>1, <1>2, <1>3 DEF RegInv

\* A store, and the host call of a system call, keep the invariant.
LEMMA GuestSafe ==
    ASSUME RegInv, NEW t \in Threads, GuestStep(t)
    PROVE  RegInv'
<1>0. TypeOK /\ Registered
  BY DEF RegInv
<1>p. PICK p \in Pages :
         \/ Write(t, p) \/ WriteFault(t, p)
         \/ GuestMunmap(t, p) \/ GuestShmdt(t, p)
         \/ \E pr \in {"R", "RW"} : GuestMmap(t, p, pr) \/ GuestMprotect(t, p, pr)
         \/ \E q \in Pages : GuestMremap(t, p, q)
  BY DEF GuestStep
<1>1. CASE Write(t, p)
  <2>1. /\ code' \in [Threads -> [Blocks -> {"none", "fresh", "stale"}]]
        /\ torn' \in [Threads -> BOOLEAN]
        /\ Registered'
    BY <1>0, <1>1, ChangeSafe DEF Write
  <2>2. TypeOK'
    BY <1>1, <2>1 DEF RegInv, Write, TypeOK, memVars, callVars
  <2>3. PageInv'
    BY <1>1 DEF RegInv, Write, PageInv, callVars
  <2>4. CompileInv'
    BY <1>1, CompilationsKept DEF RegInv, Write, Compiling, callVars
  <2> QED BY <2>1, <2>2, <2>3, <2>4 DEF RegInv
<1>2. CASE WriteFault(t, p)
  <2>1. TypeOK'
    BY <1>2 DEF RegInv, WriteFault, TypeOK, memVars, codeVars, compileVars
  <2>2. PageInv'
    BY <1>2 DEF RegInv, WriteFault, TypeOK, PageInv
  <2>3. CompileInv'
    BY <1>2, CompilationsKept DEF RegInv, WriteFault, TypeOK, Compiling, codeVars, compileVars
  <2>4. Registered'
    BY <1>2 DEF RegInv, WriteFault, Registered, codeVars
  <2> QED BY <2>1, <2>2, <2>3, <2>4 DEF RegInv
<1>3. CASE GuestMunmap(t, p)
  <2>1. host' \in [Pages -> Prots] /\ "none" \in Prots
    BY <1>3 DEF RegInv, GuestMunmap, TypeOK, Prots
  <2>2. /\ code' \in [Threads -> [Blocks -> {"none", "fresh", "stale"}]]
        /\ torn' \in [Threads -> BOOLEAN]
        /\ Registered'
    BY <1>0, <1>3, ChangeSafe DEF GuestMunmap, HostDone
  <2> QED BY <1>3, <2>1, <2>2, HostDoneSafe DEF GuestMunmap
<1>4. CASE GuestShmdt(t, p)
  <2>1. host' \in [Pages -> Prots] /\ "none" \in Prots
    BY <1>4 DEF RegInv, GuestShmdt, TypeOK, Prots
  <2>2. /\ code' \in [Threads -> [Blocks -> {"none", "fresh", "stale"}]]
        /\ torn' \in [Threads -> BOOLEAN]
        /\ Registered'
    BY <1>0, <1>4, ChangeSafe DEF GuestShmdt, HostDone
  <2> QED BY <1>4, <2>1, <2>2, HostDoneSafe DEF GuestShmdt
<1>5. ASSUME NEW pr \in {"R", "RW"}, GuestMmap(t, p, pr) PROVE RegInv'
  <2>1. host' \in [Pages -> Prots] /\ pr \in Prots
    BY <1>5 DEF RegInv, GuestMmap, TypeOK, Prots
  <2>2. /\ code' \in [Threads -> [Blocks -> {"none", "fresh", "stale"}]]
        /\ torn' \in [Threads -> BOOLEAN]
        /\ Registered'
    <3>1. CASE p \in Mirrors
      BY <1>0, <1>5, <3>1 DEF GuestMmap, HostDone, TypeOK, Registered
    <3>2. CASE p \notin Mirrors
      BY <1>0, <1>5, <3>2, ChangeSafe DEF GuestMmap, HostDone
    <3> QED BY <3>1, <3>2
  <2> QED BY <1>5, <2>1, <2>2, HostDoneSafe DEF GuestMmap
<1>6. ASSUME NEW pr \in {"R", "RW"}, GuestMprotect(t, p, pr) PROVE RegInv'
  <2>1. host' \in [Pages -> Prots] /\ pr \in Prots
    BY <1>6 DEF RegInv, GuestMprotect, TypeOK, Prots
  <2>2. /\ code' \in [Threads -> [Blocks -> {"none", "fresh", "stale"}]]
        /\ torn' \in [Threads -> BOOLEAN]
        /\ Registered'
    BY <1>0, <1>6 DEF GuestMprotect, HostDone, TypeOK, Registered
  <2> QED BY <1>6, <2>1, <2>2, HostDoneSafe DEF GuestMprotect
<1>7. ASSUME NEW q \in Pages, GuestMremap(t, p, q) PROVE RegInv'
  <2>1. host' \in [Pages -> Prots] /\ vma[p] \in Prots
    BY <1>7 DEF RegInv, GuestMremap, TypeOK, Prots
  <2>2. /\ code' \in [Threads -> [Blocks -> {"none", "fresh", "stale"}]]
        /\ torn' \in [Threads -> BOOLEAN]
        /\ Registered'
    BY <1>0, <1>7, ChangeSafe DEF GuestMremap, HostDone
  <2> QED BY <1>7, <2>1, <2>2, HostDoneSafe DEF GuestMremap
<1> QED BY <1>p, <1>1, <1>2, <1>3, <1>4, <1>5, <1>6, <1>7

\* An invalidation under the unique CodeInvalidationMutex, after which the
\* thread goes on, keeps the invariant.
LEMMA InvalidationSafe ==
    ASSUME RegInv, NEW t \in Threads, page[t] \in Pages, ~Compiling(t), CodeFree,
           InvalidatePage(page[t]), Resume(t), UNCHANGED <<memVars, compileVars, todo, abort>>
    PROVE  RegInv'
<1>1. /\ CodePages' \in [Threads -> [Pages -> SUBSET Blocks]]
      /\ code' \in [Threads -> [Blocks -> {"none", "fresh", "stale"}]]
      /\ Registered'
  BY InvalidateSafe DEF RegInv
<1>2. TypeOK'
  BY <1>1 DEF RegInv, Resume, TypeOK, Prots, memVars, compileVars
<1>3. PageInv'
  BY DEF RegInv, Resume, TypeOK, PageInv
<1>4. CompileInv'
  BY NobodyCompiles DEF RegInv, Resume, TypeOK, Compiling
<1> QED BY <1>1, <1>2, <1>3, <1>4 DEF RegInv

\* The rest of a system call keeps the invariant.
LEMMA SyscallSafe ==
    ASSUME RegInv, NEW t \in Threads, SyscallStep(t)
    PROVE  RegInv'
<1>1. CASE Track(t) \/ TrackMprotect(t) \/ TrackShmdt(t)
  <2>0. vma \in [Pages -> Prots] /\ prot[t] \in Prots /\ "none" \in Prots
    BY DEF RegInv, TypeOK, Prots
  <2>1. vma' \in [Pages -> Prots]
    BY <1>1, <2>0 DEF Track, TrackMprotect, TrackShmdt
  <2>2. TypeOK'
    BY <1>1, <2>1 DEF RegInv, Track, TrackMprotect, TrackShmdt, TypeOK, codeVars, callVars, compileVars
  <2>3. PageInv'
    BY <1>1 DEF RegInv, Track, TrackMprotect, TrackShmdt, TypeOK, PageInv, callVars
  <2>4. CompileInv'
    BY <1>1, CompilationsKept
    DEF RegInv, Track, TrackMprotect, TrackShmdt, TypeOK, Compiling, codeVars, callVars, compileVars
  <2>5. Registered'
    BY <1>1 DEF RegInv, Track, TrackMprotect, TrackShmdt, Registered, codeVars
  <2> QED BY <2>2, <2>3, <2>4, <2>5 DEF RegInv
<1>2. CASE TrackInvalidate(t)
  BY <1>2, InvalidationSafe DEF RegInv, TrackInvalidate, PageInv, Compiling
<1>3. CASE TrackShmdtInvalidate(t)
  BY <1>3, InvalidationSafe DEF RegInv, TrackShmdtInvalidate, PageInv, Compiling
<1> QED BY <1>1, <1>2, <1>3 DEF SyscallStep

\* The inductive invariant of Registered, for every number of threads.
LEMMA RegInvAlways == Spec => []RegInv
<1>1. Init => RegInv
  BY RegInvInit
<1>2. RegInv /\ [Next]_vars => RegInv'
  <2> SUFFICES ASSUME RegInv, [Next]_vars PROVE RegInv'
    OBVIOUS
  <2>1. CASE Next
    BY <2>1, CompileSafe, FaultSafe, SyscallSafe, GuestSafe DEF Next
  <2>2. CASE UNCHANGED vars
    BY <2>2 DEF vars, memVars, codeVars, callVars, compileVars, RegInv, TypeOK, PageInv,
                CompileInv, Compiling, Registered
  <2> QED BY <2>1, <2>2
<1> QED BY <1>1, <1>2, PTL DEF Spec

\* For every number of threads, pages, mirrors and blocks, and whatever the
\* guest's system calls, faults and compilations overlap with: a cached block
\* is registered on each page it was decoded from, so that an invalidation of
\* any of these pages (InvalidateGuestCodeRange) finds and drops it.
THEOREM RegisteredAlways == Spec => [](TypeOK /\ Registered)
<1>1. RegInv => TypeOK /\ Registered
  BY DEF RegInv
<1> QED BY <1>1, RegInvAlways, PTL

-----------------------------------------------------------------------------
(***************************************************************************)
(* Private pages.  The guest has no shared mappings and does not move      *)
(* pages, and its own synchronisation keeps a system call on a page apart  *)
(* from the faults and the other system calls on that page.                *)
(***************************************************************************)
Private ==
    /\ Mirrors = {}
    /\ "mremap" \notin Syscalls
    /\ "syscall" \notin Overlaps /\ "fault" \notin Overlaps

\* The host protection of p is no wider than pr, and both or neither are mapped.
Mapped(p, pr) == (host[p] = "none" <=> pr = "none") /\ (host[p] = "RW" => pr = "RW")

\* What a system call knows of its page: first the host has what was asked
\* for, then the VMAs have it too.
CallInv ==
    \A t \in Threads :
        /\ pc[t] \notin {"shmdt", "shmflush"}
        /\ pc[t] \in {"track", "change", "inval"} => dest[t] = page[t]
        /\ pc[t] = "track" => Mapped(page[t], prot[t])
        /\ pc[t] = "change" => Mapped(page[t], prot[t]) /\ host[page[t]] # "none" /\ vma[page[t]] # "none"
        /\ pc[t] = "inval" => Mapped(page[t], vma[page[t]])

\* A page is in one system call at a time ...
OneCall == \A t, u \in Threads, p \in Pages : InSyscall(t, p) /\ InSyscall(u, p) => t = u

\* ... and a fault is handled while it is in none.
FaultInv ==
    \A t \in Threads :
        /\ pc[t] \in {"fault", "flush"} => Settled(page[t])
        /\ pc[t] = "flush" => todo[t] \subseteq {page[t]}

\* Between system calls host and VMAs agree.
SettledInv == \A p \in Pages : Settled(p) => Mapped(p, vma[p])

MapInv == CallInv /\ OneCall /\ FaultInv /\ SettledInv

\* A step of t leaves the other threads where they are.
Others(t) ==
    \A u \in Threads \ {t} :
        pc'[u] = pc[u] /\ page'[u] = page[u] /\ dest'[u] = dest[u] /\ prot'[u] = prot[u] /\ todo'[u] = todo[u]

Calls == {"track", "change", "inval", "shmdt", "shmflush"}

\* Nothing is in a system call at the start.
LEMMA MapInvInit == Init => MapInv
  BY DEF Init, MapInv, CallInv, OneCall, FaultInv, SettledInv, Mapped, InSyscall

\* A step of a thread that is in no system call, before and after: it may
\* write-protect mapped pages, and make a page writable that is settled and
\* has a writable mapping.
LEMMA QuietKept ==
    ASSUME RegInv, MapInv, NEW t \in Threads, Others(t),
           pc[t] \notin Calls, pc'[t] \notin Calls, UNCHANGED vma,
           \A p \in Pages : \/ host'[p] = host[p]
                            \/ host[p] # "none" /\ host'[p] = "R"
                            \/ host[p] # "none" /\ host'[p] = "RW" /\ Settled(p) /\ vma[p] = "RW",
           pc'[t] \in {"fault", "flush"} => Settled(page'[t]),
           pc'[t] = "flush" => todo'[t] \subseteq {page'[t]}
    PROVE  MapInv'
<1>1. ASSUME NEW u \in Threads, NEW p PROVE InSyscall(u, p)' <=> InSyscall(u, p)
  BY DEF InSyscall, Others, Calls
<1>2. ASSUME NEW p PROVE Settled(p)' <=> Settled(p)
  BY <1>1 DEF Settled
<1>3. ASSUME NEW p \in Pages, NEW pr, Mapped(p, pr),
             Settled(p) => pr = vma[p]
      PROVE  Mapped(p, pr)'
  BY <1>3 DEF Mapped
<1>4. ASSUME NEW u \in Threads, pc[u] \in Calls PROVE page[u] \in Pages /\ ~Settled(page[u]) /\ u # t
  BY <1>4 DEF RegInv, PageInv, Calls, Settled, InSyscall
<1>5. CallInv'
  <2> SUFFICES ASSUME NEW u \in Threads
               PROVE  /\ pc'[u] \notin {"shmdt", "shmflush"}
                      /\ pc'[u] \in {"track", "change", "inval"} => dest'[u] = page'[u]
                      /\ pc'[u] = "track" => Mapped(page[u], prot[u])' 
                      /\ pc'[u] = "change" => Mapped(page[u], prot[u])' /\ host'[page'[u]] # "none" /\ vma'[page'[u]] # "none"
                      /\ pc'[u] = "inval" => Mapped(page[u], vma[page[u]])'
    BY DEF CallInv
  <2>1. CASE pc[u] \notin Calls
    BY <2>1 DEF Others, Calls
  <2>2. CASE pc[u] \in Calls
    <3>1. page[u] \in Pages /\ ~Settled(page[u]) /\ u # t
      BY <2>2, <1>4
    <3>2. pc'[u] = pc[u] /\ page'[u] = page[u] /\ dest'[u] = dest[u] /\ prot'[u] = prot[u] /\ vma' = vma
      BY <3>1 DEF Others
    <3>3. host'[page[u]] = host[page[u]] \/ (host[page[u]] # "none" /\ host'[page[u]] = "R")
      BY <3>1
    <3> QED BY <3>2, <3>3 DEF MapInv, CallInv, Mapped
  <2> QED BY <2>1, <2>2
<1>6. OneCall'
  BY <1>1 DEF MapInv, OneCall
<1>7. FaultInv'
  <2> SUFFICES ASSUME NEW u \in Threads
               PROVE  /\ pc'[u] \in {"fault", "flush"} => Settled(page'[u])
                      /\ pc'[u] = "flush" => todo'[u] \subseteq {page'[u]}
    BY <1>2 DEF FaultInv
  <2>1. CASE u = t
    BY <2>1
  <2>2. CASE u # t
    BY <2>2 DEF Others, MapInv, FaultInv
  <2> QED BY <2>1, <2>2
<1>8. SettledInv'
  BY <1>2, <1>3 DEF MapInv, SettledInv, Mapped
<1> QED BY <1>5, <1>6, <1>7, <1>8 DEF MapInv

\* The host call of a system call: the page was settled, and it is the only
\* page the call is about.
LEMMA CallStartKept ==
    ASSUME Private, RegInv, MapInv, NEW t \in Threads, pc[t] = "run", NEW p \in Pages, Calm(t, {p}),
           NEW pr \in Prots, NEW h \in Prots, host' = [host EXCEPT ![p] = h],
           h = "none" <=> pr = "none", h = "RW" => pr = "RW",
           NEW next \in {"track", "change"}, HostDone(t, next, p, p, pr),
           next = "change" => host[p] # "none" /\ pr # "none"
    PROVE  MapInv'
<1>1. /\ pc' = [pc EXCEPT ![t] = next] /\ page' = [page EXCEPT ![t] = p]
      /\ dest' = [dest EXCEPT ![t] = p] /\ prot' = [prot EXCEPT ![t] = pr]
      /\ vma' = vma /\ todo' = todo
  BY DEF HostDone
<1>2. Others(t) /\ pc'[t] = next /\ page'[t] = p /\ dest'[t] = p /\ prot'[t] = pr
  BY <1>1 DEF Others, RegInv, TypeOK
<1>3. Settled(p)
  BY DEF Settled, Calm, Private, InSyscall
<1>4. /\ host'[p] = h
      /\ \A q \in Pages \ {p} : host'[q] = host[q]
  BY DEF RegInv, TypeOK
<1>5. ASSUME NEW u \in Threads \ {t}, NEW q PROVE InSyscall(u, q)' <=> InSyscall(u, q)
  BY <1>2 DEF InSyscall, Others
<1>6. ASSUME NEW q \in Pages, Settled(q)' PROVE Settled(q) /\ q # p
  <2>1. q # p
    BY <1>2, <1>6 DEF Settled, InSyscall
  <2>2. ASSUME NEW u \in Threads PROVE ~InSyscall(u, q)
    BY <1>5, <1>6 DEF Settled, InSyscall
  <2> QED BY <2>1, <2>2 DEF Settled
<1>7. CallInv'
  <2> SUFFICES ASSUME NEW u \in Threads
               PROVE  /\ pc'[u] \notin {"shmdt", "shmflush"}
                      /\ pc'[u] \in {"track", "change", "inval"} => dest'[u] = page'[u]
                      /\ pc'[u] = "track" => Mapped(page[u], prot[u])'
                      /\ pc'[u] = "change" => Mapped(page[u], prot[u])' /\ host'[page'[u]] # "none" /\ vma'[page'[u]] # "none"
                      /\ pc'[u] = "inval" => Mapped(page[u], vma[page[u]])'
    BY DEF CallInv
  <2>1. CASE u = t
    <3>1. next = "change" => vma[p] # "none"
      BY <1>3 DEF MapInv, SettledInv, Mapped
    <3> QED BY <1>1, <1>2, <1>4, <2>1, <3>1 DEF Mapped
  <2>2. CASE u # t
    <3>1. pc'[u] = pc[u] /\ page'[u] = page[u] /\ dest'[u] = dest[u] /\ prot'[u] = prot[u] /\ vma' = vma
      BY <1>1, <1>2, <2>2 DEF Others
    <3>2. ASSUME pc[u] \in Calls PROVE host'[page[u]] = host[page[u]]
      <4>1. page[u] \in Pages
        BY <3>2 DEF RegInv, PageInv, Calls
      <4>2. page[u] # p
        BY <1>3, <3>2 DEF Settled, InSyscall, Calls
      <4> QED BY <1>4, <4>1, <4>2
    <3> QED BY <3>1, <3>2 DEF MapInv, CallInv, Mapped, Calls
  <2> QED BY <2>1, <2>2
<1>8. OneCall'
  <2> SUFFICES ASSUME NEW u \in Threads, NEW v \in Threads, NEW q \in Pages,
                      InSyscall(u, q)', InSyscall(v, q)', u # v
               PROVE  FALSE
    BY DEF OneCall
  <2>1. CASE q = p
    BY <1>3, <1>5, <2>1 DEF Settled
  <2>2. CASE q # p
    <3>1. u # t /\ v # t
      BY <1>2, <2>2 DEF InSyscall
    <3> QED BY <1>5, <3>1 DEF MapInv, OneCall
  <2> QED BY <2>1, <2>2
<1>9. FaultInv'
  <2> SUFFICES ASSUME NEW u \in Threads, pc'[u] \in {"fault", "flush"}
               PROVE  /\ Settled(page[u])'
                      /\ pc'[u] = "flush" => todo'[u] \subseteq {page'[u]}
    BY DEF FaultInv
  <2>1. u # t /\ pc[u] \in {"fault", "flush"} /\ page'[u] = page[u]
    BY <1>2 DEF Others
  <2>2. Settled(page[u]) /\ (pc[u] = "flush" => todo[u] \subseteq {page[u]})
    BY <2>1 DEF MapInv, FaultInv
  <2>3. page[u] # p
    BY <2>1 DEF Calm, Private
  <2>4. ASSUME NEW v \in Threads PROVE ~InSyscall(v, page[u])'
    <3>1. CASE v = t
      BY <1>2, <2>1, <2>3, <3>1 DEF InSyscall
    <3>2. CASE v # t
      BY <1>2, <2>1, <2>2, <3>2 DEF InSyscall, Others, Settled
    <3> QED BY <3>1, <3>2
  <2> QED BY <1>1, <1>2, <2>1, <2>2, <2>4 DEF Settled, Others
<1>10. SettledInv'
  BY <1>1, <1>4, <1>6 DEF MapInv, SettledInv, Mapped
<1> QED BY <1>7, <1>8, <1>9, <1>10 DEF MapInv

\* TrackMmap, TrackMunmap and TrackMprotect: the VMAs follow the host.
LEMMA TrackKept ==
    ASSUME RegInv, MapInv, NEW t \in Threads, Track(t) \/ TrackMprotect(t)
    PROVE  MapInv'
<1>1. /\ pc[t] \in {"track", "change"} /\ pc' = [pc EXCEPT ![t] = "inval"]
      /\ page' = page /\ dest' = dest /\ prot' = prot /\ todo' = todo /\ host' = host
  BY DEF Track, TrackMprotect, callVars
<1>2. page[t] \in Pages /\ dest[t] = page[t]
  BY <1>1 DEF RegInv, PageInv, MapInv, CallInv
<1>3. /\ vma'[page[t]] = prot[t]
      /\ \A q \in Pages \ {page[t]} : vma'[q] = vma[q]
  <2>1. CASE Track(t)
    BY <1>2, <2>1 DEF Track
  <2>2. CASE TrackMprotect(t)
    <3>1. vma[page[t]] # "none"
      BY <2>2 DEF TrackMprotect, MapInv, CallInv
    <3> QED BY <1>2, <2>2, <3>1 DEF TrackMprotect, RegInv, TypeOK
  <2> QED BY <2>1, <2>2
<1>4. Mapped(page[t], prot[t])
  BY <1>1 DEF MapInv, CallInv
<1>5. pc'[t] = "inval" /\ \A u \in Threads \ {t} : pc'[u] = pc[u]
  BY <1>1 DEF RegInv, TypeOK
<1>6. ASSUME NEW u \in Threads, NEW q PROVE InSyscall(u, q)' <=> InSyscall(u, q)
  BY <1>1, <1>5 DEF InSyscall
<1>7. ASSUME NEW q PROVE Settled(q)' <=> Settled(q)
  BY <1>6 DEF Settled
<1>8. CallInv'
  <2> SUFFICES ASSUME NEW u \in Threads
               PROVE  /\ pc'[u] \notin {"shmdt", "shmflush"}
                      /\ pc'[u] \in {"track", "change", "inval"} => dest[u] = page[u]
                      /\ pc'[u] = "track" => Mapped(page[u], prot[u])
                      /\ pc'[u] = "change" => Mapped(page[u], prot[u]) /\ host[page[u]] # "none" /\ vma'[page[u]] # "none"
                      /\ pc'[u] = "inval" => Mapped(page[u], vma'[page[u]])
    BY <1>1 DEF CallInv, Mapped
  <2>1. CASE u = t
    BY <1>2, <1>3, <1>4, <1>5, <2>1
  <2>2. CASE u # t
    <3>1. ASSUME pc[u] \in Calls PROVE vma'[page[u]] = vma[page[u]]
      <4>1. page[u] \in Pages
        BY <3>1 DEF RegInv, PageInv, Calls
      <4>2. page[u] # page[t]
        BY <1>1, <2>2, <3>1, <4>1 DEF MapInv, OneCall, InSyscall, Calls
      <4> QED BY <1>3, <4>1, <4>2
    <3> QED BY <1>5, <2>2, <3>1 DEF MapInv, CallInv, Calls
  <2> QED BY <2>1, <2>2
<1>9. OneCall'
  BY <1>6 DEF MapInv, OneCall
<1>10. FaultInv'
  BY <1>1, <1>5, <1>7 DEF MapInv, FaultInv
<1>11. SettledInv'
  <2> SUFFICES ASSUME NEW q \in Pages, Settled(q)' PROVE Mapped(q, vma'[q])
    BY <1>1 DEF SettledInv, Mapped
  <2>1. Settled(q)
    BY <1>7
  <2>2. q # page[t]
    BY <1>1, <2>1 DEF Settled, InSyscall
  <2> QED BY <1>3, <2>1, <2>2 DEF MapInv, SettledInv
<1> QED BY <1>8, <1>9, <1>10, <1>11 DEF MapInv

\* The invalidation at the end of a system call: its page is settled again.
LEMMA TrackInvalidateKept ==
    ASSUME RegInv, MapInv, NEW t \in Threads, TrackInvalidate(t)
    PROVE  MapInv'
<1>1. /\ pc[t] = "inval" /\ pc' = [pc EXCEPT ![t] = "run"]
      /\ host' = host /\ vma' = vma /\ todo' = todo
  BY DEF TrackInvalidate, Resume, memVars
<1>2. Others(t) /\ pc'[t] = "run"
  BY <1>1 DEF Others, RegInv, TypeOK, TrackInvalidate, Resume
<1>3. ASSUME NEW u \in Threads \ {t}, NEW q PROVE InSyscall(u, q)' <=> InSyscall(u, q)
  BY <1>2 DEF InSyscall, Others
<1>4. ASSUME NEW q PROVE ~InSyscall(t, q)'
  BY <1>2 DEF InSyscall
<1>5. CallInv'
  BY <1>1, <1>2 DEF MapInv, CallInv, Mapped, Others
<1>6. OneCall'
  BY <1>3, <1>4 DEF MapInv, OneCall
<1>7. ASSUME NEW q, Settled(q) PROVE Settled(q)'
  BY <1>3, <1>4, <1>7 DEF Settled
<1>8. FaultInv'
  BY <1>1, <1>2, <1>7 DEF MapInv, FaultInv, Others
<1>9. SettledInv'
  <2> SUFFICES ASSUME NEW q \in Pages, Settled(q)' PROVE Mapped(q, vma[q])
    BY <1>1 DEF SettledInv, Mapped
  <2>1. CASE q = page[t]
    BY <1>1, <2>1 DEF MapInv, CallInv
  <2>2. CASE q # page[t]
    <3>1. ~InSyscall(t, q)
      BY <1>1, <2>2 DEF InSyscall, MapInv, CallInv
    <3>2. Settled(q)
      BY <1>3, <3>1 DEF Settled
    <3> QED BY <3>2 DEF MapInv, SettledInv
  <2> QED BY <2>1, <2>2
<1> QED BY <1>5, <1>6, <1>8, <1>9 DEF MapInv

\* Every step keeps what host, VMAs and system calls have to do with each
\* other.
LEMMA MapSafe ==
    ASSUME Private, RegInv, MapInv, Next
    PROVE  MapInv'
<1> PICK t \in Threads : CompileStep(t) \/ FaultStep(t) \/ SyscallStep(t) \/ GuestStep(t)
  BY DEF Next
<1>0. \A p \in Pages : Frame(p) = {p}
  BY DEF Frame, Private
<1>1. CASE CompileStep(t)
  <2>1. pc[t] \notin Calls /\ pc'[t] \notin Calls \cup {"fault", "flush"} /\ Others(t) /\ vma' = vma
    BY <1>1 DEF CompileStep, CompileStart, AddBlockExecutableRange, MarkGuestExecutableRange, DecodePage,
                AddBlockMapping, Resume, Calls, Others, RegInv, TypeOK, memVars, callVars
  <2>2. \A p \in Pages : host'[p] = host[p] \/ (host[p] # "none" /\ host'[p] = "R")
    <3>1. CASE MarkGuestExecutableRange(t)
      BY <3>1 DEF MarkGuestExecutableRange, HostProtect
    <3>2. CASE ~MarkGuestExecutableRange(t)
      BY <1>1, <3>2 DEF CompileStep, CompileStart, AddBlockExecutableRange, DecodePage, AddBlockMapping, memVars
    <3> QED BY <3>1, <3>2
  <2> QED BY <2>1, <2>2, QuietKept
<1>2. CASE HandleSegfault(t)
  <2>1. /\ pc[t] = "fault" /\ host' = host /\ vma' = vma
        /\ page[t] \in Pages /\ Settled(page[t])
    BY <1>2 DEF HandleSegfault, memVars, RegInv, PageInv, MapInv, FaultInv
  <2>2. CASE vma[page[t]] # "RW"
    <3>1. Others(t) /\ pc'[t] = "run"
      BY <1>2, <2>2 DEF HandleSegfault, Resume, Others, RegInv, TypeOK
    <3> QED BY <2>1, <3>1, QuietKept DEF Calls
  <2>3. CASE vma[page[t]] = "RW"
    <3>1. Others(t) /\ pc'[t] = "flush" /\ page' = page /\ todo'[t] \subseteq Frame(page[t])
      BY <1>2, <2>3 DEF HandleSegfault, callVars, Others, RegInv, TypeOK
    <3>2. todo'[t] \subseteq {page'[t]} /\ Settled(page'[t])
      BY <1>0, <2>1, <3>1
    <3> QED BY <2>1, <3>1, <3>2, QuietKept DEF Calls
  <2> QED BY <2>2, <2>3
<1>3. ASSUME NEW q \in Pages, FlushMirror(t, q) PROVE MapInv'
  <2>1. pc[t] = "flush" /\ pc' = pc /\ page' = page /\ vma' = vma /\ q = page[t] /\ Settled(q)
    BY <1>3 DEF FlushMirror, callVars, MapInv, FaultInv
  <2>2. Others(t) /\ todo'[t] \subseteq {page'[t]}
    BY <1>3, <2>1 DEF FlushMirror, callVars, Others, RegInv, TypeOK, MapInv, FaultInv
  <2>3. \A p \in Pages : \/ host'[p] = host[p]
                         \/ host[p] # "none" /\ host'[p] = "RW" /\ Settled(p) /\ vma[p] = "RW"
    BY <1>3, <2>1 DEF FlushMirror, HostProtect
  <2> QED BY <2>1, <2>2, <2>3, QuietKept DEF Calls
<1>4. CASE FaultReturn(t)
  <2>1. pc[t] = "flush" /\ pc'[t] = "run" /\ Others(t) /\ host' = host /\ vma' = vma
    BY <1>4 DEF FaultReturn, Resume, memVars, Others, RegInv, TypeOK
  <2> QED BY <2>1, QuietKept DEF Calls
<1>5. CASE SyscallStep(t)
  <2>1. ~TrackShmdt(t) /\ ~TrackShmdtInvalidate(t)
    BY DEF TrackShmdt, TrackShmdtInvalidate, MapInv, CallInv
  <2> QED BY <1>5, <2>1, TrackKept, TrackInvalidateKept DEF SyscallStep
<1>6. CASE GuestStep(t)
  <2> PICK p \in Pages :
         \/ Write(t, p) \/ WriteFault(t, p)
         \/ GuestMunmap(t, p) \/ GuestShmdt(t, p)
         \/ \E pr \in {"R", "RW"} : GuestMmap(t, p, pr) \/ GuestMprotect(t, p, pr)
         \/ \E q \in Pages : GuestMremap(t, p, q)
    BY <1>6 DEF GuestStep
  <2>1. CASE Write(t, p)
    <3>1. pc[t] = "run" /\ pc' = pc /\ Others(t) /\ host' = host /\ vma' = vma
      BY <2>1 DEF Write, memVars, callVars, Others
    <3> QED BY <3>1, QuietKept DEF Calls
  <2>2. CASE WriteFault(t, p)
    <3>1. pc[t] = "run" /\ pc'[t] = "fault" /\ page'[t] = p /\ Settled(p) /\ Others(t) /\ host' = host /\ vma' = vma
      BY <2>2 DEF WriteFault, memVars, Others, Private, RegInv, TypeOK
    <3> QED BY <3>1, QuietKept DEF Calls
  <2>3. CASE GuestMunmap(t, p)
    <3>1. "none" \in Prots
      BY DEF Prots
    <3> QED BY <2>3, <3>1, CallStartKept DEF GuestMunmap
  <2>4. ASSUME NEW pr \in {"R", "RW"}, GuestMmap(t, p, pr) PROVE MapInv'
    <3>1. pr \in Prots
      BY DEF Prots
    <3> QED BY <2>4, <3>1, CallStartKept DEF GuestMmap
  <2>5. ASSUME NEW pr \in {"R", "RW"}, GuestMprotect(t, p, pr) PROVE MapInv'
    <3>1. pr \in Prots
      BY DEF Prots
    <3> QED BY <2>5, <3>1, CallStartKept DEF GuestMprotect
  <2>6. ~GuestShmdt(t, p) /\ \A q \in Pages : ~GuestMremap(t, p, q)
    BY DEF GuestShmdt, GuestMremap, Private
  <2> QED BY <2>1, <2>2, <2>3, <2>4, <2>5, <2>6
<1> QED BY <1>1, <1>2, <1>3, <1>4, <1>5, <1>6 DEF FaultStep

\* A compilation works on the pages of its block, each decoded or still to
\* decode; the block is not cached yet; and while a page is about to be
\* write-protected it is the only block registered there.
AtWork ==
    \A t \in Threads : Compiling(t) =>
        /\ todo[t] \cup decoded[t] \subseteq Span[block[t]]
        /\ todo[t] \cap decoded[t] = {}
        /\ code[t][block[t]] = "none"
        /\ pc[t] # "add" => page[t] \in todo[t]
        /\ pc[t] = "mark" => CodePages[t][page[t]] = {block[t]}

\* Outside a system call on it, a page that the guest can write to without a
\* fault has no block registered, but for one that is about to protect it.
Protected ==
    \A p \in Pages : Settled(p) /\ host[p] = "RW" =>
        \A t \in Threads : CodePages[t][p] = {} \/ (pc[t] = "mark" /\ page[t] = p)

\* What was decoded and has changed since is about to be invalidated.
TornInv == \A t \in Threads : Compiling(t) /\ torn[t] => \E p \in Span[block[t]] : Expected(p)

CodeInv == AtWork /\ Protected /\ NoStaleCode /\ TornInv

\* The empty caches satisfy it.
LEMMA CodeInvInit == Init => CodeInv
  BY DEF Init, CodeInv, AtWork, Protected, NoStaleCode, TornInv, Compiling

\* A step that changes neither code nor compilations, and takes back neither
\* a system call nor an invalidation.
LEMMA CodeQuiet ==
    ASSUME RegInv, CodeInv, UNCHANGED <<host, CodePages, code, block, decoded, torn>>,
           \A t \in Threads : Compiling(t) \/ Compiling(t)' =>
               pc'[t] = pc[t] /\ page'[t] = page[t] /\ todo'[t] = todo[t],
           \A p \in Pages : Settled(p)' => Settled(p),
           \A p \in Pages : Expected(p) => Expected(p)'
    PROVE  CodeInv'
<1>0. \A t \in Threads : Compiling(t)' => Compiling(t)
  BY DEF Compiling
<1>s. \A b \in Blocks : Span[b] \subseteq Pages
  BY PageAssumption
<1>1. AtWork'
  BY <1>0 DEF CodeInv, AtWork
<1>2. Protected'
  <2> SUFFICES ASSUME NEW p \in Pages, Settled(p)', host[p] = "RW", NEW t \in Threads
               PROVE  CodePages[t][p] = {} \/ (pc'[t] = "mark" /\ page'[t] = p)
    BY DEF Protected
  <2>1. CodePages[t][p] = {} \/ (pc[t] = "mark" /\ page[t] = p)
    BY DEF CodeInv, Protected
  <2> QED BY <2>1 DEF Compiling
<1>3. NoStaleCode'
  <2> SUFFICES ASSUME NEW t \in Threads, NEW b \in Blocks, code[t][b] = "stale"
               PROVE  \E p \in Span[b] : Expected(p)'
    BY DEF NoStaleCode
  <2>1. PICK p \in Span[b] : Expected(p)
    BY DEF CodeInv, NoStaleCode
  <2> QED BY <1>s, <2>1
<1>4. TornInv'
  <2> SUFFICES ASSUME NEW t \in Threads, Compiling(t)', torn[t]
               PROVE  \E p \in Span[block[t]] : Expected(p)'
    BY DEF TornInv
  <2>1. Compiling(t) /\ block[t] \in Blocks
    BY <1>0 DEF RegInv, CompileInv
  <2>2. PICK p \in Span[block[t]] : Expected(p)
    BY <2>1 DEF CodeInv, TornInv
  <2> QED BY <1>s, <2>1, <2>2
<1> QED BY <1>1, <1>2, <1>3, <1>4 DEF CodeInv

\* An invalidation, when nobody compiles, of a page that may then become
\* settled, writable and no longer expected.
LEMMA CodeInvalidated ==
    ASSUME RegInv, CodeInv, CodeFree, NEW p \in Pages, InvalidatePage(p),
           \A t \in Threads : ~Compiling(t)',
           \A q \in Pages \ {p} : Settled(q)' => Settled(q),
           \A q \in Pages \ {p} : host'[q] = host[q],
           \A q \in Pages \ {p} : Expected(q) => Expected(q)'
    PROVE  CodeInv'
<1>1. AtWork' /\ TornInv'
  BY DEF AtWork, TornInv
<1>2. /\ \A t \in Threads : CodePages'[t][p] = {}
      /\ \A t \in Threads, q \in Pages \ {p} : CodePages'[t][q] = CodePages[t][q]
  BY DEF InvalidatePage, RegInv, TypeOK
<1>3. Protected'
  <2> SUFFICES ASSUME NEW q \in Pages, Settled(q)', host'[q] = "RW", NEW t \in Threads
               PROVE  CodePages'[t][q] = {}
    BY DEF Protected
  <2>1. CASE q = p
    BY <1>2, <2>1
  <2>2. CASE q # p
    BY <1>2, <2>2 DEF CodeInv, Protected, CodeFree, Compiling
  <2> QED BY <2>1, <2>2
<1>4. NoStaleCode'
  <2> SUFFICES ASSUME NEW t \in Threads, NEW b \in Blocks, code'[t][b] = "stale"
               PROVE  \E q \in Span[b] : Expected(q)'
    BY DEF NoStaleCode
  <2>1. b \notin CodePages[t][p] /\ code[t][b] = "stale"
    BY DEF InvalidatePage
  <2>2. PICK q \in Span[b] : Expected(q)
    BY <2>1 DEF CodeInv, NoStaleCode
  <2>3. q \in Pages
    BY PageAssumption
  <2>4. b \in CodePages[t][q]
    BY <2>1 DEF RegInv, Registered
  <2> QED BY <2>1, <2>2, <2>3, <2>4
<1> QED BY <1>1, <1>3, <1>4 DEF CodeInv

\* Memory behind the page p changes, in a store or in a system call: either
\* p's invalidation is now on its way, or nothing was decoded from it.
LEMMA CodeChanged ==
    ASSUME RegInv, CodeInv, NEW p \in Pages, Change({p}), UNCHANGED <<CodePages, block, decoded>>,
           \A t \in Threads : Compiling(t) \/ Compiling(t)' =>
               pc'[t] = pc[t] /\ page'[t] = page[t] /\ todo'[t] = todo[t],
           \A q \in Pages : Settled(q)' => Settled(q),
           \A q \in Pages \ {p} : host'[q] = host[q],
           \A q \in Pages : Expected(q) => Expected(q)',
           \/ ~Settled(p)'
           \/ Settled(p) /\ host[p] = "RW" /\ host'[p] = "RW"
    PROVE  CodeInv'
<1>0. \A t \in Threads : Compiling(t)' => Compiling(t)
  BY DEF Compiling
<1>s. \A b \in Blocks : Span[b] \subseteq Pages
  BY PageAssumption
<1>1. AtWork'
  <2> SUFFICES ASSUME NEW t \in Threads, Compiling(t)'
               PROVE  /\ todo'[t] \cup decoded[t] \subseteq Span[block[t]]
                      /\ todo'[t] \cap decoded[t] = {}
                      /\ code'[t][block[t]] = "none"
                      /\ pc'[t] # "add" => page'[t] \in todo'[t]
                      /\ pc'[t] = "mark" => CodePages[t][page'[t]] = {block[t]}
    BY DEF AtWork
  <2>1. Compiling(t) /\ pc'[t] = pc[t] /\ page'[t] = page[t] /\ todo'[t] = todo[t] /\ block[t] \in Blocks
    BY <1>0 DEF RegInv, CompileInv
  <2>2. code'[t][block[t]] = "none"
    BY <2>1 DEF CodeInv, AtWork, Change
  <2> QED BY <2>1, <2>2 DEF CodeInv, AtWork
<1>2. Protected'
  <2> SUFFICES ASSUME NEW q \in Pages, Settled(q)', host'[q] = "RW", NEW t \in Threads
               PROVE  CodePages[t][q] = {} \/ (pc'[t] = "mark" /\ page'[t] = q)
    BY DEF Protected
  <2>1. Settled(q) /\ host[q] = "RW"
    OBVIOUS
  <2>2. CodePages[t][q] = {} \/ (pc[t] = "mark" /\ page[t] = q)
    BY <2>1 DEF CodeInv, Protected
  <2> QED BY <2>2 DEF Compiling
<1>3. CASE ~Settled(p)'
  <2>1. Expected(p)'
    BY <1>3 DEF Expected
  <2>2. NoStaleCode'
    <3> SUFFICES ASSUME NEW t \in Threads, NEW b \in Blocks, code'[t][b] = "stale"
                 PROVE  \E q \in Span[b] : Expected(q)'
      BY DEF NoStaleCode
    <3>1. code[t][b] = "stale" \/ p \in Span[b]
      BY DEF Change
    <3> QED BY <1>s, <2>1, <3>1 DEF CodeInv, NoStaleCode
  <2>3. TornInv'
    <3> SUFFICES ASSUME NEW t \in Threads, Compiling(t)', torn'[t]
                 PROVE  \E q \in Span[block[t]] : Expected(q)'
      BY DEF TornInv
    <3>1. Compiling(t) /\ block[t] \in Blocks /\ decoded[t] \subseteq Span[block[t]]
      BY <1>0 DEF RegInv, CompileInv, CodeInv, AtWork
    <3>2. torn[t] \/ p \in decoded[t]
      BY DEF Change
    <3>3. CASE torn[t]
      <4>1. PICK q \in Span[block[t]] : Expected(q)
        BY <3>1, <3>3 DEF CodeInv, TornInv
      <4> QED BY <1>s, <3>1, <4>1
    <3>4. CASE p \in decoded[t]
      BY <2>1, <3>1, <3>4
    <3> QED BY <3>2, <3>3, <3>4
  <2> QED BY <1>1, <1>2, <2>2, <2>3 DEF CodeInv
<1>4. CASE Settled(p) /\ host[p] = "RW"
  <2>1. ASSUME NEW t \in Threads, NEW b \in CodePages[t][p]
        PROVE  pc[t] = "mark" /\ page[t] = p /\ b = block[t]
    <3>1. pc[t] = "mark" /\ page[t] = p
      BY <1>4, <2>1 DEF CodeInv, Protected
    <3> QED BY <2>1, <3>1 DEF CodeInv, AtWork, Compiling
  <2>2. NoStaleCode'
    <3> SUFFICES ASSUME NEW t \in Threads, NEW b \in Blocks, code'[t][b] = "stale"
                 PROVE  \E q \in Span[b] : Expected(q)'
      BY DEF NoStaleCode
    <3>1. ASSUME code[t][b] # "none", p \in Span[b] PROVE FALSE
      <4>1. b \in CodePages[t][p]
        BY <3>1 DEF RegInv, Registered
      <4>2. Compiling(t) /\ b = block[t]
        BY <2>1, <4>1 DEF Compiling
      <4> QED BY <3>1, <4>2 DEF CodeInv, AtWork
    <3>2. code[t][b] = "stale"
      BY <3>1 DEF Change
    <3> QED BY <1>s, <3>2 DEF CodeInv, NoStaleCode
  <2>3. TornInv'
    <3> SUFFICES ASSUME NEW t \in Threads, Compiling(t)', torn'[t]
                 PROVE  \E q \in Span[block[t]] : Expected(q)'
      BY DEF TornInv
    <3>1. Compiling(t) /\ block[t] \in Blocks
      BY <1>0 DEF RegInv, CompileInv
    <3>2. p \notin decoded[t]
      <4> SUFFICES ASSUME p \in decoded[t] PROVE FALSE
        OBVIOUS
      <4>1. block[t] \in CodePages[t][p]
        BY <3>1 DEF RegInv, CompileInv
      <4>2. pc[t] = "mark" /\ page[t] = p
        BY <2>1, <4>1
      <4> QED BY <3>1, <4>2 DEF CodeInv, AtWork
    <3>3. torn[t]
      BY <3>2 DEF Change
    <3>4. PICK q \in Span[block[t]] : Expected(q)
      BY <3>1, <3>3 DEF CodeInv, TornInv
    <3> QED BY <1>s, <3>1, <3>4
  <2> QED BY <1>1, <1>2, <2>2, <2>3 DEF CodeInv
<1> QED BY <1>3, <1>4

\* A compilation keeps the invariant: before a page is decoded it is
\* write-protected, or registered by a block that protected it.
LEMMA CodeCompileSafe ==
    ASSUME Private, RegInv, MapInv, CodeInv, NEW t \in Threads, CompileStep(t)
    PROVE  CodeInv'
<1>1. Others(t) /\ vma' = vma /\ pc[t] \notin Calls /\ pc'[t] \notin Calls /\ ~(pc[t] = "flush") /\ ~(pc'[t] = "flush")
  BY DEF CompileStep, CompileStart, AddBlockExecutableRange, MarkGuestExecutableRange, DecodePage,
         AddBlockMapping, Resume, Calls, Others, RegInv, TypeOK, memVars, callVars
<1>2. ASSUME NEW p PROVE Settled(p)' <=> Settled(p)
  <2>1. ASSUME NEW u \in Threads PROVE InSyscall(u, p)' <=> InSyscall(u, p)
    BY <1>1 DEF InSyscall, Others, Calls
  <2> QED BY <2>1 DEF Settled
<1>3. ASSUME NEW p PROVE Expected(p)' <=> Expected(p)
  BY <1>1, <1>2 DEF Expected, Others
<1>4. ASSUME NEW u \in Threads \ {t} PROVE Compiling(u)' <=> Compiling(u)
  BY <1>1 DEF Compiling, Others
<1>5. ASSUME NEW b \in Blocks, CompileStart(t, b) PROVE CodeInv'
  <2>1. /\ pc[t] = "run" /\ code[t][b] = "none" /\ pc'[t] = "add" /\ block'[t] = b /\ todo'[t] = Span[b]
        /\ decoded'[t] = {} /\ torn'[t] = FALSE /\ host' = host /\ CodePages' = CodePages /\ code' = code
        /\ \A u \in Threads \ {t} : block'[u] = block[u] /\ decoded'[u] = decoded[u] /\ torn'[u] = torn[u]
    BY <1>5 DEF CompileStart, memVars, codeVars, RegInv, TypeOK
  <2>2. AtWork'
    BY <1>1, <1>4, <2>1 DEF CodeInv, AtWork, Others
  <2>3. Protected'
    BY <1>1, <1>2, <2>1 DEF CodeInv, Protected, Others
  <2>4. NoStaleCode'
    BY <1>3, <2>1 DEF CodeInv, NoStaleCode
  <2>5. TornInv'
    BY <1>3, <1>4, <2>1 DEF CodeInv, TornInv
  <2> QED BY <2>2, <2>3, <2>4, <2>5 DEF CodeInv
<1>6. ASSUME NEW p \in Pages, AddBlockExecutableRange(t, p) PROVE CodeInv'
  <2>1. /\ pc[t] = "add" /\ p \in todo[t] /\ page'[t] = p
        /\ pc'[t] = IF CodePages[t][p] = {} THEN "mark" ELSE "read"
        /\ UNCHANGED <<host, code, block, decoded, torn, todo>>
    BY <1>6 DEF AddBlockExecutableRange, memVars, compileVars, RegInv, TypeOK
  <2>2. CodePages'[t][p] = CodePages[t][p] \cup {block[t]}
    BY <1>6 DEF AddBlockExecutableRange, RegInv, TypeOK
  <2>3. \A u \in Threads, q \in Pages : u # t \/ q # p => CodePages'[u][q] = CodePages[u][q]
    BY <1>6 DEF AddBlockExecutableRange, RegInv, TypeOK
  <2>4. AtWork'
    <3> SUFFICES ASSUME NEW u \in Threads, Compiling(u)'
                 PROVE  /\ todo[u] \cup decoded[u] \subseteq Span[block[u]]
                        /\ todo[u] \cap decoded[u] = {}
                        /\ code[u][block[u]] = "none"
                        /\ pc'[u] # "add" => page'[u] \in todo[u]
                        /\ pc'[u] = "mark" => CodePages'[u][page'[u]] = {block[u]}
      BY <2>1 DEF AtWork
    <3>1. CASE u = t
      BY <2>1, <2>2, <3>1 DEF CodeInv, AtWork, Compiling
    <3>2. CASE u # t
      <4>1. Compiling(u) /\ pc'[u] = pc[u] /\ page'[u] = page[u]
        BY <1>1, <1>4, <3>2 DEF Others
      <4>2. pc[u] = "mark" => CodePages'[u][page[u]] = CodePages[u][page[u]]
        BY <2>3, <3>2 DEF RegInv, PageInv
      <4> QED BY <4>1, <4>2 DEF CodeInv, AtWork
    <3> QED BY <3>1, <3>2
  <2>5. Protected'
    <3> SUFFICES ASSUME NEW q \in Pages, Settled(q), host[q] = "RW", NEW u \in Threads
                 PROVE  CodePages'[u][q] = {} \/ (pc'[u] = "mark" /\ page'[u] = q)
      BY <1>2, <2>1 DEF Protected
    <3>1. CodePages[u][q] = {} \/ (pc[u] = "mark" /\ page[u] = q)
      BY DEF CodeInv, Protected
    <3>2. CASE u = t
      BY <2>1, <2>3, <3>1, <3>2
    <3>3. CASE u # t
      BY <1>1, <2>3, <3>1, <3>3 DEF Others
    <3> QED BY <3>2, <3>3
  <2>6. NoStaleCode'
    BY <1>3, <2>1 DEF CodeInv, NoStaleCode
  <2>7. TornInv'
    BY <1>3, <1>4, <2>1 DEF CodeInv, TornInv, Compiling
  <2> QED BY <2>4, <2>5, <2>6, <2>7 DEF CodeInv
<1>7. CASE MarkGuestExecutableRange(t)
  <2>1. /\ pc[t] = "mark" /\ pc'[t] = "read" /\ page' = page /\ page[t] \in Pages
        /\ UNCHANGED <<CodePages, code, block, decoded, torn, todo>>
    BY <1>7 DEF MarkGuestExecutableRange, codeVars, callVars, compileVars, RegInv, TypeOK, PageInv
  <2>2. \A q \in Pages : host'[q] = "RW" => host[q] = "RW"
    BY <1>7 DEF MarkGuestExecutableRange, HostProtect
  <2>3. ASSUME Settled(page[t]), host[page[t]] = "RW" PROVE host'[page[t]] = "R"
    <3>1. vma[page[t]] = "RW"
      BY <2>1, <2>3 DEF MapInv, SettledInv, Mapped
    <3>2. {q \in Frame(page[t]) : vma[q] = "RW"} = {page[t]}
      BY <3>1 DEF Frame, Private
    <3> QED BY <1>7, <2>1, <2>3, <3>1, <3>2 DEF MarkGuestExecutableRange, HostProtect
  <2>4. AtWork'
    BY <1>1, <1>4, <2>1 DEF CodeInv, AtWork, Others, Compiling
  <2>5. Protected'
    <3> SUFFICES ASSUME NEW q \in Pages, Settled(q), host'[q] = "RW", NEW u \in Threads
                 PROVE  CodePages[u][q] = {} \/ (pc'[u] = "mark" /\ page[u] = q)
      BY <1>2, <2>1 DEF Protected
    <3>1. host[q] = "RW" /\ q # page[t]
      BY <2>2, <2>3
    <3>2. CodePages[u][q] = {} \/ (pc[u] = "mark" /\ page[u] = q)
      BY <3>1 DEF CodeInv, Protected
    <3> QED BY <1>1, <3>1, <3>2 DEF Others
  <2>6. NoStaleCode'
    BY <1>3, <2>1 DEF CodeInv, NoStaleCode
  <2>7. TornInv'
    BY <1>3, <1>4, <2>1 DEF CodeInv, TornInv, Compiling
  <2> QED BY <2>4, <2>5, <2>6, <2>7 DEF CodeInv
<1>8. CASE DecodePage(t)
  <2>1. /\ pc[t] = "read" /\ pc'[t] = "add" /\ page' = page
        /\ todo'[t] = todo[t] \ {page[t]} /\ decoded'[t] = decoded[t] \cup {page[t]}
        /\ \A u \in Threads \ {t} : decoded'[u] = decoded[u]
        /\ UNCHANGED <<host, CodePages, code, block, torn>>
    BY <1>8 DEF DecodePage, memVars, codeVars, callVars, RegInv, TypeOK
  <2>2. AtWork'
    BY <1>1, <1>4, <2>1 DEF CodeInv, AtWork, Others, Compiling
  <2>3. Protected'
    BY <1>1, <1>2, <2>1 DEF CodeInv, Protected, Others
  <2>4. NoStaleCode'
    BY <1>3, <2>1 DEF CodeInv, NoStaleCode
  <2>5. TornInv'
    BY <1>3, <1>4, <2>1 DEF CodeInv, TornInv, Compiling
  <2> QED BY <2>2, <2>3, <2>4, <2>5 DEF CodeInv
<1>9. ASSUME NEW full \in BOOLEAN, AddBlockMapping(t, full) PROVE CodeInv'
  <2>1. /\ pc[t] = "add" /\ pc'[t] = "run" /\ UNCHANGED <<host, CodePages, todo>>
        /\ \A u \in Threads \ {t} : /\ decoded'[u] = decoded[u] /\ torn'[u] = torn[u] /\ block'[u] = block[u]
                                    /\ code'[u] = code[u]
    BY <1>9 DEF AddBlockMapping, Resume, memVars, RegInv, TypeOK
  <2>2. \A b \in Blocks : code'[t][b] = "stale" => code[t][b] = "stale" \/ (b = block[t] /\ torn[t])
    BY <1>9 DEF AddBlockMapping, RegInv, TypeOK
  <2>3. AtWork'
    BY <1>1, <1>4, <2>1 DEF CodeInv, AtWork, Others, Compiling
  <2>4. Protected'
    BY <1>1, <1>2, <2>1 DEF CodeInv, Protected, Others
  <2>5. NoStaleCode'
    <3> SUFFICES ASSUME NEW u \in Threads, NEW b \in Blocks, code'[u][b] = "stale"
                 PROVE  \E q \in Span[b] : Expected(q)
      BY <1>3 DEF NoStaleCode
    <3>1. code[u][b] = "stale" \/ (u = t /\ b = block[t] /\ torn[t])
      BY <2>1, <2>2
    <3> QED BY <2>1, <3>1 DEF CodeInv, NoStaleCode, TornInv, Compiling
  <2>6. TornInv'
    BY <1>3, <1>4, <2>1 DEF CodeInv, TornInv, Compiling
  <2> QED BY <2>3, <2>4, <2>5, <2>6 DEF CodeInv
<1> QED BY <1>5, <1>6, <1>7, <1>8, <1>9 DEF CompileStep

\* The steps of a fault handler keep it.
LEMMA CodeFaultSafe ==
    ASSUME Private, RegInv, MapInv, CodeInv, NEW t \in Threads, FaultStep(t)
    PROVE  CodeInv'
<1>1. CASE HandleSegfault(t) \/ FaultReturn(t)
  <2>1. /\ UNCHANGED <<host, CodePages, code, block, decoded, torn>> /\ Others(t)
        /\ pc[t] \in {"fault", "flush"} /\ (pc[t] = "flush" => todo[t] = {}) /\ pc'[t] \in {"run", "flush"}
    BY <1>1 DEF HandleSegfault, FaultReturn, Resume, memVars, codeVars, callVars, compileVars, Others, RegInv, TypeOK
  <2>2. ASSUME NEW p PROVE Settled(p)' <=> Settled(p)
    <3>1. ASSUME NEW u \in Threads PROVE InSyscall(u, p)' <=> InSyscall(u, p)
      BY <2>1 DEF InSyscall, Others
    <3> QED BY <3>1 DEF Settled
  <2>3. ASSUME NEW p, Expected(p) PROVE Expected(p)'
    BY <2>1, <2>2, <2>3 DEF Expected, Others
  <2>4. \A u \in Threads : Compiling(u) \/ Compiling(u)' => pc'[u] = pc[u] /\ page'[u] = page[u] /\ todo'[u] = todo[u]
    BY <2>1 DEF Others, Compiling
  <2> QED BY <2>1, <2>2, <2>3, <2>4, CodeQuiet
<1>2. ASSUME NEW q \in Pages, FlushMirror(t, q) PROVE CodeInv'
  <2>1. /\ CodeFree /\ InvalidatePage(q) /\ pc' = pc /\ page' = page /\ dest' = dest
        /\ todo' = [todo EXCEPT ![t] = @ \ {q}]
    BY <1>2 DEF FlushMirror, callVars
  <2>2. \A u \in Threads : ~Compiling(u)'
    BY <2>1 DEF CodeFree, Compiling
  <2>3. ASSUME NEW p PROVE Settled(p)' <=> Settled(p)
    BY <2>1 DEF Settled, InSyscall
  <2>4. ASSUME NEW p \in Pages \ {q}, Expected(p) PROVE Expected(p)'
    BY <2>1, <2>3, <2>4 DEF Expected, RegInv, TypeOK
  <2>5. \A p \in Pages \ {q} : host'[p] = host[p]
    BY <1>2 DEF FlushMirror, HostProtect
  <2> QED BY <2>1, <2>2, <2>3, <2>4, <2>5, CodeInvalidated
<1> QED BY <1>1, <1>2 DEF FaultStep

\* The steps of a system call after its host call keep it.
LEMMA CodeSyscallSafe ==
    ASSUME Private, RegInv, MapInv, CodeInv, NEW t \in Threads, SyscallStep(t)
    PROVE  CodeInv'
<1>0. ~TrackShmdt(t) /\ ~TrackShmdtInvalidate(t)
  BY DEF TrackShmdt, TrackShmdtInvalidate, MapInv, CallInv
<1>1. CASE Track(t) \/ TrackMprotect(t)
  <2>1. /\ UNCHANGED <<host, CodePages, code, block, decoded, torn, page, dest, todo>>
        /\ pc[t] \in {"track", "change"} /\ pc' = [pc EXCEPT ![t] = "inval"]
    BY <1>1 DEF Track, TrackMprotect, codeVars, callVars, compileVars
  <2>2. pc'[t] = "inval" /\ \A u \in Threads \ {t} : pc'[u] = pc[u]
    BY <2>1 DEF RegInv, TypeOK
  <2>3. ASSUME NEW p PROVE Settled(p)' <=> Settled(p)
    <3>1. ASSUME NEW u \in Threads PROVE InSyscall(u, p)' <=> InSyscall(u, p)
      BY <2>1, <2>2 DEF InSyscall
    <3> QED BY <3>1 DEF Settled
  <2>4. ASSUME NEW p, Expected(p) PROVE Expected(p)'
    BY <2>1, <2>2, <2>3, <2>4 DEF Expected
  <2>5. \A u \in Threads : Compiling(u) \/ Compiling(u)' => pc'[u] = pc[u] /\ page'[u] = page[u] /\ todo'[u] = todo[u]
    BY <2>1, <2>2 DEF Compiling
  <2> QED BY <2>1, <2>3, <2>4, <2>5, CodeQuiet
<1>2. CASE TrackInvalidate(t)
  <2>1. /\ pc[t] = "inval" /\ CodeFree /\ InvalidatePage(page[t]) /\ host' = host /\ todo' = todo
        /\ page[t] \in Pages /\ dest[t] = page[t]
    BY <1>2 DEF TrackInvalidate, memVars, RegInv, PageInv, MapInv, CallInv
  <2>2. Others(t) /\ pc'[t] = "run"
    BY <1>2 DEF TrackInvalidate, Resume, Others, RegInv, TypeOK
  <2>3. \A u \in Threads : ~Compiling(u)'
    BY <2>1, <2>2 DEF CodeFree, Compiling, Others
  <2>4. ASSUME NEW p \in Pages \ {page[t]} PROVE Settled(p)' <=> Settled(p)
    <3>1. ASSUME NEW u \in Threads PROVE InSyscall(u, p)' <=> InSyscall(u, p)
      BY <2>1, <2>2 DEF InSyscall, Others
    <3> QED BY <3>1 DEF Settled
  <2>5. ASSUME NEW p \in Pages \ {page[t]}, Expected(p) PROVE Expected(p)'
    BY <2>1, <2>2, <2>4, <2>5 DEF Expected, Others
  <2> QED BY <2>1, <2>3, <2>4, <2>5, CodeInvalidated
<1> QED BY <1>0, <1>1, <1>2 DEF SyscallStep

\* The host call of a system call, whether or not it changes the page's
\* contents: the page is no longer settled.
LEMMA CodeCallStart ==
    ASSUME Private, RegInv, MapInv, CodeInv, NEW t \in Threads, pc[t] = "run",
           NEW p \in Pages, NEW pr, NEW next \in {"track", "change"}, HostDone(t, next, p, p, pr),
           \A q \in Pages \ {p} : host'[q] = host[q],
           Change({p}) \/ UNCHANGED <<code, torn>>
    PROVE  CodeInv'
<1>1. Others(t) /\ pc'[t] = next /\ page'[t] = p /\ UNCHANGED <<CodePages, block, decoded, todo>>
  BY DEF HostDone, Others, RegInv, TypeOK
<1>2. ASSUME NEW q \in Pages, Settled(q)' PROVE Settled(q) /\ q # p
  <2>1. q # p
    BY <1>1, <1>2 DEF Settled, InSyscall
  <2>2. ASSUME NEW u \in Threads PROVE ~InSyscall(u, q)
    BY <1>1, <1>2 DEF Settled, InSyscall, Others
  <2> QED BY <2>1, <2>2 DEF Settled
<1>3. ASSUME NEW q \in Pages, Expected(q) PROVE Expected(q)'
  BY <1>1, <1>2, <1>3 DEF Expected, Others
<1>4. \A u \in Threads : Compiling(u) \/ Compiling(u)' => pc'[u] = pc[u] /\ page'[u] = page[u] /\ todo'[u] = todo[u]
  BY <1>1 DEF Compiling, Others
<1>5. ~Settled(p)'
  BY <1>2
<1>6. CASE Change({p})
  BY <1>1, <1>2, <1>3, <1>4, <1>5, <1>6, CodeChanged
<1>7. CASE UNCHANGED <<code, torn>>
  <2>s. \A b \in Blocks : Span[b] \subseteq Pages
    BY PageAssumption
  <2>0. \A u \in Threads : Compiling(u)' => Compiling(u) /\ block[u] \in Blocks
    BY <1>4 DEF Compiling, RegInv, CompileInv
  <2>1. AtWork'
    BY <1>1, <1>4, <1>7, <2>0 DEF CodeInv, AtWork
  <2>2. Protected'
    <3> SUFFICES ASSUME NEW q \in Pages, Settled(q)', host'[q] = "RW", NEW u \in Threads
                 PROVE  CodePages[u][q] = {} \/ (pc'[u] = "mark" /\ page'[u] = q)
      BY <1>1 DEF Protected
    <3>1. CodePages[u][q] = {} \/ (pc[u] = "mark" /\ page[u] = q)
      BY <1>2 DEF CodeInv, Protected
    <3> QED BY <1>4, <3>1 DEF Compiling
  <2>3. NoStaleCode'
    BY <1>3, <1>7, <2>s DEF CodeInv, NoStaleCode
  <2>4. TornInv'
    <3> SUFFICES ASSUME NEW u \in Threads, Compiling(u)', torn[u]
                 PROVE  \E q \in Span[block[u]] : Expected(q)'
      BY <1>1, <1>7 DEF TornInv
    <3>1. PICK q \in Span[block[u]] : Expected(q)
      BY <2>0 DEF CodeInv, TornInv
    <3> QED BY <1>3, <2>0, <2>s, <3>1
  <2> QED BY <2>1, <2>2, <2>3, <2>4 DEF CodeInv
<1> QED BY <1>6, <1>7

\* The guest's own steps keep it: a store that does not fault meets no code.
LEMMA CodeGuestSafe ==
    ASSUME Private, RegInv, MapInv, CodeInv, NEW t \in Threads, GuestStep(t)
    PROVE  CodeInv'
<1> PICK p \in Pages :
       \/ Write(t, p) \/ WriteFault(t, p)
       \/ GuestMunmap(t, p) \/ GuestShmdt(t, p)
       \/ \E pr \in {"R", "RW"} : GuestMmap(t, p, pr) \/ GuestMprotect(t, p, pr)
       \/ \E q \in Pages : GuestMremap(t, p, q)
  BY DEF GuestStep
<1>1. CASE Write(t, p)
  <2>1. UNCHANGED <<host, CodePages, block, decoded, pc, page, dest, todo>> /\ host[p] = "RW" /\ Change({p})
    BY <1>1 DEF Write, memVars, callVars, Frame, Private
  <2>2. ASSUME NEW q PROVE Settled(q)' <=> Settled(q)
    BY <2>1 DEF Settled, InSyscall
  <2>3. ASSUME NEW q PROVE Expected(q)' <=> Expected(q)
    BY <2>1, <2>2 DEF Expected
  <2> QED BY <2>1, <2>2, <2>3, CodeChanged
<1>2. CASE WriteFault(t, p)
  <2>1. /\ UNCHANGED <<host, CodePages, code, block, decoded, torn>> /\ Others(t)
        /\ pc[t] = "run" /\ pc'[t] = "fault"
    BY <1>2 DEF WriteFault, memVars, codeVars, compileVars, Others, RegInv, TypeOK
  <2>2. ASSUME NEW q PROVE Settled(q)' <=> Settled(q)
    <3>1. ASSUME NEW u \in Threads PROVE InSyscall(u, q)' <=> InSyscall(u, q)
      BY <2>1 DEF InSyscall, Others
    <3> QED BY <3>1 DEF Settled
  <2>3. ASSUME NEW q, Expected(q) PROVE Expected(q)'
    BY <2>1, <2>2, <2>3 DEF Expected, Others
  <2>4. \A u \in Threads : Compiling(u) \/ Compiling(u)' => pc'[u] = pc[u] /\ page'[u] = page[u] /\ todo'[u] = todo[u]
    BY <2>1 DEF Others, Compiling
  <2> QED BY <2>1, <2>2, <2>3, <2>4, CodeQuiet
<1>3. ASSUME NEW h, host' = [host EXCEPT ![p] = h] PROVE \A q \in Pages \ {p} : host'[q] = host[q]
  BY <1>3 DEF RegInv, TypeOK
<1>4. CASE GuestMunmap(t, p)
  BY <1>3, <1>4, CodeCallStart DEF GuestMunmap
<1>5. ASSUME NEW pr \in {"R", "RW"}, GuestMmap(t, p, pr) PROVE CodeInv'
  BY <1>3, <1>5, CodeCallStart DEF GuestMmap
<1>6. ASSUME NEW pr \in {"R", "RW"}, GuestMprotect(t, p, pr) PROVE CodeInv'
  BY <1>3, <1>6, CodeCallStart DEF GuestMprotect
<1>7. ~GuestShmdt(t, p) /\ \A q \in Pages : ~GuestMremap(t, p, q)
  BY DEF GuestShmdt, GuestMremap, Private
<1> QED BY <1>1, <1>2, <1>4, <1>5, <1>6, <1>7

PrivateInv == RegInv /\ MapInv /\ CodeInv

\* The invariant of private pages holds throughout.
LEMMA PrivateInvAlways == ASSUME Private PROVE Spec => []PrivateInv
<1>1. Init => PrivateInv
  BY RegInvInit, MapInvInit, CodeInvInit DEF PrivateInv
<1>2. PrivateInv /\ [Next]_vars => PrivateInv'
  <2> SUFFICES ASSUME PrivateInv, [Next]_vars PROVE PrivateInv'
    OBVIOUS
  <2>1. CASE Next
    <3>1. RegInv /\ MapInv /\ CodeInv
      BY DEF PrivateInv
    <3>2. RegInv'
      BY <2>1, <3>1, CompileSafe, FaultSafe, SyscallSafe, GuestSafe DEF Next
    <3>3. CodeInv'
      BY <2>1, <3>1, CodeCompileSafe, CodeFaultSafe, CodeSyscallSafe, CodeGuestSafe DEF Next
    <3> QED BY <2>1, <3>1, <3>2, <3>3, MapSafe DEF PrivateInv
  <2>2. CASE UNCHANGED vars
    <3> USE <2>2 DEF vars, memVars, codeVars, callVars, compileVars, PrivateInv
    <3>1. RegInv'
      BY DEF RegInv, TypeOK, PageInv, CompileInv, Compiling, Registered
    <3>2. MapInv'
      BY DEF MapInv, CallInv, OneCall, FaultInv, SettledInv, Settled, InSyscall, Mapped
    <3>3. CodeInv'
      BY DEF CodeInv, AtWork, Protected, NoStaleCode, TornInv, Expected, Settled, InSyscall, Compiling
    <3> QED BY <3>1, <3>2, <3>3
  <2> QED BY <2>1, <2>2
<1> QED BY <1>1, <1>2, PTL DEF Spec

\* For any number of threads, private pages and blocks, and whether or not
\* the guest unmaps a page that is being compiled from: a translated block
\* that no longer matches the guest's memory is never in a cache without an
\* invalidation on its way to it.  No store goes past the write protection
\* of MarkGuestExecutableRange, and HandleSegfault and the Track functions
\* drop what they must before the page is writable or settled again.
THEOREM NoStaleCodePrivate == ASSUME Private PROVE Spec => []NoStaleCode
<1>1. PrivateInv => NoStaleCode
  BY DEF PrivateInv, CodeInv
<1> QED BY <1>1, PrivateInvAlways, PTL

\* Likewise the host never lets the guest write, outside a system call on the
\* page, where the guest's own mapping does not: neither protecting a page
\* for its code nor unprotecting it after a fault widens the protection.
THEOREM ProtectionKeptPrivate == ASSUME Private PROVE Spec => []ProtectionKept
<1>1. PrivateInv => ProtectionKept
  BY DEF PrivateInv, MapInv, SettledInv, Mapped, ProtectionKept
<1> QED BY <1>1, PrivateInvAlways, PTL

\* The pages of a block that is being compiled are mapped.
CompilesMapped == \A t \in Threads : Compiling(t) => \A p \in Span[block[t]] : host[p] # "none"

\* If moreover the guest does not unmap a page while a block is compiled from
\* it, the mprotect calls of MarkGuestExecutableRange and HandleSegfault,
\* which the code asserts to succeed, never meet an unmapped page.
THEOREM ProtectSucceedsPrivate ==
    ASSUME Private, "compile" \notin Overlaps
    PROVE  Spec => []ProtectSucceeds
<1> DEFINE I == CompilesMapped /\ ProtectSucceeds
<1>1. Init => I
  BY DEF Init, CompilesMapped, ProtectSucceeds, Compiling
<1>2. PrivateInv /\ I /\ [Next]_vars => I'
  <2> SUFFICES ASSUME PrivateInv, I, [Next]_vars PROVE I'
    OBVIOUS
  <2>0. RegInv /\ MapInv /\ CodeInv /\ \A b \in Blocks : Span[b] \subseteq Pages
    BY PageAssumption DEF PrivateInv
  <2>1. CASE UNCHANGED vars
    BY <2>1 DEF vars, memVars, compileVars, CompilesMapped, ProtectSucceeds, Compiling
  <2>2. ASSUME NEW t \in Threads, CompileStep(t) PROVE I'
    <3>1. CASE MarkGuestExecutableRange(t)
      <4>1. Compiling(t) /\ page[t] \in Span[block[t]]
        BY <2>0, <3>1 DEF MarkGuestExecutableRange, Compiling, CodeInv, AtWork
      <4>2. host[page[t]] # "none"
        BY <4>1 DEF CompilesMapped
      <4>3. \A q \in Frame(page[t]) : host[q] # "none"
        BY <4>2 DEF Frame, Private
      <4>4. abort' = abort /\ \A q \in Pages : host[q] # "none" => host'[q] # "none"
        BY <3>1, <4>3 DEF MarkGuestExecutableRange, HostProtect
      <4>5. block' = block /\ \A u \in Threads : Compiling(u)' => Compiling(u) /\ block[u] \in Blocks
        BY <2>0, <3>1, <4>1 DEF MarkGuestExecutableRange, compileVars, RegInv, TypeOK, Compiling, CompileInv
      <4> QED BY <2>0, <4>4, <4>5 DEF CompilesMapped, ProtectSucceeds
    <3>2. ASSUME NEW b \in Blocks, CompileStart(t, b) PROVE I'
      BY <2>0, <3>2 DEF CompileStart, memVars, CompilesMapped, ProtectSucceeds, Compiling, RegInv, TypeOK
    <3>3. ASSUME NEW p \in Pages, AddBlockExecutableRange(t, p) PROVE I'
      BY <2>0, <3>3 DEF AddBlockExecutableRange, memVars, compileVars, CompilesMapped, ProtectSucceeds, Compiling, RegInv, TypeOK
    <3>4. CASE DecodePage(t)
      BY <2>0, <3>4 DEF DecodePage, memVars, CompilesMapped, ProtectSucceeds, Compiling, RegInv, TypeOK
    <3>5. ASSUME NEW full \in BOOLEAN, AddBlockMapping(t, full) PROVE I'
      BY <2>0, <3>5 DEF AddBlockMapping, Resume, memVars, CompilesMapped, ProtectSucceeds, Compiling, RegInv, TypeOK
    <3> QED BY <2>2, <3>1, <3>2, <3>3, <3>4, <3>5 DEF CompileStep
  <2>3. ASSUME NEW t \in Threads, FaultStep(t) PROVE I'
    <3>1. CASE HandleSegfault(t) \/ FaultReturn(t)
      <4>1. host' = host /\ block' = block /\ abort' = abort /\ \A u \in Threads : Compiling(u)' => Compiling(u)
        BY <2>0, <3>1 DEF HandleSegfault, FaultReturn, Resume, memVars, compileVars, RegInv, TypeOK, Compiling
      <4> QED BY <4>1 DEF CompilesMapped, ProtectSucceeds
    <3>2. ASSUME NEW q \in Pages, FlushMirror(t, q) PROVE I'
      <4>1. q = page[t] /\ Settled(q) /\ CodeFree /\ pc' = pc
        BY <2>0, <3>2 DEF FlushMirror, MapInv, FaultInv
      <4>2. vma[q] = "RW" => host[q] # "none"
        BY <2>0, <4>1 DEF MapInv, SettledInv, Mapped
      <4>3. abort' = abort
        BY <3>2, <4>2 DEF FlushMirror, HostProtect
      <4> QED BY <4>1, <4>3 DEF CompilesMapped, ProtectSucceeds, CodeFree, Compiling
    <3> QED BY <2>3, <3>1, <3>2 DEF FaultStep
  <2>4. ASSUME NEW t \in Threads, SyscallStep(t) PROVE I'
    <3>1. host' = host /\ block' = block /\ abort' = abort /\ \A u \in Threads : Compiling(u)' => Compiling(u)
      BY <2>0, <2>4 DEF SyscallStep, Track, TrackMprotect, TrackInvalidate, TrackShmdt, TrackShmdtInvalidate,
                Resume, memVars, compileVars, RegInv, TypeOK, Compiling
    <3> QED BY <3>1 DEF CompilesMapped, ProtectSucceeds
  <2>5. ASSUME NEW t \in Threads, GuestStep(t) PROVE I'
    <3> PICK p \in Pages :
           \/ Write(t, p) \/ WriteFault(t, p)
           \/ GuestMunmap(t, p) \/ GuestShmdt(t, p)
           \/ \E pr \in {"R", "RW"} : GuestMmap(t, p, pr) \/ GuestMprotect(t, p, pr)
           \/ \E q \in Pages : GuestMremap(t, p, q)
      BY <2>5 DEF GuestStep
    <3>1. CASE Write(t, p) \/ WriteFault(t, p)
      BY <2>0, <3>1 DEF Write, WriteFault, memVars, callVars, compileVars, CompilesMapped, ProtectSucceeds, Compiling,
                        RegInv, TypeOK
    <3>2. ASSUME NEW next \in {"track", "change"}, NEW pr, HostDone(t, next, p, p, pr), pc[t] = "run",
                 NEW h, host' = [host EXCEPT ![p] = h],
                 h = "none" => \A u \in Threads : ~(Compiling(u) /\ p \in Span[block[u]])
          PROVE  I'
      <4>1. block' = block /\ abort' = abort /\ \A u \in Threads : Compiling(u)' => Compiling(u) /\ block[u] \in Blocks
        BY <2>0, <3>2 DEF HostDone, RegInv, TypeOK, Compiling, CompileInv
      <4>2. host'[p] = h /\ \A q \in Pages \ {p} : host'[q] = host[q]
        BY <2>0, <3>2 DEF RegInv, TypeOK
      <4> QED BY <2>0, <3>2, <4>1, <4>2 DEF CompilesMapped, ProtectSucceeds
    <3>3. CASE GuestMunmap(t, p)
      <4>1. \A u \in Threads : ~(Compiling(u) /\ p \in Span[block[u]])
        BY <3>3 DEF GuestMunmap, Unused
      <4> QED BY <3>2, <3>3, <4>1 DEF GuestMunmap
    <3>4. ASSUME NEW pr \in {"R", "RW"}, GuestMmap(t, p, pr) PROVE I'
      BY <3>2, <3>4 DEF GuestMmap
    <3>5. ASSUME NEW pr \in {"R", "RW"}, GuestMprotect(t, p, pr) PROVE I'
      BY <3>2, <3>5 DEF GuestMprotect
    <3>6. ~GuestShmdt(t, p) /\ \A q \in Pages : ~GuestMremap(t, p, q)
      BY DEF GuestShmdt, GuestMremap, Private
    <3> QED BY <3>1, <3>3, <3>4, <3>5, <3>6
  <2> QED BY <2>1, <2>2, <2>3, <2>4, <2>5 DEF Next
<1>3. I => ProtectSucceeds
  OBVIOUS
<1> QED BY <1>1, <1>2, <1>3, PrivateInvAlways, PTL DEF Spec

-----------------------------------------------------------------------------
(* Mirrors *)

\* One thread, whose pages may be mirrors of each other from the start, and
\* which unmaps pages but maps and reprotects none.
Lone ==
    /\ \A t, u \in Threads : t = u
    /\ Syscalls \subseteq {"munmap", "shmdt"}

\* Every mapping is writable for the guest.  Host and VMAs agree on what is
\* mapped, except for the page that a call has unmapped and not yet tracked.
LoneMapped ==
    \A p \in Pages :
        /\ vma[p] \in {"none", "RW"}
        /\ \/ host[p] = "none" <=> vma[p] = "none"
           \/ \E t \in Threads : pc[t] \in {"track", "shmdt"} /\ page[t] = p

\* The page of a call is unmapped.
LoneCall ==
    \A t \in Threads :
        /\ pc[t] # "change"
        /\ pc[t] \in Calls => dest[t] = page[t] /\ host[page[t]] = "none" /\ prot[t] = "none"

\* Nothing changes under a compilation.
LoneCompile ==
    \A t \in Threads : Compiling(t) =>
        /\ ~torn[t]
        /\ todo[t] \subseteq Span[block[t]]
        /\ pc[t] # "add" => page[t] \in Span[block[t]]
        /\ \A p \in Span[block[t]] : host[p] # "none"

\* A fault handler has yet to reach every mirror that has code.
LoneFlush ==
    \A t \in Threads : pc[t] = "flush" =>
        /\ todo[t] \subseteq Frame(page[t])
        /\ \A q \in todo[t] : vma[q] # "none"
        /\ \A q \in Frame(page[t]) : CodePages[t][q] # {} => q \in todo[t]

\* A page with code is mapped, unless a call has just unmapped it, and none of
\* its mirrors can be written to, except while the page is about to be
\* protected or flushed.
LoneGuarded ==
    \A t \in Threads, p \in Pages : CodePages[t][p] # {} =>
        /\ host[p] # "none" \/ (pc[t] \in Calls /\ page[t] = p)
        /\ \/ pc[t] = "mark" /\ page[t] = p
           \/ pc[t] = "flush" /\ p \in Frame(page[t])
           \/ \A q \in Frame(p) : host[q] # "RW"

\* Only what a call has unmapped is stale.
LoneStale ==
    \A t \in Threads, b \in Blocks :
        code[t][b] = "stale" => pc[t] \in Calls /\ page[t] \in Span[b]

LoneInv ==
    /\ LoneMapped /\ LoneCall /\ LoneCompile /\ LoneFlush /\ LoneGuarded /\ LoneStale
    /\ ProtectSucceeds

\* The start: everything is mapped and nothing is translated.
LEMMA LoneInit == Init => LoneInv
  BY DEF Init, LoneInv, LoneMapped, LoneCall, LoneCompile, LoneFlush, LoneGuarded, LoneStale,
         ProtectSucceeds, Compiling, Calls

\* Being mirrors is an equivalence.
LEMMA FrameIs ==
    ASSUME NEW p, NEW q
    PROVE  p \in Frame(p) /\ (q \in Frame(p) => Frame(q) = Frame(p))
  BY DEF Frame

\* The pages of a block are pages, and the mirrors of a page are.
LEMMA PagesIn ==
    /\ \A b \in Blocks : Span[b] \subseteq Pages
    /\ \A p \in Pages : Frame(p) \subseteq Pages
  BY PageAssumption DEF Frame

\* Outside calls, mapped pages have writable VMAs.
LEMMA LoneMappedIs ==
    ASSUME LoneInv, NEW t \in Threads, \A u \in Threads : u = t, pc[t] \notin {"track", "shmdt"},
           NEW p \in Pages
    PROVE  /\ vma[p] = "none" => host[p] = "none"
           /\ vma[p] # "none" => vma[p] = "RW" /\ host[p] # "none"
  BY DEF LoneInv, LoneMapped

\* A compilation protects the page and all its mirrors before it reads.
LEMMA LoneCompileStep ==
    ASSUME RegInv, LoneInv, NEW t \in Threads, \A u \in Threads : u = t, CompileStep(t)
    PROVE  LoneInv'
<1>1. ASSUME NEW b \in Blocks, CompileStart(t, b) PROVE LoneInv'
  <2>1. /\ pc[t] = "run" /\ pc'[t] = "add" /\ block'[t] = b /\ todo'[t] = Span[b] /\ ~torn'[t]
        /\ \A p \in Span[b] : host[p] # "none"
        /\ UNCHANGED <<host, vma, CodePages, code, page, dest, prot, abort>>
    BY <1>1 DEF CompileStart, RegInv, TypeOK, memVars, codeVars, callVars
  <2> QED BY <2>1 DEF LoneInv, LoneMapped, LoneCall, LoneCompile, LoneFlush, LoneGuarded, LoneStale,
                      ProtectSucceeds, Compiling, Calls
<1>2. ASSUME NEW p \in Pages, AddBlockExecutableRange(t, p) PROVE LoneInv'
  <2>1. /\ pc[t] = "add" /\ p \in todo[t] /\ page'[t] = p
        /\ pc'[t] = IF CodePages[t][p] = {} THEN "mark" ELSE "read"
        /\ \A q \in Pages \ {p} : CodePages'[t][q] = CodePages[t][q]
        /\ UNCHANGED <<host, vma, code, block, torn, todo, abort>>
    BY <1>2 DEF AddBlockExecutableRange, RegInv, TypeOK, memVars, compileVars
  <2>2. Compiling(t) /\ p \in Span[block[t]] /\ host[p] # "none"
    BY <2>1 DEF Compiling, LoneInv, LoneCompile
  <2>3. LoneCompile'
    BY <2>1, <2>2 DEF LoneInv, LoneCompile, Compiling
  <2>4. LoneGuarded'
    <3> SUFFICES ASSUME NEW q \in Pages, CodePages'[t][q] # {}
                 PROVE  /\ host[q] # "none"
                        /\ (pc'[t] = "mark" /\ page'[t] = q) \/ \A r \in Frame(q) : host[r] # "RW"
      BY <2>1 DEF LoneGuarded
    <3>1. CASE CodePages[t][q] # {}
      BY <2>1, <3>1 DEF LoneInv, LoneGuarded, Calls
    <3>2. CASE CodePages[t][q] = {}
      BY <2>1, <2>2, <3>2
    <3> QED BY <3>1, <3>2
  <2> QED BY <2>1, <2>3, <2>4 DEF LoneInv, LoneMapped, LoneCall, LoneFlush, LoneStale, ProtectSucceeds, Calls
<1>3. CASE MarkGuestExecutableRange(t)
  <2> DEFINE p == page[t]
             ps == {q \in Frame(p) : vma[q] = "RW"}
  <2>1. /\ pc[t] = "mark" /\ pc'[t] = "read" /\ HostProtect(IF vma[p] = "none" THEN {} ELSE ps, "R")
        /\ UNCHANGED <<vma, CodePages, code, page, dest, prot, block, torn, todo>>
    BY <1>3 DEF MarkGuestExecutableRange, RegInv, TypeOK, codeVars, callVars, compileVars
  <2>2. Compiling(t) /\ p \in Span[block[t]] /\ p \in Pages /\ host[p] # "none"
    BY <2>1, PagesIn DEF Compiling, LoneInv, LoneCompile, RegInv, CompileInv
  <2>3. Frame(p) \subseteq Pages
    BY <2>2, PagesIn
  <2>4. vma[p] # "none" /\ \A q \in ps : host[q] # "none"
    BY <2>1, <2>2, <2>3, LoneMappedIs
  <2>5. host' = [q \in Pages |-> IF q \in ps THEN "R" ELSE host[q]] /\ abort' = abort
    BY <2>1, <2>4 DEF HostProtect
  <2>6. \A q \in Frame(p) : host'[q] # "RW"
    BY <2>1, <2>3, <2>5, LoneMappedIs
  <2>7. \A q \in Pages : (host'[q] = "none" <=> host[q] = "none") /\ (host'[q] = "RW" => host[q] = "RW")
    BY <2>3, <2>4, <2>5
  <2>8. LoneMapped'
    BY <2>1, <2>7 DEF LoneInv, LoneMapped
  <2>9. LoneCompile'
    BY <2>1, <2>2, <2>7, PagesIn DEF LoneInv, LoneCompile, Compiling, RegInv, CompileInv
  <2>10. LoneGuarded'
    <3> SUFFICES ASSUME NEW q \in Pages, CodePages[t][q] # {}
                 PROVE  host'[q] # "none" /\ \A r \in Frame(q) : host'[r] # "RW"
      BY <2>1 DEF LoneGuarded
    <3>1. host[q] # "none" /\ (q = p \/ \A r \in Frame(q) : host[r] # "RW")
      BY <2>1 DEF LoneInv, LoneGuarded, Calls
    <3> QED BY <2>6, <2>7, <3>1, PagesIn
  <2> QED BY <2>1, <2>5, <2>8, <2>9, <2>10 DEF LoneInv, LoneCall, LoneFlush, LoneStale, ProtectSucceeds, Calls
<1>4. CASE DecodePage(t)
  <2>1. /\ pc[t] = "read" /\ pc'[t] = "add" /\ todo'[t] \subseteq todo[t] /\ abort' \in {"fetch", abort}
        /\ UNCHANGED <<host, vma, CodePages, code, page, dest, prot, block, torn>>
    BY <1>4 DEF DecodePage, RegInv, TypeOK, memVars, codeVars, callVars
  <2>2. LoneCompile'
    BY <2>1 DEF LoneInv, LoneCompile, Compiling
  <2> QED BY <2>1, <2>2 DEF LoneInv, LoneMapped, LoneCall, LoneFlush, LoneGuarded, LoneStale, ProtectSucceeds, Calls
<1>5. ASSUME NEW full \in BOOLEAN, AddBlockMapping(t, full) PROVE LoneInv'
  <2>1. /\ pc[t] = "add" /\ pc'[t] = "run"
        /\ UNCHANGED <<host, vma, CodePages, abort>>
    BY <1>5 DEF AddBlockMapping, Resume, RegInv, TypeOK, memVars
  <2>2. ~torn[t] /\ \A b \in Blocks : code[t][b] # "stale"
    BY <2>1 DEF LoneInv, LoneCompile, LoneStale, Compiling, Calls
  <2>3. \A b \in Blocks : code'[t][b] # "stale"
    BY <1>5, <2>2 DEF AddBlockMapping, RegInv, TypeOK
  <2> QED BY <2>1, <2>3 DEF LoneInv, LoneMapped, LoneCall, LoneCompile, LoneFlush, LoneGuarded, LoneStale,
                            ProtectSucceeds, Compiling, Calls
<1> QED BY <1>1, <1>2, <1>3, <1>4, <1>5 DEF CompileStep

\* An invalidation leaves no code on its page and adds none elsewhere.
LEMMA InvalidatedIs ==
    ASSUME RegInv, NEW t \in Threads, NEW q \in Pages, InvalidatePage(q)
    PROVE  /\ CodePages'[t][q] = {}
           /\ \A p \in Pages \ {q} : CodePages'[t][p] = CodePages[t][p]
           /\ \A b \in Blocks : code'[t][b] = IF b \in CodePages[t][q] THEN "none" ELSE code[t][b]
  BY DEF InvalidatePage, RegInv, TypeOK

\* A fault handler opens a page for writing only after its code, and has
\* dropped the code on all mirrors before the guest runs again.
LEMMA LoneFaultStep ==
    ASSUME RegInv, LoneInv, NEW t \in Threads, \A u \in Threads : u = t, FaultStep(t)
    PROVE  LoneInv'
<1>1. CASE HandleSegfault(t)
  <2>1. /\ pc[t] = "fault" /\ page[t] \in Pages
        /\ UNCHANGED <<host, vma, CodePages, code, block, torn, abort>>
    BY <1>1 DEF HandleSegfault, memVars, codeVars, compileVars, RegInv, PageInv
  <2>2. CASE vma[page[t]] # "RW"
    <3>1. pc'[t] = "run"
      BY <1>1, <2>2 DEF HandleSegfault, Resume, RegInv, TypeOK
    <3> QED BY <2>1, <3>1 DEF LoneInv, LoneMapped, LoneCall, LoneCompile, LoneFlush, LoneGuarded, LoneStale,
                              ProtectSucceeds, Compiling, Calls
  <2>3. CASE vma[page[t]] = "RW"
    <3>1. /\ pc'[t] = "flush" /\ todo'[t] = {q \in Frame(page[t]) : vma[q] # "none"}
          /\ UNCHANGED <<page, dest, prot>>
      BY <1>1, <2>3 DEF HandleSegfault, callVars, RegInv, TypeOK
    <3>2. \A q \in Frame(page[t]) : CodePages[t][q] # {} => vma[q] # "none"
      BY <2>1, PagesIn, LoneMappedIs DEF LoneInv, LoneGuarded, Calls
    <3>3. LoneFlush'
      BY <2>1, <3>1, <3>2 DEF LoneFlush
    <3> QED BY <2>1, <3>1, <3>3 DEF LoneInv, LoneMapped, LoneCall, LoneCompile, LoneGuarded, LoneStale,
                                    ProtectSucceeds, Compiling, Calls
  <2> QED BY <2>2, <2>3
<1>2. ASSUME NEW q \in Pages, FlushMirror(t, q) PROVE LoneInv'
  <2>1. /\ pc[t] = "flush" /\ q \in todo[t] /\ todo'[t] = todo[t] \ {q}
        /\ InvalidatePage(q) /\ HostProtect(IF vma[q] = "RW" THEN {q} ELSE {}, "RW")
        /\ UNCHANGED <<vma, pc, page, dest, prot, block, torn>>
    BY <1>2 DEF FlushMirror, callVars, compileVars, RegInv, TypeOK
  <2>2. q \in Frame(page[t]) /\ vma[q] = "RW" /\ host[q] # "none"
    BY <2>1, LoneMappedIs DEF LoneInv, LoneFlush
  <2>3. host' = [p \in Pages |-> IF p = q THEN "RW" ELSE host[p]] /\ abort' = abort
    BY <2>1, <2>2 DEF HostProtect
  <2>4. /\ CodePages'[t][q] = {}
        /\ \A p \in Pages \ {q} : CodePages'[t][p] = CodePages[t][p]
        /\ \A b \in Blocks : code'[t][b] = IF b \in CodePages[t][q] THEN "none" ELSE code[t][b]
    BY <2>1, InvalidatedIs
  <2>5. LoneMapped'
    BY <2>1, <2>2, <2>3 DEF LoneInv, LoneMapped
  <2>6. LoneFlush'
    <3>1. page[t] \in Pages
      BY <2>1 DEF RegInv, PageInv
    <3>2. Frame(page[t]) \subseteq Pages
      BY <3>1, PagesIn
    <3> QED BY <2>1, <2>4, <3>2 DEF LoneInv, LoneFlush
  <2>7. LoneGuarded'
    <3> SUFFICES ASSUME NEW p \in Pages, CodePages'[t][p] # {}
                 PROVE  /\ host'[p] # "none"
                        /\ p \in Frame(page[t]) \/ \A r \in Frame(p) : host'[r] # "RW"
      BY <2>1 DEF LoneGuarded
    <3>1. p # q /\ CodePages[t][p] # {}
      BY <2>4
    <3>2. host[p] # "none" /\ (p \in Frame(page[t]) \/ \A r \in Frame(p) : host[r] # "RW")
      BY <2>1, <3>1 DEF LoneInv, LoneGuarded, Calls
    <3>3. q \in Frame(p) => p \in Frame(page[t])
      BY <2>2, FrameIs
    <3> QED BY <2>3, <3>1, <3>2, <3>3, PagesIn
  <2>8. LoneStale'
    BY <2>1, <2>4 DEF LoneInv, LoneStale, Calls
  <2> QED BY <2>1, <2>3, <2>5, <2>6, <2>7, <2>8 DEF LoneInv, LoneCall, LoneCompile, ProtectSucceeds, Compiling, Calls
<1>3. CASE FaultReturn(t)
  <2>1. /\ pc[t] = "flush" /\ todo[t] = {} /\ pc'[t] = "run"
        /\ UNCHANGED <<host, vma, CodePages, code, abort>>
    BY <1>3 DEF FaultReturn, Resume, memVars, codeVars, RegInv, TypeOK
  <2>2. \A q \in Frame(page[t]) : CodePages[t][q] = {}
    BY <2>1 DEF LoneInv, LoneFlush
  <2>3. LoneGuarded'
    BY <2>1, <2>2 DEF LoneInv, LoneGuarded, Calls
  <2> QED BY <2>1, <2>3 DEF LoneInv, LoneMapped, LoneCall, LoneCompile, LoneFlush, LoneStale,
                            ProtectSucceeds, Compiling, Calls
<1> QED BY <1>1, <1>2, <1>3 DEF FaultStep

\* A call that has unmapped a page tracks that and then drops its code.
LEMMA LoneSyscallStep ==
    ASSUME RegInv, LoneInv, NEW t \in Threads, \A u \in Threads : u = t, SyscallStep(t)
    PROVE  LoneInv'
<1>1. CASE Track(t) \/ TrackShmdt(t)
  <2>1. /\ pc[t] \in {"track", "shmdt"} /\ pc'[t] \in {"inval", "shmflush"}
        /\ page[t] \in Pages /\ dest[t] = page[t] /\ prot[t] = "none" /\ host[page[t]] = "none"
        /\ UNCHANGED <<host, CodePages, code, page, dest, prot, abort>>
    BY <1>1 DEF Track, TrackShmdt, codeVars, callVars, RegInv, TypeOK, PageInv, LoneInv, LoneCall, Calls
  <2>2. vma'[page[t]] = "none" /\ \A p \in Pages \ {page[t]} : vma'[p] = vma[p]
    BY <1>1, <2>1 DEF Track, TrackShmdt, RegInv, TypeOK
  <2>3. LoneMapped'
    BY <2>1, <2>2 DEF LoneInv, LoneMapped
  <2> QED BY <2>1, <2>3 DEF LoneInv, LoneCall, LoneCompile, LoneFlush, LoneGuarded, LoneStale,
                            ProtectSucceeds, Compiling, Calls
<1>2. CASE TrackInvalidate(t) \/ TrackShmdtInvalidate(t)
  <2>1. /\ pc[t] \in {"inval", "shmflush"} /\ pc'[t] = "run" /\ page[t] \in Pages
        /\ InvalidatePage(page[t]) /\ UNCHANGED <<host, vma, abort>>
    BY <1>2 DEF TrackInvalidate, TrackShmdtInvalidate, Resume, memVars, RegInv, TypeOK, PageInv
  <2>2. /\ CodePages'[t][page[t]] = {}
        /\ \A p \in Pages \ {page[t]} : CodePages'[t][p] = CodePages[t][p]
        /\ \A b \in Blocks : code'[t][b] = IF b \in CodePages[t][page[t]] THEN "none" ELSE code[t][b]
    BY <2>1, InvalidatedIs
  <2>3. \A b \in Blocks : code'[t][b] # "stale"
    <3> SUFFICES ASSUME NEW b \in Blocks, code[t][b] = "stale" PROVE b \in CodePages[t][page[t]]
      BY <2>2
    <3>1. page[t] \in Span[b]
      BY DEF LoneInv, LoneStale
    <3> QED BY <3>1 DEF RegInv, Registered
  <2>4. LoneGuarded'
    BY <2>1, <2>2 DEF LoneInv, LoneGuarded, Calls
  <2>5. LoneMapped'
    BY <2>1 DEF LoneInv, LoneMapped
  <2> QED BY <2>1, <2>3, <2>4, <2>5 DEF LoneInv, LoneCall, LoneCompile, LoneFlush, LoneStale,
                                        ProtectSucceeds, Compiling, Calls
<1>3. ~TrackMprotect(t)
  BY DEF TrackMprotect, LoneInv, LoneCall
<1> QED BY <1>1, <1>2, <1>3 DEF SyscallStep

\* A store that does not fault meets no code on any mirror of its page.
LEMMA LoneWrite ==
    ASSUME RegInv, LoneInv, NEW t \in Threads, \A u \in Threads : u = t, NEW p \in Pages, Write(t, p)
    PROVE  LoneInv'
<1>1. /\ pc[t] = "run" /\ host[p] = "RW" /\ Change(Frame(p))
      /\ UNCHANGED <<host, vma, CodePages, pc, page, dest, prot, abort>>
  BY DEF Write, memVars, callVars
<1>2. ASSUME NEW q \in Frame(p) PROVE CodePages[t][q] = {}
  <2>1. q \in Pages /\ p \in Frame(q)
    BY PagesIn, FrameIs
  <2> QED BY <1>1, <2>1 DEF LoneInv, LoneGuarded
<1>3. ASSUME NEW b \in Blocks PROVE code'[t][b] = code[t][b]
  <2>1. code[t][b] # "none" => Span[b] \cap Frame(p) = {}
    BY <1>2 DEF RegInv, Registered
  <2>2. code'[t][b] = IF code[t][b] # "none" /\ Span[b] \cap Frame(p) # {} THEN "stale" ELSE code[t][b]
    BY <1>1 DEF Change
  <2> QED BY <2>1, <2>2
<1> QED BY <1>1, <1>3 DEF LoneInv, LoneMapped, LoneCall, LoneCompile, LoneFlush, LoneGuarded, LoneStale,
                          ProtectSucceeds, Compiling, Calls

\* munmap and shmdt make stale only what was decoded from their page.
LEMMA LoneUnmap ==
    ASSUME RegInv, LoneInv, NEW t \in Threads, \A u \in Threads : u = t, NEW p \in Pages,
           GuestMunmap(t, p) \/ GuestShmdt(t, p)
    PROVE  LoneInv'
<1>1. /\ pc[t] = "run" /\ pc'[t] \in {"track", "shmdt"} /\ page'[t] = p /\ dest'[t] = p /\ prot'[t] = "none"
      /\ host'[p] = "none" /\ \A q \in Pages \ {p} : host'[q] = host[q]
      /\ Change({p}) /\ UNCHANGED <<vma, CodePages, abort>>
  BY DEF GuestMunmap, GuestShmdt, HostDone, RegInv, TypeOK
<1>2. ASSUME NEW b \in Blocks, code'[t][b] = "stale" PROVE p \in Span[b]
  <2>1. code[t][b] # "stale"
    BY <1>1 DEF LoneInv, LoneStale, Calls
  <2>2. code'[t][b] = IF code[t][b] # "none" /\ Span[b] \cap {p} # {} THEN "stale" ELSE code[t][b]
    BY <1>1 DEF Change
  <2> QED BY <1>2, <2>1, <2>2
<1>3. LoneStale'
  BY <1>1, <1>2 DEF LoneStale, Calls
<1>4. LoneMapped'
  BY <1>1 DEF LoneInv, LoneMapped
<1>5. LoneGuarded'
  <2> SUFFICES ASSUME NEW q \in Pages, CodePages[t][q] # {}
               PROVE  (q # p => host'[q] # "none") /\ \A r \in Frame(q) : host'[r] # "RW"
    BY <1>1 DEF LoneGuarded, Calls
  <2>1. host[q] # "none" /\ \A r \in Frame(q) : host[r] # "RW"
    BY <1>1 DEF LoneInv, LoneGuarded, Calls
  <2> QED BY <1>1, <2>1, PagesIn
<1> QED BY <1>1, <1>3, <1>4, <1>5 DEF LoneInv, LoneCall, LoneCompile, LoneFlush, ProtectSucceeds, Compiling, Calls

\* What the guest does, when it maps and reprotects nothing.
LEMMA LoneGuestStep ==
    ASSUME Lone, RegInv, LoneInv, NEW t \in Threads, GuestStep(t)
    PROVE  LoneInv'
<1>0. \A u \in Threads : u = t
  BY DEF Lone
<1> PICK p \in Pages :
       \/ Write(t, p) \/ WriteFault(t, p)
       \/ GuestMunmap(t, p) \/ GuestShmdt(t, p)
       \/ \E pr \in {"R", "RW"} : GuestMmap(t, p, pr) \/ GuestMprotect(t, p, pr)
       \/ \E q \in Pages : GuestMremap(t, p, q)
  BY DEF GuestStep
<1>1. CASE Write(t, p)
  BY <1>0, <1>1, LoneWrite
<1>2. CASE WriteFault(t, p)
  <2>1. /\ pc[t] = "run" /\ pc'[t] = "fault"
        /\ UNCHANGED <<host, vma, CodePages, code, block, torn, abort>>
    BY <1>2 DEF WriteFault, memVars, codeVars, compileVars, RegInv, TypeOK
  <2> QED BY <1>0, <2>1 DEF LoneInv, LoneMapped, LoneCall, LoneCompile, LoneFlush, LoneGuarded, LoneStale,
                            ProtectSucceeds, Compiling, Calls
<1>3. CASE GuestMunmap(t, p) \/ GuestShmdt(t, p)
  BY <1>0, <1>3, LoneUnmap
<1>4. /\ \A pr \in {"R", "RW"} : ~GuestMmap(t, p, pr) /\ ~GuestMprotect(t, p, pr)
      /\ \A q \in Pages : ~GuestMremap(t, p, q)
  BY DEF GuestMmap, GuestMprotect, GuestMremap, Lone
<1> QED BY <1>1, <1>2, <1>3, <1>4

\* A lone thread keeps the invariant.
LEMMA LoneInvAlways == ASSUME Lone PROVE Spec => []LoneInv
<1>1. Init => LoneInv
  BY LoneInit
<1>2. RegInv /\ LoneInv /\ [Next]_vars => LoneInv'
  <2> SUFFICES ASSUME RegInv, LoneInv, [Next]_vars PROVE LoneInv'
    OBVIOUS
  <2>1. CASE UNCHANGED vars
    BY <2>1 DEF vars, memVars, codeVars, callVars, compileVars, LoneInv, LoneMapped, LoneCall, LoneCompile,
                LoneFlush, LoneGuarded, LoneStale, ProtectSucceeds, Compiling
  <2>2. CASE Next
    <3> PICK t \in Threads : CompileStep(t) \/ FaultStep(t) \/ SyscallStep(t) \/ GuestStep(t)
      BY <2>2 DEF Next
    <3>1. \A u \in Threads : u = t
      BY DEF Lone
    <3> QED BY <3>1, LoneCompileStep, LoneFaultStep, LoneSyscallStep, LoneGuestStep
  <2> QED BY <2>1, <2>2
<1>3. Spec => []RegInv
  BY RegInvAlways
<1> QED BY <1>1, <1>2, <1>3, PTL DEF Spec

\* Mirrors: for one thread, with any pages that share a frame, a store through
\* any of them drops the code decoded through all: HandleSegfault's walk over
\* the mirrors leaves no stale block.
THEOREM NoStaleCodeMirrors == ASSUME Lone PROVE Spec => []NoStaleCode
<1>1. RegInv /\ LoneInv => NoStaleCode
  BY DEF RegInv, LoneInv, LoneStale, LoneCall, NoStaleCode, Expected, Settled, InSyscall, Calls
<1>2. Spec => []RegInv
  BY RegInvAlways
<1> QED BY <1>1, <1>2, LoneInvAlways, PTL

\* Under the same assumption the asserted mprotect calls on the mirrors succeed.
THEOREM ProtectSucceedsMirrors == ASSUME Lone PROVE Spec => []ProtectSucceeds
<1>1. LoneInv => ProtectSucceeds
  BY DEF LoneInv
<1> QED BY <1>1, LoneInvAlways, PTL

-----------------------------------------------------------------------------
(* VMATracking: what mappings and lists are *)

\* The entries a mapping may have, whatever range it is for.
Entries == [Resource : Resources \cup {NoResource}, Offset : Nat, Length : Nat \ {0},
            Prot : {"R", "RW"}]

\* A mapping at b lies in the address space and inside its resource.
EntryOK(b, e) ==
    /\ e \in Entries
    /\ b \in Nat /\ b + e.Length <= PageCount
    /\ e.Resource = NoResource => e.Offset = 0
    /\ e.Resource # NoResource => e.Offset + e.Length <= ResourceLength

\* The mappings are sound and no two of them meet.
Apart(vm) ==
    /\ \A b \in DOMAIN vm : EntryOK(b, vm[b])
    /\ \A b, c \in DOMAIN vm : b < c => b + vm[b].Length <= c

Holds(vm, b, p) == b <= p /\ p < b + vm[b].Length

\* The mappings in vm describe the address space mp.
Describes(vm, mp) ==
    /\ mp = [p \in PageRange |-> mp[p]]
    /\ \A b \in DOMAIN vm : \A p \in PageRange : Holds(vm, b, p) =>
          mp[p] = MappedPage(vm[b].Resource, vm[b].Offset + p - b, vm[b].Prot)
    /\ \A p \in PageRange : mp[p] = Unmapped \/ \E b \in DOMAIN vm : Holds(vm, b, p)

\* The lists hold exactly the mappings of their resource; only the list of
\* keep may be empty.
Lists(vm, ls, keep) ==
    /\ DOMAIN ls \subseteq Resources
    /\ \A r \in DOMAIN ls : ls[r] = {b \in DOMAIN vm : vm[b].Resource = r}
    /\ \A r \in DOMAIN ls : r = keep \/ ls[r] # {}
    /\ \A b \in DOMAIN vm : vm[b].Resource = NoResource \/ vm[b].Resource \in DOMAIN ls

\* f at x is a part of the mapping e at b, perhaps with another protection.
PartOf(b, e, x, f) ==
    /\ f \in Entries
    /\ x \in Int /\ b <= x /\ x + f.Length <= b + e.Length
    /\ f.Resource = e.Resource
    /\ f.Offset = OffsetAt(e, x - b)

\* The address space np differs from mp, which vm describes, only in the pages
\* of the mappings that left replaces: they are as their parts say, or
\* unmapped where no part is left.
Reflects(vm, left, mp, np) ==
    /\ np = [p \in PageRange |-> np[p]]
    /\ \A b \in DOMAIN left : \A x \in DOMAIN left[b] : \A p \in PageRange :
          x <= p /\ p < x + left[b][x].Length =>
            np[p] = MappedPage(left[b][x].Resource, left[b][x].Offset + p - x, left[b][x].Prot)
    /\ \A b \in DOMAIN left : \A p \in PageRange : Holds(vm, b, p) =>
          \/ np[p] = Unmapped
          \/ \E x \in DOMAIN left[b] : x <= p /\ p < x + left[b][x].Length
    /\ \A b \in DOMAIN vm \ DOMAIN left : \A p \in PageRange : Holds(vm, b, p) => np[p] = mp[p]
    /\ \A p \in PageRange : mp[p] = Unmapped => np[p] = Unmapped

\* left replaces mappings of vm by parts of them that do not meet.
PartsFit(vm, left) ==
    /\ DOMAIN left \subseteq DOMAIN vm
    /\ \A b \in DOMAIN left : \A x \in DOMAIN left[b] : PartOf(b, vm[b], x, left[b][x])
    /\ \A b \in DOMAIN left : \A x, y \in DOMAIN left[b] : x < y => x + left[b][x].Length <= y

-----------------------------------------------------------------------------
(* Replacing mappings by parts of them *)

\* Two mappings that hold the same page are one.
LEMMA HeldOnce ==
  ASSUME NEW vm, Apart(vm), NEW b \in DOMAIN vm, NEW c \in DOMAIN vm, NEW p \in Int,
         Holds(vm, b, p), Holds(vm, c, p)
  PROVE  b = c
  <1>1. b \in Int /\ c \in Int /\ vm[b].Length \in Int /\ vm[c].Length \in Int
    BY DEF Apart, EntryOK, Entries
  <1>2. ~(b < c) /\ ~(c < b)
    BY <1>1 DEF Apart, Holds
  <1> QED
    BY <1>1, <1>2

\* A part's base lies in the mapping it is a part of.
LEMMA PartHeld ==
  ASSUME NEW vm, Apart(vm), NEW left, PartsFit(vm, left),
         NEW b \in DOMAIN left, NEW x \in DOMAIN left[b]
  PROVE  /\ b \in DOMAIN vm /\ x \in Int /\ b \in Int
         /\ vm[b].Length \in Int /\ left[b][x].Length \in Int
         /\ b <= x /\ 0 < left[b][x].Length /\ x + left[b][x].Length <= b + vm[b].Length
         /\ Holds(vm, b, x)
  <1>1. b \in DOMAIN vm /\ PartOf(b, vm[b], x, left[b][x])
    BY DEF PartsFit
  <1>2. b \in Int /\ vm[b].Length \in Int
    BY <1>1 DEF Apart, EntryOK, Entries
  <1>3. left[b][x].Length \in Int /\ 0 < left[b][x].Length
    BY <1>1 DEF PartOf, Entries
  <1> QED
    BY <1>1, <1>2, <1>3 DEF PartOf, Holds

\* A part belongs to one mapping, and no mapping that is kept is at its base.
LEMMA PartOnce ==
  ASSUME NEW vm, Apart(vm), NEW left, PartsFit(vm, left),
         NEW b \in DOMAIN left, NEW x \in DOMAIN left[b]
  PROVE  /\ Whole(left, x) = b
         /\ x \notin DOMAIN vm \ DOMAIN left
  <1>1. b \in DOMAIN vm /\ x \in Int /\ Holds(vm, b, x)
    BY PartHeld
  <1>2. ASSUME NEW c \in DOMAIN left, x \in DOMAIN left[c]
        PROVE  c = b
    <2>1. c \in DOMAIN vm /\ Holds(vm, c, x)
      BY <1>2, PartHeld
    <2> QED
      BY <1>1, <2>1, HeldOnce
  <1>3. Whole(left, x) \in DOMAIN left /\ x \in DOMAIN left[Whole(left, x)]
    BY DEF Whole
  <1>4. ASSUME x \in DOMAIN vm
        PROVE  x = b
    <2>1. vm[x].Length \in Nat \ {0}
      BY <1>4 DEF Apart, EntryOK, Entries
    <2>2. Holds(vm, x, x)
      BY <1>1, <2>1 DEF Holds
    <2> QED
      BY <1>1, <1>4, <2>2, HeldOnce
  <1> QED
    BY <1>2, <1>3, <1>4

\* What Replace makes of the mappings.
LEMMA ReplaceIs ==
  ASSUME NEW S, Apart(S.vma), NEW left, PartsFit(S.vma, left), NEW keep
  PROVE  LET vm == Replace(S, left, keep).vma
         IN  /\ \A x \in DOMAIN vm :
                  \/ x \in DOMAIN S.vma \ DOMAIN left
                  \/ \E b \in DOMAIN left : x \in DOMAIN left[b]
             /\ \A x \in DOMAIN S.vma \ DOMAIN left : x \in DOMAIN vm /\ vm[x] = S.vma[x]
             /\ \A b \in DOMAIN left : \A x \in DOMAIN left[b] :
                  x \in DOMAIN vm /\ vm[x] = left[b][x]
  <1> DEFINE kept == DOMAIN S.vma \ DOMAIN left
             dom == kept \cup UNION {DOMAIN left[b] : b \in DOMAIN left}
             vm == [x \in dom |-> IF x \in kept THEN S.vma[x] ELSE left[Whole(left, x)][x]]
  <1>1. Replace(S, left, keep).vma = vm
    BY DEF Replace
  <1>2. DOMAIN vm = dom
    OBVIOUS
  <1>3. \A x \in kept : x \in DOMAIN vm /\ vm[x] = S.vma[x]
    OBVIOUS
  <1>4. ASSUME NEW b \in DOMAIN left, NEW x \in DOMAIN left[b]
        PROVE  x \in DOMAIN vm /\ vm[x] = left[b][x]
    <2>1. Whole(left, x) = b /\ x \notin kept
      BY PartOnce
    <2>2. x \in dom
      OBVIOUS
    <2> QED
      BY <2>1, <2>2
  <1>5. \A x \in dom : x \in kept \/ \E b \in DOMAIN left : x \in DOMAIN left[b]
    OBVIOUS
  <1> QED
    BY <1>1, <1>2, <1>3, <1>4, <1>5

\* A part of a sound mapping is sound.
LEMMA PartOK ==
  ASSUME NEW b, NEW e, EntryOK(b, e), NEW x, NEW f, PartOf(b, e, x, f)
  PROVE  EntryOK(x, f)
  <1>1. f \in Entries /\ e \in Entries
    BY DEF PartOf, EntryOK
  <1>2. /\ b \in Nat /\ x \in Int /\ e.Length \in Nat /\ f.Length \in Nat
        /\ e.Offset \in Nat /\ f.Offset \in Nat /\ PageCount \in Nat /\ ResourceLength \in Nat
    BY <1>1, SizeAssumption DEF PartOf, EntryOK, Entries
  <1>3. x \in Nat /\ x + f.Length <= PageCount
    BY <1>2 DEF PartOf, EntryOK
  <1>4. f.Resource = e.Resource /\ f.Offset = OffsetAt(e, x - b)
    BY DEF PartOf
  <1>5. f.Resource = NoResource => f.Offset = 0
    BY <1>4 DEF OffsetAt
  <1>6. f.Resource # NoResource => f.Offset + f.Length <= ResourceLength
    <2>1. HAVE f.Resource # NoResource
    <2>2. f.Offset = e.Offset + (x - b) /\ e.Offset + e.Length <= ResourceLength
      BY <1>4, <2>1 DEF OffsetAt, EntryOK
    <2> QED
      BY <1>2, <2>2 DEF PartOf
  <1> QED
    BY <1>1, <1>3, <1>5, <1>6 DEF EntryOK

\* Every mapping after the loop lies inside a mapping that was there before.
LEMMA ReplaceInside ==
  ASSUME NEW S, Apart(S.vma), NEW left, PartsFit(S.vma, left), NEW keep,
         NEW vm, vm = Replace(S, left, keep).vma, NEW x \in DOMAIN vm
  PROVE  /\ EntryOK(x, vm[x])
         /\ \E b \in DOMAIN S.vma :
              /\ b <= x /\ x + vm[x].Length <= b + S.vma[b].Length
              /\ vm[x].Resource = S.vma[b].Resource
              /\ \/ b \notin DOMAIN left /\ x = b /\ vm[x] = S.vma[b]
                 \/ b \in DOMAIN left /\ x \in DOMAIN left[b] /\ vm[x] = left[b][x]
  <1>1. CASE x \in DOMAIN S.vma \ DOMAIN left
    <2>1. vm[x] = S.vma[x]
      BY <1>1, ReplaceIs
    <2>2. EntryOK(x, S.vma[x])
      BY <1>1 DEF Apart
    <2>3. x \in Int /\ S.vma[x].Length \in Int
      BY <2>2 DEF EntryOK, Entries
    <2> QED
      BY <1>1, <2>1, <2>2, <2>3
  <1>2. CASE x \notin DOMAIN S.vma \ DOMAIN left
    <2>1. PICK b \in DOMAIN left : x \in DOMAIN left[b]
      BY <1>2, ReplaceIs
    <2>2. vm[x] = left[b][x]
      BY <2>1, ReplaceIs
    <2>3. b \in DOMAIN S.vma /\ PartOf(b, S.vma[b], x, left[b][x])
      BY <2>1 DEF PartsFit
    <2>4. EntryOK(x, vm[x])
      BY <2>2, <2>3, PartOK DEF Apart
    <2>5. b <= x /\ x + vm[x].Length <= b + S.vma[b].Length /\ vm[x].Resource = S.vma[b].Resource
      BY <2>2, <2>3 DEF PartOf
    <2> QED
      BY <2>1, <2>2, <2>3, <2>4, <2>5
  <1> QED
    BY <1>1, <1>2

\* The loop keeps the mappings sound and apart.
LEMMA ReplaceApart ==
  ASSUME NEW S, Apart(S.vma), NEW left, PartsFit(S.vma, left), NEW keep
  PROVE  Apart(Replace(S, left, keep).vma)
  <1> DEFINE vm == Replace(S, left, keep).vma
  <1> HIDE DEF vm
  <1>0. vm = Replace(S, left, keep).vma
    BY DEF vm
  <1>1. \A x \in DOMAIN vm : EntryOK(x, vm[x])
    BY <1>0, ReplaceInside
  <1>2. ASSUME NEW x \in DOMAIN vm, NEW y \in DOMAIN vm, x < y
        PROVE  x + vm[x].Length <= y
    <2>1. PICK b \in DOMAIN S.vma :
              /\ b <= x /\ x + vm[x].Length <= b + S.vma[b].Length
              /\ \/ b \notin DOMAIN left /\ x = b
                 \/ b \in DOMAIN left /\ x \in DOMAIN left[b] /\ vm[x] = left[b][x]
      BY <1>0, ReplaceInside
    <2>2. PICK c \in DOMAIN S.vma :
              /\ c <= y /\ y + vm[y].Length <= c + S.vma[c].Length
              /\ \/ c \notin DOMAIN left /\ y = c
                 \/ c \in DOMAIN left /\ y \in DOMAIN left[c]
      BY <1>0, ReplaceInside
    <2>3. /\ x \in Int /\ y \in Int /\ vm[x].Length \in Nat \ {0} /\ vm[y].Length \in Nat \ {0}
      BY <1>1 DEF EntryOK, Entries
    <2>4. /\ b \in Int /\ c \in Int /\ S.vma[b].Length \in Int /\ S.vma[c].Length \in Int
      BY DEF Apart, EntryOK, Entries
    <2>5. CASE b = c
      <3>1. b \in DOMAIN left
        BY <2>1, <2>2, <2>5, <1>2, <2>3
      <3> QED
        BY <2>1, <2>2, <2>5, <3>1, <1>2 DEF PartsFit
    <2>6. CASE b # c
      <3>1. b < c \/ c < b
        BY <2>4, <2>6
      <3>2. CASE b < c
        <4>1. b + S.vma[b].Length <= c
          BY <3>2 DEF Apart
        <4> QED
          BY <2>1, <2>2, <2>3, <2>4, <4>1
      <3>3. CASE c < b
        <4>1. c + S.vma[c].Length <= b
          BY <3>3 DEF Apart
        <4> QED
          BY <2>1, <2>2, <2>3, <2>4, <4>1, <1>2
      <3> QED
        BY <3>1, <3>2, <3>3
    <2> QED
      BY <2>5, <2>6
  <1>3. Apart(vm)
    BY <1>1, <1>2 DEF Apart
  <1> QED
    BY <1>3, <1>0

\* The loop keeps the lists exact, and frees no resource that is preserved.
LEMMA ReplaceLists ==
  ASSUME NEW S, Apart(S.vma), NEW left, PartsFit(S.vma, left), NEW keep,
         Lists(S.vma, S.list, keep)
  PROVE  /\ Lists(Replace(S, left, keep).vma, Replace(S, left, keep).list, keep)
         /\ keep \in DOMAIN S.list => keep \in DOMAIN Replace(S, left, keep).list
  <1> DEFINE vm == Replace(S, left, keep).vma
             ls == Replace(S, left, keep).list
  <1>0. ls = [r \in DOMAIN S.list \ Freed(S.list, left, keep) |-> Relisted(S.list, r, left)]
    BY DEF Replace
  <1>1. vm = Replace(S, left, keep).vma
    OBVIOUS
  <1> HIDE DEF vm, ls
  <1>2. ASSUME NEW r \in DOMAIN S.list
        PROVE  Relisted(S.list, r, left) = {b \in DOMAIN vm : vm[b].Resource = r}
    <2>1. S.list[r] = {b \in DOMAIN S.vma : S.vma[b].Resource = r}
      BY DEF Lists
    <2>2. ASSUME NEW x \in Relisted(S.list, r, left)
          PROVE  x \in DOMAIN vm /\ vm[x].Resource = r
      <3>1. CASE x \in S.list[r] \ DOMAIN left
        BY <2>1, <3>1, <1>1, ReplaceIs
      <3>2. CASE x \notin S.list[r] \ DOMAIN left
        <4>1. PICK b \in DOMAIN left : x \in DOMAIN left[b] /\ left[b][x].Resource = r
          BY <3>2, <2>2 DEF Relisted
        <4> QED
          BY <4>1, <1>1, ReplaceIs
      <3> QED
        BY <3>1, <3>2
    <2>3. ASSUME NEW x \in DOMAIN vm, vm[x].Resource = r
          PROVE  x \in Relisted(S.list, r, left)
      <3>1. CASE x \in DOMAIN S.vma \ DOMAIN left
        <4>1. vm[x] = S.vma[x]
          BY <3>1, <1>1, ReplaceIs
        <4>2. x \in S.list[r] \ DOMAIN left
          BY <2>1, <2>3, <3>1, <4>1
        <4> QED
          BY <4>2 DEF Relisted
      <3>2. CASE x \notin DOMAIN S.vma \ DOMAIN left
        <4>1. PICK b \in DOMAIN left : x \in DOMAIN left[b]
          BY <3>2, <1>1, ReplaceIs
        <4>2. left[b][x].Resource = r
          BY <4>1, <2>3, <1>1, ReplaceIs
        <4> QED
          BY <4>1, <4>2 DEF Relisted
      <3> QED
        BY <3>1, <3>2
    <2> QED
      BY <2>2, <2>3
  <1>3. DOMAIN ls \subseteq DOMAIN S.list
    BY <1>0
  <1>4. \A r \in DOMAIN ls : ls[r] = {b \in DOMAIN vm : vm[b].Resource = r}
    BY <1>0, <1>2
  <1>5. ASSUME NEW r \in DOMAIN ls
        PROVE  r = keep \/ ls[r] # {}
    <2>1. r \in DOMAIN S.list /\ r \notin Freed(S.list, left, keep)
      BY <1>0
    <2>2. r = keep \/ S.list[r] # {}
      BY <2>1 DEF Lists
    <2> QED
      BY <1>0, <2>1, <2>2 DEF Freed
  <1>6. ASSUME NEW x \in DOMAIN vm, vm[x].Resource # NoResource
        PROVE  vm[x].Resource \in DOMAIN ls
    <2>1. PICK b \in DOMAIN S.vma : vm[x].Resource = S.vma[b].Resource
      BY <1>1, ReplaceInside
    <2>2. vm[x].Resource \in DOMAIN S.list
      BY <1>6, <2>1 DEF Lists
    <2>3. x \in Relisted(S.list, vm[x].Resource, left)
      BY <1>2, <2>2
    <2> QED
      BY <1>0, <2>2, <2>3 DEF Freed
  <1>7. DOMAIN ls \subseteq Resources
    BY <1>3 DEF Lists
  <1>8. Lists(vm, ls, keep)
    BY <1>4, <1>5, <1>6, <1>7 DEF Lists
  <1>9. keep \in DOMAIN S.list => keep \in DOMAIN ls
    BY <1>0 DEF Freed
  <1> QED
    BY <1>8, <1>9 DEF vm, ls

\* The loop describes an address space that reflects what it replaces.
LEMMA ReplaceDescribes ==
  ASSUME NEW S, Apart(S.vma), NEW left, PartsFit(S.vma, left), NEW keep,
         NEW mp, Describes(S.vma, mp),
         NEW np, Reflects(S.vma, left, mp, np)
  PROVE  Describes(Replace(S, left, keep).vma, np)
  <1> DEFINE vm == Replace(S, left, keep).vma
  <1>0. vm = Replace(S, left, keep).vma
    OBVIOUS
  <1> HIDE DEF vm
  <1>1. ASSUME NEW x \in DOMAIN vm, NEW p \in PageRange, Holds(vm, x, p)
        PROVE  np[p] = MappedPage(vm[x].Resource, vm[x].Offset + p - x, vm[x].Prot)
    <2>1. CASE x \in DOMAIN S.vma \ DOMAIN left
      <3>1. vm[x] = S.vma[x]
        BY <2>1, <1>0, ReplaceIs
      <3>2. Holds(S.vma, x, p)
        BY <1>1, <3>1 DEF Holds
      <3> QED
        BY <2>1, <3>1, <3>2 DEF Describes, Reflects
    <2>2. CASE x \notin DOMAIN S.vma \ DOMAIN left
      <3>1. PICK b \in DOMAIN left : x \in DOMAIN left[b]
        BY <2>2, <1>0, ReplaceIs
      <3>2. vm[x] = left[b][x]
        BY <3>1, <1>0, ReplaceIs
      <3> QED
        BY <1>1, <3>1, <3>2 DEF Holds, Reflects
    <2> QED
      BY <2>1, <2>2
  <1>2. ASSUME NEW p \in PageRange, np[p] # Unmapped
        PROVE  \E x \in DOMAIN vm : Holds(vm, x, p)
    <2>1. PICK b \in DOMAIN S.vma : Holds(S.vma, b, p)
      BY <1>2 DEF Describes, Reflects
    <2>2. CASE b \in DOMAIN left
      <3>1. PICK x \in DOMAIN left[b] : x <= p /\ p < x + left[b][x].Length
        BY <1>2, <2>1, <2>2 DEF Reflects
      <3>2. x \in DOMAIN vm /\ vm[x] = left[b][x]
        BY <2>2, <1>0, ReplaceIs
      <3> QED
        BY <3>1, <3>2 DEF Holds
    <2>3. CASE b \notin DOMAIN left
      <3>1. b \in DOMAIN vm /\ vm[b] = S.vma[b]
        BY <2>3, <1>0, ReplaceIs
      <3> QED
        BY <2>1, <3>1 DEF Holds
    <2> QED
      BY <2>2, <2>3
  <1> QED
    BY <1>0, <1>1, <1>2 DEF Describes, Reflects

-----------------------------------------------------------------------------
(* The loops *)

\* What the tracker S knows when the address space is mp.
Sound(S, mp, keep) ==
    Apart(S.vma) /\ Lists(S.vma, S.list, keep) /\ Describes(S.vma, mp)

\* The walk visits the mappings that meet the range.
LEMMA VisitedIs ==
  ASSUME NEW vm, Apart(vm), NEW Base \in Int, NEW Top \in Int, NEW b \in DOMAIN vm
  PROVE  b \in Visited(vm, Base, Top) <=> b < Top /\ b + vm[b].Length > Base
  <1>1. \A c \in DOMAIN vm : c \in Int /\ vm[c].Length \in Nat /\ vm[c].Length > 0
    BY DEF Apart, EntryOK, Entries
  <1>2. ASSUME b \in Visited(vm, Base, Top)
        PROVE  b < Top /\ b + vm[b].Length > Base
    <2>1. b < Top
      BY <1>2 DEF Visited
    <2>2. b \in b .. Top - 1
      BY <1>1, <2>1
    <2> QED
      BY <1>2, <2>1, <2>2 DEF Visited
  <1>3. ASSUME b < Top, b + vm[b].Length > Base, NEW c \in DOMAIN vm, c \in b .. Top - 1
        PROVE  c + vm[c].Length > Base
    <2>1. c = b \/ b < c
      BY <1>1, <1>3
    <2>2. CASE b < c
      <3>1. b + vm[b].Length <= c
        BY <2>2 DEF Apart
      <3> QED
        BY <3>1, <1>1, <1>3
    <2> QED
      BY <2>1, <2>2, <1>3
  <1> QED
    BY <1>2, <1>3 DEF Visited

\* The fields of the parts before and after a range.
LEMMA BeforeIs ==
  ASSUME NEW b, NEW e, EntryOK(b, e), NEW Base \in Int, b < Base, Base < b + e.Length
  PROVE  /\ PartOf(b, e, b, Before(e, b, Base))
         /\ Before(e, b, Base).Length = Base - b
         /\ Before(e, b, Base).Prot = e.Prot
  <1>1. /\ b \in Nat /\ e.Length \in Nat /\ e.Offset \in Nat /\ e \in Entries
        /\ e.Resource = NoResource => e.Offset = 0
    BY DEF EntryOK, Entries
  <1>2. Base - b \in Nat \ {0} /\ b - b = 0 /\ b + (Base - b) = Base
    BY <1>1
  <1>3. Before(e, b, Base) \in Entries
    BY <1>1, <1>2 DEF Before, Entries
  <1>4. /\ Before(e, b, Base).Length = Base - b
        /\ Before(e, b, Base).Prot = e.Prot
        /\ Before(e, b, Base).Resource = e.Resource
        /\ Before(e, b, Base).Offset = e.Offset
    BY <1>1 DEF Before, Entries
  <1>5. OffsetAt(e, b - b) = e.Offset
    BY <1>1, <1>2 DEF OffsetAt
  <1> QED
    BY <1>1, <1>2, <1>3, <1>4, <1>5 DEF PartOf

\* The part of a mapping after the range is a part of it.
LEMMA AfterIs ==
  ASSUME NEW b, NEW e, EntryOK(b, e), NEW Top \in Int, b <= Top, Top < b + e.Length
  PROVE  /\ PartOf(b, e, Top, After(e, b, Top))
         /\ After(e, b, Top).Length = b + e.Length - Top
         /\ After(e, b, Top).Prot = e.Prot
  <1>1. b \in Nat /\ e.Length \in Nat /\ e.Offset \in Nat /\ e \in Entries
    BY DEF EntryOK, Entries
  <1>2. b + e.Length - Top \in Nat \ {0} /\ Top - b \in Nat /\ Top + (b + e.Length - Top) = b + e.Length
    BY <1>1
  <1>3. OffsetAt(e, Top - b) \in Nat
    BY <1>1, <1>2 DEF OffsetAt
  <1>4. After(e, b, Top) \in Entries
    BY <1>1, <1>2, <1>3 DEF After, Entries
  <1>5. /\ After(e, b, Top).Length = b + e.Length - Top
        /\ After(e, b, Top).Prot = e.Prot
        /\ After(e, b, Top).Resource = e.Resource
        /\ After(e, b, Top).Offset = OffsetAt(e, Top - b)
    BY <1>1 DEF After, Entries
  <1> QED
    BY <1>1, <1>2, <1>4, <1>5 DEF PartOf

\* The parts that ClearUnsafe leaves of a mapping are those outside the range.
LEMMA ClearParts ==
  ASSUME NEW b, NEW e, EntryOK(b, e), NEW Base \in Int, NEW Top \in Int, Base <= Top,
         b < Top, b + e.Length > Base, NEW f, f = ClearMapping(e, b, Base, Top)
  PROVE  /\ \A x \in DOMAIN f : PartOf(b, e, x, f[x]) /\ f[x].Prot = e.Prot
         /\ \A x \in DOMAIN f : x + f[x].Length <= Base \/ x >= Top
         /\ \A x, y \in DOMAIN f : x < y => x + f[x].Length <= y
         /\ \A p \in Int : b <= p /\ p < b + e.Length =>
              p \in Base .. Top - 1 \/ \E x \in DOMAIN f : x <= p /\ p < x + f[x].Length
  <1>1. b \in Int /\ e.Length \in Int
    BY DEF EntryOK, Entries
  <1>2. DOMAIN f = {y \in {b} : b < Base} \cup {y \in {Top} : b + e.Length > Top}
    BY DEF ClearMapping
  <1>3. b < Base => f[b] = Before(e, b, Base)
    BY <1>2 DEF ClearMapping
  <1>4. b + e.Length > Top => f[Top] = After(e, b, Top)
    BY <1>1, <1>2 DEF ClearMapping
  <1>5. \A x \in DOMAIN f : (x = b /\ b < Base) \/ (x = Top /\ b + e.Length > Top)
    BY <1>2
  <1>6. b < Base => PartOf(b, e, b, f[b]) /\ b \in DOMAIN f /\ f[b].Length = Base - b /\ f[b].Prot = e.Prot
    BY <1>1, <1>2, <1>3, BeforeIs
  <1>7. b + e.Length > Top => /\ PartOf(b, e, Top, f[Top]) /\ Top \in DOMAIN f
                              /\ f[Top].Length = b + e.Length - Top /\ f[Top].Prot = e.Prot
    BY <1>1, <1>2, <1>4, AfterIs
  <1>8. \A x \in DOMAIN f : PartOf(b, e, x, f[x]) /\ f[x].Prot = e.Prot
    BY <1>5, <1>6, <1>7
  <1>9. \A x \in DOMAIN f : x + f[x].Length <= Base \/ x >= Top
    BY <1>1, <1>5, <1>6
  <1>10. \A x, y \in DOMAIN f : x < y => x + f[x].Length <= y
    BY <1>1, <1>5, <1>6
  <1>11. ASSUME NEW p \in Int, b <= p, p < b + e.Length, p \notin Base .. Top - 1
         PROVE  \E x \in DOMAIN f : x <= p /\ p < x + f[x].Length
    <2>1. CASE p < Base
      BY <1>1, <1>6, <1>11, <2>1
    <2>2. CASE p >= Top
      BY <1>1, <1>7, <1>11, <2>2
    <2> QED
      BY <2>1, <2>2, <1>11
  <1> QED
    BY <1>8, <1>9, <1>10, <1>11

\* A part gives its pages the resource and offset the mapping gave them.
LEMMA PartPage ==
  ASSUME NEW b, NEW e, EntryOK(b, e), NEW x, NEW f, PartOf(b, e, x, f), NEW p \in Int, NEW pr
  PROVE  MappedPage(f.Resource, f.Offset + p - x, pr) = MappedPage(e.Resource, e.Offset + p - b, pr)
  <1>1. b \in Int /\ x \in Int /\ e.Offset \in Int
    BY DEF EntryOK, Entries, PartOf
  <1>2. f.Resource = e.Resource /\ f.Offset = OffsetAt(e, x - b)
    BY DEF PartOf
  <1>3. CASE e.Resource = NoResource
    BY <1>2, <1>3 DEF MappedPage
  <1>4. CASE e.Resource # NoResource
    <2>1. f.Offset + p - x = e.Offset + p - b
      BY <1>1, <1>2, <1>4 DEF OffsetAt
    <2> QED
      BY <1>2, <2>1
  <1> QED
    BY <1>3, <1>4

\* ClearUnsafe forgets the range and nothing else.
LEMMA ClearSound ==
  ASSUME NEW S, NEW mp, NEW keep, Sound(S, mp, keep),
         NEW Base \in Int, NEW len \in Nat,
         NEW np, np = [p \in PageRange |-> IF p \in Base .. Base + len - 1 THEN Unmapped ELSE mp[p]]
  PROVE  /\ Sound(ClearUnsafe(S, Base, len, keep), np, keep)
         /\ keep \in DOMAIN S.list => keep \in DOMAIN ClearUnsafe(S, Base, len, keep).list
  <1> DEFINE Top == Base + len
             left == [b \in Visited(S.vma, Base, Top) |-> ClearMapping(S.vma[b], b, Base, Top)]
  <1>0. ClearUnsafe(S, Base, len, keep) = Replace(S, left, keep)
    BY DEF ClearUnsafe
  <1>1. Apart(S.vma) /\ Lists(S.vma, S.list, keep) /\ Describes(S.vma, mp)
    BY DEF Sound
  <1>2. DOMAIN left = Visited(S.vma, Base, Top) /\ DOMAIN left \subseteq DOMAIN S.vma
    BY DEF Visited
  <1>3. Top \in Int /\ Base <= Top
    OBVIOUS
  <1>4. ASSUME NEW b \in DOMAIN left
        PROVE  /\ EntryOK(b, S.vma[b]) /\ b < Top /\ b + S.vma[b].Length > Base
               /\ left[b] = ClearMapping(S.vma[b], b, Base, Top)
    BY <1>1, <1>2, <1>3, VisitedIs DEF Apart
  <1>5. \A q \in PageRange : q \in Int
    BY DEF PageRange
  <1> HIDE DEF left, Top
  <1>6. PartsFit(S.vma, left)
    BY <1>2, <1>3, <1>4, ClearParts DEF PartsFit
  <1>7. np = [p \in PageRange |-> np[p]]
    OBVIOUS
  <1>8. \A p \in PageRange : np[p] = IF p \in Base .. Top - 1 THEN Unmapped ELSE mp[p]
    BY DEF Top
  <1>9. ASSUME NEW b \in DOMAIN left, NEW x \in DOMAIN left[b], NEW p \in PageRange,
               x <= p, p < x + left[b][x].Length
        PROVE  np[p] = MappedPage(left[b][x].Resource, left[b][x].Offset + p - x, left[b][x].Prot)
    <2>1. /\ PartOf(b, S.vma[b], x, left[b][x]) /\ left[b][x].Prot = S.vma[b].Prot
          /\ x + left[b][x].Length <= Base \/ x >= Top
      BY <1>3, <1>4, ClearParts
    <2>2. /\ p \in Int /\ b \in DOMAIN S.vma /\ b <= x /\ x + left[b][x].Length <= b + S.vma[b].Length
          /\ x \in Int /\ left[b][x].Length \in Int /\ b \in Int /\ S.vma[b].Length \in Int
      BY <1>1, <1>2, <1>5, <1>6, PartHeld
    <2>3. p \notin Base .. Top - 1
      BY <1>3, <1>9, <2>1, <2>2
    <2>4. Holds(S.vma, b, p)
      BY <1>9, <2>2 DEF Holds
    <2>5. mp[p] = MappedPage(S.vma[b].Resource, S.vma[b].Offset + p - b, S.vma[b].Prot)
      BY <1>1, <2>2, <2>4 DEF Describes
    <2> QED
      BY <1>4, <1>8, <2>1, <2>2, <2>3, <2>5, PartPage
  <1>10. ASSUME NEW b \in DOMAIN left, NEW p \in PageRange, Holds(S.vma, b, p), np[p] # Unmapped
         PROVE  \E x \in DOMAIN left[b] : x <= p /\ p < x + left[b][x].Length
    <2>1. p \notin Base .. Top - 1 /\ p \in Int
      BY <1>5, <1>8, <1>10
    <2> QED
      BY <1>3, <1>4, <1>10, <2>1, ClearParts DEF Holds
  <1>11. ASSUME NEW b \in DOMAIN S.vma \ DOMAIN left, NEW p \in PageRange, Holds(S.vma, b, p)
         PROVE  np[p] = mp[p]
    <2>1. ~(b < Top /\ b + S.vma[b].Length > Base)
      BY <1>1, <1>2, <1>3, VisitedIs
    <2>2. b \in Int /\ S.vma[b].Length \in Int /\ p \in Int
      BY <1>1, <1>5 DEF Apart, EntryOK, Entries
    <2>3. p \notin Base .. Top - 1
      BY <1>3, <1>11, <2>1, <2>2 DEF Holds
    <2> QED
      BY <1>8, <2>3
  <1>12. \A p \in PageRange : mp[p] = Unmapped => np[p] = Unmapped
    BY <1>8
  <1>13. Describes(Replace(S, left, keep).vma, np)
    <2>1. Reflects(S.vma, left, mp, np)
      BY <1>7, <1>9, <1>10, <1>11, <1>12 DEF Reflects
    <2> QED
      BY <1>1, <1>6, <2>1, ReplaceDescribes
  <1>14. Apart(Replace(S, left, keep).vma)
    BY <1>1, <1>6, ReplaceApart
  <1>15. /\ Lists(Replace(S, left, keep).vma, Replace(S, left, keep).list, keep)
         /\ keep \in DOMAIN S.list => keep \in DOMAIN Replace(S, left, keep).list
    BY <1>1, <1>6, ReplaceLists
  <1> QED
    BY <1>0, <1>13, <1>14, <1>15 DEF Sound

\* SetUnsafe tracks the new mapping in place of what was in its range.
LEMMA SetSound ==
  ASSUME NEW S, NEW mp, NEW r, Sound(S, mp, r), r = NoResource \/ r \in DOMAIN S.list,
         NEW Base \in Int, NEW o, NEW len \in Nat, NEW pr, EntryOK(Base, Entry(r, o, len, pr)),
         NEW np, np = [p \in PageRange |->
                         IF p \in Base .. Base + len - 1 THEN MappedPage(r, o + p - Base, pr) ELSE mp[p]]
  PROVE  Sound(SetUnsafe(S, r, Base, o, len, pr), np, NoResource)
  <1> DEFINE T == ClearUnsafe(S, Base, len, r)
             cp == [p \in PageRange |-> IF p \in Base .. Base + len - 1 THEN Unmapped ELSE mp[p]]
             E == Entry(r, o, len, pr)
             vm == Emplace(T.vma, Base, E)
             ls == ListAdd(T.list, r, Base)
  <1>1. Sound(T, cp, r) /\ (r = NoResource \/ r \in DOMAIN T.list)
    BY ClearSound
  <1>2. SetUnsafe(S, r, Base, o, len, pr) = [vma |-> vm, list |-> ls]
    BY DEF SetUnsafe
  <1>3. \A p \in PageRange : p \in Base .. Base + len - 1 => cp[p] = Unmapped
    OBVIOUS
  <1>4. \A p \in PageRange : p \notin Base .. Base + len - 1 => cp[p] = mp[p]
    OBVIOUS
  <1>5. E \in Entries /\ E.Resource = r /\ E.Offset = o /\ E.Length = len /\ E.Prot = pr /\ Base \in Nat
        /\ Base + len <= PageCount /\ len > 0
    BY DEF EntryOK, Entry, Entries
  <1>6. EntryOK(Base, E)
    OBVIOUS
  <1> HIDE DEF T, cp, E
  <1>7. Apart(T.vma) /\ Lists(T.vma, T.list, r) /\ Describes(T.vma, cp)
    BY <1>1 DEF Sound
  <1>8. \A b \in DOMAIN T.vma : b \in Nat /\ T.vma[b].Length \in Nat /\ T.vma[b].Length > 0
                                /\ b + T.vma[b].Length <= PageCount
    BY <1>7 DEF Apart, EntryOK, Entries
  <1>9. ASSUME NEW b \in DOMAIN T.vma, NEW p \in PageRange, p \in Base .. Base + len - 1
        PROVE  ~Holds(T.vma, b, p)
    <2>1. SUFFICES ASSUME Holds(T.vma, b, p) PROVE FALSE
      OBVIOUS
    <2>2. Unmapped = MappedPage(T.vma[b].Resource, T.vma[b].Offset + p - b, T.vma[b].Prot)
      BY <1>3, <1>7, <1>9, <2>1 DEF Describes
    <2>3. T.vma[b].Prot \in {"R", "RW"}
      BY <1>7 DEF Apart, EntryOK, Entries
    <2>4. T.vma[b].Prot = "none"
      BY <2>2 DEF Unmapped, MappedPage
    <2> QED
      BY <2>3, <2>4
  <1>10. ASSUME NEW b \in DOMAIN T.vma
         PROVE  b + T.vma[b].Length <= Base \/ Base + len <= b
    <2>1. PageCount \in Int
      BY SizeAssumption
    <2>2. CASE b <= Base
      <3>1. Base \in PageRange /\ Base \in Base .. Base + len - 1
        BY <1>5, <2>1 DEF PageRange
      <3>2. ~Holds(T.vma, b, Base)
        BY <1>9, <3>1
      <3> QED
        BY <1>8, <2>2, <3>2 DEF Holds
    <2>3. CASE Base < b /\ b < Base + len
      <3>1. b \in PageRange /\ b \in Base .. Base + len - 1
        BY <1>8, <2>1, <2>3 DEF PageRange
      <3>2. ~Holds(T.vma, b, b)
        BY <1>9, <3>1
      <3> QED
        BY <1>8, <3>2 DEF Holds
    <2> QED
      BY <1>8, <2>2, <2>3
  <1>11. Base \notin DOMAIN T.vma
    BY <1>5, <1>8, <1>10
  <1>12. /\ DOMAIN vm = DOMAIN T.vma \cup {Base}
         /\ vm[Base] = E
         /\ \A b \in DOMAIN T.vma : vm[b] = T.vma[b]
    BY <1>11 DEF Emplace
  <1> HIDE DEF vm
  <1>13. Apart(vm)
    <2>1. \A b \in DOMAIN vm : EntryOK(b, vm[b])
      BY <1>6, <1>7, <1>12 DEF Apart
    <2>2. ASSUME NEW b \in DOMAIN vm, NEW c \in DOMAIN vm, b < c
          PROVE  b + vm[b].Length <= c
      <3>1. CASE b = Base /\ c = Base
        BY <2>2, <3>1
      <3>2. CASE b = Base /\ c # Base
        <4>1. c + T.vma[c].Length <= Base \/ Base + len <= c
          BY <1>10, <1>12, <3>2
        <4> QED
          BY <1>5, <1>8, <1>12, <2>2, <3>2, <4>1
      <3>3. CASE b # Base /\ c = Base
        <4>1. b + T.vma[b].Length <= Base \/ Base + len <= b
          BY <1>10, <1>12, <3>3
        <4> QED
          BY <1>5, <1>8, <1>12, <2>2, <3>3, <4>1
      <3>4. CASE b # Base /\ c # Base
        BY <1>7, <1>12, <2>2, <3>4 DEF Apart
      <3> QED
        BY <3>1, <3>2, <3>3, <3>4
    <2> QED
      BY <2>1, <2>2 DEF Apart
  <1>14. Lists(vm, ls, NoResource)
    <2>1. CASE r = NoResource
      <3>1. ls = T.list
        BY <2>1 DEF ListAdd
      <3>2. \A q \in DOMAIN T.list : q \in Resources /\ q # r
        BY <1>7, <2>1, ResourceAssumption DEF Lists
      <3>3. \A q \in DOMAIN T.list : T.list[q] = {b \in DOMAIN vm : vm[b].Resource = q}
        BY <1>5, <1>7, <1>12, <3>2 DEF Lists
      <3>4. \A q \in DOMAIN T.list : T.list[q] # {}
        BY <1>7, <3>2 DEF Lists
      <3>5. \A b \in DOMAIN vm : vm[b].Resource = NoResource \/ vm[b].Resource \in DOMAIN T.list
        BY <1>5, <1>7, <1>12, <2>1 DEF Lists
      <3> QED
        BY <3>1, <3>2, <3>3, <3>4, <3>5 DEF Lists
    <2>2. CASE r # NoResource
      <3>0. r \in DOMAIN T.list
        BY <1>1, <2>2
      <3>1. /\ DOMAIN ls = DOMAIN T.list
            /\ ls[r] = T.list[r] \cup {Base}
            /\ \A q \in DOMAIN T.list : q # r => ls[q] = T.list[q]
        BY <2>2, <3>0 DEF ListAdd
      <3> HIDE DEF ls
      <3>2. DOMAIN ls \subseteq Resources
        BY <1>7, <3>1 DEF Lists
      <3>3. ASSUME NEW q \in DOMAIN ls PROVE ls[q] = {b \in DOMAIN vm : vm[b].Resource = q}
        <4>1. T.list[q] = {b \in DOMAIN T.vma : T.vma[b].Resource = q}
          BY <1>7, <3>1 DEF Lists
        <4>2. CASE q = r
          BY <1>5, <1>12, <3>1, <4>1, <4>2
        <4>3. CASE q # r
          BY <1>5, <1>12, <3>1, <4>1, <4>3
        <4> QED
          BY <4>2, <4>3
      <3>4. \A q \in DOMAIN ls : ls[q] # {}
        BY <1>7, <3>1 DEF Lists
      <3>5. \A b \in DOMAIN vm : vm[b].Resource = NoResource \/ vm[b].Resource \in DOMAIN ls
        BY <1>5, <1>7, <1>12, <3>0, <3>1 DEF Lists
      <3> QED
        BY <3>2, <3>3, <3>4, <3>5 DEF Lists
    <2> QED
      BY <2>1, <2>2
  <1>15. Describes(vm, np)
    <2>1. \A p \in PageRange : p \in Int
      BY DEF PageRange
    <2>2. ASSUME NEW b \in DOMAIN vm, NEW p \in PageRange, Holds(vm, b, p)
          PROVE  np[p] = MappedPage(vm[b].Resource, vm[b].Offset + p - b, vm[b].Prot)
      <3>1. CASE b = Base
        <4>1. p \in Base .. Base + len - 1
          BY <1>5, <1>12, <2>1, <2>2, <3>1 DEF Holds
        <4> QED
          BY <1>5, <1>12, <3>1, <4>1
      <3>2. CASE b # Base
        <4>1. b \in DOMAIN T.vma /\ vm[b] = T.vma[b] /\ Holds(T.vma, b, p)
          BY <1>12, <2>2, <3>2 DEF Holds
        <4>2. p \notin Base .. Base + len - 1
          BY <1>9, <4>1
        <4> QED
          BY <1>4, <1>7, <4>1, <4>2 DEF Describes
      <3> QED
        BY <3>1, <3>2
    <2>3. ASSUME NEW p \in PageRange, np[p] # Unmapped
          PROVE  \E b \in DOMAIN vm : Holds(vm, b, p)
      <3>1. CASE p \in Base .. Base + len - 1
        <4>1. Holds(vm, Base, p)
          BY <1>5, <1>12, <2>1, <3>1 DEF Holds
        <4> QED
          BY <1>12, <4>1
      <3>2. CASE p \notin Base .. Base + len - 1
        <4>1. PICK b \in DOMAIN T.vma : Holds(T.vma, b, p)
          BY <1>4, <1>7, <2>3, <3>2 DEF Describes
        <4> QED
          BY <1>12, <4>1 DEF Holds
      <3> QED
        BY <3>1, <3>2
    <2>4. np = [p \in PageRange |-> np[p]]
      OBVIOUS
    <2> QED
      BY <2>2, <2>3, <2>4 DEF Describes
  <1> QED
    BY <1>2, <1>13, <1>14, <1>15 DEF Sound

\* The part of e that starts at x and has n pages, with a new protection.
Changed(e, b, x, n, pr) == [e EXCEPT !.Offset = OffsetAt(e, x - b), !.Length = n, !.Prot = pr]

\* The fields of the part whose protection changes.
LEMMA ChangedIs ==
  ASSUME NEW b, NEW e, EntryOK(b, e), NEW x \in Int, NEW n \in Nat \ {0}, NEW NewProt \in {"R", "RW"},
         b <= x, x + n <= b + e.Length,
         NEW f, f = Changed(e, b, x, n, NewProt)
  PROVE  PartOf(b, e, x, f) /\ f.Length = n /\ f.Prot = NewProt
  <1>1. b \in Nat /\ e.Length \in Nat /\ e.Offset \in Nat /\ e \in Entries /\ x - b \in Nat
    BY DEF EntryOK, Entries
  <1>2. OffsetAt(e, x - b) \in Nat
    BY <1>1 DEF OffsetAt
  <1>3. f \in Entries
    BY <1>1, <1>2 DEF Changed, Entries
  <1>4. f.Length = n /\ f.Prot = NewProt /\ f.Resource = e.Resource /\ f.Offset = OffsetAt(e, x - b)
    BY <1>1 DEF Changed, Entries
  <1> QED
    BY <1>3, <1>4 DEF PartOf

\* The parts that ChangeUnsafe makes of a mapping cover it, and have the new
\* protection inside the range and the old one outside.
LEMMA ChangeParts ==
  ASSUME NEW b, NEW e, EntryOK(b, e), NEW Base \in Int, NEW Top \in Int, Base < Top,
         b < Top, b + e.Length > Base, NEW NewProt \in {"R", "RW"},
         ~(b < Base /\ b + e.Length < Top /\ e.Prot # NewProt),
         NEW f, f = ChangeMapping(e, b, Base, Top, NewProt)
  PROVE  /\ \A x \in DOMAIN f : PartOf(b, e, x, f[x])
         /\ \A x, y \in DOMAIN f : x < y => x + f[x].Length <= y
         /\ \A x \in DOMAIN f : \A p \in Int : x <= p /\ p < x + f[x].Length =>
              f[x].Prot = IF p \in Base .. Top - 1 THEN NewProt ELSE e.Prot
         /\ \A p \in Int : b <= p /\ p < b + e.Length =>
              \E x \in DOMAIN f : x <= p /\ p < x + f[x].Length
  <1>1. /\ b \in Nat /\ e.Length \in Nat /\ e.Offset \in Nat /\ e.Length > 0 /\ e \in Entries
        /\ e.Resource = NoResource => e.Offset = 0
    BY DEF EntryOK, Entries
  <1>2. b - b = 0 /\ OffsetAt(e, b - b) = e.Offset
    BY <1>1 DEF OffsetAt
  <1>3. CASE e.Prot = NewProt
    <2>1. f = [x \in {b} |-> e]
      BY <1>3 DEF ChangeMapping
    <2>2. PartOf(b, e, b, e)
      BY <1>1, <1>2 DEF PartOf
    <2> QED
      BY <1>1, <1>3, <2>1, <2>2
  <1>4. CASE e.Prot # NewProt /\ b < Base
    <2> DEFINE mid == [e EXCEPT !.Offset = OffsetAt(e, Base - b), !.Length = Top - Base, !.Prot = NewProt]
               T == [x \in {b, Base} |-> IF x = b THEN Before(e, b, Base) ELSE mid]
    <2>1. ChangeFirst(e, b, Base, Top, NewProt) = T
      BY <1>4 DEF ChangeFirst
    <2>2. b + e.Length >= Top /\ Top - Base \in Nat \ {0} /\ Base + (Top - Base) <= b + e.Length
      BY <1>1, <1>4
    <2>3. PartOf(b, e, Base, mid) /\ mid.Length = Top - Base /\ mid.Prot = NewProt
      <3>1. mid = Changed(e, b, Base, Top - Base, NewProt)
        BY DEF Changed
      <3> HIDE DEF mid
      <3> QED
        BY <1>1, <1>4, <2>2, <3>1, ChangedIs
    <2>4. /\ PartOf(b, e, b, Before(e, b, Base))
          /\ Before(e, b, Base).Length = Base - b /\ Before(e, b, Base).Prot = e.Prot
      BY <1>4, BeforeIs
    <2>5. T[b] = Before(e, b, Base) /\ T[Base] = mid /\ DOMAIN T = {b, Base}
      BY <1>1, <1>4
    <2>6. [mid EXCEPT !.Length = Top - Base] = mid
      <3>1. mid \in Entries
        BY <2>3 DEF PartOf
      <3> QED
        BY <3>1, <2>3 DEF Entries
    <2> HIDE DEF mid, T
    <2>7. CASE b + e.Length <= Top
      <3>1. f = T
        BY <1>4, <2>1, <2>7 DEF ChangeMapping
      <3> QED
        BY <1>1, <1>4, <2>2, <2>3, <2>4, <2>5, <2>7, <3>1
    <2>8. CASE ~(b + e.Length <= Top)
      <3>1. f = [x \in DOMAIN T \cup {Top} |->
                   IF x = Top THEN After(e, b, Top)
                   ELSE IF x = Base THEN [T[x] EXCEPT !.Length = Top - x]
                   ELSE T[x]]
        BY <1>4, <2>1, <2>8 DEF ChangeMapping
      <3>2. /\ PartOf(b, e, Top, After(e, b, Top))
            /\ After(e, b, Top).Length = b + e.Length - Top /\ After(e, b, Top).Prot = e.Prot
        BY <1>1, <2>8, AfterIs
      <3>3. b # Top /\ Base # Top /\ b # Base
        BY <1>1, <1>4
      <3>4. DOMAIN f = {b, Base, Top}
        BY <2>5, <3>1
      <3>5. f[b] = Before(e, b, Base)
        BY <2>5, <3>1, <3>3
      <3>6. f[Base] = mid
        BY <2>5, <2>6, <3>1, <3>3
      <3>7. f[Top] = After(e, b, Top)
        BY <3>1
      <3> QED
        BY <1>1, <1>4, <2>2, <2>3, <2>4, <2>8, <3>2, <3>4, <3>5, <3>6, <3>7
    <2> QED
      BY <2>7, <2>8
  <1>5. CASE e.Prot # NewProt /\ ~(b < Base)
    <2> DEFINE mid == [e EXCEPT !.Prot = NewProt]
    <2>1. ChangeFirst(e, b, Base, Top, NewProt) = [x \in {b} |-> mid]
      BY <1>5 DEF ChangeFirst
    <2>2. mid \in Entries /\ mid.Prot = NewProt /\ mid.Length = e.Length /\ mid.Resource = e.Resource /\ mid.Offset = e.Offset
      BY <1>1 DEF Entries
    <2> HIDE DEF mid
    <2>3. CASE b + e.Length <= Top
      <3>1. f = [x \in {b} |-> mid]
        BY <1>5, <2>1, <2>3 DEF ChangeMapping
      <3>2. PartOf(b, e, b, mid)
        BY <1>1, <1>2, <2>2 DEF PartOf
      <3> QED
        BY <1>1, <1>5, <2>2, <2>3, <3>1, <3>2
    <2>4. CASE ~(b + e.Length <= Top)
      <3> DEFINE cut == [mid EXCEPT !.Length = Top - b]
                 T == [x \in {b} |-> mid]
      <3>1. f = [x \in DOMAIN T \cup {Top} |->
                   IF x = Top THEN After(e, b, Top)
                   ELSE IF x = b THEN [T[x] EXCEPT !.Length = Top - x]
                   ELSE T[x]]
        BY <1>5, <2>1, <2>4 DEF ChangeMapping
      <3>2. /\ PartOf(b, e, Top, After(e, b, Top))
            /\ After(e, b, Top).Length = b + e.Length - Top /\ After(e, b, Top).Prot = e.Prot
        BY <1>1, <2>4, AfterIs
      <3>3. b # Top /\ Top - b \in Nat \ {0}
        BY <1>1
      <3>4. DOMAIN f = {b, Top} /\ f[b] = cut /\ f[Top] = After(e, b, Top)
        BY <3>1, <3>3
      <3>5. cut \in Entries /\ cut.Prot = NewProt /\ cut.Length = Top - b /\ cut.Resource = e.Resource /\ cut.Offset = e.Offset
        BY <2>2, <3>3 DEF Entries
      <3> HIDE DEF cut
      <3>6. PartOf(b, e, b, cut)
        BY <1>1, <1>2, <2>4, <3>5 DEF PartOf
      <3> QED
        BY <1>1, <1>5, <2>4, <3>2, <3>4, <3>5, <3>6
    <2> QED
      BY <2>3, <2>4
  <1> QED
    BY <1>3, <1>4, <1>5

\* mp after an mprotect of the range.
Reprotected(mp, Base, len, pr) ==
    [p \in PageRange |-> IF p \in Base .. Base + len - 1 THEN [mp[p] EXCEPT !.prot = pr] ELSE mp[p]]

\* ChangeUnsafe changes the protection of the range and nothing else.
LEMMA ChangeSound ==
  ASSUME NEW S, NEW mp, Sound(S, mp, NoResource),
         NEW Base \in Int, NEW len \in Nat \ {0}, NEW pr \in {"R", "RW"},
         \A b \in DOMAIN S.vma :
            ~(b < Base /\ b + S.vma[b].Length \in Base + 1 .. Base + len - 1 /\ S.vma[b].Prot # pr),
         \A p \in PageRange : p \in Base .. Base + len - 1 => mp[p] # Unmapped,
         NEW np, np = Reprotected(mp, Base, len, pr)
  PROVE  Sound(ChangeUnsafe(S, Base, len, pr), np, NoResource)
  <1> DEFINE Top == Base + len
             left == [b \in Visited(S.vma, Base, Top) |-> ChangeMapping(S.vma[b], b, Base, Top, pr)]
  <1>0. ChangeUnsafe(S, Base, len, pr) = Replace(S, left, NoResource)
    BY DEF ChangeUnsafe
  <1>1. Apart(S.vma) /\ Lists(S.vma, S.list, NoResource) /\ Describes(S.vma, mp)
    BY DEF Sound
  <1>2. DOMAIN left = Visited(S.vma, Base, Top) /\ DOMAIN left \subseteq DOMAIN S.vma
    BY DEF Visited
  <1>3. Top \in Int /\ Base < Top
    OBVIOUS
  <1>4. ASSUME NEW b \in DOMAIN left
        PROVE  /\ EntryOK(b, S.vma[b]) /\ b < Top /\ b + S.vma[b].Length > Base
               /\ left[b] = ChangeMapping(S.vma[b], b, Base, Top, pr)
               /\ ~(b < Base /\ b + S.vma[b].Length < Top /\ S.vma[b].Prot # pr)
    <2>1. EntryOK(b, S.vma[b]) /\ b < Top /\ b + S.vma[b].Length > Base
      BY <1>1, <1>2, <1>3, VisitedIs DEF Apart
    <2>2. left[b] = ChangeMapping(S.vma[b], b, Base, Top, pr)
      BY <1>2
    <2>3. b \in Int /\ S.vma[b].Length \in Int
      BY <2>1 DEF EntryOK, Entries
    <2>4. b < Base /\ b + S.vma[b].Length < Top => b + S.vma[b].Length \in Base + 1 .. Base + len - 1
      BY <2>1, <2>3
    <2> QED
      BY <1>2, <2>1, <2>2, <2>4
  <1>5. \A q \in PageRange : q \in Int
    BY DEF PageRange
  <1>6. \A p \in PageRange : np[p] = IF p \in Base .. Top - 1 THEN [mp[p] EXCEPT !.prot = pr] ELSE mp[p]
    BY DEF Reprotected
  <1> HIDE DEF left, Top
  <1>7. PartsFit(S.vma, left)
    <2>1. ASSUME NEW b \in DOMAIN left
          PROVE  /\ \A x \in DOMAIN left[b] : PartOf(b, S.vma[b], x, left[b][x])
                 /\ \A x, y \in DOMAIN left[b] : x < y => x + left[b][x].Length <= y
      BY <1>3, <1>4, ChangeParts
    <2> QED
      BY <1>2, <2>1 DEF PartsFit
  <1>8. ASSUME NEW b \in DOMAIN left, NEW p \in PageRange, Holds(S.vma, b, p)
        PROVE  np[p] = MappedPage(S.vma[b].Resource, S.vma[b].Offset + p - b,
                                  IF p \in Base .. Top - 1 THEN pr ELSE S.vma[b].Prot)
    <2>1. mp[p] = MappedPage(S.vma[b].Resource, S.vma[b].Offset + p - b, S.vma[b].Prot)
      BY <1>1, <1>2, <1>8 DEF Describes
    <2>2. [mp[p] EXCEPT !.prot = pr] = MappedPage(S.vma[b].Resource, S.vma[b].Offset + p - b, pr)
      BY <2>1 DEF MappedPage
    <2>3. np[p] = IF p \in Base .. Top - 1 THEN [mp[p] EXCEPT !.prot = pr] ELSE mp[p]
      BY <1>6
    <2>4. CASE p \in Base .. Top - 1
      BY <2>2, <2>3, <2>4
    <2>5. CASE p \notin Base .. Top - 1
      BY <2>1, <2>3, <2>5
    <2> QED
      BY <2>4, <2>5
  <1>9. ASSUME NEW b \in DOMAIN left, NEW x \in DOMAIN left[b], NEW p \in PageRange,
               x <= p, p < x + left[b][x].Length
        PROVE  np[p] = MappedPage(left[b][x].Resource, left[b][x].Offset + p - x, left[b][x].Prot)
    <2>1. /\ PartOf(b, S.vma[b], x, left[b][x])
          /\ left[b][x].Prot = IF p \in Base .. Top - 1 THEN pr ELSE S.vma[b].Prot
      BY <1>3, <1>4, <1>5, <1>9, ChangeParts
    <2>2. /\ p \in Int /\ b \in DOMAIN S.vma /\ b <= x /\ x + left[b][x].Length <= b + S.vma[b].Length
          /\ x \in Int /\ left[b][x].Length \in Int /\ b \in Int /\ S.vma[b].Length \in Int
      BY <1>1, <1>2, <1>5, <1>7, PartHeld
    <2>3. Holds(S.vma, b, p)
      BY <1>9, <2>2 DEF Holds
    <2>4. np[p] = MappedPage(S.vma[b].Resource, S.vma[b].Offset + p - b, left[b][x].Prot)
      BY <1>8, <2>1, <2>3
    <2>5. EntryOK(b, S.vma[b]) /\ PartOf(b, S.vma[b], x, left[b][x]) /\ p \in Int
      BY <1>4, <2>1, <2>2
    <2> QED
      BY <2>4, <2>5, PartPage
  <1>10. ASSUME NEW b \in DOMAIN left, NEW p \in PageRange, Holds(S.vma, b, p)
         PROVE  \/ np[p] = Unmapped
                \/ \E x \in DOMAIN left[b] : x <= p /\ p < x + left[b][x].Length
    BY <1>3, <1>4, <1>5, <1>10, ChangeParts DEF Holds
  <1>11. ASSUME NEW b \in DOMAIN S.vma \ DOMAIN left, NEW p \in PageRange, Holds(S.vma, b, p)
         PROVE  np[p] = mp[p]
    <2>1. ~(b < Top /\ b + S.vma[b].Length > Base)
      BY <1>1, <1>2, <1>3, VisitedIs
    <2>2. b \in Int /\ S.vma[b].Length \in Int /\ p \in Int
      BY <1>1, <1>5 DEF Apart, EntryOK, Entries
    <2>3. p \notin Base .. Top - 1
      BY <1>3, <1>11, <2>1, <2>2 DEF Holds
    <2> QED
      BY <1>6, <2>3
  <1>12. ASSUME NEW p \in PageRange, mp[p] = Unmapped
         PROVE  np[p] = Unmapped
    <2>1. p \notin Base .. Top - 1
      BY <1>12 DEF Top
    <2>2. np[p] = IF p \in Base .. Top - 1 THEN [mp[p] EXCEPT !.prot = pr] ELSE mp[p]
      BY <1>6
    <2> QED
      BY <1>12, <2>1, <2>2
  <1>13. np = [p \in PageRange |-> np[p]]
    BY DEF Reprotected
  <1>14. Describes(Replace(S, left, NoResource).vma, np)
    <2>1. Reflects(S.vma, left, mp, np)
      BY <1>9, <1>10, <1>11, <1>12, <1>13 DEF Reflects
    <2> QED
      BY <1>1, <1>7, <2>1, ReplaceDescribes
  <1>15. Apart(Replace(S, left, NoResource).vma)
    BY <1>1, <1>7, ReplaceApart
  <1>16. Lists(Replace(S, left, NoResource).vma, Replace(S, left, NoResource).list, NoResource)
    BY <1>1, <1>7, ReplaceLists
  <1> QED
    BY <1>0, <1>14, <1>15, <1>16 DEF Sound

-----------------------------------------------------------------------------
(* shmdt *)

\* A non-empty set of naturals has a least element.
LEMMA LeastNatural ==
  ASSUME NEW A, A \subseteq Nat, A # {}
  PROVE  \E m \in A : \A a \in A : m <= a
  <1>1. IsWellFoundedOn(OpToRel(<, Nat), Nat)
    BY NatLessThanWellFounded
  <1>2. PICK m \in A : \A a \in A : ~(<<a, m>> \in OpToRel(<, Nat))
    BY <1>1, WFMin
  <1>3. \A a \in A : a < m => <<a, m>> \in OpToRel(<, Nat)
    BY DEF OpToRel
  <1>4. \A a \in A : ~(a < m)
    BY <1>2, <1>3
  <1> QED
    BY <1>4

\* The mappings left of the segment r attached at Base.
OwnMappings(vm, Base, r) ==
    {b \in DOMAIN vm : b >= Base /\ vm[b].Resource = r /\ vm[b].Offset = b - Base}

\* mp after shmdt of the segment r attached at Base.
Detached(mp, Base, r) ==
    [p \in PageRange |->
       IF p >= Base /\ mp[p].res = r /\ mp[p].off = p - Base THEN Unmapped ELSE mp[p]]

\* A page is the segment's own exactly when its mapping is.
LEMMA OwnPage ==
  ASSUME NEW vm, NEW mp, Apart(vm), Describes(vm, mp), NEW Base \in Int, NEW r \in Resources,
         NEW b \in DOMAIN vm, NEW p \in PageRange, Holds(vm, b, p)
  PROVE  /\ mp[p].res = vm[b].Resource
         /\ mp[p].res = r /\ mp[p].off = p - Base <=> b \in OwnMappings(vm, Base, r)
         /\ b \in OwnMappings(vm, Base, r) => p >= Base
  <1>1. b \in Nat /\ vm[b].Offset \in Nat /\ p \in Int
    BY DEF Apart, EntryOK, Entries, PageRange
  <1>2. mp[p] = MappedPage(vm[b].Resource, vm[b].Offset + p - b, vm[b].Prot)
    BY DEF Describes
  <1>3. mp[p].res = vm[b].Resource
    BY <1>2 DEF MappedPage
  <1>4. vm[b].Resource = r => mp[p].off = vm[b].Offset + p - b
    BY <1>2, ResourceAssumption DEF MappedPage
  <1>5. vm[b].Offset + p - b = p - Base <=> vm[b].Offset = b - Base
    BY <1>1
  <1>6. vm[b].Offset = b - Base => b >= Base
    BY <1>1
  <1>7. b >= Base => p >= Base
    BY <1>1 DEF Holds
  <1> QED
    BY <1>3, <1>4, <1>5, <1>6, <1>7 DEF OwnMappings

\* When every page in the place of the segment is its own or anonymous,
\* ClearShmUnsafe erases the mappings left of the segment and no other.
LEMMA ShmWalkedOwn ==
  ASSUME NEW vm, NEW mp, Apart(vm), Describes(vm, mp),
         NEW Base \in Int, NEW r \in Segments,
         \E p \in PageRange : mp[p].res = r /\ mp[p].off = p - Base,
         \A p \in PageRange \cap (Base .. Base + ResourceLength - 1) :
            mp[p].res \in Segments => mp[p].res = r /\ mp[p].off = p - Base,
         NEW first, first = CHOOSE b \in ShmFirst(vm, Base) : \A c \in ShmFirst(vm, Base) : b <= c
  PROVE  /\ ShmFirst(vm, Base) # {}
         /\ ShmWalked(vm, Base, first) = OwnMappings(vm, Base, r)
  <1>1. r \in Resources /\ r # NoResource /\ ResourceLength \in Nat /\ PageCount \in Nat
    BY ResourceAssumption, SizeAssumption
  <1>2. \A b \in DOMAIN vm : /\ b \in Nat /\ vm[b].Offset \in Nat /\ vm[b].Length \in Nat
                             /\ vm[b].Length > 0 /\ b + vm[b].Length <= PageCount
                             /\ vm[b].Resource # NoResource => vm[b].Offset + vm[b].Length <= ResourceLength
    BY DEF Apart, EntryOK, Entries
  <1>3. \A b \in DOMAIN vm : b \in PageRange /\ Holds(vm, b, b)
    BY <1>1, <1>2 DEF PageRange, Holds
  <1>4. OwnMappings(vm, Base, r) \subseteq ShmFirst(vm, Base)
    BY DEF OwnMappings, ShmFirst
  <1>5. ASSUME NEW b \in DOMAIN vm, b >= Base, b < Base + ResourceLength, vm[b].Resource \in Segments
        PROVE  b \in OwnMappings(vm, Base, r)
    <2>1. mp[b].res = vm[b].Resource
      <3> HIDE DEF Holds
      <3>1. b \in PageRange /\ Holds(vm, b, b)
        BY <1>3
      <3> QED
        BY <1>1, <1>5, <3>1, OwnPage
    <2>2. b \in PageRange \cap (Base .. Base + ResourceLength - 1)
      BY <1>1, <1>2, <1>3, <1>5
    <2>3. mp[b].res = r /\ mp[b].off = b - Base
      BY <1>5, <2>1, <2>2
    <2> QED
      BY <1>1, <1>3, <2>3, OwnPage
  <1>6. ShmFirst(vm, Base) \subseteq OwnMappings(vm, Base, r)
    <2>1. SUFFICES ASSUME NEW b \in ShmFirst(vm, Base) PROVE b \in OwnMappings(vm, Base, r)
      OBVIOUS
    <2>2. b \in DOMAIN vm /\ b >= Base /\ vm[b].Resource \in Segments /\ b - Base = vm[b].Offset
      BY DEF ShmFirst
    <2>3. vm[b].Resource # NoResource
      BY <2>2, ResourceAssumption
    <2>4. b < Base + ResourceLength
      BY <1>1, <1>2, <2>2, <2>3
    <2> QED
      BY <1>5, <2>2, <2>3, <2>4
  <1>7. ShmFirst(vm, Base) # {}
    <2>1. PICK p \in PageRange : mp[p].res = r /\ mp[p].off = p - Base
      OBVIOUS
    <2>2. mp[p] # Unmapped
      BY <1>1, <2>1 DEF Unmapped
    <2>3. PICK b \in DOMAIN vm : Holds(vm, b, p)
      BY <2>2 DEF Describes
    <2>4. b \in OwnMappings(vm, Base, r)
      BY <1>1, <2>1, <2>3, OwnPage
    <2> QED
      BY <1>4, <2>4
  <1>8. first \in ShmFirst(vm, Base) /\ \A c \in ShmFirst(vm, Base) : first <= c
    <2>1. ShmFirst(vm, Base) \subseteq Nat
      BY <1>2 DEF ShmFirst
    <2>2. \E b \in ShmFirst(vm, Base) : \A c \in ShmFirst(vm, Base) : b <= c
      BY <1>7, <2>1, LeastNatural
    <2> QED
      BY <2>2
  <1>9. first \in DOMAIN vm /\ first \in Nat /\ first >= Base /\ vm[first].Resource = r
    BY <1>2, <1>6, <1>8 DEF OwnMappings
  <1>10. ASSUME NEW b \in OwnMappings(vm, Base, r)
         PROVE  b \in ShmWalked(vm, Base, first)
    <2>1. b \in DOMAIN vm /\ b >= first /\ vm[b].Resource = r /\ vm[b].Offset = b - Base
      BY <1>4, <1>8 DEF OwnMappings
    <2>2. b + vm[b].Length - Base <= ResourceLength
      BY <1>1, <1>2, <2>1
    <2>3. ASSUME NEW c \in DOMAIN vm, c \in first + 1 .. b
          PROVE  c + vm[c].Length - Base <= ResourceLength
      <3>1. c = b \/ c < b
        BY <1>2, <1>9, <2>1, <2>3
      <3>2. CASE c < b
        <4>1. c + vm[c].Length <= b
          BY <2>1, <3>2 DEF Apart
        <4> QED
          BY <1>1, <1>2, <2>1, <2>2, <4>1
      <3> QED
        BY <2>2, <3>1, <3>2
    <2> QED
      BY <1>9, <2>1, <2>3 DEF ShmWalked
  <1>11. ASSUME NEW b \in ShmWalked(vm, Base, first)
         PROVE  b \in OwnMappings(vm, Base, r)
    <2>1. b \in DOMAIN vm /\ b >= first /\ vm[b].Resource = r
      BY <1>9 DEF ShmWalked
    <2>2. CASE b = first
      BY <1>6, <1>8, <2>2
    <2>3. CASE b # first
      <3>1. b \in first + 1 .. b
        BY <1>2, <1>9, <2>1, <2>3
      <3>2. b + vm[b].Length - Base <= ResourceLength
        BY <2>1, <3>1 DEF ShmWalked
      <3>3. b >= Base /\ b < Base + ResourceLength
        BY <1>1, <1>2, <1>9, <2>1, <3>2
      <3> QED
        BY <1>1, <1>5, <2>1, <3>3
    <2> QED
      BY <2>2, <2>3
  <1> QED
    BY <1>7, <1>10, <1>11

\* ClearShmUnsafe forgets the segment and nothing else.
LEMMA ShmSound ==
  ASSUME NEW S, NEW mp, Sound(S, mp, NoResource), NEW Base \in Int, NEW r \in Segments,
         \E p \in PageRange : mp[p].res = r /\ mp[p].off = p - Base,
         \A p \in PageRange \cap (Base .. Base + ResourceLength - 1) :
            mp[p].res \in Segments => mp[p].res = r /\ mp[p].off = p - Base,
         NEW np, np = Detached(mp, Base, r)
  PROVE  Sound(ClearShmUnsafe(S, Base), np, NoResource)
  <1> DEFINE first == CHOOSE b \in ShmFirst(S.vma, Base) : \A c \in ShmFirst(S.vma, Base) : b <= c
             own == OwnMappings(S.vma, Base, r)
             left == [b \in own |-> <<>>]
  <1>1. Apart(S.vma) /\ Lists(S.vma, S.list, NoResource) /\ Describes(S.vma, mp)
    BY DEF Sound
  <1>2. ShmFirst(S.vma, Base) # {} /\ ShmWalked(S.vma, Base, first) = own
    BY <1>1, ShmWalkedOwn
  <1>3. ClearShmUnsafe(S, Base) = Replace(S, left, NoResource)
    BY <1>2 DEF ClearShmUnsafe
  <1>4. DOMAIN left = own /\ own \subseteq DOMAIN S.vma
    BY DEF OwnMappings
  <1>5. \A b \in DOMAIN left : DOMAIN left[b] = {}
    OBVIOUS
  <1>6. r \in Resources
    BY ResourceAssumption
  <1>7. \A p \in PageRange :
           np[p] = IF p >= Base /\ mp[p].res = r /\ mp[p].off = p - Base THEN Unmapped ELSE mp[p]
    BY DEF Detached
  <1>8. np = [p \in PageRange |-> np[p]]
    BY DEF Detached
  <1> HIDE DEF left, own
  <1>9. PartsFit(S.vma, left)
    BY <1>4, <1>5 DEF PartsFit
  <1>10. ASSUME NEW b \in DOMAIN left, NEW p \in PageRange, Holds(S.vma, b, p)
         PROVE  np[p] = Unmapped
    <2>1. mp[p].res = r /\ mp[p].off = p - Base /\ p >= Base
      BY <1>1, <1>4, <1>6, <1>10, OwnPage DEF own
    <2> QED
      BY <1>7, <2>1
  <1>11. ASSUME NEW b \in DOMAIN S.vma \ DOMAIN left, NEW p \in PageRange, Holds(S.vma, b, p)
         PROVE  np[p] = mp[p]
    <2>1. ~(mp[p].res = r /\ mp[p].off = p - Base)
      BY <1>1, <1>4, <1>6, <1>11, OwnPage DEF own
    <2> QED
      BY <1>7, <2>1
  <1>12. \A p \in PageRange : mp[p] = Unmapped => np[p] = Unmapped
    BY <1>7
  <1>13. Reflects(S.vma, left, mp, np)
    BY <1>5, <1>8, <1>10, <1>11, <1>12 DEF Reflects
  <1>14. Describes(Replace(S, left, NoResource).vma, np)
    BY <1>1, <1>9, <1>13, ReplaceDescribes
  <1>15. Apart(Replace(S, left, NoResource).vma)
    BY <1>1, <1>9, ReplaceApart
  <1>16. Lists(Replace(S, left, NoResource).vma, Replace(S, left, NoResource).list, NoResource)
    BY <1>1, <1>9, ReplaceLists
  <1> QED
    BY <1>3, <1>14, <1>15, <1>16 DEF Sound

-----------------------------------------------------------------------------
(* The system calls *)

\* The inductive invariant: the mappings are sound and apart, the lists are
\* exact, and both describe the guest's address space.
TrackInv == Sound(Tracker, map, NoResource)

\* What the tracker is made of.
LEMMA TrackerIs == Tracker.vma = VMAs /\ Tracker.list = MappedResources
  BY DEF Tracker

\* A step that applies a sound tracker for the next address space keeps the
\* invariant.
LEMMA ApplySound ==
  ASSUME NEW S, Apply(S), Sound(S, map', NoResource)
  PROVE  TrackInv'
  BY DEF Apply, Sound, TrackInv, Tracker

\* A list that no one preserves is not empty, so preserving one more is sound.
LEMMA KeepAny ==
  ASSUME NEW S, NEW mp, Sound(S, mp, NoResource), NEW r
  PROVE  Sound(S, mp, r)
  BY ResourceAssumption DEF Sound, Lists

\* The empty tracker describes the empty address space.
LEMMA TrackInvInit == TrackInit => TrackInv
  <1> SUFFICES ASSUME TrackInit PROVE TrackInv
    OBVIOUS
  <1>1. DOMAIN VMAs = {} /\ DOMAIN MappedResources = {}
    BY DEF TrackInit
  <1>2. map = [p \in PageRange |-> Unmapped]
    BY DEF TrackInit, MapInit
  <1>3. Apart(VMAs)
    BY <1>1 DEF Apart
  <1>4. Lists(VMAs, MappedResources, NoResource)
    BY <1>1 DEF Lists
  <1>5. Describes(VMAs, map)
    BY <1>1, <1>2 DEF Describes
  <1> QED
    BY <1>3, <1>4, <1>5, TrackerIs DEF TrackInv, Sound

\* TrackMmap and TrackShmat know the resource before they set the mapping.
LEMMA WithResourceSound ==
  ASSUME TrackInv, NEW r \in Resources \cup {NoResource}
  PROVE  /\ Sound(WithResource(Tracker, r), map, r)
         /\ r = NoResource \/ r \in DOMAIN WithResource(Tracker, r).list
  <1> DEFINE ls == Emplace(MappedResources, r, {})
  <1>1. Apart(VMAs) /\ Lists(VMAs, MappedResources, NoResource) /\ Describes(VMAs, map)
    BY TrackerIs DEF TrackInv, Sound
  <1>2. CASE r = NoResource
    BY <1>2, KeepAny DEF WithResource, TrackInv
  <1>3. CASE r # NoResource
    <2>1. WithResource(Tracker, r).vma = VMAs /\ WithResource(Tracker, r).list = ls
      BY <1>3 DEF WithResource, Tracker
    <2>2. /\ DOMAIN ls = DOMAIN MappedResources \cup {r}
          /\ \A q \in DOMAIN MappedResources : ls[q] = MappedResources[q]
          /\ r \notin DOMAIN MappedResources => ls[r] = {}
      BY DEF Emplace
    <2> HIDE DEF ls
    <2>3. r \notin DOMAIN MappedResources => {b \in DOMAIN VMAs : VMAs[b].Resource = r} = {}
      BY <1>1, <1>3 DEF Lists
    <2>4. \A q \in DOMAIN ls : ls[q] = {b \in DOMAIN VMAs : VMAs[b].Resource = q}
      BY <1>1, <2>2, <2>3 DEF Lists
    <2>5. \A q \in DOMAIN ls : q = r \/ ls[q] # {}
      BY <1>1, <2>2, ResourceAssumption DEF Lists
    <2>6. \A b \in DOMAIN VMAs : VMAs[b].Resource = NoResource \/ VMAs[b].Resource \in DOMAIN ls
      BY <1>1, <2>2 DEF Lists
    <2>7. DOMAIN ls \subseteq Resources
      BY <1>1, <1>3, <2>2 DEF Lists
    <2>8. Lists(VMAs, ls, r)
      BY <2>4, <2>5, <2>6, <2>7 DEF Lists
    <2> QED
      BY <1>1, <2>1, <2>2, <2>8 DEF Sound
  <1> QED
    BY <1>2, <1>3

\* An mmap or shmat sets the mapping it made.
LEMMA SetInv ==
  ASSUME TrackInv, NEW r \in Resources \cup {NoResource}, NEW base \in PageRange, NEW o \in Nat,
         NEW len \in Nat \ {0}, NEW pr \in {"R", "RW"}, base + len <= PageCount,
         r = NoResource => o = 0, r # NoResource => o + len <= ResourceLength,
         Mmap(base, len, r, o, pr),
         Apply(SetUnsafe(WithResource(Tracker, r), r, base, o, len, pr))
  PROVE  TrackInv'
  <1>1. base \in Nat
    BY DEF PageRange
  <1>2. EntryOK(base, Entry(r, o, len, pr))
    BY <1>1 DEF EntryOK, Entry, Entries
  <1>3. Sound(SetUnsafe(WithResource(Tracker, r), r, base, o, len, pr), map', NoResource)
    BY <1>1, <1>2, WithResourceSound, SetSound DEF Mmap
  <1> QED
    BY <1>3, ApplySound

\* mmap of anonymous memory or of a file keeps the invariant.
LEMMA MmapInv ==
  ASSUME TrackInv, NEW r \in Resources \cup {NoResource}, NEW base \in PageRange,
         NEW o \in 0 .. ResourceLength - 1, NEW len \in 1 .. PageCount, NEW pr \in {"R", "RW"},
         base + len <= PageCount, MmapCall(base, len, r, o, pr)
  PROVE  TrackInv'
  <1>1. o \in Nat /\ len \in Nat \ {0}
    BY SizeAssumption
  <1> QED
    BY <1>1, SetInv DEF MmapCall

\* shmat, which maps the whole segment, keeps the invariant.
LEMMA ShmatInv ==
  ASSUME TrackInv, NEW r \in Segments, NEW base \in PageRange, NEW pr \in {"R", "RW"},
         base + ResourceLength <= PageCount, ShmatCall(base, r, pr)
  PROVE  TrackInv'
  <1>1. r \in Resources /\ r # NoResource /\ ResourceLength \in Nat \ {0} /\ 0 + ResourceLength <= ResourceLength
    BY SizeAssumption, ResourceAssumption
  <1> QED
    BY <1>1, SetInv DEF ShmatCall

\* munmap of any range keeps the invariant.
LEMMA MunmapInv ==
  ASSUME TrackInv, NEW base \in PageRange, NEW len \in 1 .. PageCount, MunmapCall(base, len)
  PROVE  TrackInv'
  <1>1. base \in Int /\ len \in Nat
    BY DEF PageRange
  <1>2. Sound(ClearUnsafe(Tracker, base, len, NoResource), map', NoResource)
    BY <1>1, ClearSound DEF TrackInv, MunmapCall, Munmap
  <1> QED
    BY <1>2, ApplySound DEF MunmapCall

\* An mprotect whose range does not end beyond a mapping it splits.
LEMMA MprotectInv ==
  ASSUME ~EndInside, TrackInv, NEW base \in PageRange, NEW len \in 1 .. PageCount,
         NEW pr \in {"R", "RW"}, MprotectCall(base, len, pr)
  PROVE  TrackInv'
  <1>1. base \in Int /\ len \in Nat \ {0}
    BY DEF PageRange
  <1>2. map' = Reprotected(map, base, len, pr)
    BY DEF MprotectCall, Mprotect, Reprotected
  <1>3. \A p \in PageRange : p \in base .. base + len - 1 => map[p] # Unmapped
    BY DEF MprotectCall, Mprotect
  <1>4. \A b \in DOMAIN Tracker.vma :
           ~(b < base /\ b + Tracker.vma[b].Length \in base + 1 .. base + len - 1 /\ Tracker.vma[b].Prot # pr)
    BY TrackerIs DEF MprotectCall, SplitsEnd
  <1>5. Sound(ChangeUnsafe(Tracker, base, len, pr), map', NoResource)
    BY <1>1, <1>2, <1>3, <1>4, ChangeSound DEF TrackInv
  <1> QED
    BY <1>5, ApplySound DEF MprotectCall

\* A shmdt where no other segment lies in the place of the segment.
LEMMA ShmdtInv ==
  ASSUME ~Interleaved, TrackInv, NEW base \in PageRange, NEW r \in Segments, ShmdtCall(base, r)
  PROVE  TrackInv'
  <1>1. base \in Int
    BY DEF PageRange
  <1>2. map' = Detached(map, base, r)
    BY DEF ShmdtCall, Shmdt, Detached
  <1>3. Sound(ClearShmUnsafe(Tracker, base), map', NoResource)
    BY <1>1, <1>2, ShmSound DEF TrackInv, ShmdtCall, OwnPages
  <1> QED
    BY <1>3, ApplySound DEF ShmdtCall

\* An mremap clears the old range, unless it mirrors, and sets the new one.
LEMMA MremapInv ==
  ASSUME TrackInv, NEW old \in PageRange, NEW oldLen \in 0 .. PageCount - old,
         NEW new \in PageRange, NEW newLen \in 1 .. PageCount, new + newLen <= PageCount, NEW keep \in BOOLEAN,
         MremapCall(old, oldLen, new, newLen, keep)
  PROVE  TrackInv'
  <1> DEFINE b == CHOOSE c \in LookupVMAUnsafe(VMAs, old) : TRUE
             e == VMAs[b]
             o == OffsetAt(e, old - b)
             S == IF oldLen = 0 \/ keep THEN Tracker ELSE ClearUnsafe(Tracker, old, oldLen, e.Resource)
             cp == [p \in PageRange |-> IF ~keep /\ p \in old .. old + oldLen - 1 THEN Unmapped ELSE map[p]]
  <1>1. Apart(VMAs) /\ Lists(VMAs, MappedResources, NoResource) /\ Describes(VMAs, map)
    BY TrackerIs DEF TrackInv, Sound
  <1>2. /\ old \in Nat /\ oldLen \in Nat /\ new \in Nat /\ newLen \in Nat \ {0} /\ PageCount \in Nat
        /\ ResourceLength \in Nat
    BY SizeAssumption DEF PageRange
  <1>3. /\ map[old] # Unmapped
        /\ map[old].res # NoResource => map[old].off + newLen <= ResourceLength
        /\ Apply(SetUnsafe(S, e.Resource, new, o, newLen, e.Prot))
    BY DEF MremapCall, Mremap, Uniform
  <1>4. map' = [p \in PageRange |->
                 IF p \in new .. new + newLen - 1
                 THEN MappedPage(map[old].res, map[old].off + p - new, map[old].prot)
                 ELSE IF ~keep /\ p \in old .. old + oldLen - 1 THEN Unmapped ELSE map[p]]
    BY DEF MremapCall, Mremap
  <1>5. b \in DOMAIN VMAs /\ Holds(VMAs, b, old)
    <2>1. PICK c \in DOMAIN VMAs : Holds(VMAs, c, old)
      BY <1>1, <1>3 DEF Describes
    <2>2. c \in Nat /\ VMAs[c].Length \in Nat
      BY <1>1 DEF Apart, EntryOK, Entries
    <2>3. c \in LookupVMAUnsafe(VMAs, old)
      BY <1>2, <2>1, <2>2 DEF LookupVMAUnsafe, Holds
    <2>4. b \in LookupVMAUnsafe(VMAs, old)
      BY <2>3
    <2> HIDE DEF b
    <2>5. b \in DOMAIN VMAs
      BY <2>4 DEF LookupVMAUnsafe
    <2>6. b \in Nat /\ VMAs[b].Length \in Nat
      BY <1>1, <2>5 DEF Apart, EntryOK, Entries
    <2> QED
      BY <1>2, <2>4, <2>6 DEF LookupVMAUnsafe, Holds
  <1> HIDE DEF b
  <1>6. /\ b \in Nat /\ e \in Entries /\ e.Offset \in Nat /\ e.Length \in Nat /\ b <= old
        /\ e.Resource \in Resources \cup {NoResource} /\ e.Prot \in {"R", "RW"}
        /\ e.Resource = NoResource => e.Offset = 0
    BY <1>1, <1>5 DEF Apart, EntryOK, Entries, Holds
  <1>7. map[old] = MappedPage(e.Resource, e.Offset + old - b, e.Prot)
    BY <1>1, <1>5 DEF Describes
  <1>8. map[old].res = e.Resource /\ map[old].prot = e.Prot
    BY <1>7 DEF MappedPage
  <1>9. map[old].off = o /\ o \in Nat
    <2>1. CASE e.Resource = NoResource
      BY <1>7, <2>1 DEF MappedPage, OffsetAt
    <2>2. CASE e.Resource # NoResource
      <3>1. map[old].off = e.Offset + old - b
        BY <1>7, <2>2 DEF MappedPage
      <3>2. o = e.Offset + (old - b)
        BY <2>2 DEF OffsetAt
      <3> QED
        BY <1>2, <1>6, <3>1, <3>2
    <2> QED
      BY <2>1, <2>2
  <1>10. Sound(Tracker, map, e.Resource) /\ (e.Resource = NoResource \/ e.Resource \in DOMAIN Tracker.list)
    BY <1>1, <1>5, KeepAny, TrackerIs DEF TrackInv, Lists
  <1> HIDE DEF e, o
  <1>11. Sound(S, cp, e.Resource) /\ (e.Resource = NoResource \/ e.Resource \in DOMAIN S.list)
    <2>1. CASE oldLen = 0 \/ keep
      <3>1. ~\E p \in PageRange : ~keep /\ p \in old .. old + oldLen - 1
        BY <1>2, <2>1
      <3>2. map = [p \in PageRange |-> map[p]]
        BY <1>1 DEF Describes
      <3>3. cp = map
        BY <3>1, <3>2
      <3> QED
        BY <1>10, <2>1, <3>3
    <2>2. CASE oldLen # 0 /\ ~keep
      BY <1>2, <1>10, <2>2, ClearSound
    <2> QED
      BY <2>1, <2>2
  <1>12. map' = [p \in PageRange |->
                  IF p \in new .. new + newLen - 1 THEN MappedPage(e.Resource, o + p - new, e.Prot) ELSE cp[p]]
    BY <1>4, <1>8, <1>9
  <1>13. EntryOK(new, Entry(e.Resource, o, newLen, e.Prot))
    <2>1. e.Resource = NoResource => o = 0
      BY <1>8, <1>9, <1>7 DEF MappedPage
    <2>2. e.Resource # NoResource => o + newLen <= ResourceLength
      BY <1>3, <1>8, <1>9
    <2> QED
      BY <1>2, <1>6, <1>9, <2>1, <2>2 DEF EntryOK, Entry, Entries
  <1> HIDE DEF S, cp
  <1>14. Sound(SetUnsafe(S, e.Resource, new, o, newLen, e.Prot), map', NoResource)
    BY <1>2, <1>11, <1>12, <1>13, SetSound
  <1> QED
    BY <1>3, <1>14, ApplySound

\* Every system call keeps the invariant.
LEMMA TrackInvNext ==
  ASSUME ~EndInside, ~Interleaved, TrackInv, [TrackNext]_trackVars
  PROVE  TrackInv'
  <1>1. CASE UNCHANGED trackVars
    BY <1>1 DEF trackVars, TrackInv, Tracker, Sound, Apart, Lists, Describes, Holds
  <1>2. ASSUME NEW rg \in Ranges, NEW pr \in {"R", "RW"}, MprotectCall(rg[1], rg[2], pr)
        PROVE  TrackInv'
    BY <1>2, MprotectInv DEF Ranges
  <1>3. ASSUME NEW rg \in Ranges, NEW pr \in {"R", "RW"}, NEW r \in Resources \cup {NoResource},
               NEW o \in 0 .. ResourceLength - 1, MmapCall(rg[1], rg[2], r, o, pr)
        PROVE  TrackInv'
    BY <1>3, MmapInv DEF Ranges
  <1>4. ASSUME NEW rg \in Ranges, MunmapCall(rg[1], rg[2])
        PROVE  TrackInv'
    BY <1>4, MunmapInv DEF Ranges
  <1>5. ASSUME NEW rg \in Ranges, NEW old \in PageRange, NEW oldLen \in 0 .. PageCount - old,
               NEW keep \in BOOLEAN, MremapCall(old, oldLen, rg[1], rg[2], keep)
        PROVE  TrackInv'
    BY <1>5, MremapInv DEF Ranges
  <1>6. ASSUME NEW base \in PageRange, NEW r \in Segments, ShmdtCall(base, r)
        PROVE  TrackInv'
    BY <1>6, ShmdtInv
  <1>7. ASSUME NEW base \in PageRange, NEW r \in Segments, NEW pr \in {"R", "RW"},
               base + ResourceLength <= PageCount, ShmatCall(base, r, pr)
        PROVE  TrackInv'
    BY <1>7, ShmatInv
  <1> QED
    BY <1>1, <1>2, <1>3, <1>4, <1>5, <1>6, <1>7 DEF TrackNext

-----------------------------------------------------------------------------
(* What the invariant gives *)

\* The three parts of the invariant.
LEMMA TrackInvIs == TrackInv => Apart(VMAs) /\ Lists(VMAs, MappedResources, NoResource) /\ Describes(VMAs, map)
  BY TrackerIs DEF TrackInv, Sound

\* Sound mappings have their types.
LEMMA TrackInvType == TrackInv => TrackTypeOK
  <1> SUFFICES ASSUME TrackInv PROVE TrackTypeOK
    OBVIOUS
  <1>1. Apart(VMAs) /\ Lists(VMAs, MappedResources, NoResource)
    BY TrackInvIs
  <1>2. PageCount \in Nat /\ ResourceLength \in Nat \ {0}
    BY SizeAssumption
  <1>3. ASSUME NEW b \in DOMAIN VMAs
        PROVE  /\ b \in PageRange
               /\ VMAs[b] \in [Resource : Resources \cup {NoResource}, Offset : 0 .. ResourceLength - 1,
                               Length : 1 .. PageCount, Prot : {"R", "RW"}]
    <2>1. EntryOK(b, VMAs[b])
      BY <1>1 DEF Apart
    <2>2. /\ b \in Nat /\ VMAs[b].Length \in Nat \ {0} /\ VMAs[b].Offset \in Nat
          /\ b + VMAs[b].Length <= PageCount
      BY <2>1 DEF EntryOK, Entries
    <2>3. b \in PageRange /\ VMAs[b].Length \in 1 .. PageCount
      BY <1>2, <2>2 DEF PageRange
    <2>4. VMAs[b].Offset \in 0 .. ResourceLength - 1
      BY <1>2, <2>1, <2>2 DEF EntryOK
    <2> QED
      BY <2>1, <2>3, <2>4 DEF EntryOK, Entries
  <1> QED
    BY <1>1, <1>3 DEF TrackTypeOK, Lists

\* Mappings that do not meet share no page.
LEMMA TrackInvDisjoint == TrackInv => Disjoint
  <1> SUFFICES ASSUME TrackInv, NEW p \in PageRange
               PROVE  Cardinality(LookupVMAUnsafe(VMAs, p)) <= 1
    BY DEF Disjoint
  <1>1. Apart(VMAs) /\ p \in Int
    BY TrackInvIs DEF PageRange
  <1>2. \A b \in LookupVMAUnsafe(VMAs, p) : b \in DOMAIN VMAs /\ Holds(VMAs, b, p)
    <2>1. \A b \in DOMAIN VMAs : b \in Int /\ VMAs[b].Length \in Int
      BY <1>1 DEF Apart, EntryOK, Entries
    <2> QED
      BY <1>1, <2>1 DEF LookupVMAUnsafe, Holds
  <1>3. CASE LookupVMAUnsafe(VMAs, p) = {}
    BY <1>3, FS_EmptySet
  <1>4. CASE LookupVMAUnsafe(VMAs, p) # {}
    <2>1. PICK b : b \in LookupVMAUnsafe(VMAs, p)
      BY <1>4
    <2>2. LookupVMAUnsafe(VMAs, p) = {b}
      BY <1>1, <1>2, <2>1, HeldOnce
    <2> QED
      BY <2>2, FS_Singleton
  <1> QED
    BY <1>3, <1>4

\* Exact lists, none of them empty, are those of the mapped resources.
LEMMA TrackInvListed == TrackInv => MirrorsListed
  <1> SUFFICES ASSUME TrackInv PROVE MirrorsListed
    OBVIOUS
  <1>1. Lists(VMAs, MappedResources, NoResource)
    BY TrackInvIs
  <1>2. \A r \in DOMAIN MappedResources : r # NoResource
    BY <1>1, ResourceAssumption DEF Lists
  <1>3. DOMAIN MappedResources = {VMAs[b].Resource : b \in DOMAIN VMAs} \ {NoResource}
    BY <1>1, <1>2 DEF Lists
  <1> QED
    BY <1>1, <1>3 DEF MirrorsListed, Lists

\* A page looked up in mappings that describe the address space is the page
\* the kernel has.
LEMMA TrackInvView == TrackInv => TracksGuestMap
  <1> SUFFICES ASSUME TrackInv PROVE TracksGuestMap
    OBVIOUS
  <1>1. Apart(VMAs) /\ Describes(VMAs, map)
    BY TrackInvIs
  <1>2. ASSUME NEW p \in PageRange
        PROVE  View[p] = map[p]
    <2> DEFINE b == CHOOSE c \in LookupVMAUnsafe(VMAs, p) : TRUE
    <2>1. \A c \in DOMAIN VMAs : c \in Int /\ VMAs[c].Length \in Int /\ p \in Int
      BY <1>1 DEF Apart, EntryOK, Entries, PageRange
    <2>2. \A c \in DOMAIN VMAs : c \in LookupVMAUnsafe(VMAs, p) <=> Holds(VMAs, c, p)
      BY <2>1 DEF LookupVMAUnsafe, Holds
    <2>3. LookupVMAUnsafe(VMAs, p) \subseteq DOMAIN VMAs
      BY DEF LookupVMAUnsafe
    <2>4. View[p] = IF LookupVMAUnsafe(VMAs, p) = {} THEN Unmapped
                    ELSE MappedPage(VMAs[b].Resource, VMAs[b].Offset + p - b, VMAs[b].Prot)
      BY DEF View
    <2>5. LookupVMAUnsafe(VMAs, p) # {} => b \in LookupVMAUnsafe(VMAs, p)
      OBVIOUS
    <2> HIDE DEF b
    <2>6. CASE LookupVMAUnsafe(VMAs, p) = {}
      BY <1>1, <2>2, <2>4, <2>6 DEF Describes
    <2>7. CASE LookupVMAUnsafe(VMAs, p) # {}
      <3>1. b \in DOMAIN VMAs /\ Holds(VMAs, b, p)
        BY <2>2, <2>3, <2>5, <2>7
      <3> QED
        BY <1>1, <2>4, <2>7, <3>1 DEF Describes
    <2> QED
      BY <2>6, <2>7
  <1>3. View = [p \in PageRange |-> View[p]] /\ map = [p \in PageRange |-> map[p]]
    BY <1>1 DEF View, Describes
  <1> QED
    BY <1>2, <1>3 DEF TracksGuestMap

\* A page of a mapping is a mirror of another page exactly when their offsets
\* in the resource are the same.
LEMMA TrackInvFound == TrackInv => MirrorsFound
  <1> SUFFICES ASSUME TrackInv, NEW p \in PageRange, NEW b \in LookupVMAUnsafe(VMAs, p),
                      VMAs[b].Resource # NoResource
               PROVE  MirrorsOf(b, p) = {q \in PageRange : map[q].res = map[p].res /\ map[q].off = map[p].off}
    BY DEF MirrorsFound
  <1> DEFINE r == VMAs[b].Resource
             offset == p - b + VMAs[b].Offset
             near == {c \in MappedResources[r] : VMAs[c].Offset <= offset /\ VMAs[c].Offset + VMAs[c].Length > offset}
  <1>1. Apart(VMAs) /\ Lists(VMAs, MappedResources, NoResource) /\ Describes(VMAs, map)
    BY TrackInvIs
  <1>2. \A c \in DOMAIN VMAs : /\ c \in Nat /\ VMAs[c].Offset \in Nat /\ VMAs[c].Length \in Nat
                               /\ c + VMAs[c].Length <= PageCount
    BY <1>1 DEF Apart, EntryOK, Entries
  <1>3. PageCount \in Int /\ \A q \in PageRange : q \in Int
    BY SizeAssumption DEF PageRange
  <1>4. b \in DOMAIN VMAs /\ Holds(VMAs, b, p)
    BY <1>2, <1>3 DEF LookupVMAUnsafe, Holds
  <1>5. ASSUME NEW c \in DOMAIN VMAs, NEW q \in PageRange, Holds(VMAs, c, q)
        PROVE  /\ map[q].res = VMAs[c].Resource
               /\ VMAs[c].Resource # NoResource => map[q].off = VMAs[c].Offset + q - c
    <2>1. map[q] = MappedPage(VMAs[c].Resource, VMAs[c].Offset + q - c, VMAs[c].Prot)
      BY <1>1, <1>5 DEF Describes
    <2> QED
      BY <2>1 DEF MappedPage
  <1>6. map[p].res = r /\ map[p].off = offset /\ offset \in Int
    <2>1. map[p].res = r /\ map[p].off = VMAs[b].Offset + p - b
      BY <1>4, <1>5
    <2> QED
      BY <1>2, <1>3, <1>4, <2>1
  <1>7. MappedResources[r] = {c \in DOMAIN VMAs : VMAs[c].Resource = r}
    BY <1>1, <1>4 DEF Lists
  <1>8. MirrorsOf(b, p) = {offset - VMAs[c].Offset + c : c \in near}
    BY DEF MirrorsOf
  <1>9. \A c \in near : /\ c \in DOMAIN VMAs /\ VMAs[c].Resource = r
                        /\ VMAs[c].Offset <= offset /\ VMAs[c].Offset + VMAs[c].Length > offset
    BY <1>7
  <1>10. \A c \in DOMAIN VMAs :
            VMAs[c].Resource = r /\ VMAs[c].Offset <= offset /\ VMAs[c].Offset + VMAs[c].Length > offset => c \in near
    BY <1>7
  <1>11. r # NoResource
    OBVIOUS
  <1> HIDE DEF near, offset, r
  <1>12. ASSUME NEW c \in near
         PROVE  LET q == offset - VMAs[c].Offset + c
                IN  q \in PageRange /\ map[q].res = r /\ map[q].off = offset
    <2> DEFINE q == offset - VMAs[c].Offset + c
    <2>1. q \in PageRange
      BY <1>2, <1>3, <1>6, <1>9 DEF PageRange
    <2>2. Holds(VMAs, c, q)
      BY <1>2, <1>6, <1>9 DEF Holds
    <2>3. VMAs[c].Offset + q - c = offset
      BY <1>2, <1>6, <1>9
    <2> HIDE DEF q
    <2>4. map[q].res = r /\ map[q].off = offset
      BY <1>5, <1>9, <1>11, <2>1, <2>2, <2>3
    <2> QED
      BY <2>1, <2>4 DEF q
  <1>13. ASSUME NEW q \in PageRange, map[q].res = r, map[q].off = offset
         PROVE  \E c \in near : q = offset - VMAs[c].Offset + c
    <2>1. map[q] # Unmapped
      BY <1>11, <1>13 DEF Unmapped
    <2>2. PICK c \in DOMAIN VMAs : Holds(VMAs, c, q)
      BY <1>1, <2>1 DEF Describes
    <2>3. VMAs[c].Resource = r /\ offset = VMAs[c].Offset + q - c
      BY <1>5, <1>11, <1>13, <2>2
    <2>4. VMAs[c].Offset <= offset /\ VMAs[c].Offset + VMAs[c].Length > offset
      BY <1>2, <1>3, <2>2, <2>3 DEF Holds
    <2>5. q = offset - VMAs[c].Offset + c
      BY <1>2, <1>3, <2>3
    <2> QED
      BY <1>10, <2>3, <2>4, <2>5
  <1> QED
    BY <1>6, <1>8, <1>12, <1>13

\* As long as no mprotect range ends beyond a mapping it splits and no shmdt
\* meets its segment at another offset, the invariant holds.
THEOREM TrackInvAlways ==
  ASSUME ~EndInside, ~Interleaved
  PROVE  TrackSpec => []TrackInv
  <1>1. TrackInit => TrackInv
    BY TrackInvInit
  <1>2. TrackInv /\ [TrackNext]_trackVars => TrackInv'
    BY TrackInvNext
  <1> QED
    BY <1>1, <1>2, PTL DEF TrackSpec

\* The tracker keeps its types, for any address space and resources.
THEOREM TrackTypeOKAlways ==
  ASSUME ~EndInside, ~Interleaved
  PROVE  TrackSpec => []TrackTypeOK
  BY TrackInvAlways, TrackInvType, PTL

\* No sequence of mappings, unmappings, splits and moves makes two tracked
\* mappings overlap.
THEOREM DisjointAlways ==
  ASSUME ~EndInside, ~Interleaved
  PROVE  TrackSpec => []Disjoint
  BY TrackInvAlways, TrackInvDisjoint, PTL

\* The list of every resource is exact, and a resource is freed with its last
\* mapping and not before.
THEOREM MirrorsListedAlways ==
  ASSUME ~EndInside, ~Interleaved
  PROVE  TrackSpec => []MirrorsListed
  BY TrackInvAlways, TrackInvListed, PTL

\* Every page is tracked with the resource, offset and protection the kernel
\* has for it, and pages that are not mapped are not tracked.
THEOREM TracksGuestMapAlways ==
  ASSUME ~EndInside, ~Interleaved
  PROVE  TrackSpec => []TracksGuestMap
  BY TrackInvAlways, TrackInvView, PTL

\* The walk over a resource's list finds all the mirrors of a page and nothing
\* else.
THEOREM MirrorsFoundAlways ==
  ASSUME ~EndInside, ~Interleaved
  PROVE  TrackSpec => []MirrorsFound
  BY TrackInvAlways, TrackInvFound, PTL

-----------------------------------------------------------------------------
(* What the tracker shows is the kernel's address space *)

Shown == INSTANCE GuestMap WITH map <- View

\* The kernel's part of each step.
LEMMA KernelStep == [TrackNext]_trackVars => [MapNext]_map
  <1> SUFFICES ASSUME [TrackNext]_trackVars PROVE [MapNext]_map
    OBVIOUS
  <1>0. PageCount \in Nat /\ ResourceLength \in Nat \ {0}
    BY SizeAssumption
  <1>1. CASE UNCHANGED trackVars
    BY <1>1 DEF trackVars
  <1>2. ASSUME NEW rg \in Ranges, NEW pr \in {"R", "RW"}, MprotectCall(rg[1], rg[2], pr)
        PROVE  MapNext
    BY <1>2 DEF MprotectCall, Ranges, MapNext
  <1>3. ASSUME NEW rg \in Ranges, NEW pr \in {"R", "RW"}, NEW r \in Resources \cup {NoResource},
               NEW o \in 0 .. ResourceLength - 1, MmapCall(rg[1], rg[2], r, o, pr)
        PROVE  MapNext
    BY <1>3 DEF MmapCall, Ranges, MapNext
  <1>4. ASSUME NEW rg \in Ranges, MunmapCall(rg[1], rg[2])
        PROVE  MapNext
    BY <1>4 DEF MunmapCall, Ranges, MapNext
  <1>5. ASSUME NEW rg \in Ranges, NEW old \in PageRange, NEW oldLen \in 0 .. PageCount - old,
               NEW keep \in BOOLEAN, MremapCall(old, oldLen, rg[1], rg[2], keep)
        PROVE  MapNext
    <2>1. oldLen \in 0 .. PageCount
      BY <1>0 DEF PageRange
    <2> QED
      BY <1>5, <2>1 DEF MremapCall, Ranges, MapNext
  <1>6. ASSUME NEW base \in PageRange, NEW r \in Segments, ShmdtCall(base, r)
        PROVE  MapNext
    BY <1>6 DEF ShmdtCall, MapNext
  <1>7. ASSUME NEW base \in PageRange, NEW r \in Segments, NEW pr \in {"R", "RW"},
               base + ResourceLength <= PageCount, ShmatCall(base, r, pr)
        PROVE  MapNext
    <2>1. r \in Resources \cup {NoResource} /\ 0 \in 0 .. ResourceLength - 1
      BY <1>0, ResourceAssumption
    <2>2. ResourceLength \in 1 .. PageCount
      BY <1>0, <1>7 DEF PageRange
    <2> QED
      BY <1>7, <2>1, <2>2 DEF ShmatCall, MapNext
  <1> QED
    BY <1>1, <1>2, <1>3, <1>4, <1>5, <1>6, <1>7 DEF TrackNext

\* The address space that the tracker shows begins empty and changes only by
\* whole system calls, with the kernel's effect: the tracker implements the
\* kernel's address space.
THEOREM TrackerImplementsMap ==
  ASSUME ~EndInside, ~Interleaved
  PROVE  TrackSpec => Shown!MapSpec
  <1>1. TrackInit => Shown!MapInit
    <2>1. TrackInit => TracksGuestMap
      BY TrackInvInit, TrackInvView
    <2> QED
      BY <2>1 DEF TracksGuestMap, TrackInit, MapInit, Shown!MapInit, Shown!Unmapped, Unmapped, Shown!PageRange, PageRange
  <1>2. TracksGuestMap /\ TracksGuestMap' /\ [TrackNext]_trackVars => [Shown!MapNext]_View
    <2> SUFFICES ASSUME TracksGuestMap, TracksGuestMap', [TrackNext]_trackVars
                 PROVE  [Shown!MapNext]_View
      OBVIOUS
    <2>1. View = map /\ View' = map'
      BY DEF TracksGuestMap
    <2>2. [MapNext]_map
      BY KernelStep
    <2>3. /\ Shown!PageRange = PageRange /\ Shown!Unmapped = Unmapped
          /\ \A r, o, pr : Shown!MappedPage(r, o, pr) = MappedPage(r, o, pr)
      BY DEF PageRange, Shown!PageRange, Unmapped, Shown!Unmapped, MappedPage, Shown!MappedPage
    <2>4. \A base, len, r, o, pr : Mmap(base, len, r, o, pr) => Shown!Mmap(base, len, r, o, pr)
      BY <2>1, <2>3 DEF Mmap, Shown!Mmap
    <2>5. \A base, len : Munmap(base, len) => Shown!Munmap(base, len)
      BY <2>1, <2>3 DEF Munmap, Shown!Munmap
    <2>6. \A base, len, pr : Mprotect(base, len, pr) => Shown!Mprotect(base, len, pr)
      BY <2>1, <2>3 DEF Mprotect, Shown!Mprotect
    <2>7. \A old, oldLen, new, newLen, keep :
             Mremap(old, oldLen, new, newLen, keep) => Shown!Mremap(old, oldLen, new, newLen, keep)
      BY <2>1, <2>3 DEF Mremap, Uniform, Shown!Mremap, Shown!Uniform
    <2>8. \A base, r : Shmdt(base, r) => Shown!Shmdt(base, r)
      BY <2>1, <2>3 DEF Shmdt, Shown!Shmdt
    <2>9. MapNext => Shown!MapNext
      BY <2>3, <2>4, <2>5, <2>6, <2>7, <2>8 DEF MapNext, Shown!MapNext
    <2> QED
      BY <2>1, <2>2, <2>9
  <1>3. TrackSpec => []TracksGuestMap
    BY TracksGuestMapAlways
  <1> QED
    BY <1>1, <1>2, <1>3, PTL DEF TrackSpec, Shown!MapSpec
=============================================================================
