-------------------------- MODULE MemAllocator32Bit --------------------------
(***************************************************************************)
(* FEX::HLE::MemAllocator32Bit, which places the mappings of a 32-bit      *)
(* guest: a bitmap of the pages it believes are mapped, a search from the  *)
(* top down for room, and the host's memory, which has the last word.      *)
(* AllocMutex is held for the whole of a call, but for mremap, which drops *)
(* it before it reserves the place it moves to and again before it moves.  *)
(*                                                                         *)
(* Calls whose arguments are refused before anything is done change        *)
(* nothing and are left out.  A host call may fail for reasons of the      *)
(* host.  A kernel without MAP_FIXED_NOREPLACE returns a high address      *)
(* instead of EEXIST, which is unmapped again: to the search it is the     *)
(* same.                                                                   *)
(*                                                                         *)
(* Where a thread is:                                                      *)
(*   "idle"   in no call                                                   *)
(*   "scan"   holds AllocMutex and is about to try to map                  *)
(*   "place"  mremap, without the mutex, before this->mmap                 *)
(*   "move"   mremap, without the mutex, after it                          *)
(***************************************************************************)
EXTENDS Integers, FiniteSetsExt

CONSTANTS
    Threads, NoThread,
    Movers,            \* bound: the threads that call mremap
    BASE_KEY,          \* the pages below belong to the kernel
    TOP_KEY,           \* the last page of the 32-bit space, never used
    TOP_KEY32BIT,      \* where a MAP_32BIT search starts
    Lengths,           \* bound: the lengths of mappings, in pages
    Segments, NoSegment,
    SegPages,          \* segment -> its size in pages, rounded up
    SegFloor,          \* segment -> its size in pages, rounded down
    MaxSegPages,       \* bound: how far mremap extends a segment
    Foreign            \* pages mapped by the host process itself

Pages == BASE_KEY .. TOP_KEY - 1
Reserved == (0 .. BASE_KEY - 1) \cup {TOP_KEY}

ASSUME KeyAssumption ==
    /\ BASE_KEY \in Nat \ {0, 1} /\ TOP_KEY \in Nat /\ TOP_KEY32BIT \in Pages
    /\ Lengths \subseteq 1 .. TOP_KEY - BASE_KEY /\ Foreign \subseteq Pages
ASSUME SegmentAssumption ==
    /\ NoSegment \notin Segments /\ NoThread \notin Threads /\ Movers \subseteq Threads
    /\ SegPages \in [Segments -> Nat \ {0}]
    /\ \A s \in Segments : SegFloor[s] \in {SegPages[s] - 1, SegPages[s]}

VARIABLES
    Host,               \* page -> what the host has mapped there
    MappedPages,        \* the bitmap
    PageToShm,          \* page -> the segment attached there
    LastScanLocation,
    AllocMutex,
    pc,
    call,               \* thread -> the call it is in
    robbed              \* history: a place held by a mremap was replaced,
                        \* unmapped or moved by a call that named its pages,
                        \* or replaced by SHM_REMAP

vars == <<Host, MappedPages, PageToShm, LastScanLocation, AllocMutex, pc, call, robbed>>

Page(kind, seg, at) == [kind |-> kind, seg |-> seg, at |-> at]
Free == Page("free", NoSegment, 0)
Guest == Page("guest", NoSegment, 0)
\* of a segment, in its place for an attachment at page at
Shm(s, at) == Page("shm", s, at)
\* the same, but put there by mremap
Moved(s, at) == Page("moved", s, at)
\* reserved by the mremap of thread t
Held(t) == Page("held", t, 0)

NoCall == [op |-> "none", n |-> 0, bottom |-> 0, top |-> 0, Wrapped |-> FALSE,
           seg |-> NoSegment, REMAP |-> FALSE, old |-> 0, oldn |-> 0, DONTUNMAP |-> FALSE]

From(p, n) == p .. p + n - 1
Kind(p) == Host[p].kind

TypeOK ==
    /\ Host \in [Pages -> [kind : {"free", "guest", "foreign", "shm", "moved", "held"},
                           seg : Segments \cup Threads \cup {NoSegment}, at : Int]]
    /\ MappedPages \subseteq 0 .. TOP_KEY
    /\ PageToShm \in [Pages -> Segments \cup {NoSegment}]
    /\ LastScanLocation \in Pages \cup {TOP_KEY}
    /\ AllocMutex \in Threads \cup {NoThread}
    /\ pc \in [Threads -> {"idle", "scan", "place", "move"}]
    /\ \A t \in Threads : (AllocMutex = t) <=> (pc[t] = "scan")
    /\ robbed \in BOOLEAN

Init ==
    /\ Host = [p \in Pages |-> IF p \in Foreign THEN Page("foreign", NoSegment, 0) ELSE Free]
    /\ MappedPages = Reserved
    /\ PageToShm = [p \in Pages |-> NoSegment]
    /\ LastScanLocation = TOP_KEY
    /\ AllocMutex = NoThread
    /\ pc = [t \in Threads |-> "idle"]
    /\ call = [t \in Threads |-> NoCall]
    /\ robbed = FALSE

SetHost(pages, x) == Host' = [p \in Pages |-> IF p \in pages THEN x ELSE Host[p]]
AllFree(pages) == \A p \in pages : Host[p] = Free

\* The host has one mapping there: mremap fails on anything else.
OneMapping(pages) == \A p, q \in pages : Host[p] = Host[q] /\ Host[p] # Free

OfSegment(x) == x.kind \in {"shm", "moved"}

\* The mapping at page old may have n pages.
MayGrow(old, n) == OfSegment(Host[old]) => old + n - Host[old].at <= MaxSegPages

\* What mremap adds to a mapping, and what the mapping is d pages further on.
Grown(x) == IF OfSegment(x) THEN x ELSE Guest
Shifted(x, d) == IF OfSegment(x) THEN Moved(x.seg, x.at + d) ELSE Guest

\* Pages that the call of thread t names, and changes.
Rob(t, pages) == robbed' = (robbed \/ \E p \in pages : Kind(p) = "held" /\ Host[p] # Held(t))

Call(t) == pc[t] = "idle" /\ AllocMutex = NoThread

-----------------------------------------------------------------------------
(* The search *)

\* Mutant: the scan goes on a whole length below a page that is taken.
ScanByLength(start, n) ==
    LET Scan[s \in Int] ==
          IF s < BASE_KEY \/ s > TOP_KEY THEN 0
          ELSE IF \A o \in 0 .. n - 1 : s - o \notin MappedPages THEN s - n
          ELSE Scan[s - n]
    IN  Scan[start]

\* FindPageRange_TopDown tests Start, Start - 1, ... and returns the page
\* below the last one tested; 0 when there is no room.
FindPageRange_TopDown(start, n) ==
    LET Taken(s) == {o \in 0 .. n - 1 : s - o \in MappedPages}
        Scan[s \in Int] ==
          IF s < BASE_KEY \/ s > TOP_KEY THEN 0
          ELSE IF Taken(s) = {} THEN s - n
          ELSE Scan[s - (Min(Taken(s)) + 1)]
    IN  Scan[start]

\* AllocateNoHint, and shmat without an address, hold the mutex and start
\* below the last mapping that was made.
Search(t, c) ==
    /\ AllocMutex' = t
    /\ pc' = [pc EXCEPT ![t] = "scan"]
    /\ call' = [call EXCEPT ![t] = c]

\* The range tried next; the second search starts from the top.
Candidate(c) ==
    LET first == FindPageRange_TopDown(c.bottom, c.n)
    IN  IF first # 0 THEN [bottom |-> c.bottom, low |-> first]
        ELSE [bottom |-> c.top, low |-> FindPageRange_TopDown(c.top, c.n)]

\* Where the search goes on after the host has refused a range.
Retry(c, try) ==
    CASE try.low + c.n = TOP_KEY ->
            [c EXCEPT !.bottom = IF c.op = "shmat" THEN TOP_KEY ELSE BASE_KEY, !.Wrapped = TRUE]
      [] try.low + c.n # TOP_KEY /\ c.op = "shmat" -> [c EXCEPT !.bottom = try.bottom + c.n]
      [] OTHER -> [c EXCEPT !.bottom = try.bottom - 1]

GivesUp(c, try) == try.low + c.n # TOP_KEY /\ c.Wrapped /\ try.low >= LastScanLocation

\* The call returns and the mutex is released; mremap goes on if it has a
\* place.
Return(t, low) ==
    /\ AllocMutex' = NoThread
    /\ IF call[t].op = "mremap" /\ low # 0
       THEN /\ pc' = [pc EXCEPT ![t] = "move"]
            /\ call' = [call EXCEPT ![t].bottom = low]
       ELSE /\ pc' = [pc EXCEPT ![t] = "idle"]
            /\ call' = [call EXCEPT ![t] = NoCall]

NewPage(t, low) ==
    CASE call[t].op = "mmap" -> Guest
      [] call[t].op = "mremap" -> Held(t)
      [] call[t].op = "shmat" -> Shm(call[t].seg, low)

\* Mutant: the range found is mapped with MAP_FIXED.
MapFoundFixed(t) ==
    /\ pc[t] = "scan"
    /\ LET try == Candidate(call[t])
           range == From(try.low, call[t].n)
       IN  /\ try.low >= BASE_KEY
           /\ SetHost(range, NewPage(t, try.low))
           /\ Rob(t, range)
           /\ MappedPages' = MappedPages \cup range
           /\ LastScanLocation' = try.low
           /\ PageToShm' = IF call[t].op = "shmat"
                           THEN [PageToShm EXCEPT ![try.low] = call[t].seg] ELSE PageToShm
           /\ Return(t, try.low)

\* The host maps the range found: no page of it was mapped, unless shmat was
\* called with SHM_REMAP, which is passed on.
MapFound(t) ==
    /\ pc[t] = "scan"
    /\ LET try == Candidate(call[t])
           range == From(try.low, call[t].n)
       IN  /\ try.low >= BASE_KEY
           /\ AllFree(range) \/ call[t].REMAP
           /\ SetHost(range, NewPage(t, try.low))
           /\ Rob(t, range)
           /\ MappedPages' = MappedPages \cup range
           /\ LastScanLocation' = try.low
           /\ PageToShm' = IF call[t].op = "shmat"
                           THEN [PageToShm EXCEPT ![try.low] = call[t].seg] ELSE PageToShm
           /\ Return(t, try.low)

\* It refuses it: mmap goes on only after EEXIST, shmat after any error.
\* The kernel refuses a range that starts on its own pages.
RefuseFound(t) ==
    /\ pc[t] = "scan"
    /\ LET try == Candidate(call[t])
           range == From(try.low, call[t].n)
           exists == try.low >= BASE_KEY /\ ~AllFree(range)
       IN  /\ try.low # 0
           /\ IF (exists \/ call[t].op = "shmat") /\ ~GivesUp(call[t], try)
              THEN /\ call' = [call EXCEPT ![t] = Retry(call[t], try)]
                   /\ UNCHANGED <<AllocMutex, pc>>
              ELSE Return(t, 0)
    /\ UNCHANGED <<Host, MappedPages, PageToShm, LastScanLocation, robbed>>

\* ENOMEM
NothingFound(t) ==
    /\ pc[t] = "scan"
    /\ Candidate(call[t]).low = 0
    /\ Return(t, 0)
    /\ UNCHANGED <<Host, MappedPages, PageToShm, LastScanLocation, robbed>>

-----------------------------------------------------------------------------
(* mmap and munmap *)

mmap(t) ==
    /\ Call(t)
    /\ \E n \in Lengths, top \in {TOP_KEY, TOP_KEY32BIT} :
          Search(t, [NoCall EXCEPT !.op = "mmap", !.n = n, !.top = top,
                                   !.bottom = IF LastScanLocation >= top
                                              THEN top ELSE LastScanLocation])
    /\ UNCHANGED <<Host, MappedPages, PageToShm, LastScanLocation, robbed>>

\* MAP_FIXED replaces what is there, MAP_FIXED_NOREPLACE maps free pages.
mmapFixed(t) ==
    /\ Call(t)
    /\ \E p \in Pages, n \in Lengths :
          /\ From(p, n) \subseteq Pages
          /\ SetHost(From(p, n), Guest) /\ Rob(t, From(p, n))
          /\ MappedPages' = MappedPages \cup From(p, n)
    /\ UNCHANGED <<PageToShm, LastScanLocation, AllocMutex, pc, call>>

munmap(t) ==
    /\ Call(t)
    /\ \E p \in Pages, n \in Lengths :
          /\ From(p, n) \subseteq Pages
          /\ SetHost(From(p, n), Free) /\ Rob(t, From(p, n))
          /\ MappedPages' = MappedPages \ From(p, n)
    /\ UNCHANGED <<PageToShm, LastScanLocation, AllocMutex, pc, call>>

-----------------------------------------------------------------------------
(* mremap *)

Place(t, c) ==
    /\ pc' = [pc EXCEPT ![t] = "place"]
    /\ call' = [call EXCEPT ![t] = c]

Remap(old, oldn, n, keep) ==
    [NoCall EXCEPT !.op = "mremap", !.n = n, !.old = old, !.oldn = oldn, !.DONTUNMAP = keep]

\* The old range becomes shorter in place.
mremapShrink(t) ==
    /\ Call(t)
    /\ \E old \in Pages, oldn, n \in Lengths :
          /\ n < oldn
          /\ From(old, oldn) \subseteq Pages /\ OneMapping(From(old, oldn))
          /\ SetHost(From(old + n, oldn - n), Free) /\ Rob(t, From(old + n, oldn - n))
          /\ MappedPages' = MappedPages \ From(old + n, oldn - n)
    /\ UNCHANGED <<PageToShm, LastScanLocation, AllocMutex, pc, call>>

\* Mutant: the pages that were added are not marked.
ExtendUntracked(t) ==
    /\ Call(t)
    /\ \E old \in Pages, oldn, n \in Lengths :
          /\ n >= oldn
          /\ From(old, n) \subseteq Pages /\ OneMapping(From(old, oldn)) /\ MayGrow(old, n)
          /\ From(old + oldn, n - oldn) \cap MappedPages = {}
          /\ AllFree(From(old + oldn, n - oldn))
          /\ SetHost(From(old + oldn, n - oldn), Grown(Host[old]))
    /\ UNCHANGED <<MappedPages, PageToShm, LastScanLocation, AllocMutex, pc, call, robbed>>

\* ... or longer, when neither the bitmap nor the host has a page there.
mremapExtend(t) ==
    /\ Call(t)
    /\ \E old \in Pages, oldn, n \in Lengths :
          /\ n >= oldn
          /\ From(old, n) \subseteq Pages /\ OneMapping(From(old, oldn)) /\ MayGrow(old, n)
          /\ From(old + oldn, n - oldn) \cap MappedPages = {}
          /\ AllFree(From(old + oldn, n - oldn))
          /\ SetHost(From(old + oldn, n - oldn), Grown(Host[old]))
          /\ MappedPages' = MappedPages \cup From(old, n)
    /\ UNCHANGED <<PageToShm, LastScanLocation, AllocMutex, pc, call, robbed>>

\* Otherwise the mutex is dropped to find a place.  Without MREMAP_MAYMOVE
\* this happens as well when the bitmap is what forbids to extend.
mremapAway(t) ==
    /\ Call(t)
    /\ \E old \in Pages, oldn, n \in Lengths, keep \in BOOLEAN :
          /\ n >= oldn
          /\ From(old, oldn) \subseteq Pages
          /\ Place(t, Remap(old, oldn, n, keep))
    /\ UNCHANGED <<Host, MappedPages, PageToShm, LastScanLocation, AllocMutex, robbed>>

\* The host moves the pages to where MREMAP_FIXED says: it unmaps that
\* range first, and may fail after that.  The pages of an attached segment
\* move like any others, and PageToShm is not told.
HostMove(old, oldn, new, n, keep) ==
    /\ From(old, oldn) \cap From(new, n) = {}
    /\ keep => n = oldn
    /\ OneMapping(From(old, oldn)) /\ MayGrow(old, n)
    /\ Host' = [p \in Pages |-> IF p \in From(new, n) THEN Shifted(Host[old], new - old)
                                ELSE IF p \in From(old, oldn) /\ ~keep THEN Free ELSE Host[p]]

\* MREMAP_FIXED.  When it has succeeded the code does not return: it goes
\* on as if the mapping still had to be moved.
mremapFixed(t) ==
    /\ Call(t)
    /\ \E old, new \in Pages, oldn, n \in Lengths, keep \in BOOLEAN :
          /\ From(old, oldn) \cup From(new, n) \subseteq Pages
          /\ HostMove(old, oldn, new, n, keep)
          /\ Rob(t, From(old, oldn) \cup From(new, n))
          /\ MappedPages' = (IF keep THEN MappedPages ELSE MappedPages \ From(old, oldn))
                               \cup From(new, n)
          /\ Place(t, Remap(old, oldn, n, keep))
    /\ UNCHANGED <<PageToShm, LastScanLocation, AllocMutex>>

\* this->mmap, PROT_NONE
mremapPlace(t) ==
    /\ pc[t] = "place"
    /\ AllocMutex = NoThread
    /\ Search(t, [call[t] EXCEPT !.top = TOP_KEY, !.bottom = LastScanLocation])
    /\ UNCHANGED <<Host, MappedPages, PageToShm, LastScanLocation, robbed>>

\* The last part: the host moves the mapping over the place, ...
mremapMove(t) ==
    /\ pc[t] = "move"
    /\ AllocMutex = NoThread
    /\ LET c == call[t]
       IN  /\ HostMove(c.old, c.oldn, c.bottom, c.n, c.DONTUNMAP)
           /\ Rob(t, From(c.old, c.oldn))
           /\ MappedPages' = (IF c.DONTUNMAP THEN MappedPages
                              ELSE MappedPages \ From(c.old, c.oldn)) \cup From(c.bottom, c.n)
    /\ pc' = [pc EXCEPT ![t] = "idle"]
    /\ call' = [call EXCEPT ![t] = NoCall]
    /\ UNCHANGED <<PageToShm, LastScanLocation, AllocMutex>>

\* ... or fails, before or after it has unmapped the place, which stays
\* marked.
mremapFail(t) ==
    /\ pc[t] = "move"
    /\ AllocMutex = NoThread
    /\ \/ UNCHANGED Host
       \/ SetHost(From(call[t].bottom, call[t].n), Free)
    /\ pc' = [pc EXCEPT ![t] = "idle"]
    /\ call' = [call EXCEPT ![t] = NoCall]
    /\ UNCHANGED <<MappedPages, PageToShm, LastScanLocation, AllocMutex, robbed>>

-----------------------------------------------------------------------------
(* shmat and shmdt *)

shmat(t) ==
    /\ Call(t)
    /\ \E s \in Segments, remap \in BOOLEAN :
          Search(t, [NoCall EXCEPT !.op = "shmat", !.seg = s, !.n = SegPages[s], !.REMAP = remap,
                                   !.top = TOP_KEY, !.bottom = LastScanLocation])
    /\ UNCHANGED <<Host, MappedPages, PageToShm, LastScanLocation, robbed>>

\* With an address the host attaches the segment there if the pages are free
\* or SHM_REMAP is given; the size is rounded down to mark them.
shmatAddr(t) ==
    /\ Call(t)
    /\ \E s \in Segments, p \in Pages, remap \in BOOLEAN :
          /\ From(p, SegPages[s]) \subseteq Pages
          /\ remap \/ AllFree(From(p, SegPages[s]))
          /\ SetHost(From(p, SegPages[s]), Shm(s, p)) /\ Rob(t, From(p, SegPages[s]))
          /\ MappedPages' = MappedPages \cup From(p, SegFloor[s])
          /\ PageToShm' = [PageToShm EXCEPT ![p] = s]
    /\ UNCHANGED <<LastScanLocation, AllocMutex, pc, call>>

\* The pages in their place for an attachment at page p.
InPlace(p) == {q \in Pages : OfSegment(Host[q]) /\ Host[q].at = p}

\* The host unmaps those of the segment it meets first, and fails if there is
\* none; the entry is erased, and the pages stay marked.
shmdt(t) ==
    /\ Call(t)
    /\ \E p \in Pages :
          /\ PageToShm[p] # NoSegment
          /\ SetHost({q \in InPlace(p) : Host[q].seg = Host[Min(InPlace(p))].seg}, Free)
          /\ PageToShm' = [PageToShm EXCEPT ![p] = NoSegment]
    /\ UNCHANGED <<MappedPages, LastScanLocation, AllocMutex, pc, call, robbed>>

-----------------------------------------------------------------------------

SearchStep(t) == MapFound(t) \/ RefuseFound(t) \/ NothingFound(t)
MapCall(t) == mmap(t) \/ mmapFixed(t) \/ munmap(t)
RemapCall(t) ==
    t \in Movers /\ (mremapShrink(t) \/ mremapExtend(t) \/ mremapAway(t) \/ mremapFixed(t))
RemapStep(t) == mremapPlace(t) \/ mremapMove(t) \/ mremapFail(t)
ShmCall(t) == shmat(t) \/ shmatAddr(t) \/ shmdt(t)

Next == \E t \in Threads :
           SearchStep(t) \/ MapCall(t) \/ RemapCall(t) \/ RemapStep(t) \/ ShmCall(t)

Spec == Init /\ [][Next]_vars

-----------------------------------------------------------------------------
(* Properties *)

\* The last page of a segment, when the segment's size is not that of whole
\* pages.
Ragged(p) == Kind(p) = "shm" /\ p - Host[p].at \in SegFloor[Host[p].seg] .. SegPages[Host[p].seg] - 1

\* Every page the guest was given is marked, between calls and inside them,
\* so that no search starts on it, and the reserved pages stay marked; only
\* the ragged end of a segment attached with an address is not.  A segment is
\* found by the address where it was attached, so that it can be detached,
\* until mremap has moved it or its first page is replaced.
Tracked ==
    /\ Reserved \subseteq MappedPages
    /\ \A p \in Pages : Kind(p) \in {"guest", "shm", "moved"} => p \in MappedPages \/ Ragged(p)
    /\ \A p \in Pages : Kind(p) = "shm" /\ Host[p].at = p => PageToShm[p] = Host[p].seg

\* From wherever it starts, the scan finds the highest run of unmarked
\* pages, if there is one, and returns the page below it.
FindsHighest ==
    \A start \in Pages \cup {TOP_KEY}, n \in Lengths :
        LET tops == {s \in BASE_KEY .. start : From(s - n + 1, n) \cap MappedPages = {}}
        IN  FindPageRange_TopDown(start, n) = IF tops = {} THEN 0 ELSE Max(tops) - n

\* What a search and a move may take although nobody told them its address.
\* The search takes free pages, although it tests others than it returns; with
\* SHM_REMAP it takes its first page, the one not tested, whatever is there,
\* and what the bitmap does not know.  The move takes its own place, although
\* the mutex was dropped, as long as no held place was named by another call.
NoClobber ==
    [][\A t \in Threads, p \in Pages :
          pc'[t] # pc[t] /\ Host'[p] # Host[p] =>
             /\ pc[t] = "scan" =>
                   \/ Host[p] = Free
                   \/ call[t].REMAP /\ (p = LastScanLocation' \/ p \notin MappedPages)
             /\ pc[t] = "move" /\ ~robbed =>
                   Host[p] = Held(t) \/ p \in From(call[t].old, call[t].oldn)]_vars

\* A search ends: with a mapping, with ENOMEM, or because the whole range
\* has been scanned.
SearchEnds == \A t \in Threads : pc[t] = "scan" ~> pc[t] # "scan"

FairSpec == Spec /\ \A t \in Threads : WF_vars(SearchStep(t))
=============================================================================
