----------------------------- MODULE VMATracking -----------------------------
(***************************************************************************)
(* The tracked virtual memory areas of the guest: a map of ranges keyed by *)
(* their base page, and per mapped resource the list of its ranges, which  *)
(* HandleSegfault and MarkGuestExecutableRange walk to find all mirrors.   *)
(* Every operation runs under the unique VMATracking.Mutex and is one step.*)
(* The list of a resource is the set of bases in it: its order is not      *)
(* observable, and neither is the offset of an anonymous mapping, which is *)
(* 0 here.  Each step makes the host's change (GuestMap) and tracks it.    *)
(***************************************************************************)
EXTENDS GuestMap, FiniteSets

CONSTANTS
    EndInside,   \* mprotect ranges may end beyond a mapping they split
    Interleaved  \* shmdt may meet the same segment at another offset

VARIABLES
    VMAs,            \* base -> [Resource, Offset, Length, Prot]
    MappedResources  \* resource -> bases in its list, for the known resources

trackVars == <<VMAs, MappedResources, map>>

TrackTypeOK ==
    /\ DOMAIN VMAs \subseteq PageRange
    /\ \A b \in DOMAIN VMAs :
          VMAs[b] \in [Resource : Resources \cup {NoResource}, Offset : 0 .. ResourceLength - 1,
                       Length : 1 .. PageCount, Prot : {"R", "RW"}]
    /\ DOMAIN MappedResources \subseteq Resources
    /\ \A r \in DOMAIN MappedResources : MappedResources[r] \subseteq DOMAIN VMAs

TrackInit == VMAs = <<>> /\ MappedResources = <<>> /\ MapInit

-----------------------------------------------------------------------------
(* The operations, on a tracker [vma, list] *)

Tracker == [vma |-> VMAs, list |-> MappedResources]

Entry(r, o, n, pr) == [Resource |-> r, Offset |-> o, Length |-> n, Prot |-> pr]

\* Mutant: the part keeps the offset of the whole mapping.
OffsetKept(e, d) == e.Offset

\* The offset of the part of mapping e that starts d pages after it.
OffsetAt(e, d) == IF e.Resource = NoResource THEN 0 ELSE e.Offset + d

\* emplace keeps an entry that is there already.
Emplace(f, k, v) == [x \in DOMAIN f \cup {k} |-> IF x \in DOMAIN f THEN f[x] ELSE v]

\* The mappings that a backward walk from Top visits before it meets one that
\* ends at or before Base.
Visited(vm, Base, Top) ==
    {b \in DOMAIN vm :
        b < Top /\ \A c \in DOMAIN vm : c \in b .. Top - 1 => c + vm[c].Length > Base}

\* What becomes of a visited mapping e at b is a function from the bases of
\* the parts it leaves behind to their entries.  No part lies before b, so no
\* step of the walk meets the parts of another.

\* The part of e before Base, and the part from Top on.
Before(e, b, Base) == [e EXCEPT !.Length = Base - b]
After(e, b, Top) == [e EXCEPT !.Offset = OffsetAt(e, Top - b), !.Length = b + e.Length - Top]

\* ClearUnsafe: trim it, split it, move its start or drop it.
ClearMapping(e, b, Base, Top) ==
    [x \in {y \in {b} : b < Base} \cup {y \in {Top} : b + e.Length > Top} |->
       IF x = b THEN Before(e, b, Base) ELSE After(e, b, Top)]

\* Mutant: the mapping that is split keeps its length.
ChangeUntrimmed(e, b, Base, Top, NewProt) ==
    IF b < Base
    THEN [x \in {b, Base} |->
            IF x = b THEN e
            ELSE [e EXCEPT !.Offset = OffsetAt(e, Base - b), !.Length = Top - Base, !.Prot = NewProt]]
    ELSE [x \in {b} |-> [e EXCEPT !.Prot = NewProt]]

\* ChangeUnsafe, first half: the part of the mapping before the range keeps
\* its protection; what follows is a new mapping as long as the range.
ChangeFirst(e, b, Base, Top, NewProt) ==
    IF b < Base
    THEN [x \in {b, Base} |->
            IF x = b THEN Before(e, b, Base)
            ELSE [e EXCEPT !.Offset = OffsetAt(e, Base - b), !.Length = Top - Base, !.Prot = NewProt]]
    ELSE [x \in {b} |-> [e EXCEPT !.Prot = NewProt]]

\* ChangeUnsafe, second half: the part after the range.
ChangeMapping(e, b, Base, Top, NewProt) ==
    LET T == ChangeFirst(e, b, Base, Top, NewProt)
        current == IF b < Base THEN Base ELSE b
    IN  IF e.Prot = NewProt THEN [x \in {b} |-> e]
        ELSE IF b + e.Length <= Top THEN T
        ELSE [x \in DOMAIN T \cup {Top} |->
                IF x = Top THEN After(e, b, Top)
                ELSE IF x = current THEN [T[x] EXCEPT !.Length = Top - x]
                ELSE T[x]]

\* The list of r after ListRemove, ListReplace and ListInsertAfter for each of
\* the mappings in the domain of left, which leave the parts left[b].
Relisted(list, r, left) ==
    (list[r] \ DOMAIN left)
        \cup UNION {{x \in DOMAIN left[b] : left[b][x].Resource = r} : b \in DOMAIN left}

\* Mutant: the emptied list of the preserved resource is freed as well.
FreedPreserved(list, left, preserved) ==
    {r \in DOMAIN list : list[r] # {} /\ Relisted(list, r, left) = {}}

\* A resource whose list was emptied by ListRemove is freed, unless preserved.
Freed(list, left, preserved) ==
    {r \in DOMAIN list : r # preserved /\ list[r] # {} /\ Relisted(list, r, left) = {}}

\* The mapping that leaves a part at x.
Whole(left, x) == CHOOSE b \in DOMAIN left : x \in DOMAIN left[b]

\* The loop: each mapping in the domain of left is replaced by its parts.
Replace(S, left, preserved) ==
    LET kept == DOMAIN S.vma \ DOMAIN left
    IN  [vma |-> [x \in kept \cup UNION {DOMAIN left[b] : b \in DOMAIN left} |->
                    IF x \in kept THEN S.vma[x] ELSE left[Whole(left, x)][x]],
         list |-> [r \in DOMAIN S.list \ Freed(S.list, left, preserved) |->
                     Relisted(S.list, r, left)]]

ClearUnsafe(S, Base, Length, preserved) ==
    Replace(S, [b \in Visited(S.vma, Base, Base + Length) |->
                  ClearMapping(S.vma[b], b, Base, Base + Length)], preserved)

\* ListPrepend
ListAdd(list, r, b) == IF r = NoResource THEN list ELSE [list EXCEPT ![r] = @ \cup {b}]

SetUnsafe(S, r, Base, Offset, Length, Prot) ==
    LET T == ClearUnsafe(S, Base, Length, r)
    IN  [vma |-> Emplace(T.vma, Base, Entry(r, Offset, Length, Prot)),
         list |-> ListAdd(T.list, r, Base)]

ChangeUnsafe(S, Base, Length, NewProt) ==
    Replace(S, [b \in Visited(S.vma, Base, Base + Length) |->
                  ChangeMapping(S.vma[b], b, Base, Base + Length, NewProt)], NoResource)

\* ClearShmUnsafe: the mapping the walk starts from, if any ...
ShmFirst(vm, Base) ==
    {b \in DOMAIN vm : b >= Base /\ vm[b].Resource \in Segments /\ b - Base = vm[b].Offset}

\* ... and the mappings of the same segment it erases: the first one, and the
\* later ones before the first that ends beyond the segment's length.
ShmWalked(vm, Base, first) ==
    {b \in DOMAIN vm :
        /\ b >= first
        /\ vm[b].Resource = vm[first].Resource
        /\ \A c \in DOMAIN vm : c \in first + 1 .. b => c + vm[c].Length - Base <= ResourceLength}

ClearShmUnsafe(S, Base) ==
    LET candidates == ShmFirst(S.vma, Base)
        first == CHOOSE b \in candidates : \A c \in candidates : b <= c
    IN  IF candidates = {} THEN S
        ELSE Replace(S, [b \in ShmWalked(S.vma, Base, first) |-> <<>>], NoResource)

\* LookupVMAUnsafe: the base of the mapping that holds p.
LookupVMAUnsafe(vm, p) == {b \in DOMAIN vm : b <= p /\ b + vm[b].Length > p}

-----------------------------------------------------------------------------
(* The address space the tracker describes *)

View == [p \in PageRange |->
          IF LookupVMAUnsafe(VMAs, p) = {} THEN Unmapped
          ELSE LET b == CHOOSE c \in LookupVMAUnsafe(VMAs, p) : TRUE
                   e == VMAs[b]
               IN  MappedPage(e.Resource, e.Offset + p - b, e.Prot)]

-----------------------------------------------------------------------------
(* The mirrors of a page *)

\* Mutant: the page after the end of a mapping counts as well.
MirrorsAndNext(b, p) ==
    LET offset == p - b + VMAs[b].Offset
    IN  {offset - VMAs[c].Offset + c : c \in
           {c \in MappedResources[VMAs[b].Resource] :
              VMAs[c].Offset <= offset /\ VMAs[c].Offset + VMAs[c].Length >= offset}}

\* HandleSegfault, for page p of the shared mapping at b: the pages at the same
\* offset in the mappings on the list of its resource.
\* MarkGuestExecutableRange walks the list in the same way.
MirrorsOf(b, p) ==
    LET offset == p - b + VMAs[b].Offset
    IN  {offset - VMAs[c].Offset + c : c \in
           {c \in MappedResources[VMAs[b].Resource] :
              VMAs[c].Offset <= offset /\ VMAs[c].Offset + VMAs[c].Length > offset}}

-----------------------------------------------------------------------------
(* The tracked system calls *)

Apply(S) == VMAs' = S.vma /\ MappedResources' = S.list

Ranges == {rg \in PageRange \X (1 .. PageCount) : rg[1] + rg[2] <= PageCount}

\* MappedResources.emplace in TrackMmap and TrackShmat
WithResource(S, r) == IF r = NoResource THEN S ELSE [S EXCEPT !.list = Emplace(@, r, {})]

\* mmap of private anonymous memory or of a file
MmapCall(base, len, r, o, pr) ==
    /\ r \notin Segments
    /\ IF r = NoResource THEN o = 0 ELSE o + len <= ResourceLength
    /\ Mmap(base, len, r, o, pr)
    /\ Apply(SetUnsafe(WithResource(Tracker, r), r, base, o, len, pr))

\* shmat maps the whole segment.
ShmatCall(base, r, pr) ==
    /\ Mmap(base, ResourceLength, r, 0, pr)
    /\ Apply(SetUnsafe(WithResource(Tracker, r), r, base, 0, ResourceLength, pr))

MunmapCall(base, len) ==
    /\ Munmap(base, len)
    /\ Apply(ClearUnsafe(Tracker, base, len, NoResource))

\* Some mapping the range splits ends inside the range.
SplitsEnd(base, len, pr) ==
    \E b \in DOMAIN VMAs :
        b < base /\ b + VMAs[b].Length \in base + 1 .. base + len - 1 /\ VMAs[b].Prot # pr

MprotectCall(base, len, pr) ==
    /\ Mprotect(base, len, pr)
    /\ EndInside \/ ~SplitsEnd(base, len, pr)
    /\ Apply(ChangeUnsafe(Tracker, base, len, pr))

\* mremap of (part of) one mapping, in place or to a range that does not
\* overlap it, and not beyond the end of the segment.
MremapCall(old, oldLen, new, newLen, keep) ==
    /\ Mremap(old, oldLen, new, newLen, keep)
    /\ (oldLen # 0 /\ ~keep /\ new = old) \/ new + newLen <= old \/ old + oldLen <= new
    /\ map[old].res # NoResource => map[old].off + newLen <= ResourceLength
    /\ LET b == CHOOSE c \in LookupVMAUnsafe(VMAs, old) : TRUE
           e == VMAs[b]
           S == IF oldLen = 0 \/ keep THEN Tracker ELSE ClearUnsafe(Tracker, old, oldLen, e.Resource)
       IN  Apply(SetUnsafe(S, e.Resource, new, OffsetAt(e, old - b), newLen, e.Prot))

\* The segment attached at base may have lost pages to anything but a segment.
OwnPages(base, r) ==
    \A p \in PageRange \cap (base .. base + ResourceLength - 1) :
        map[p].res \in Segments => map[p].res = r /\ map[p].off = p - base

\* shmdt of a segment that has a page left at its place.
ShmdtCall(base, r) ==
    /\ \E p \in PageRange : map[p].res = r /\ map[p].off = p - base
    /\ Interleaved \/ OwnPages(base, r)
    /\ Shmdt(base, r)
    /\ Apply(ClearShmUnsafe(Tracker, base))

TrackNext ==
    \/ \E rg \in Ranges :
          \/ \E pr \in {"R", "RW"} :
                \/ MprotectCall(rg[1], rg[2], pr)
                \/ \E r \in Resources \cup {NoResource}, o \in 0 .. ResourceLength - 1 :
                      MmapCall(rg[1], rg[2], r, o, pr)
          \/ MunmapCall(rg[1], rg[2])
          \/ \E old \in PageRange, keep \in BOOLEAN : \E oldLen \in 0 .. PageCount - old :
                MremapCall(old, oldLen, rg[1], rg[2], keep)
    \/ \E base \in PageRange, r \in Segments :
          \/ ShmdtCall(base, r)
          \/ \E pr \in {"R", "RW"} : base + ResourceLength <= PageCount /\ ShmatCall(base, r, pr)

TrackSpec == TrackInit /\ [][TrackNext]_trackVars

-----------------------------------------------------------------------------
(* Properties *)

\* No page lies in two tracked mappings.
Disjoint == \A p \in PageRange : Cardinality(LookupVMAUnsafe(VMAs, p)) <= 1

\* The list of a resource holds every mapping of it and no other, and a
\* resource is known exactly as long as it is mapped: no fault handler misses
\* a mirror, and no mapping points to a freed resource.
MirrorsListed ==
    /\ DOMAIN MappedResources = {VMAs[b].Resource : b \in DOMAIN VMAs} \ {NoResource}
    /\ \A r \in DOMAIN MappedResources :
          MappedResources[r] = {b \in DOMAIN VMAs : VMAs[b].Resource = r}

\* The tracked mappings describe the address space the kernel has: each
\* page is tracked with its own resource, offset and protection, or not at
\* all when it is not mapped.
TracksGuestMap == View = map

\* A store to a mapped page, or code on it, is dealt with on exactly the pages
\* where the kernel has the same page of the same resource: the walk of
\* HandleSegfault misses no mirror and touches no other page.
MirrorsFound ==
    \A p \in PageRange : \A b \in LookupVMAUnsafe(VMAs, p) :
        VMAs[b].Resource # NoResource =>
            MirrorsOf(b, p) = {q \in PageRange : map[q].res = map[p].res /\ map[q].off = map[p].off}
=============================================================================
