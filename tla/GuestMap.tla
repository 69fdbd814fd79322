------------------------------ MODULE GuestMap ------------------------------
(***************************************************************************)
(* The guest's address space, page by page, as the host kernel keeps it:   *)
(* what the VMA tracking of the system call handler has to agree with.     *)
(* Only the calls that succeed are steps, for a failed call is not tracked.*)
(***************************************************************************)
EXTENDS Integers

CONSTANTS
    PageCount,      \* bound: the address space is pages 0 .. PageCount - 1
    Resources,      \* what mappings map: files and sys-v segments
    Segments,       \* ... the sys-v segments
    ResourceLength, \* length of a file or segment in whole pages
    NoResource      \* what an anonymous private mapping maps

ASSUME SizeAssumption == PageCount \in Nat /\ ResourceLength \in Nat \ {0}
ASSUME ResourceAssumption == NoResource \notin Resources /\ Segments \subseteq Resources

VARIABLE map        \* page -> what is mapped there

PageRange == 0 .. PageCount - 1
Unmapped == [res |-> NoResource, off |-> 0, prot |-> "none"]

\* An anonymous page has no offset that anyone could tell.
MappedPage(r, o, pr) == [res |-> r, off |-> IF r = NoResource THEN 0 ELSE o, prot |-> pr]

MapInit == map = [p \in PageRange |-> Unmapped]

\* mmap, shmat
Mmap(base, len, r, o, pr) ==
    map' = [p \in PageRange |->
              IF p \in base .. base + len - 1 THEN MappedPage(r, o + p - base, pr) ELSE map[p]]

Munmap(base, len) ==
    map' = [p \in PageRange |-> IF p \in base .. base + len - 1 THEN Unmapped ELSE map[p]]

\* mprotect fails when part of the range is not mapped.
Mprotect(base, len, pr) ==
    /\ \A p \in base .. base + len - 1 : map[p] # Unmapped
    /\ map' = [p \in PageRange |->
                 IF p \in base .. base + len - 1 THEN [map[p] EXCEPT !.prot = pr] ELSE map[p]]

\* The range is one kernel mapping.
Uniform(base, len) ==
    /\ map[base] # Unmapped
    /\ \A p \in base .. base + len - 1 :
          map[p] = MappedPage(map[base].res, map[base].off + p - base, map[base].prot)

\* mremap moves, grows or shrinks the range; with an old length of zero it
\* mirrors a shared one, and with MREMAP_DONTUNMAP (keep) it leaves the old
\* range mapped as it was.
Mremap(old, oldLen, new, newLen, keep) ==
    /\ Uniform(old, oldLen)
    /\ oldLen = 0 => map[old].res # NoResource
    /\ keep => oldLen = newLen
    /\ map' = [p \in PageRange |->
                 IF p \in new .. new + newLen - 1
                 THEN MappedPage(map[old].res, map[old].off + p - new, map[old].prot)
                 ELSE IF ~keep /\ p \in old .. old + oldLen - 1 THEN Unmapped ELSE map[p]]

\* shmdt unmaps what is left of the segment attached at base.
Shmdt(base, r) ==
    map' = [p \in PageRange |->
              IF p >= base /\ map[p].res = r /\ map[p].off = p - base THEN Unmapped ELSE map[p]]

\* What an observer of the address space may see: any of these calls.
MapNext ==
    \/ \E base \in PageRange, len \in 1 .. PageCount :
          \/ Munmap(base, len)
          \/ \E pr \in {"R", "RW"} :
                \/ Mprotect(base, len, pr)
                \/ \E r \in Resources \cup {NoResource}, o \in 0 .. ResourceLength - 1 :
                      Mmap(base, len, r, o, pr)
          \/ \E old \in PageRange, oldLen \in 0 .. PageCount, keep \in BOOLEAN :
                Mremap(old, oldLen, base, len, keep)
    \/ \E base \in PageRange, r \in Segments : Shmdt(base, r)

MapSpec == MapInit /\ [][MapNext]_map
=============================================================================
