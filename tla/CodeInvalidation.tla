-------------------------- MODULE CodeInvalidation --------------------------
(***************************************************************************)
(* Self-modifying code under SMCChecks = mtrack.  Every guest thread keeps *)
(* its own translated blocks; a page that holds translated code is made    *)
(* read-only on the host, the first write to it faults, and HandleSegfault *)
(* drops the blocks of all threads before it makes the page writable.  The *)
(* memory system calls change the host mapping first, then the tracked     *)
(* VMAs (VMATracking.Mutex) and then invalidate (CodeInvalidationMutex).   *)
(*                                                                         *)
(* The two locks are reader-writer locks that prefer readers.  A section   *)
(* under one unique lock is one step; the places where a thread holds a    *)
(* lock and waits for another, or leaves one between two sections, are     *)
(* separate values of pc:                                                  *)
(*   "run"       guest code, no lock                                       *)
(*   "add"       CompileBlock, about to register the next page             *)
(*   "mark"      ... about to write-protect it                             *)
(*   "read"      ... about to decode it                                    *)
(*   "fault"     HandleSegfault, about to take VMATracking.Mutex           *)
(*   "flush"     ... holds it shared, about to flush the next mirror       *)
(*   "track"     mmap, munmap, mremap, shmat: the host call has been made  *)
(*   "change"    mprotect: the host call has been made                     *)
(*   "inval"     ... and the VMAs are updated                              *)
(*   "shmdt", "shmflush"   the same two places of shmdt, which keeps       *)
(*               VMATracking.Mutex while it invalidates                    *)
(***************************************************************************)
EXTENDS FiniteSets

CONSTANTS
    Threads,    \* guest threads
    Pages,      \* guest pages
    Mirrors,    \* the pages that, when mapped, share one frame
    Blocks,     \* guest blocks
    Span,       \* Blocks -> the pages the block is decoded from
    Syscalls,   \* the memory system calls the guest makes
    Overlaps    \* what another thread may be doing on a page when a system
                \* call changes its mapping: "syscall", "fault", and, when
                \* the call unmaps the page, "compile"

NoPage == "no page"
NoBlock == "no block"

ASSUME PageAssumption ==
    /\ Mirrors \subseteq Pages
    /\ Span \in [Blocks -> SUBSET Pages \ {{}}]

ASSUME SyscallAssumption ==
    /\ Syscalls \subseteq {"mmap", "munmap", "mprotect", "mremap", "shmdt"}
    /\ Overlaps \subseteq {"syscall", "fault", "compile"}

VARIABLES
    host,       \* page -> host protection: "none", "R", "RW"
    vma,        \* page -> tracked guest protection: "none", "R", "RW"
    CodePages,  \* thread -> page -> blocks registered on the page
    code,       \* thread -> block -> "none", "fresh" or "stale" (history)
    pc,
    page,       \* page the thread's system call or fault is about
    dest,       \* destination page of mremap, otherwise page
    prot,       \* protection the system call asks for
    block,      \* block being compiled
    todo,       \* pages still to decode or mirrors still to flush
    decoded,    \* pages decoded so far
    torn,       \* history: a decoded page changed since it was decoded
    abort       \* "no", or the failed call that ends the process

memVars == <<host, vma>>
codeVars == <<CodePages, code>>
callVars == <<page, dest, prot>>
compileVars == <<block, decoded, torn>>
vars == <<memVars, codeVars, pc, callVars, compileVars, todo, abort>>

Prots == {"none", "R", "RW"}

TypeOK ==
    /\ host \in [Pages -> Prots]
    /\ vma \in [Pages -> Prots]
    /\ CodePages \in [Threads -> [Pages -> SUBSET Blocks]]
    /\ code \in [Threads -> [Blocks -> {"none", "fresh", "stale"}]]
    /\ pc \in [Threads -> {"run", "add", "mark", "read", "fault", "flush",
                           "track", "change", "inval", "shmdt", "shmflush"}]
    /\ page \in [Threads -> Pages \cup {NoPage}]
    /\ dest \in [Threads -> Pages \cup {NoPage}]
    /\ prot \in [Threads -> Prots]
    /\ block \in [Threads -> Blocks \cup {NoBlock}]
    /\ todo \in [Threads -> SUBSET Pages]
    /\ decoded \in [Threads -> SUBSET Pages]
    /\ torn \in [Threads -> BOOLEAN]
    /\ abort \in {"no", "mprotect", "fetch"}

Init ==
    /\ host = [p \in Pages |-> "RW"]
    /\ vma = [p \in Pages |-> "RW"]
    /\ CodePages = [t \in Threads |-> [p \in Pages |-> {}]]
    /\ code = [t \in Threads |-> [b \in Blocks |-> "none"]]
    /\ pc = [t \in Threads |-> "run"]
    /\ page = [t \in Threads |-> NoPage]
    /\ dest = page
    /\ prot = [t \in Threads |-> "none"]
    /\ block = [t \in Threads |-> NoBlock]
    /\ todo = [t \in Threads |-> {}]
    /\ decoded = [t \in Threads |-> {}]
    /\ torn = [t \in Threads |-> FALSE]
    /\ abort = "no"

-----------------------------------------------------------------------------
(* Locks, memory and invalidation *)

\* CompileBlock holds CodeInvalidationMutex shared from FindBlock to the end.
Compiling(t) == pc[t] \in {"add", "mark", "read"}
CodeFree == \A t \in Threads : ~Compiling(t)

\* VMATracking.Mutex: held shared by a fault handler, unique by shmdt.
VMAShareable == \A t \in Threads : pc[t] # "shmflush"
VMAFree == \A t \in Threads : pc[t] \notin {"flush", "shmflush"}

\* A system call has changed the host mapping of p and is not finished.
InSyscall(t, p) == /\ pc[t] \in {"track", "change", "inval", "shmdt", "shmflush"}
                   /\ p \in {page[t], dest[t]}
Settled(p) == \A t \in Threads : ~InSyscall(t, p)

\* The pages that share p's frame.
Frame(p) == IF p \in Mirrors THEN Mirrors ELSE {p}

\* The memory behind the pages ps changes: code decoded from it is stale.
Change(ps) ==
    /\ code' = [t \in Threads |-> [b \in Blocks |->
                  IF code[t][b] # "none" /\ Span[b] \cap ps # {} THEN "stale" ELSE code[t][b]]]
    /\ torn' = [t \in Threads |-> torn[t] \/ decoded[t] \cap ps # {}]

\* Mutant: the page's block list is cleared but the blocks stay.
InvalidateListOnly(p) ==
    /\ CodePages' = [t \in Threads |-> [CodePages[t] EXCEPT ![p] = {}]]
    /\ UNCHANGED code

\* InvalidateGuestCodeRange of page p, for every thread.
InvalidatePage(p) ==
    /\ CodePages' = [t \in Threads |-> [CodePages[t] EXCEPT ![p] = {}]]
    /\ code' = [t \in Threads |-> [b \in Blocks |->
                  IF b \in CodePages[t][p] THEN "none" ELSE code[t][b]]]

\* A host mprotect of the pages ps; it fails, and ends the process, when one
\* of them is not mapped.
HostProtect(ps, pr) ==
    IF \E p \in ps : host[p] = "none"
    THEN abort' = "mprotect" /\ UNCHANGED host
    ELSE host' = [p \in Pages |-> IF p \in ps THEN pr ELSE host[p]] /\ UNCHANGED abort

\* The thread has nothing more to do and runs guest code again.
Resume(t) ==
    /\ pc' = [pc EXCEPT ![t] = "run"]
    /\ page' = [page EXCEPT ![t] = NoPage]
    /\ dest' = [dest EXCEPT ![t] = NoPage]
    /\ prot' = [prot EXCEPT ![t] = "none"]

-----------------------------------------------------------------------------
(* CompileBlock *)

CompileStart(t, b) ==
    /\ pc[t] = "run" /\ code[t][b] = "none"
    /\ \A p \in Span[b] : host[p] # "none"
    /\ pc' = [pc EXCEPT ![t] = "add"]
    /\ block' = [block EXCEPT ![t] = b]
    /\ todo' = [todo EXCEPT ![t] = Span[b]]
    /\ decoded' = [decoded EXCEPT ![t] = {}]
    /\ torn' = [torn EXCEPT ![t] = FALSE]
    /\ UNCHANGED <<memVars, codeVars, callVars, abort>>

\* AddBlockExecutableRange: the first block on a page has the page marked.
AddBlockExecutableRange(t, p) ==
    /\ pc[t] = "add" /\ p \in todo[t]
    /\ CodePages' = [CodePages EXCEPT ![t][p] = @ \cup {block[t]}]
    /\ pc' = [pc EXCEPT ![t] = IF CodePages[t][p] = {} THEN "mark" ELSE "read"]
    /\ page' = [page EXCEPT ![t] = p]
    /\ dest' = [dest EXCEPT ![t] = p]
    /\ UNCHANGED <<memVars, code, prot, compileVars, todo, abort>>

\* MarkGuestExecutableRange: write-protect the page, or all writable mirrors
\* of it when the mapping is shared.  An untracked page is left alone.
MarkGuestExecutableRange(t) ==
    /\ pc[t] = "mark" /\ VMAShareable
    /\ LET p == page[t] IN
       HostProtect(IF vma[p] = "none" THEN {} ELSE {q \in Frame(p) : vma[q] = "RW"}, "R")
    /\ pc' = [pc EXCEPT ![t] = "read"]
    /\ UNCHANGED <<vma, codeVars, callVars, compileVars, todo>>

\* The decoder reads the page.
DecodePage(t) ==
    /\ pc[t] = "read"
    /\ abort' = IF host[page[t]] = "none" THEN "fetch" ELSE abort
    /\ decoded' = [decoded EXCEPT ![t] = @ \cup {page[t]}]
    /\ todo' = [todo EXCEPT ![t] = @ \ {page[t]}]
    /\ pc' = [pc EXCEPT ![t] = "add"]
    /\ UNCHANGED <<memVars, codeVars, callVars, block, torn>>

\* AddBlockMapping ends the compilation.  When the code buffer was full all
\* other blocks of the thread are gone (ClearCache leaves CodePages).
AddBlockMapping(t, full) ==
    /\ pc[t] = "add" /\ todo[t] = {}
    /\ code' = [code EXCEPT ![t] = [b \in Blocks |->
                  IF b = block[t] THEN (IF torn[t] THEN "stale" ELSE "fresh")
                  ELSE IF full THEN "none" ELSE @[b]]]
    /\ decoded' = [decoded EXCEPT ![t] = {}]
    /\ torn' = [torn EXCEPT ![t] = FALSE]
    /\ block' = [block EXCEPT ![t] = NoBlock]
    /\ Resume(t)
    /\ UNCHANGED <<memVars, CodePages, todo, abort>>

-----------------------------------------------------------------------------
(* Guest stores and HandleSegfault *)

\* A store to a page that is writable on the host.
Write(t, p) ==
    /\ pc[t] = "run" /\ host[p] = "RW"
    /\ Change(Frame(p))
    /\ UNCHANGED <<memVars, CodePages, pc, callVars, block, decoded, todo, abort>>

\* A store to any other page faults.
WriteFault(t, p) ==
    /\ pc[t] = "run" /\ host[p] # "RW"
    /\ "syscall" \in Overlaps \/ Settled(p)
    /\ pc' = [pc EXCEPT ![t] = "fault"]
    /\ page' = [page EXCEPT ![t] = p]
    /\ dest' = [dest EXCEPT ![t] = p]
    /\ UNCHANGED <<memVars, codeVars, prot, compileVars, todo, abort>>

\* HandleSegfault looks the page up.  If it is untracked or not writable the
\* fault is the guest's own; otherwise every mapped mirror is to be flushed.
HandleSegfault(t) ==
    /\ pc[t] = "fault" /\ VMAShareable
    /\ IF vma[page[t]] # "RW"
       THEN Resume(t) /\ UNCHANGED todo
       ELSE /\ pc' = [pc EXCEPT ![t] = "flush"]
            /\ todo' = [todo EXCEPT ![t] = {q \in Frame(page[t]) : vma[q] # "none"}]
            /\ UNCHANGED callVars
    /\ UNCHANGED <<memVars, codeVars, compileVars, abort>>

\* One mirror: invalidate, then make it writable if its mapping is; both
\* under CodeInvalidationMutex, which is taken anew for each mirror.
FlushMirror(t, q) ==
    /\ pc[t] = "flush" /\ q \in todo[t] /\ CodeFree
    /\ InvalidatePage(q)
    /\ HostProtect(IF vma[q] = "RW" THEN {q} ELSE {}, "RW")
    /\ todo' = [todo EXCEPT ![t] = @ \ {q}]
    /\ UNCHANGED <<vma, pc, callVars, compileVars>>

\* All mirrors are flushed: return, and the store is restarted.
FaultReturn(t) ==
    /\ pc[t] = "flush" /\ todo[t] = {}
    /\ Resume(t)
    /\ UNCHANGED <<memVars, codeVars, compileVars, todo, abort>>

-----------------------------------------------------------------------------
(* Memory system calls: host call, Track..., InvalidateGuestCodeRange *)

\* What the guest's own synchronisation leaves to happen on the pages.
Calm(t, ps) ==
    \A u \in Threads \ {t}, p \in ps :
        /\ "syscall" \in Overlaps \/ ~InSyscall(u, p)
        /\ "fault" \in Overlaps \/ ~(pc[u] \in {"fault", "flush"} /\ page[u] = p)

\* The guest does not run code of a page it unmaps.
Unused(p) ==
    "compile" \in Overlaps \/ \A u \in Threads : ~(Compiling(u) /\ p \in Span[block[u]])

HostDone(t, next, p, q, pr) ==
    /\ pc' = [pc EXCEPT ![t] = next]
    /\ page' = [page EXCEPT ![t] = p]
    /\ dest' = [dest EXCEPT ![t] = q]
    /\ prot' = [prot EXCEPT ![t] = pr]
    /\ UNCHANGED <<vma, CodePages, block, decoded, todo, abort>>

\* mmap or shmat at p: a private page has new contents, a mirror does not.
GuestMmap(t, p, pr) ==
    /\ "mmap" \in Syscalls /\ pc[t] = "run" /\ Calm(t, {p})
    /\ host' = [host EXCEPT ![p] = pr]
    /\ IF p \in Mirrors THEN UNCHANGED <<code, torn>> ELSE Change({p})
    /\ HostDone(t, "track", p, p, pr)

GuestMunmap(t, p) ==
    /\ "munmap" \in Syscalls /\ pc[t] = "run" /\ Calm(t, {p}) /\ Unused(p)
    /\ host[p] # "none"
    /\ host' = [host EXCEPT ![p] = "none"]
    /\ Change({p})
    /\ HostDone(t, "track", p, p, "none")

GuestMprotect(t, p, pr) ==
    /\ "mprotect" \in Syscalls /\ pc[t] = "run" /\ Calm(t, {p})
    /\ host[p] # "none"
    /\ host' = [host EXCEPT ![p] = pr]
    /\ UNCHANGED <<code, torn>>
    /\ HostDone(t, "change", p, p, pr)

\* mremap of the private page p to q: the host protection moves with it.
GuestMremap(t, p, q) ==
    /\ "mremap" \in Syscalls /\ pc[t] = "run" /\ Calm(t, {p, q}) /\ Unused(p)
    /\ p # q /\ {p, q} \cap Mirrors = {} /\ host[p] # "none"
    /\ host' = [host EXCEPT ![p] = "none", ![q] = host[p]]
    /\ Change({p, q})
    /\ HostDone(t, "track", p, q, vma[p])

GuestShmdt(t, p) ==
    /\ "shmdt" \in Syscalls /\ pc[t] = "run" /\ Calm(t, {p}) /\ Unused(p)
    /\ p \in Mirrors /\ host[p] # "none"
    /\ host' = [host EXCEPT ![p] = "none"]
    /\ Change({p})
    /\ HostDone(t, "shmdt", p, p, "none")

\* Mutant: munmap leaves its VMA in place.
TrackForgetsMunmap(t) ==
    /\ pc[t] = "track" /\ VMAFree
    /\ vma' = IF prot[t] = "none" THEN vma ELSE [vma EXCEPT ![dest[t]] = prot[t]]
    /\ pc' = [pc EXCEPT ![t] = "inval"]
    /\ UNCHANGED <<host, codeVars, callVars, compileVars, todo, abort>>

\* TrackMmap, TrackMunmap, TrackMremap, TrackShmat: the VMAs.
Track(t) ==
    /\ pc[t] = "track" /\ VMAFree
    /\ vma' = [p \in Pages |->
                 IF p = dest[t] THEN prot[t] ELSE IF p = page[t] THEN "none" ELSE vma[p]]
    /\ pc' = [pc EXCEPT ![t] = "inval"]
    /\ UNCHANGED <<host, codeVars, callVars, compileVars, todo, abort>>

\* Mutant: the protection of the VMAs is not changed.
TrackMprotectForgets(t) ==
    /\ pc[t] = "change" /\ VMAFree
    /\ pc' = [pc EXCEPT ![t] = "inval"]
    /\ UNCHANGED <<memVars, codeVars, callVars, compileVars, todo, abort>>

\* TrackMprotect: ChangeUnsafe changes the VMAs that exist and adds none.
TrackMprotect(t) ==
    /\ pc[t] = "change" /\ VMAFree
    /\ vma' = [vma EXCEPT ![page[t]] = IF @ = "none" THEN "none" ELSE prot[t]]
    /\ pc' = [pc EXCEPT ![t] = "inval"]
    /\ UNCHANGED <<host, codeVars, callVars, compileVars, todo, abort>>

\* Mutant: the invalidation does not wait for compilations to end.
InvalidateUnlocked(t) ==
    /\ pc[t] = "inval"
    /\ InvalidatePage(page[t])
    /\ Resume(t)
    /\ UNCHANGED <<memVars, compileVars, todo, abort>>

\* ... and the invalidation, which for mremap is that of the old page.
TrackInvalidate(t) ==
    /\ pc[t] = "inval" /\ CodeFree
    /\ InvalidatePage(page[t])
    /\ Resume(t)
    /\ UNCHANGED <<memVars, compileVars, todo, abort>>

TrackShmdt(t) ==
    /\ pc[t] = "shmdt" /\ VMAFree
    /\ vma' = [vma EXCEPT ![page[t]] = "none"]
    /\ pc' = [pc EXCEPT ![t] = "shmflush"]
    /\ UNCHANGED <<host, codeVars, callVars, compileVars, todo, abort>>

TrackShmdtInvalidate(t) ==
    /\ pc[t] = "shmflush" /\ CodeFree
    /\ InvalidatePage(page[t])
    /\ Resume(t)
    /\ UNCHANGED <<memVars, compileVars, todo, abort>>

-----------------------------------------------------------------------------

CompileStep(t) ==
    \/ \E b \in Blocks : CompileStart(t, b)
    \/ \E p \in Pages : AddBlockExecutableRange(t, p)
    \/ MarkGuestExecutableRange(t)
    \/ DecodePage(t)
    \/ \E full \in BOOLEAN : AddBlockMapping(t, full)

FaultStep(t) ==
    \/ HandleSegfault(t)
    \/ \E q \in Pages : FlushMirror(t, q)
    \/ FaultReturn(t)

SyscallStep(t) ==
    \/ Track(t) \/ TrackMprotect(t) \/ TrackInvalidate(t)
    \/ TrackShmdt(t) \/ TrackShmdtInvalidate(t)

GuestStep(t) ==
    \E p \in Pages :
       \/ Write(t, p) \/ WriteFault(t, p)
       \/ GuestMunmap(t, p) \/ GuestShmdt(t, p)
       \/ \E pr \in {"R", "RW"} : GuestMmap(t, p, pr) \/ GuestMprotect(t, p, pr)
       \/ \E q \in Pages : GuestMremap(t, p, q)

Next == abort = "no" /\ \E t \in Threads :
            CompileStep(t) \/ FaultStep(t) \/ SyscallStep(t) \/ GuestStep(t)

Spec == Init /\ [][Next]_vars

-----------------------------------------------------------------------------
(* Properties *)

\* An invalidation of p is on its way: a system call or a fault handler that
\* has yet to reach it.
Expected(p) == ~Settled(p) \/ \E t \in Threads : pc[t] = "flush" /\ p \in todo[t]

\* A block that no longer matches the guest's memory is in no thread's cache,
\* except while an invalidation of it is on its way: a store to translated
\* code never goes unnoticed.
NoStaleCode ==
    \A t \in Threads, b \in Blocks :
        code[t][b] = "stale" => \E p \in Span[b] : Expected(p)

\* A cached block is registered on every page it was decoded from, so an
\* invalidation of any one of them finds it.
Registered ==
    \A t \in Threads, b \in Blocks :
        code[t][b] # "none" => \A p \in Span[b] : b \in CodePages[t][p]

\* Outside a system call on the page, the host lets the guest write only
\* where the guest's own mapping does: a write fault that the guest is to see
\* is not swallowed.
ProtectionKept ==
    \A p \in Pages : Settled(p) /\ host[p] = "RW" => vma[p] = "RW"

\* t waits for a lock that u holds.
WaitsFor(t, u) ==
    \/ pc[t] \in {"mark", "fault"} /\ pc[u] = "shmflush"
    \/ pc[t] \in {"track", "change", "shmdt"} /\ pc[u] \in {"flush", "shmflush"}
    \/ (pc[t] \in {"inval", "shmflush"} \/ (pc[t] = "flush" /\ todo[t] # {})) /\ Compiling(u)

\* No two threads wait for each other's lock: a compilation, a fault handler
\* and a system call can always be finished in some order.
NoWaitCycle == \A t, u \in Threads : ~(WaitsFor(t, u) /\ WaitsFor(u, t))

\* The mprotect calls that MarkGuestExecutableRange and HandleSegfault assert
\* to succeed do succeed.
ProtectSucceeds == abort # "mprotect"
=============================================================================
