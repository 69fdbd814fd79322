# FEX: a TLA+ verification project

FEX runs x86 and x86-64 Linux programs on Arm64 (and x86-64) hosts. It translates guest
code block by block, keeps the translations in per-thread caches, links blocks directly to
each other, tracks guest memory so that modified code is translated again, emulates the
guest's system calls and threads, and answers a debugger.

The instruction semantics are covered by the repository's ASM and IR tests. What a test
hardly reaches is the machinery around the translator: lock-free lookups against
invalidation, page protection against system calls, threads that start, pause and stop
each other by signals. This project models that machinery, model-checks it with TLC on
small instances and proves its central invariants with TLAPS for every instance.

Paths below are relative to the repository. `Core/` stands for
`External/FEXCore/Source/Interface/Core/` and `LinuxSyscalls/` for
`Source/Tests/LinuxSyscalls/`.

## 1. Inventory

| Component | State | Operations | Hard behaviour | What makes it correct |
|---|---|---|---|---|
| Block lookup cache (`Core/LookupCache.h`, `.cpp`) | L1 table, L2 directory and backing, BlockList (L3), BlockLinks, CodePages | FindBlock, AddBlockMapping, CacheBlockMapping, Erase, AddBlockLink, ClearCache | three levels kept in step; L1 is read and written without the lock; L2 runs out of backing | a lookup never returns an erased or freed block; all levels answer as one map |
| Dispatcher and exit linker (`Core/Dispatcher/Arm64Dispatcher.cpp`, `Core/JIT/Arm64/JIT.cpp`) | registers of the thread, patched exit stubs | inline lookup, ExitFunctionLink, delinkers | the load of an L2 entry and its store to L1 are not atomic | no jump into an invalidated or freed block; every patched exit has a delinker |
| Code buffers (`Core/CPUBackend.cpp`) | list of buffers, current buffer | GetEmptyCodeBuffer, growth, reuse | a buffer is cleared while a signal handler stands on top of code in it | no pointer into freed code |
| Compilation and invalidation (`Core/Core.cpp`, `Core/Frontend.cpp`) | CodeInvalidationMutex, CodePages | CompileBlock, InvalidateGuestCodeRange, ClearCodeCache, MarkMemoryShared | invalidation by one thread of the code of all | a block is registered on each of its pages before it is decoded |
| SMC tracking (`LinuxSyscalls/SyscallsSMCTracking.cpp`, `x64/Memory.cpp`) | host page protections, VMATracking.Mutex | HandleSegfault, MarkGuestExecutableRange, TrackMmap .. TrackShmdt | host call, tracking and invalidation are three steps; mirrors of a frame; two locks | a store to translated code is never missed; the guest's protections are kept; no deadlock |
| VMA tracking (`LinuxSyscalls/SyscallsVMATracking.cpp`) | VMAs, MappedResources and their lists | SetUnsafe, ClearUnsafe, ChangeUnsafe, ClearShmUnsafe | splitting, shrinking and partial replacement of ranges | ranges disjoint, every mirror listed, equal to the kernel's address space |
| Thread life cycle (`Core/Core.cpp`, `Core/Dispatcher/Dispatcher.cpp`, `LinuxSyscalls/Syscalls/Thread.cpp`) | IdleWaitRefCount, IdleWaitCV, RunningEvents, SignalReason, StartRunning, Threads | ExecutionThread, SleepThread, HandleSignalPause, Pause, Run, Stop, clone, exit | counter and flags changed in several steps, signals in between, a condition variable notified without its mutex | the counter is exact; a pause means nobody runs; every wait ends |
| `refcount_shared_mutex` (`External/FEXCore/include/FEXCore/Utils/`) | one futex word | lock, lock_shared, try_*, unlock* | compare-exchange races, sleeping on a value | mutual exclusion, exact reference count |
| GDB server (`Core/GdbServer.cpp`) | socket, current thread | packets | commands that wait for all threads | every command is answered |
| AOT IR cache (`External/FEXCore/Source/Interface/IR/AOTIR.cpp`, `Core/Core.cpp`, `Source/Tests/AOT/AOTGenerator.cpp`) | write-out queue and its flag, stream and index, mapped cache file | PostCompileCode, AppendAOTIRCaptureCache, the flush, FinalizeAOTIRCache, PreGenerateIRFetch, LoadAOTIRCacheEntry | an append races the end of a flush; a process dies before the rename; the guest file changes under its cache | one flusher, nothing queued is lost, the published file is whole, IR is used only for the code it was made from |
| Object code cache (`Core/ObjectCache/`) | job queue, reference counters, named regions | asynchronous serialization | a thread exits while its code is being written | WaitForEmptyJobQueue never returns early |
| Signal delegation (`LinuxSyscalls/SignalDelegator.cpp`, `Core/Dispatcher/Dispatcher.cpp`) | guest actions and mask, host handlers and mask, interrupted contexts, alternative stack | sigaction, sigprocmask, sigsuspend, sigaltstack, deliver, pause, callback, the returns | handlers, pauses, callbacks and waits that interrupt each other, each with a mask to put back | the emulator's signals always arrive; the masks agree; contexts counted and their stacks kept |
| Buffer pool (`ThreadPoolAllocator.h`) | claimed and unclaimed lists, a flag per client | claim, unclaim, disown, reown | the flag changes without the lock while the pool looks for expired buffers | one owner per buffer, none lost |
| 32-bit guest allocator (`LinuxSyscalls/LinuxAllocator.cpp`) | page bitmap, segment table, last scan position | mmap, munmap, mremap, shmat, shmdt | the bitmap and the host disagree; mremap drops the lock half way | no page of the guest is handed out again |
| Opcode dispatcher, IR passes, JIT and interpreter operations | - | sequential compiler | instruction semantics | covered by the repository's tests |
| System call tables, emulated files, thunks, configuration, loader, tools | - | pass-through and input/output | - | - |

How they meet: the dispatcher reads the lookup cache and calls CompileBlock on a miss.
CompileBlock holds CodeInvalidationMutex shared, registers each page of the block in
CodePages, has SMC tracking write-protect it and then decodes it. A store to a protected
page faults into HandleSegfault, which takes VMATracking.Mutex shared and, per mirror,
CodeInvalidationMutex unique, and erases the blocks of every thread. Memory system calls
change the host first, then the tracked VMAs, then invalidate. The GDB server and
exit_group stop threads with signal 63, whose handler changes the idle counter that the
GDB server and the parent thread wait for; that signal must get through whatever masks and
handlers the guest has (signal delegation). Decoders and IR emitters take their buffers from
the pool. A compilation hands its IR to the AOT IR cache or takes it from there. The memory
calls of a 32-bit guest go through the 32-bit allocator first.

## 2. Modules

| Module | Models | State and actions |
|---|---|---|
| `LookupCache` | the lookup cache of one thread, its dispatcher, exit linker and code buffers | `L1`, `PagePointers`/`PageMemory`/`AllocateOffset` (L2), `BlockList`, `BlockLinks`, `Jump` (exit stubs), `CodeOf`/`CurrentBuffer` (code buffers), `pc`/`running`/`pending` (the owner) and `interrupted`, the same three of the context a guest signal has stored, which may be any point of the dispatcher and the linker. One action per lookup step, compilation, step of the exit linker (find, patch, register the delinker), followed link, signal, cache clear; `Erase` is two steps, because lock-free readers can run between them |
| `BlockMap` | what a lookup cache promises: one map from guest addresses to blocks | `blocks`, `erasing`; insert, clear, and an erase that takes effect between its start and its end |
| `LookupCacheProofs` | | theorems about `LookupCache`; `ImplementsBlockMap` is `BlockMap!Spec` under the mapping `Lookups`, what FindBlock returns for each address |
| `CodeInvalidation` | compilation, SMC tracking and the memory system calls of several threads, page by page | `host` and `vma` protections, `CodePages` and `code` per thread, one place per point where a thread holds or waits for a lock. `stale` and `torn` are history: a cached or half decoded block no longer matches memory |
| `GuestMap` | the kernel's address space (external), page by page | mmap, munmap, mprotect, mremap, shmdt as the kernel performs them; `MapSpec` is the address space that changes by them |
| `VMATracking` | the tracker, extending `GuestMap`: each step makes the kernel's change and tracks it | `VMAs`, `MappedResources`; the list of a resource is the set of its members. The loops of ClearUnsafe, ChangeUnsafe and ClearShmUnsafe over the mappings in their way are one replacement of the mappings visited by the parts each leaves behind |
| `MemoryTrackingProofs` | | theorems about `CodeInvalidation` and `VMATracking` |
| `SharedLock` | what a reader-writer lock promises | `holds`: caller -> none, unique, shared |
| `RefcountSharedMutex`, `RefcountSharedMutexProofs` | the futex lock, one place per atomic step, and theorems | `Futex`, `pc`, `Expected`; `ImplementsSharedLock` is `SharedLock!Spec` under the mapping `Holding`, which reads what a caller holds off its place |
| `ThreadLifecycle`, `ThreadLifecycleProofs` | the idle counter, condition variable, thread events, pause signal, Pause, Run, Stop, clone and exit | one step per atomic store, counter change and notification; a wait on IdleWaitCV tests (`tested`) and then sleeps (`waiters`) in two steps, and a notification wakes only sleepers. History: `missed` (a notification came between test and sleep), `prepared` (the creator has set the thread's registers) |
| `SignalDelegator`, `SignalDelegatorProofs` | the signals of one guest thread | `GuestAction`/`HostHandler`, the masks `CurrentSignalMask`, `PreviousSuspendMask` and `HostMask`, `frames` (the contexts the dispatcher has stored, each with the mask its return restores), `where`, `stack`. One action per system call, delivery, pause, callback and return |
| `ThreadPoolAllocator`, `ThreadPoolAllocatorProofs` | the pool and its clients | a client's flag and iterator, the two lists, the pool's scan under AllocationMutex, one step per atomic access to a flag |
| `MemAllocator32Bit`, `MemAllocator32BitProofs` | the allocator and, as external, the host's address space page by page | `MappedPages`, `PageToShm`, `LastScanLocation`, `Host`; a search is one step per attempt to map, mremap three sections under the mutex. Segments have a size in pages and in whole pages (`SegPages`, `SegFloor`) and may be moved, grown and cut by mremap; `robbed` is history: a call has named the place that another thread's mremap had reserved |
| `AOTIR`, `AOTIRProofs` | capture, generation, write-out, finalization, load and lookup of the IR of one guest file, by processes one after the other | `Queue`/`Flusing`, `tmp`/`published`/`Index` (the files), `loaded`, `code` and `blocks` (guest memory and what was made from it), changed by stores and by mappings (`GuestRemap`, then `TrackRemap`); any write may fail (`DiskFails`): `failed` is the stream's state, a `torn` file has part of an index; `NewProcess` follows an end or a kill in any state |
| `MC*` | small instances | constants and symmetry sets |

`CodeInvalidation` abstracts the lookup cache to "block cached or not" and the VMA tracker
to one protection per page; `LookupCache` shows that an erased block is really gone from a
cache, and `VMATracking` that the tracked pages are the kernel's, and that the walk over a
resource's list finds exactly the mirrors of a page (`MirrorsFound`), which is what `Frame` of
`CodeInvalidation` stands for. The three together are
the argument that modified code is translated again.

Definitions named `Mutant` in a comment are faulty variants used only to confirm that a
property can fail: replacing the definition that follows by the variant makes TLC report a
violation of that property.

## 3. Runs

| Run | Instance | Result |
|---|---|---|
| `cache_single` | 3 addresses that alias in L1 and L2, 3 host blocks, 2 L1 entries, 2 backing pages; one thread, no signals, no TSO migration | `LookupSound`, `LinkSound`, `NoStaleEntry` and the refinement `ImplementsBlockMap` hold (56 332 states) |
| `cache_threads` | the same with two code buffers and cross-thread invalidation, TSO migration and signals on | `NoFreedCode`, `L2Sound` hold (82 092) |
| `smc_private` | 2 threads, 2 private pages, a block on one page and a block on both; mmap, munmap, mprotect that do not overlap on a page | `NoStaleCode`, `ProtectionKept`, `ProtectSucceeds` hold (148 517) |
| `smc_any` | all calls, everything overlapping, one mirrored page | `Registered` holds (129 004) |
| `vma_calls` | 4 pages, a segment and a file of 2 pages, every call with every argument; mprotect ranges that do not end beyond the mapping they split, no other segment inside a detached range | `Disjoint`, `MirrorsListed`, `TracksGuestMap`, `MirrorsFound` hold (16 901) |
| `refcount_exclusion` | 4 callers | `CountsSharers` and the refinement `ImplementsSharedLock` hold (261 711 up to symmetry) |
| `threads_commands` | 3 threads, a GDB server; commands and stops come when the threads are settled | `TypeOK`, `CountExact`, `PausedMeansStopped`, `OnlyMissed`, `CommandsEnd`, `StopEnds` hold (23 382) |
| `pool_claims` | a client that claims in its constructor and one that does not, of different sizes, 3 buffers, 3 ticks | `ExclusiveUse`, `BuffersListed` hold (35 403 up to symmetry) |
| `alloc_place` | 2 threads, of which one calls mremap, 3 pages of which the host process uses one, lengths 1 and 2, a segment that needs two pages and fills one, SHM_REMAP | `Tracked`, `FindsHighest`, `NoClobber` hold (920 603) |
| `signals_masks` | a guest signal, a fault signal and the pause signal, sigsuspend with none of them, the first or the last two masked, 2 interrupted contexts and a pause on top | `RequiredHandled`, `MaskAgrees`, `CountsFrames`, `AltStackOnce` hold (167 588) |
| `aot_capture` | 2 threads, 2 entry points with 2 versions of their code, one whose block starts below it, one change of the code by a store or a mapping, a queue limit of 1, a disk that may fail, 2 processes that capture, generate or load | `TypeOK`, `OneFlusher`, `LongQueueFlushed`, `PublishedWhole`, `NothingLost`, `RecordsFaithful`, `FetchesCurrent` hold (4 344 109 up to symmetry, two minutes) |
| `aot_load` | the same, capture and load | `BlocksRegistered` fails: finding |

The type invariants of `LookupCache`, `CodeInvalidation`, `VMATracking`, `RefcountSharedMutex`,
`SignalDelegator`, `ThreadPoolAllocator` and `MemAllocator32Bit` are proved and in no run.

Bounds. Three addresses are the fewest with a pair that aliases in L2, a third that forces
a second backing page and a chain of links; two L1 entries make all of them collide. Two
pages and a block that lies on both give every order of register, protect, decode and
invalidate; a third thread adds no lock conflict, since each wait involves a holder and a
waiter. Four pages give every way in which a new range can cut a mapping of up to
three pages, with a neighbour. `COUNT_RANGE` is larger than the number of threads, so a
wrapped counter is visible to `CountExact`; each thread is created at most once and has at
most `MaxNested` pause handlers on its stack. Two clients are enough for every race of the
pool: the one that scans and the one whose buffer it looks at; the third buffer makes room
for one to go stale, and with every duration 1 three ticks expire a buffer that was used,
reowned and given back. In `alloc_place` a range of length 2 meets the foreign page, both
ends of the space and the wrap of the scan; the second thread runs where mremap has dropped
the mutex. `Movers` bounds the threads that call mremap to one, and `MaxSegPages` how far mremap
may grow a segment. Two contexts let a handler interrupt a handler, a callback and a sigsuspend, and
a pause interrupt each. A limit of 1 makes the queue too long at the second append, so both
threads race for the flush and for its end; two processes are a writer and a reader, or a
reader of what a killed writer has left. No run uses a state constraint.
`CHECK_DEADLOCK` is off where a failed assertion ends the process or two threads can wait
for each other (`smc_any`), and where the last process ends (`aot_capture`, `aot_load`).

Fairness. `ThreadLifecycle` assumes weak fairness of each thread's own steps (signal
delivery included) and of the GDB server's, which is what the host scheduler gives every
runnable thread. What the guest does next and which command a debugger sends is under no
fairness. Fairness cannot bring back a notification: `CommandsEnd` and `StopEnds` therefore
count a waiter that missed its notification, and for which what it waits for holds
(`Stranded`), as an end of the command or of the stop, and `OnlyMissed` says that this is the
only way to sleep on. Spurious wake-ups, which would save such a waiter, are not assumed.
`FairSpec` of `SignalDelegator` and of `MemAllocator32Bit` are for section 5.

## 4. Proofs

All theorems hold for every value of the constants that meets the named assumptions of the
modules.

* `NoFreedCodeAlways`: `Spec => [](TypeOK /\ NoFreedCode)`, all configurations. The
  conjunction is inductive by itself: a pointer is only copied from one place to another or
  created by a compilation, and GetEmptyCodeBuffer frees code only together with the tables,
  the links and the owner's position.
* `L2SoundAlways`, `LookupSoundAlways`: under `PlainAddrs` (no block at address 0 or at the
  L2 page index of another), L2 agrees with BlockList; without cross-thread invalidation
  and without guest signals L1 does too (`Alone`; section 5 shows what fails with either). The invariant `CoherenceInv` adds what the dispatcher has in its registers
  (`PendingInv`), that a hit is never null (`L1NonNull`), and what the tables hold while an
  Erase is half done.
* `LinkSoundAlways`, `NoStaleEntryAlways`: for a single quiet thread (no signals, no TSO
  migration) every patched exit leads to the mapped block and is registered, hence no step
  enters an invalidated block. The invariant adds that every mapped block is not stale.
* `CacheImplementsMap`: under `PlainAddrs` and `Alone`, with TSO migration and any number of addresses, blocks, L1 entries and backing pages,
  `LookupCache` implements `BlockMap`. `LookupIsMapped` reads a lookup off BlockList, from
  `CoherenceInv`; so evictions, reloads, the copies of the dispatcher and the clear of L2 that
  makes room are stutters, a compilation inserts, and `EraseBegins` and `EraseEnds` say what the
  two steps of an Erase do to what a lookup returns.
* `RegisteredAlways`: `Spec => [](TypeOK /\ Registered)` of `CodeInvalidation`, whatever
  overlaps. `Registered` alone is not inductive: `CompileInv` says of a compilation under
  way that each page of its block is decoded or still to be decoded and that the block is
  registered on the decoded pages and on the page at hand; CodeInvalidationMutex keeps
  invalidations out meanwhile.
* `NoStaleCodePrivate`, `ProtectionKeptPrivate`, `ProtectSucceedsPrivate`: of
  `CodeInvalidation` under `Private` (no mirrored pages, no mremap, and neither system calls
  nor faults that overlap with a call on the same page; for the third, no compilation
  either), for any threads, pages and blocks. These are the assumptions of `smc_private`;
  section 5 shows what fails without each. A block goes stale only by a store to one of its
  pages, and the invariant says that a page with a registered block is either not writable
  on the host or has somebody under way to erase the block: a fault handler, or a system call
  between its host step and its invalidation. Because nothing overlaps on the page, the
  protection tracked is the host's whenever somebody reads it.
* `NoStaleCodeMirrors`, `ProtectSucceedsMirrors`: of `CodeInvalidation` for mirrored pages,
  under `Lone` (one thread, which calls munmap and shmdt only), for any pages, mirrors and
  blocks. The invariant `LoneInv` says that no mirror of a page with code is writable on the
  host, but for the page that is about to be protected and the frame that is being flushed
  (`LoneGuarded`), that the walk of HandleSegfault has yet to reach every mirror that still
  has code (`LoneFlush`), and that only what a call has just unmapped is stale (`LoneStale`).
  A second thread, mmap or mprotect each break the first theorem: section 5.
* `TrackTypeOKAlways`, `DisjointAlways`, `MirrorsListedAlways`, `TracksGuestMapAlways`,
  `MirrorsFoundAlways`: of `VMATracking` under `~EndInside` and `~Interleaved` (the limits of
  `vma_calls`; section 5 shows what fails beyond each), for any size of the address space, any
  resources and any sequence of calls. They follow from one invariant, `TrackInv`: the mappings
  lie inside the address space and their resource and do not meet (`Apart`), every page is what
  the mapping that holds it says and no mapped page is without one (`Describes`), and the list
  of a resource is exactly its mappings and not empty (`Lists`). A call first replaces the
  mappings it visits by their parts and then inserts its own; the lemmas on the replacement
  (`ReplaceApart` and those after it) and on the insertion are stated once, on a tracker that
  need not be a reachable state, and each call shows only that its parts are parts of what they
  replace and reflect what the kernel has done.
* `TrackerImplementsMap`: under the same assumptions, what the tracker shows (`View`) implements
  the kernel's address space, `MapSpec` of `GuestMap`, call by call.
* `LockInvariant`, `MutexSafe`, `MutexImplements`: mutual exclusion, the exact count of
  `refcount_shared_mutex` and its refinement of `SharedLock`, for any number of callers.
  `WordInv` relates the futex word to the set of holders; with it every step maps to an
  acquisition, a release or a stutter of the abstract lock.
* `CountsFramesAlways`, `AltStackOnceAlways`: of `SignalDelegator`, for any signals, actions
  and depth. `AltStackOnce` needs that a context stored above one at the end of the
  alternative stack was itself interrupted on that stack (`AltInv`).
* `RequiredHandledAlways`: outside sigsuspend no required signal is masked on the host, whatever
  masks the guest uses: every mask that a return will put back is free of required signals too
  (`SavedUnmasked`), also the one that ends a sigsuspend which masked them.
* `MaskAgreesAlways`, under `~HandlersSetMask`: `Outside` says what the masks are at the
  bottom of the nesting, `Inside` what each stored context will put back.
* `OneFlusherAlways`, `LongQueueFlushedAlways`: of the write-out queue of `AOTIR`, for any
  number of threads, limit and processes. The two need each other, with `FrontKept`: whoever
  goes round the flush loop has left an entry in the queue.
* `TypeOKAlways`, `PublishedWholeAlways`, `NothingLostAlways`: of the files of `AOTIR`, for
  any sequence of processes in any mode, each killed at any point, and any writes that fail. A
  published file that a process would load is complete and the binary search finds exactly its
  records; one with part of an index is not loaded; and a program that has ended, and whose
  writes succeeded, has published all it captured. The invariant `FileInv` follows a record from the guest's memory
  (`MemoryOK`, `WorkOK`) through the queue (`QueueOK`) and the temporary file (`StreamOK`) to
  the published one (`PublishedOK`, `CapturedOK`). The theorems rest on `FindIsAnswer`: on a
  sorted index without repetition the search returns the entry of the address if there is
  one, and nothing otherwise. The search is a recursive function of its window; that it
  agrees with a closed form on every window is shown by taking a narrowest window on which
  it would not. In the same way `OrderExists` shows that a finite set of entries has a sorted
  index, which is what FinalizeAOTIRCache writes.
* `RecordsFaithfulAlways`, `FetchesCurrentAlways`: unless a process both captures and loads
  (`"both" \notin Modes`), and as long as no mapping replaces code that a thread is compiling
  (`~RemapsAnytime`), the IR of a record was made from the code its hash is of, hence IR taken
  from the cache was made from the code that is run.
* `FindsHighestAlways`: of `MemAllocator32Bit`, for any size of the space, any bitmap and any
  starting point, the scan for free pages finds the highest range of that length below the
  start, or there is none. It compares the recursive scan with its closed form, again at a
  least counterexample.
* `TypeOKAlways`, `TrackedAlways`, `NoClobberAlways`: for any number of threads, pages, lengths
  and segments, SHM_REMAP and moved, grown and ragged segments included. Every page the
  allocator has mapped for the guest is marked, except the end of a segment attached at an
  address whose size is not that of whole pages, which shmat rounds down (`Ragged`); a segment
  is found by the address where it was attached until its first page is moved or replaced. A
  search takes free pages only, or with SHM_REMAP the pages it must; an mremap takes the place
  it has reserved, unless another thread has named that place meanwhile (`robbed`). The segment
  table is keyed by the first page of an attachment, which is all that shmdt reads; so is
  `Tracked`, since an attachment over part of a longer one leaves pages of the latter whose
  first page is no longer its own.
* `TypeOKAlways`, `CountExactAlways`, `PausedMeansStoppedAlways`, `OnlyMissedAlways`: of
  `ThreadLifecycle` under `Orderly` (commands come and guest threads clone and exit when
  nothing is under way; past the first clone), for any number of threads. Lost
  wake-ups happen in the model. No conjunct is inductive by itself. `SignalInv`
  says that at most one signal is pending and for which reason, so that no handler finds a
  reason that another command has overwritten; `FlagInv` ties ThreadSleeping, Running and
  WaitingToStart to where the thread is, which is what HandleStop and StopThread decide by;
  `StopInv`, `PauseInv` and `RunInv` say of each loop over the threads what those not yet
  visited are doing; `BusyInv` and `QuietInv` keep the guest still during a command and
  after a pause; `CloneInv` and `PreparedInv` say that a new thread waits for its creator and
  that nobody else signals its StartRunning. The counter changes by one exactly when a thread
  enters or leaves the set of counted threads, whose size is below `COUNT_RANGE`. `OnlyMissed`
  adds `WakeInv`, the same for a waiter that has tested and does not sleep yet, and `RiseInv`: a
  thread that is created, or stopped in its sleep, is counted without a notification, but not
  while a continue waits for the counter to rise.
* `PoolInvariant`, `ExclusiveUseAlways`, `BuffersListedAlways`: of `ThreadPoolAllocator`, for
  any clients, buffers, sizes and times. `Flags` carries the argument: an element leaves the
  claimed list in the step that stores FREE in its client's flag, and a client that uses its
  buffer has stored OWNED, on which the pool's compare-exchange fails. `Scanning` says the
  scan looks only at elements still in the list, `Lists` that the two lists share the
  buffers. `BestFits` and `StaleIsAnother` are what ClaimBufferImpl's choices guarantee.

TLC checked the properties, and the larger inductive invariants, on the instances of section 3
before they were proved.

Only model-checked: liveness under fairness (`CommandsEnd`, `StopEnds`), which
like `ENABLED` is out of the prover's reach. Every invariant and every refinement that a passing
run checks is proved. What a recursive definition computes for every input needs an induction
whose step is an operator, which the prover cannot instantiate: the two searches escape this
because each is a function with a closed form to compare with, and `VMATracking` because its
loops are stated as what they do to the set of mappings.
The theorems say nothing outside their named assumptions: there section 5 gives the
counterexamples TLC finds.

## 5. Findings and the boundaries of the assumptions

`aot_load` reports a disagreement between code and comment (`findings` in `PROJECT.json`):
a block whose IR comes from the AOT cache skips the only calls that register and protect its
page.

The modules state further claims of comments and documentation that the code does not meet.
No run of the project checks them; each is violated by TLC with the change named here.

| Property | Change | Why |
|---|---|---|
| `LookupSound` | `cache_single` with `Addrs <- LowAddrs`, `ExitOf <- NextLow`: one address is the L2 page index of another | CacheBlockMapping clears the cache when L2 has no backing left and calls itself with the address already shifted (`LookupCache.h:193`) |
| `NoWaitCycle` | `smc_private` with `Mirrors = {p1, p2}`, `Syscalls = {"shmdt"}`, `CHECK_DEADLOCK FALSE` | TrackShmdt holds VMATracking.Mutex unique and waits for CodeInvalidationMutex; a compilation does the reverse (`SyscallsSMCTracking.cpp:350`) |
| `Disjoint` | `vma_calls` with `EndInside = TRUE` | ChangeUnsafe computes the length of the split part from the end of the range (`SyscallsVMATracking.cpp:283`) |
| `StartsPrepared` | `threads_commands` with `FirstClone = TRUE` | InitializeThread starts the first cloned thread before clone has set its registers (`Core.cpp:523`) |
| `UnclaimFindsBuffer` | `pool_claims`, the property as invariant | UnclaimBuffer tests the flag before the mutex is taken (`ThreadPoolAllocator.h:482`); the pool takes the buffer in between and the iterator is that of an erased element |
| `SearchEnds` | `alloc_place`, `SPECIFICATION FairSpec`, no symmetry | a search that finds unmarked pages which the host refuses retries for ever with AllocMutex held; `LinuxAllocator.cpp:225` says "We linear scanned the entire memory range. Give up" |
| `BlockedNotDelivered` | `signals_masks`, the property added | the mask of a handler replaces the thread's instead of being added to it (`SignalDelegator.cpp:127`) |
| `PauseArrives` | `signals_masks`, `SPECIFICATION FairSpec` (the host delivers a pause signal that is not masked) | sigsuspend passes the guest's mask on as it is: `SignalDelegator.cpp:577` says "we must always listen to SIGNAL_FOR_PAUSE" and the line that would see to it is commented out (and would add the signal to the mask). Without the pause signal in `SuspendMasks` it holds |
| `MaskAgrees` | `signals_masks` with `HandlersSetMask = TRUE` | a sigsuspend inside a handler overwrites PreviousSuspendMask, as the `XXX` at `SignalDelegator.cpp:587` suspects |
| `RecordsFaithful` | `aot_capture` with `Modes = {"both"}` | IR taken from the cache is captured again with the hash of code that may have changed since |
| `RecordsFaithful`, `FetchesCurrent` | `aot_capture` with `RemapsAnytime = TRUE` | a MAP_FIXED mmap replaces the code between its decoding and its hash: the host call (`x64/Memory.cpp:39`) takes no lock, and the hash of the new code is stored with the IR of the old |

Smaller observations that are in the models and break no property. MemAllocator32Bit: the
search tests one page above the range it returns; an mremap with MREMAP_FIXED that succeeds
falls through to the next case; an mremap without MREMAP_MAYMOVE moves; the place reserved by
an mremap that fails stays mapped; a MAP_FIXED call of another thread may take the place an
mremap has reserved, which then replaces it (`robbed`); shmdt leaves its pages marked; shmat at
an address rounds the size down; shmflg is passed on, so that shmat without an address but with
SHM_REMAP replaces the page below the ones the search has tested; an mremap of an attached
segment does not move its entry of PageToShm, so that shmdt of the new address gives EINVAL. SignalDelegator: a required signal ends a sigsuspend that should go on;
restoring the default action removes a required handler; guest handlers run while their
thread is paused; the host's `sa_mask` only ever grows. AOTIR: two processes that capture the
same file at once share its temporary file (not modelled: one process at a time); a writer that
could not be opened is used all the same (`FEXLoader.cpp:438`), and if the stream has failed
before the index FinalizeAOTIRCache pads for ever, since tellp() is then -1 (`AOTIR.cpp:155`); an
index that could not be written wholly replaces the good file of an earlier process at the
rename; a block that starts below its entry point is stored with a hash from its start
(`AOTIR.cpp:315`) and compared with one from its entry (`AOTIR.cpp:262`), so that its IR is never
used (`Early`).

The passing runs rest on the assumptions in their constants. What fails when one is
relaxed is as much a result; each line gives the constants to change (the overlaps of
`smc_private` need `CHECK_DEADLOCK FALSE`, since a failed assertion ends the process).

| Change | Fails | Why |
|---|---|---|
| `cache_single` with `CrossThread = TRUE` | `LookupSound` | `Arm64Dispatcher.cpp:159` stores an L2 entry to L1 without WriteLock and puts back an entry another thread has erased |
| ... with `Signals = TRUE` | `LookupSound`, `LinkSound`, `NoStaleEntry`, `ImplementsBlockMap` | the same store after a guest signal handler, taken between the load at line 149 and line 159, has erased the block; an exit is patched after a handler has erased the target that ExitFunctionLink had found |
| ... with `Addrs <- NullAddrs`, `ExitOf <- NextNull` | `LookupSound` | guest address 0 matches an empty or erased L1 entry |
| ... with `TSOAutoMigration = TRUE` | `NoStaleEntry` | MarkMemoryShared drops the delinkers and keeps the code (`LookupCache.cpp:70` "All code is gone, remove links") |
| ... with `Signals = TRUE`, `TwoBuffers` | `NoStaleEntry` | a clear inside a signal handler drops the delinkers of the interrupted block, whose buffer is kept |
| `smc_private` with `Mirrors = {p1, p2}`, `Syscalls = {}` | `NoStaleCode` | HandleSegfault takes CodeInvalidationMutex anew for each mirror, and a compilation through a mirror already flushed comes in between |
| `smc_private` with one thread, `Mirrors = {p1, p2}` and `Syscalls = {"mmap"}` | `NoStaleCode` | a writable mapping made after the code was translated is not write-protected |
| ... and `Syscalls = {"mprotect"}` | `NoStaleCode` | TrackMprotect invalidates the code of the page that is made writable, not the code of its mirrors |
| `smc_private` with `Syscalls = {"mremap"}` | `NoStaleCode` | TrackMremap invalidates the old range only |
| `smc_private` with `Overlaps = {"syscall"}` | `NoStaleCode` | munmap of one thread is tracked after the mmap of another that reused the range |
| `smc_private` with `Overlaps = {"fault"}` | `ProtectionKept` | a fault handler between host mprotect and TrackMprotect uses the old protection |
| `smc_private` with `Mirrors = {p1, p2}` | `ProtectSucceeds` | the asserted mprotect of all mirrors fails for one unmapped on the host and still tracked |
| `vma_calls` with `Interleaved = TRUE`, 5 pages, segments of 3 | `TracksGuestMap` | ClearShmUnsafe ignores the offset of later mappings, the kernel's shmdt does not |
| `refcount_exclusion`, property `NoLostWakeup` | `NoLostWakeup` | lock_shared sleeps on a reference count it has loaded; with `Blocking = FALSE` it holds |
| `threads_commands` with `Overlaps = {"gdb"}` | `CountExact`, `PausedMeansStopped`, `OnlyMissed`, `CommandsEnd`, `StopEnds` | a stop between `Dispatcher.cpp:28` and `31`, or `37` and `38`, counts a thread twice or not at all; a pause that finds Running still false waits for ever |
| ... with `Overlaps = {"guest"}` | the same | Pause and Run overwrite the SignalReason of an exit; exit_group interrupts a clone, whose child then waits for ever |

Three of these limits are guards on the environment of a model, not conditions of the code.
`Settled`, `GdbMay`, `RunMay`, `GuestMay`, `ExitMay` and `ExitGroupMay` of `ThreadLifecycle` let a
command or a system call begin only when what came before it is over (`Overlaps`), `EndInside`
and `Interleaved` limit the arguments of mprotect and shmdt in `VMATracking`, and `Overlaps` of
`CodeInvalidation` keeps calls and faults on a page apart.

The locks of `CodeInvalidation` prefer readers, as the shared mutex of the host library does
by default; with a lock that prefers writers HandleSegfault and a compilation could wait for
each other through a queued writer.

## 6. Not modelled

* The opcode tables, decoder and dispatcher, the IR passes, the three code generators and the
  interpreter: more than half of the implementation. They are a sequential compiler whose
  correctness is the semantics of x86 and Arm instructions, which neither TLC nor a model
  shorter than the code can express; the repository's ASM and IR tests cover them. With the
  thunks, the GL headers, the loader, the configuration and the tools they are why the
  models cover a few per cent of the lines and cannot cover a third of them.
* The object code cache: its job queue works, but the code that would write objects to a file
  or read them back is missing in this version, so no property could be about an effect.
* Custom IR entry points: nothing registers one. RemoveCustomIREntrypoint (`Core.cpp:1264`)
  holds CustomIRMutex and waits for CodeInvalidationMutex, a compilation (`Core.cpp:751`)
  does the reverse; whoever starts to use them must choose one order.
* In `ThreadLifecycle`: Step and WaitForIdleWithTimeout, SignalThread, the join of
  CLONE_VFORK, CleanupAfterFork, spurious wake-ups of IdleWaitCV.
* In `AOTIR`: unloading. PreGenerateIRFetch returns pointers into the mapped cache file that
  are used after the VMA lock is released (`Syscalls.h:208`), and entries are keyed by file
  name while resources are keyed by inode.
* In `SignalDelegator`: signalfd, sigtimedwait, sigpending, the layout of the guest's frame;
  the host handler thunk is one step. `stack`
  is the stack the guest is on; the guest RSP that HandleGuestSignal classifies (`Dispatcher.cpp:335`)
  is the one last spilled, an older value of RSP on the same stack unless the block at hand has
  switched stacks itself.
* In `CodeInvalidation`: host system calls that write to a protected guest buffer and return
  EFAULT, an mprotect that fails half way (`x64/Memory.cpp:98`).
* In `VMATracking`: segments whose size is not that of whole pages. TrackShmat takes shm_segsz as
  it is (`SyscallsSMCTracking.cpp:321`, `334`); the model maps whole pages.
* The 64-bit allocator of FEXCore (a bitmap of the same kind as the 32-bit one) and the
  jemalloc hooks. FindPageRange from the bottom up is dead code.
* System call tables, emulated files, GDB packets, FEXServer: input and output. Vendored code.

`PROJECT.json` lists every component with its status and every hazard with the properties
that cover it.

## 7. Plan

1. The action properties behind the invariants: which steps of `AOTIR` may change the published
   file, which steps of `ThreadLifecycle` may take a thread off the counter.
2. An abstract specification of `AOTIR` (a set of records that only whole publications change)
   and of the pool (buffers and their owners), with the refinements.
3. Mirrors with several threads: after a change of HandleSegfault that keeps
   CodeInvalidationMutex over all mirrors, `NoStaleCodeMirrors` should hold without `Lone`'s
   first conjunct.
4. Extend: a composition of `CodeInvalidation` with `VMATracking` ranges in place of per-page
   protections; unloading in `AOTIR`, composed with the VMA lock; Step and
   WaitForIdleWithTimeout in `ThreadLifecycle`; the lock order of custom IR.
