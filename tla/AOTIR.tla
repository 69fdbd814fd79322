-------------------------------- MODULE AOTIR --------------------------------
(***************************************************************************)
(* The cache of IR on disk: FEXCore::IR::AOTIRCaptureCache for one guest   *)
(* file.  Threads that compile put the IR of their blocks in a queue, one  *)
(* of them writes a queue that has grown too long to a temporary file, and *)
(* the exit of the program writes the rest, adds an index and renames the  *)
(* file into place.  A later process maps the file and takes IR from it    *)
(* when the hash of the guest code agrees.                                 *)
(*                                                                         *)
(* Guest code is a version per entry point, each on a page of its own; the *)
(* hash is the version itself and the IR the version it was made from.     *)
(* One process runs at a time.  It may die in any state.                   *)
(*                                                                         *)
(* Where an actor is:                                                      *)
(*   "idle"     in guest code; the main thread: in RunUntilExit            *)
(*   "compiled" has the IR of a block, about to call PostCompileCode       *)
(*   "cas"      has made the queue too long                                *)
(*   "flush"    enters the flush           "pop"  takes the next entry     *)
(*   "write", "writelast"  runs the entry, which left the queue non-empty  *)
(*              or empty                   "recheck"  has run the last one *)
(*   "map"      about to add the block to the lookup cache                 *)
(*   "index", "rename", "ended"  the main thread after its flush           *)
(***************************************************************************)
EXTENDS Integers, Sequences, FiniteSets

CONSTANTS
    Threads,
    Main,                \* the thread that calls FinalizeAOTIRCache
    RIPs,                \* entry points, as offsets in the guest file
    Versions,            \* bound: the contents of the code at an entry point
    None,                \* no version, no record
    Limit,               \* the queue length above which it is flushed, 10000
    Modes,               \* "capture", "generate", "load" or "both"
    Early,               \* the entry points whose block begins below them
    DiskFails,           \* opening the temporary file or writing to it may fail
    RemapsAnytime,       \* code is replaced by mmap also while it is compiled
    MaxWrites,           \* bound: guest writes to code per process
    MaxProcesses         \* bound: processes one after the other

ASSUME ActorAssumption == Main \notin Threads
ASSUME NoneAssumption ==
    None \notin Versions \cup [rip : RIPs, hash : Versions, ir : Versions]
ASSUME RIPAssumption == RIPs \subseteq Nat /\ IsFiniteSet(RIPs) /\ Early \subseteq RIPs
ASSUME FailureAssumption == DiskFails \in BOOLEAN /\ RemapsAnytime \in BOOLEAN
ASSUME VersionAssumption == Versions # {}
ASSUME BoundAssumption == Limit \in Nat /\ MaxWrites \in Nat /\ MaxProcesses \in Nat
ASSUME ModeAssumption == Modes \subseteq {"capture", "generate", "load", "both"}

VARIABLES
    mode,
    code,                \* entry point -> the version in guest memory
    registered,          \* the entry points whose page is tracked and write-protected
    blocks,              \* thread -> entry point -> the IR its block was made from
    remapped,            \* code that the host has replaced for a mmap not yet tracked
    BranchTargets, Compiled,     \* the generator's queue and what was ever put in it
    pc,                  \* what each actor does
    block,               \* thread -> the entry point it compiles and its IR
    job,                 \* actor -> the queue entry it has taken
    Queue, Flusing,      \* AOTIRCaptureCacheWriteoutQueue and ...Flusing
    Index,               \* entry point -> offset, of the open stream
    open,                \* the entry has a stream
    failed,              \* ... which has failed: it writes no more
    tmp, published,      \* the .aotir.tmp and the .aotir file
    loaded,              \* the mapped .aotir file
    captured,            \* the entry points this process has queued
    writes, processes

memory == <<code, registered, blocks, remapped, writes>>
generator == <<BranchTargets, Compiled>>
control == <<pc, block, job>>
queue == <<Queue, Flusing, captured>>
files == <<Index, open, failed, tmp, published>>
process == <<mode, loaded, processes>>
vars == <<memory, generator, control, queue, files, process>>

Actors == Threads \cup {Main}
NoFile == [recs |-> <<>>, index |-> <<>>, trailer |-> FALSE, torn |-> FALSE]
Records == [rip : RIPs, hash : Versions, ir : Versions]

TypeOK ==
    /\ mode \in Modes
    /\ code \in [RIPs -> Versions] /\ registered \subseteq RIPs
    /\ blocks \in [Threads -> [RIPs -> Versions \cup {None}]]
    /\ BranchTargets \subseteq Compiled /\ Compiled \subseteq RIPs
    /\ pc \in [Actors -> {"idle", "compiled", "cas", "flush", "pop", "write", "writelast",
                          "recheck", "map", "index", "rename", "ended"}]
    /\ block \in [Threads -> [rip : RIPs, ir : Versions] \cup {None}]
    /\ job \in [Actors -> Records \cup {None}]
    /\ Queue \in Seq(Records) /\ Flusing \in BOOLEAN /\ open \in BOOLEAN /\ failed \in BOOLEAN
    /\ DOMAIN Index \subseteq RIPs /\ \A r \in DOMAIN Index : Index[r] \in Nat
    /\ captured \subseteq RIPs /\ remapped \subseteq RIPs

Captures == mode # "load"
Loads == mode \in {"load", "both"}

\* The entry points AOTGenSection finds in the file.
Seeds(m) == IF m = "generate" THEN SUBSET RIPs \ {{}} ELSE {{}}

\* What the restart or the first start of the program sets.
Volatile ==
    /\ registered' = {}
    /\ blocks' = [t \in Threads |-> [r \in RIPs |-> None]]
    /\ remapped' = {} /\ writes' = 0
    /\ pc' = [a \in Actors |-> "idle"]
    /\ block' = [t \in Threads |-> None]
    /\ job' = [a \in Actors |-> None]
    /\ Queue' = <<>> /\ Flusing' = FALSE /\ captured' = {}
    /\ Index' = <<>> /\ open' = FALSE /\ failed' = FALSE

\* The first process finds no file.
Init ==
    /\ mode \in Modes
    /\ code = [r \in RIPs |-> CHOOSE v \in Versions : TRUE]
    /\ registered = {}
    /\ blocks = [t \in Threads |-> [r \in RIPs |-> None]]
    /\ remapped = {} /\ writes = 0
    /\ BranchTargets \in Seeds(mode) /\ Compiled = BranchTargets
    /\ pc = [a \in Actors |-> "idle"]
    /\ block = [t \in Threads |-> None]
    /\ job = [a \in Actors |-> None]
    /\ Queue = <<>> /\ Flusing = FALSE /\ captured = {}
    /\ Index = <<>> /\ open = FALSE /\ failed = FALSE
    /\ tmp = NoFile /\ published = NoFile /\ loaded = NoFile
    /\ processes = 1

Goto(a, label) == pc' = [pc EXCEPT ![a] = label]
Leave(t) == Goto(t, "idle") /\ block' = [block EXCEPT ![t] = None]

-----------------------------------------------------------------------------
(* The file                                                                 *)

\* The index in the order of the std::map it is written from.
Sorted(idx) ==
    LET S == DOMAIN idx
        order == CHOOSE s \in [1 .. Cardinality(S) -> S] :
                     \A i, j \in DOMAIN s : i < j => s[i] < s[j]
    IN [i \in DOMAIN order |-> [GuestStart |-> order[i], DataOffset |-> idx[order[i]]]]

\* The record of a block, or None.  Entries are counted from 0 in the code.
Find(file, GuestStart) ==
    LET Count == Len(file.index)
        search[window \in (0 .. Count) \X (-1 .. Count - 1)] ==
            LET l == window[1]
                r == window[2]
                m == l + (r - l) \div 2
                E == file.index[m + 1]
            IN IF l > r THEN None
               ELSE IF E.GuestStart = GuestStart THEN file.recs[E.DataOffset]
               ELSE IF E.GuestStart < GuestStart THEN search[<<m + 1, r>>]
               ELSE search[<<l, m - 1>>]
    IN search[<<0, Count - 1>>]

\* LoadAOTIRCache: a file that ends in its trailer.
Load(file) == IF Loads' /\ file.trailer THEN file ELSE NoFile

\* AppendAOTIRCaptureCache: the first record of an entry point is the one kept.
AppendAOTIRCaptureCache(file, idx, rec) ==
    IF rec.rip \in DOMAIN idx
    THEN tmp' = file /\ Index' = idx
    ELSE /\ tmp' = [file EXCEPT !.recs = Append(@, rec)]
         /\ Index' = [r \in DOMAIN idx \cup {rec.rip} |->
                         IF r = rec.rip THEN Len(file.recs) + 1 ELSE idx[r]]

-----------------------------------------------------------------------------
(* Compilation                                                              *)

\* A thread that runs guest code misses a block; a generator takes a target.
Wanted(t, r) ==
    /\ pc[t] = "idle" /\ pc[Main] = "idle"
    /\ IF mode = "generate"
       THEN r \in BranchTargets /\ BranchTargets' = BranchTargets \ {r}
       ELSE blocks[t][r] = None /\ UNCHANGED BranchTargets
    /\ UNCHANGED <<Compiled, job, queue, files, process>>

\* Mutant: the hash is not compared.
HitUnverified(r) == Find(loaded, r) # None

\* The hash of a record is of the code of its block, the hash it is compared
\* with of as much code from the entry point on: of other code, and another
\* one, if the block begins below its entry point.
Hit(r) == LET e == Find(loaded, r) IN e # None /\ e.hash = code[r] /\ r \notin Early

\* PreGenerateIRFetch finds the block in the cache: nothing is registered.
PreGenerateIRFetch(t, r) ==
    /\ Wanted(t, r)
    /\ Hit(r)
    /\ block' = [block EXCEPT ![t] = [rip |-> r, ir |-> Find(loaded, r).ir]]
    /\ Goto(t, "compiled")
    /\ UNCHANGED memory

\* Mutant: the page is not registered.
GenerateUnregistered(t, r) ==
    /\ Wanted(t, r)
    /\ ~Hit(r)
    /\ block' = [block EXCEPT ![t] = [rip |-> r, ir |-> code[r]]]
    /\ Goto(t, "compiled")
    /\ UNCHANGED memory

\* GenerateIR: the page is registered before it is decoded.
GenerateIR(t, r) ==
    /\ Wanted(t, r)
    /\ ~Hit(r)
    /\ registered' = registered \cup {r}
    /\ block' = [block EXCEPT ![t] = [rip |-> r, ir |-> code[r]]]
    /\ \/ Goto(t, "compiled")
       \/ mode = "generate" /\ Goto(t, "map")         \* nothing there to compile
    /\ UNCHANGED <<code, blocks, remapped, writes>>

\* PostCompileCode with AOTIRCaptureCacheWriteoutQueue_Append.
PostCompileCode(t) ==
    /\ pc[t] = "compiled"
    /\ IF Captures
       THEN /\ Queue' = Append(Queue, [rip |-> block[t].rip, hash |-> code[block[t].rip],
                                        ir |-> block[t].ir])
            /\ captured' = captured \cup {block[t].rip}
            /\ Goto(t, IF Len(Queue') > Limit THEN "cas" ELSE "map")
       ELSE Goto(t, "map") /\ UNCHANGED <<Queue, captured>>
    /\ UNCHANGED <<memory, generator, block, job, Flusing, files, process>>

\* Mutant: the flag is set without looking at it.
FlushAnyway(t) ==
    /\ pc[t] = "cas"
    /\ Goto(t, "flush") /\ Flusing' = TRUE
    /\ UNCHANGED <<memory, generator, block, job, Queue, captured, files, process>>

\* The compare_exchange that elects the thread that flushes.
TryFlush(t) ==
    /\ pc[t] = "cas"
    /\ IF Flusing
       THEN Goto(t, "map") /\ UNCHANGED Flusing
       ELSE Goto(t, "flush") /\ Flusing' = TRUE
    /\ UNCHANGED <<memory, generator, block, job, Queue, captured, files, process>>

AddBlockMapping(t) ==
    /\ pc[t] = "map" /\ mode # "generate"
    /\ blocks' = [blocks EXCEPT ![t][block[t].rip] = block[t].ir]
    /\ Leave(t)
    /\ UNCHANGED <<code, registered, remapped, writes, generator, job, queue, files, process>>

\* Mutant: the targets are not remembered.
TargetsForgotten(t) ==
    /\ pc[t] = "map" /\ mode = "generate"
    /\ \E ExternalBranches \in SUBSET RIPs :
          BranchTargets' = BranchTargets \cup (ExternalBranches \ Compiled)
    /\ Leave(t)
    /\ UNCHANGED <<memory, Compiled, job, queue, files, process>>

\* A generator adds the branches that lead out of its block.
AddTargets(t) ==
    /\ pc[t] = "map" /\ mode = "generate"
    /\ \E ExternalBranches \in SUBSET RIPs :
          /\ BranchTargets' = BranchTargets \cup (ExternalBranches \ Compiled)
          /\ Compiled' = Compiled \cup ExternalBranches
    /\ Leave(t)
    /\ UNCHANGED <<memory, job, queue, files, process>>

\* Once no compilation is under way, the blocks of the page are dropped.
Invalidate(r) ==
    /\ \A t \in Threads : pc[t] = "idle"
    /\ registered' = registered \ {r}
    /\ blocks' = [t \in Threads |-> [blocks[t] EXCEPT ![r] = None]]

\* A guest write to code.  A write to a protected page faults, waits for the
\* compilations that are under way and drops the blocks of the page first.
GuestWrite(r, v) ==
    /\ mode # "generate" /\ pc[Main] = "idle" /\ \E t \in Threads : pc[t] = "idle"
    /\ writes < MaxWrites /\ v # code[r]
    /\ writes' = writes + 1
    /\ code' = [code EXCEPT ![r] = v]
    /\ IF r \in registered THEN Invalidate(r) ELSE UNCHANGED <<registered, blocks>>
    /\ UNCHANGED <<remapped, generator, control, queue, files, process>>

\* A mmap over code.  The host replaces it at once: CodeInvalidationMutex is
\* taken after that, to track the mapping.
GuestRemap(r, v) ==
    /\ mode # "generate" /\ pc[Main] = "idle" /\ \E t \in Threads : pc[t] = "idle"
    /\ writes < MaxWrites /\ v # code[r]
    /\ RemapsAnytime \/ \A t \in Threads : pc[t] = "compiled" => block[t].rip # r
    /\ writes' = writes + 1
    /\ code' = [code EXCEPT ![r] = v]
    /\ remapped' = remapped \cup {r}
    /\ UNCHANGED <<registered, blocks, generator, control, queue, files, process>>

TrackRemap(r) ==
    /\ r \in remapped /\ pc[Main] = "idle"
    /\ remapped' = remapped \ {r}
    /\ Invalidate(r)
    /\ UNCHANGED <<code, writes, generator, control, queue, files, process>>

-----------------------------------------------------------------------------
(* AOTIRCaptureCacheWriteoutQueue_Flush, by an elected thread or by Main    *)

AfterFlush(a) == IF a = Main THEN "index" ELSE "map"

FlushStart(a) ==
    /\ pc[a] = "flush"
    /\ IF Queue = <<>>
       THEN Goto(a, AfterFlush(a)) /\ Flusing' = FALSE
       ELSE Goto(a, "pop") /\ UNCHANGED Flusing
    /\ UNCHANGED <<memory, generator, block, job, Queue, captured, files, process>>

\* With the queue's lock held.  front() of an empty queue is undefined.
Pop(a) ==
    /\ pc[a] = "pop" /\ Queue # <<>>
    /\ job' = [job EXCEPT ![a] = Head(Queue)]
    /\ Queue' = Tail(Queue)
    /\ Goto(a, IF Queue' = <<>> THEN "writelast" ELSE "write")
    /\ UNCHANGED <<memory, generator, block, Flusing, captured, files, process>>

\* AOTIRWriter truncates the temporary file.
Stream == IF open THEN tmp ELSE NoFile

\* A stream that cannot be opened is kept like any other.  One that has failed
\* writes nothing and tells no position.
AppendFails(rec) ==
    /\ DiskFails
    /\ failed \/ rec.rip \notin DOMAIN Index
    /\ failed' = TRUE
    /\ Index' = [r \in DOMAIN Index \cup {rec.rip} |-> IF r \in DOMAIN Index THEN Index[r] ELSE 0]
    /\ tmp' \in {tmp, Stream}

\* The entry itself, without a lock.
WriteEntry(a) ==
    /\ pc[a] \in {"write", "writelast"}
    /\ \/ /\ ~failed
          /\ AppendAOTIRCaptureCache(Stream, Index, job[a])
          /\ UNCHANGED failed
       \/ AppendFails(job[a])
    /\ open' = TRUE
    /\ job' = [job EXCEPT ![a] = None]
    /\ Goto(a, IF pc[a] = "write" THEN "pop" ELSE "recheck")
    /\ UNCHANGED <<memory, generator, block, queue, published, process>>

\* Mutant: what was empty when the entry was taken is taken to be empty still.
RecheckSkipped(a) ==
    /\ pc[a] = "recheck"
    /\ Goto(a, AfterFlush(a)) /\ Flusing' = FALSE
    /\ UNCHANGED <<memory, generator, block, job, Queue, captured, files, process>>

\* An entry that came while the last one was written goes on with the flush.
Recheck(a) ==
    /\ pc[a] = "recheck"
    /\ IF Queue = <<>>
       THEN Goto(a, AfterFlush(a)) /\ Flusing' = FALSE
       ELSE Goto(a, "pop") /\ UNCHANGED Flusing
    /\ UNCHANGED <<memory, generator, block, job, Queue, captured, files, process>>

-----------------------------------------------------------------------------
(* The end of the program                                                   *)

\* Mutant: the rest of the queue is not flushed.
ExitUnflushed ==
    /\ pc[Main] = "idle"
    /\ \A t \in Threads : pc[t] \in {"idle", "compiled", "map"}
    /\ pc' = [a \in Actors |-> IF a # Main THEN "idle" ELSE IF Captures THEN "index" ELSE "ended"]
    /\ block' = [t \in Threads |-> None]
    /\ UNCHANGED <<memory, generator, job, queue, files, process>>

\* RunUntilExit returns once every thread has left the core.  The signal that
\* stops a thread is masked while the lookup in PostCompileCode holds the VMA
\* lock.  The generator's threads are joined with nothing left to compile.
Exit ==
    /\ pc[Main] = "idle"
    /\ IF mode = "generate"
       THEN BranchTargets = {} /\ \A t \in Threads : pc[t] = "idle"
       ELSE \A t \in Threads : pc[t] \in {"idle", "compiled", "map"}
    /\ pc' = [a \in Actors |-> IF a # Main THEN "idle"
                               ELSE IF Captures THEN "flush" ELSE "ended"]
    /\ block' = [t \in Threads |-> None]
    /\ UNCHANGED <<memory, generator, job, queue, files, process>>

\* Mutant: the temporary file is renamed whether or not there is a stream.
IndexAlways ==
    /\ pc[Main] = "index"
    /\ ~failed
    /\ tmp' = IF open THEN [tmp EXCEPT !.index = Sorted(Index), !.trailer = TRUE] ELSE tmp
    /\ Goto(Main, "rename")
    /\ UNCHANGED <<memory, generator, block, job, queue, Index, open, failed, published, process>>

\* FinalizeAOTIRCache: the index and the trailer, if there is a stream.  Nobody
\* looks whether they are written.  With a stream that has failed before, the
\* loop that pads the file never ends: its position stays -1.
WriteIndex ==
    /\ pc[Main] = "index"
    /\ ~failed
    /\ \/ /\ open
          /\ tmp' = [tmp EXCEPT !.index = Sorted(Index), !.trailer = TRUE]
          /\ Goto(Main, "rename") /\ UNCHANGED failed
       \/ /\ open /\ DiskFails
          /\ tmp' = [tmp EXCEPT !.torn = TRUE]
          /\ Goto(Main, "rename") /\ failed' = TRUE
       \/ /\ ~open
          /\ Goto(Main, "ended") /\ UNCHANGED <<tmp, failed>>
    /\ UNCHANGED <<memory, generator, block, job, queue, Index, open, published, process>>

\* AOTIRRenamer.
Rename ==
    /\ pc[Main] = "rename"
    /\ published' = tmp
    /\ tmp' = NoFile
    /\ Goto(Main, "ended")
    /\ UNCHANGED <<memory, generator, block, job, queue, Index, open, failed, process>>

\* The process has ended, or is killed wherever it is; another one starts, with
\* another mode and perhaps another version of the guest file.
NewProcess ==
    /\ processes < MaxProcesses
    /\ processes' = processes + 1
    /\ mode' \in Modes
    /\ code' \in [RIPs -> Versions]
    /\ BranchTargets' \in Seeds(mode') /\ Compiled' = BranchTargets'
    /\ loaded' = Load(published)
    /\ Volatile
    /\ UNCHANGED <<tmp, published>>

ThreadStep(t) ==
    \/ \E r \in RIPs : PreGenerateIRFetch(t, r) \/ GenerateIR(t, r)
    \/ PostCompileCode(t) \/ TryFlush(t) \/ AddBlockMapping(t) \/ AddTargets(t)

FlushStep(a) == FlushStart(a) \/ Pop(a) \/ WriteEntry(a) \/ Recheck(a)

MainStep == Exit \/ WriteIndex \/ Rename

Next ==
    \/ \E t \in Threads : ThreadStep(t)
    \/ \E a \in Actors : FlushStep(a)
    \/ \E r \in RIPs, v \in Versions : GuestWrite(r, v) \/ GuestRemap(r, v)
    \/ \E r \in RIPs : TrackRemap(r)
    \/ MainStep
    \/ NewProcess

Spec == Init /\ [][Next]_vars

-----------------------------------------------------------------------------
(* Properties                                                               *)

InFlush(a) == pc[a] \in {"flush", "pop", "write", "writelast", "recheck"}

\* Entries never run concurrently, as the comment in PostCompileCode promises,
\* no thread but the one that flushes holds the flag, and the flush never
\* takes the front of an empty queue.
OneFlusher ==
    /\ \A a, b \in Actors : InFlush(a) /\ InFlush(b) => a = b
    /\ Flusing <=> \E t \in Threads : InFlush(t)
    /\ \A a \in Actors : pc[a] = "pop" => Queue # <<>>

\* While the queue is too long somebody flushes it or is about to try: the end
\* of a flush never races with an append that counted on it.
LongQueueFlushed ==
    Len(Queue) > Limit => \E a \in Actors : InFlush(a) \/ pc[a] = "cas"

\* The published file is complete whenever the process dies, and the binary
\* search finds exactly the records that are in it.  Only an index that could
\* not be written makes it another file, which has no trailer.
PublishedWhole ==
    published # NoFile =>
        /\ published.trailer # published.torn
        /\ published.trailer => \A r \in RIPs :
              LET stored == {i \in DOMAIN published.recs : published.recs[i].rip = r} IN
              IF stored = {} THEN Find(published, r) = None
              ELSE \E i \in stored : stored = {i} /\ Find(published, r) = published.recs[i]

\* A program that has ended has published every block it captured, if it could
\* write them: one whose stream fails before the index does not end.
NothingLost ==
    pc[Main] = "ended" /\ ~failed => \A r \in captured : Find(published, r) # None

\* The IR of a record was made from the code its hash is of: nothing writes to
\* the code between its decoding and its hash.
RecordsFaithful ==
    /\ \A i \in DOMAIN Queue : Queue[i].hash = Queue[i].ir
    /\ \A f \in {tmp, published} : \A i \in DOMAIN f.recs : f.recs[i].hash = f.recs[i].ir

\* IR is taken from the cache only for the code it was made from, whichever
\* process stored it and whatever has become of the guest file since.
FetchesCurrent ==
    [][\A t \in Threads : pc[t] = "idle" /\ pc'[t] = "compiled" => block'[t].ir = code[block'[t].rip]]_vars

\* Every block a thread can run is on a page that is registered, "before each
\* page gets accessed in the frontend".
BlocksRegistered ==
    \A t \in Threads, r \in RIPs : blocks[t][r] # None => r \in registered

=============================================================================
